------------------------------- MODULE Agenda -------------------------------
(***************************************************************************)
(* What the event loop promises the components of one thread: everything   *)
(* they have asked for is done once, at its time, and in order.  An        *)
(* appointment is an event that is to be handled, a clock handler that is  *)
(* to be called at the next tick, or a one-shot handler.                   *)
(***************************************************************************)
EXTENDS Integers

CONSTANTS Period,           \* of each clock
          Delay             \* of each one-shot

VARIABLES agenda,           \* the appointments: [what, who, of, nth, time, prio]
          clock             \* simulated time

avars == <<agenda, clock>>

Init == clock = 0 /\ \A a \in agenda : a.time > 0

(* Of what is left, nothing comes before a. *)
IsFirst(a) ==
  \A b \in agenda : a.time < b.time \/ (a.time = b.time /\ a.prio <= b.prio)

NextTick(k, t) == (t \div Period[k] + 1) * Period[k]

(* What may be asked for at time t: a handler is called at the next tick   *)
(* of its clock, a one-shot after its delay, an event when it arrives.     *)
Proper(a, t) ==
  /\ a.what = "clock" => a.time = NextTick(a.of, t)
  /\ a.what = "oneshot" => a.time = t + Delay[a.of]
  /\ a.what = "event" => a.time >= t

(* The appointment a is kept; its component makes new ones and may take    *)
(* back one of its own.                                                    *)
Keep(a) ==
  /\ a \in agenda /\ IsFirst(a) /\ a.time >= clock
  /\ clock' = a.time
  /\ a \notin agenda'
  /\ \A b \in agenda' \ agenda : b.who = a.who /\ Proper(b, a.time)
  /\ \A b \in agenda \ (agenda' \cup {a}) : b.who = a.who /\ b.what = "clock"

(* Time passes with nothing to do, no further than the next appointment. *)
Pass(t) ==
  /\ t >= clock /\ \A a \in agenda : a.time >= t
  /\ clock' = t
  /\ UNCHANGED agenda

Next == (\E a \in agenda : Keep(a)) \/ Pass(clock')

Spec == Init /\ [][Next]_avars
=============================================================================
