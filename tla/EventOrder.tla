----------------------------- MODULE EventOrder -----------------------------
(***************************************************************************)
(* What the engine promises a component, however many ranks and threads    *)
(* run it: a discrete-event simulation.  Every event that is sent is       *)
(* handled once by its receiver, at its delivery time and never before an  *)
(* earlier one; no thread's clock goes past an event that is still to be   *)
(* handled there, wherever that event is on its way.                       *)
(***************************************************************************)
EXTENDS Integers

CONSTANTS Threads,          \* who executes events
          Comps,            \* who sends and receives them
          Home              \* the thread of a component

VARIABLES pend,             \* the events sent and not yet handled
          clock,            \* each thread's simulated time
          sent              \* how many events each component has sent

evars == <<pend, clock, sent>>

NothingBefore(x, t) == \A e \in pend : Home[e.comp] = x => t <= e.time

Init ==
  /\ clock = [x \in Threads |-> 0]
  /\ \A e \in pend : e.seq \in 1 .. sent[e.src]

(* The receiver of e handles it and sends new events, later ones. *)
Handle(e) ==
  LET x == Home[e.comp]
  IN  /\ e \in pend
      /\ clock[x] <= e.time /\ NothingBefore(x, e.time)
      /\ clock' = [clock EXCEPT ![x] = e.time]
      /\ \E new \in SUBSET (pend' \ pend) :
           /\ pend' = (pend \ {e}) \cup new
           /\ \A f \in new : /\ f.src = e.comp /\ e.time <= f.time
                             /\ f.seq \in sent[f.src] + 1 .. sent'[f.src]
      /\ \A c \in Comps \ {e.comp} : sent'[c] = sent[c]

(* The clock of x moves up to t: something other than an event happened.   *)
Advance(x, t) ==
  /\ clock[x] <= t /\ NothingBefore(x, t)
  /\ clock' = [clock EXCEPT ![x] = t]
  /\ UNCHANGED <<pend, sent>>

Next ==
  \/ \E e \in pend : Handle(e)
  \/ \E x \in Threads : Advance(x, clock'[x])

Spec == Init /\ [][Next]_evars
=============================================================================
