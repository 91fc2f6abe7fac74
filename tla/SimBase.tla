------------------------------ MODULE SimBase ------------------------------
(***************************************************************************)
(* What every part of the parallel engine shares: the ranks (MPI           *)
(* processes) and their threads, simulated time as an unsigned word, and   *)
(* the activities that wait in the time vortices.                          *)
(***************************************************************************)
EXTENDS Integers, FiniteSets

CONSTANTS NumRanks,         \* num_ranks.rank
          NumThreads,       \* num_ranks.thread
          MaxTime,          \* MAX_SIMTIME_T: the largest SimTime_t
          Comps,            \* the components of the configuration
          Home,             \* the <<rank, thread>> a component is placed on
          NoComp            \* stands for "no component"

Ranks == 0 .. NumRanks - 1
TIds == 0 .. NumThreads - 1
RankInfo == Ranks \X TIds
Master(r) == <<r, 0>>
Masters == {Master(r) : r \in Ranks}
ThreadsOf(r) == {x \in RankInfo : x[1] = r}

ASSUME BaseAssumption ==
  /\ NumRanks \in Nat \ {0} /\ NumThreads \in Nat \ {0}
  /\ MaxTime \in Nat
  /\ IsFiniteSet(Comps) /\ NoComp \notin Comps
  /\ Home \in [Comps -> RankInfo]

(* SimTime_t is unsigned: sums and differences wrap around. *)
SimTime == 0 .. MaxTime
Plus(a, b) == (a + b) % (MaxTime + 1)
Minus(a, b) == (a - b) % (MaxTime + 1)

(***************************************************************************)
(* An activity of a time vortex.  comp is the component an event goes to,  *)
(* src and seq identify it: the seq-th event that src has sent.  For the   *)
(* Exit object seq numbers its entries in the vortex.                      *)
(***************************************************************************)
Kinds == {"sync", "stop", "event", "exit"}
Activity(k, t, c, s, n) ==
  [kind |-> k, time |-> t, comp |-> c, src |-> s, seq |-> n]
EventTo(c, t, s, n) == Activity("event", t, c, s, n)
SyncAt(t) == Activity("sync", t, NoComp, NoComp, 0)
StopAt(t) == Activity("stop", t, NoComp, NoComp, 0)
ExitAt(t, n) == Activity("exit", t, NoComp, NoComp, n)

(* The priorities of activity.h decide between activities of one cycle. *)
Priority ==
  [sync |-> 25, stop |-> 30, event |-> 50, exit |-> 99]

(* Activity::less<true, true, ...>; the tags that order events of the same *)
(* cycle and priority are abstracted to any order among them.              *)
Less(a, b) ==
  \/ a.time < b.time
  \/ a.time = b.time /\ Priority[a.kind] < Priority[b.kind]

Earliest(S) == {a \in S : \A b \in S : ~Less(b, a)}

MaxOf(a, b) == IF a > b THEN a ELSE b
MinTime(S) == CHOOSE t \in S : \A u \in S : t <= u
=============================================================================
