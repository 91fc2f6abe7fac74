---------------------------- MODULE BarrierSpec ----------------------------
(***************************************************************************)
(* What ThreadSafe::Barrier (threadsafe.h) promises to the threads that    *)
(* share it: the threads pass in rounds, and a round is released only when *)
(* every thread has arrived in it.  A released thread may be slow to leave *)
(* while fast ones already arrive in the next round.                       *)
(***************************************************************************)
CONSTANT Threads            \* the threads that call wait()

VARIABLE status             \* where each thread stands in its round

Init == status = [t \in Threads |-> "out"]

(* Thread t arrives: from here on it is counted in the current round. *)
Arrive(t) ==
  /\ status[t] = "out"
  /\ status' = [status EXCEPT ![t] = "waiting"]

(* The round is complete: everybody has arrived and everybody may go. *)
Release ==
  /\ \A t \in Threads : status[t] = "waiting"
  /\ status' = [t \in Threads |-> "released"]

(* Thread t returns from wait(). *)
Leave(t) ==
  /\ status[t] = "released"
  /\ status' = [status EXCEPT ![t] = "out"]

Next == Release \/ \E t \in Threads : Arrive(t) \/ Leave(t)

Spec == Init /\ [][Next]_status
=============================================================================
