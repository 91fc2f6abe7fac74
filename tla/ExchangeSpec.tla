---------------------------- MODULE ExchangeSpec ----------------------------
(***************************************************************************)
(* What a rank sync promises: an exchange is complete when the events that *)
(* every rank had queued for every thread of another rank have been given  *)
(* to that thread, once, and none of them comes later.                     *)
(***************************************************************************)
EXTENDS Naturals

CONSTANT Conns              \* who sends to whom
VARIABLES delivered,        \* the last batch each receiver has got
          complete          \* exchanges that are complete

Init == delivered = [k \in Conns |-> 0] /\ complete = 0

Deliver(S) ==
  /\ S # {} /\ \A k \in S : delivered[k] = complete
  /\ delivered' = [k \in Conns |-> IF k \in S THEN complete + 1 ELSE delivered[k]]
  /\ UNCHANGED complete

Complete ==
  /\ \A k \in Conns : delivered[k] = complete + 1
  /\ complete' = complete + 1
  /\ UNCHANGED delivered

Next == (\E S \in SUBSET Conns : Deliver(S)) \/ Complete

Spec == Init /\ [][Next]_<<delivered, complete>>
=============================================================================
