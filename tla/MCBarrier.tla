----------------------------- MODULE MCBarrier -----------------------------
(* Barrier with three threads; size_t has just enough values to hold the   *)
(* count, so that generation wraps every few rounds.                       *)
EXTENDS Barrier, TLC

CONSTANTS t1, t2, t3

MCThreads == {t1, t2, t3}
MCSizeMod == 5
=============================================================================
