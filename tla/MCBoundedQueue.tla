--------------------------- MODULE MCBoundedQueue ---------------------------
(* Two threads and a queue of two entries.                                 *)
EXTENDS BoundedQueue, TLC

CONSTANTS p1, p2, a, b

TwoProcs == {p1, p2}
TwoItems == {a, b}
=============================================================================
