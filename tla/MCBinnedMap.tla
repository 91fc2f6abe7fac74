----------------------------- MODULE MCBinnedMap -----------------------------
(* One owner, other threads that insert, and the readers of a sync.        *)
EXTENDS BinnedMap, TLC

CONSTANTS o, w1, w2, u1, u2, u3, u4

OwnerOnly == {o}
TwoWriters == {w1, w2}
FourUnits == {u1, u2, u3, u4}
Symmetry == Permutations(TwoWriters) \cup Permutations(FourUnits)
=============================================================================
