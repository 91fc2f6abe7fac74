--------------------------- MODULE MCParallelSim ---------------------------
(* Placements of two or three components, and the options they are run     *)
(* with, for the runs of ParallelSim.                                      *)
EXTENDS ParallelSim, TLC

CONSTANTS c1, c2, c3

TwoComps == {c1, c2}
ThreeComps == {c1, c2, c3}

TwoThreads == c1 :> <<0, 0>> @@ c2 :> <<0, 1>>
TwoRanks == c1 :> <<0, 0>> @@ c2 :> <<1, 0>>
Corner == c1 :> <<0, 0>> @@ c2 :> <<0, 1>> @@ c3 :> <<1, 0>>

(* Only rank 0 has components on two threads, and so links between them.  *)
OnRank0(l) == [r \in Ranks |-> IF r = 0 THEN l ELSE MaxTime]

Option(d, s, p, o, tl, rl, st) ==
  [direct |-> d, stop |-> s, primary |-> p, reopening |-> o, threadLat |-> OnRank0(tl),
   rankLat |-> rl, start |-> st]

(* Links between threads, in either way of carrying their events. *)
DirectOrNot ==
  {Option(d, 0, Comps, Comps, 2, MaxTime, st) : d \in BOOLEAN, st \in [Comps -> {0, 1}]}

(* Links between threads and ranks, between threads only, between ranks    *)
(* only, and none.                                                         *)
Linkings ==
  {Option(FALSE, 0, Comps, {}, 2, 3, c1 :> 3 @@ c2 :> 4 @@ c3 :> 3)}
  \cup {Option(FALSE, 0, Comps, {}, 2, l, [c \in Comps |-> 3]) : l \in {3, MaxTime}}
  \cup {Option(FALSE, s, {c1, c3}, {c1, c3}, MaxTime, 2, st) :
          s \in {0, 3}, st \in {c1 :> 0 @@ c3 :> 0, c1 :> 0 @@ c3 :> 1}}
  \cup {Option(FALSE, 0, Comps, {c1, c2}, MaxTime, MaxTime, st) :
          st \in [Comps -> {0, 3}]}

(* Two components on two ranks of two threads, without links. *)
Unlinked ==
  {Option(FALSE, 0, Comps, {}, MaxTime, MaxTime, st) : st \in [Comps -> {0, 1}]}

(* The assumptions of the theorems about order and time hold here. *)
ASSUME RunAssumption == Room /\ Occupied
=============================================================================
