----------------------------- MODULE OrderedBag -----------------------------
(***************************************************************************)
(* What a time vortex promises: an activity that is inserted comes out     *)
(* once, and what comes out is the least of what is in.                    *)
(***************************************************************************)
EXTENDS Integers

CONSTANTS Acts,             \* activities
          Less(_, _)        \* the order they come out in

VARIABLES bag,              \* the activities in the vortex
          out               \* the one that came out last

Init == bag \subseteq Acts

Insert(a) ==
  /\ a \notin bag
  /\ bag' = bag \cup {a}
  /\ UNCHANGED out

Take(a) ==
  /\ a \in bag /\ \A b \in bag \ {a} : Less(a, b)
  /\ bag' = bag \ {a}
  /\ out' = a

Next == \E a \in Acts : Insert(a) \/ Take(a)

Spec == Init /\ [][Next]_<<bag, out>>
=============================================================================
