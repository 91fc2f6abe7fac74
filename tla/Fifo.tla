-------------------------------- MODULE Fifo --------------------------------
(***************************************************************************)
(* What a work queue of the rank sync promises: items come out in the      *)
(* order they went in, each once.                                          *)
(***************************************************************************)
EXTENDS Sequences

CONSTANT Items
VARIABLES queue,            \* the items that are in
          out               \* all items that have come out, in order

Init == queue = <<>> /\ out = <<>>

Insert(i) == queue' = Append(queue, i) /\ UNCHANGED out

Remove ==
  /\ queue # <<>>
  /\ queue' = Tail(queue)
  /\ out' = Append(out, Head(queue))

Next == (\E i \in Items : Insert(i)) \/ Remove

Spec == Init /\ [][Next]_<<queue, out>>
=============================================================================
