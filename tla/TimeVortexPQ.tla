---------------------------- MODULE TimeVortexPQ ----------------------------
(***************************************************************************)
(* The time vortex of a thread (timeVortexPQ.cc): a priority queue of      *)
(* pointers to activities.  The keys it compares, delivery time and queue  *)
(* order, are fields of the activities, so that inserting an activity a    *)
(* second time changes the key of the entry that is already there.         *)
(* Therefore the heap is kept as the array that std::priority_queue makes  *)
(* of it.                                                                  *)
(***************************************************************************)
EXTENDS Integers, Sequences

CONSTANTS Activities,       \* the activity objects
          PriorityOf        \* priority_order of each: priority and order tag

Vortices == [heap : Seq(Activities), due : [Activities -> Nat],
             order : [Activities -> Nat], inserts : Nat]

NewVortex ==
  [heap |-> <<>>, due |-> [a \in Activities |-> 0],
   order |-> [a \in Activities |-> 0], inserts |-> 0]

In(v) == {v.heap[i] : i \in DOMAIN v.heap}
Entries(v, a) == {i \in DOMAIN v.heap : v.heap[i] = a}

(* fault: entries of one cycle in any order of priority *)
GreaterTimeOnly(v, a, b) ==
  \/ v.due[a] > v.due[b]
  \/ v.due[a] = v.due[b] /\ v.order[a] > v.order[b]

(* Activity::greater<true, true, true> *)
Greater(v, a, b) ==
  \/ v.due[a] > v.due[b]
  \/ v.due[a] = v.due[b] /\ PriorityOf[a] > PriorityOf[b]
  \/ /\ v.due[a] = v.due[b] /\ PriorityOf[a] = PriorityOf[b]
     /\ v.order[a] > v.order[b]

(* std::push_heap: the entry at i rises past every parent that is greater. *)
SiftUp(v, heap, i) ==
  LET Swapped(h, j, k) == [h EXCEPT ![j] = h[k], ![k] = h[j]]
      up[h \in Seq(Activities), j \in Nat] ==
        IF j > 1 /\ Greater(v, h[j \div 2], h[j])
        THEN up[Swapped(h, j, j \div 2), j \div 2] ELSE h
  IN  up[heap, i]

(* std::pop_heap: the last entry takes the place of the first, sinks along *)
(* the smaller children to a leaf and rises from there.                    *)
SiftDown(v, heap) ==
  LET Swapped(h, j, k) == [h EXCEPT ![j] = h[k], ![k] = h[j]]
      Child(h, j) == IF 2 * j < Len(h) /\ ~Greater(v, h[2 * j + 1], h[2 * j])
                     THEN 2 * j + 1 ELSE 2 * j
      down[h \in Seq(Activities), j \in Nat] ==
        IF 2 * j <= Len(h) THEN down[Swapped(h, j, Child(h, j)), Child(h, j)]
        ELSE SiftUp(v, h, j)
  IN  down[heap, 1]

Front(v) == Head(v.heap)

(* insertActivity(time, a): setDeliveryTime, then insert. *)
Insert(v, a, time) ==
  LET w == [v EXCEPT !.due[a] = time, !.order[a] = v.inserts, !.inserts = @ + 1]
  IN  [w EXCEPT !.heap = SiftUp(w, Append(@, a), Len(@) + 1)]

Pop(v) ==
  LET n == Len(v.heap)
      rest == IF n = 1 THEN <<>> ELSE <<v.heap[n]>> \o SubSeq(v.heap, 2, n - 1)
  IN  [v EXCEPT !.heap = SiftDown(v, rest)]
=============================================================================
