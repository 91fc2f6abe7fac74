------------------------- MODULE BoundedQueueProofs -------------------------
(***************************************************************************)
(* For any number of threads, entries and syncs: the ring of BoundedQueue  *)
(* is a first-in-first-out queue, and a put never fails.                   *)
(***************************************************************************)
EXTENDS BoundedQueue, FiniteSetTheorems, SequenceTheorems, TLAPS

(* Who has claimed a position, and who still wants one for its entry. *)
Claimed(p) == pc[p] \in {"data", "store"}
Writing(p) == op[p] = "insert" /\ Claimed(p)
Reading(p) == op[p] = "remove" /\ Claimed(p)
Putting(p) == op[p] = "insert" /\ pc[p] \in {"seq", "load", "cas"}

Written(q) == \A p \in Procs : Writing(p) => pos[p] # q
Released(q) == \A p \in Procs : Reading(p) => pos[p] # q

(* The first position of this sync: what was put in before is gone. *)
Base == (syncs - 1) * dsize
Wanted == todo \cup {arg[p] : p \in {r \in Procs : Putting(r)}}

QueueTypes ==
  /\ sequence \in [Cells -> Int]
  /\ data \in [Cells -> Items \cup {NoItem}]
  /\ rPtr \in Nat /\ wPtr \in Nat
  /\ op \in [Procs -> {"insert", "remove"}]
  /\ pc \in [Procs -> {"idle", "seq", "load", "cas", "data", "store", "false"}]
  /\ pos \in [Procs -> Nat]
  /\ arg \in [Procs -> Items \cup {NoItem}]
  /\ todo \subseteq Items /\ syncs \in 1 .. MaxSyncs
  /\ res \in [0 .. rPtr - 1 -> Items \cup {NoItem}]

(* The positions stay between those of this sync. *)
PtrInv == Base <= rPtr /\ rPtr <= wPtr

(* Every entry is either still to be put in, or at a position. *)
CountInv ==
  /\ Cardinality(Wanted) = Base + dsize - wPtr
  /\ \A p \in Procs : Putting(p) =>
       /\ arg[p] \in Items \ todo
       /\ Base <= pos[p] /\ pos[p] <= wPtr
  /\ \A p, r \in Procs : Putting(p) /\ Putting(r) /\ p # r => arg[p] # arg[r]

(* A claimed position is that of one thread. *)
ClaimInv ==
  /\ \A p \in Procs : Writing(p) => rPtr <= pos[p] /\ pos[p] < wPtr
  /\ \A p \in Procs : Reading(p) => Base <= pos[p] /\ pos[p] < rPtr
  /\ \A p, r \in Procs : Claimed(p) /\ Claimed(r) /\ p # r => pos[p] # pos[r]

(* A thread that has found an entry at the next position may take it. *)
TakeInv ==
  \A p \in Procs : op[p] = "remove" =>
    /\ pos[p] <= rPtr
    /\ pc[p] = "cas" /\ pos[p] = rPtr => rPtr < wPtr /\ Written(rPtr)

(* What the sequence number of the cell of a position says. *)
SeqOf(q) ==
  IF ~Written(q) THEN q
  ELSE IF rPtr <= q \/ ~Released(q) THEN q + 1 ELSE q + dsize
SeqInv == \A q \in wPtr - dsize .. wPtr - 1 : sequence[q % dsize] = SeqOf(q)

(* Where the entry of a position is. *)
AtData(p) == pc[p] = "data"
DataInv ==
  /\ \A p \in Procs : Writing(p) => arg[p] \in Items
  /\ \A q \in Base .. wPtr - 1 :
       \/ data[q % dsize] \in Items
       \/ \E p \in Procs : Writing(p) /\ AtData(p) /\ pos[p] = q
  /\ \A q \in 0 .. rPtr - 1 :
       res[q] = NoItem <=> \E p \in Procs : Reading(p) /\ AtData(p) /\ pos[p] = q

IInv ==
  /\ QueueTypes /\ PtrInv /\ CountInv /\ ClaimInv /\ TakeInv /\ SeqInv /\ DataInv
  /\ InsertSucceeds

----------------------------------------------------------------------------
(* Remainders of division by the number of cells.                          *)

LEMMA Remainder ==
  ASSUME NEW d \in Nat \ {0}, NEW a \in Int
  PROVE  /\ a \div d \in Int /\ a % d \in 0 .. d - 1
         /\ a = d * (a \div d) + (a % d)
  BY SMT

(* The only multiple of d between -d and d is 0. *)
LEMMA SmallMultiple ==
  ASSUME NEW d \in Nat \ {0}, NEW x \in Int, d * x < d, -d < d * x
  PROVE  x = 0
  <1>1. ASSUME x >= 1 PROVE FALSE
    <2>1. d * x = d * (x - 1) + d /\ d * (x - 1) >= 0
      BY <1>1
    <2> QED BY <2>1
  <1>2. ASSUME x <= -1 PROVE FALSE
    <2> DEFINE y == -x - 1
    <2>1. y \in Nat /\ x = -y - 1
      BY <1>2
    <2>2. d * x = -(d * y) - d /\ d * y >= 0
      BY <2>1
    <2> QED BY <2>2
  <1> QED BY <1>1, <1>2

(* Positions less than a lap apart are in different cells. *)
LEMMA SameCell ==
  ASSUME NEW d \in Nat \ {0}, NEW a \in Int, NEW b \in Int,
         a % d = b % d, a - b < d, b - a < d
  PROVE  a = b
  <1> DEFINE x == a \div d
             y == b \div d
  <1>1. /\ x \in Int /\ y \in Int /\ a % d \in Int
        /\ a = d * x + (a % d) /\ b = d * y + (b % d)
    BY Remainder
  <1> HIDE DEF x, y
  <1>2. a - b = d * (x - y)
    BY <1>1
  <1>3. x - y = 0
    BY <1>1, <1>2, SmallMultiple
  <1> QED BY <1>1, <1>2, <1>3

LEMMA UniqueRemainder ==
  ASSUME NEW d \in Nat \ {0}, NEW x \in Int, NEW s \in 0 .. d - 1
  PROVE  (d * x + s) % d = s
  <1> DEFINE a == d * x + s
             y == a \div d
             t == a % d
  <1>1. y \in Int /\ t \in 0 .. d - 1 /\ a = d * y + t
    BY Remainder
  <1> HIDE DEF y, t
  <1>2. d * (x - y) = t - s
    BY <1>1
  <1>3. x - y = 0
    BY <1>1, <1>2, SmallMultiple
  <1>4. t = s
    BY <1>1, <1>2, <1>3
  <1> QED BY <1>4 DEF t

(* A lap later it is the same cell. *)
LEMMA NextLap ==
  ASSUME NEW d \in Nat \ {0}, NEW a \in Int, NEW b \in Int, b = a - d
  PROVE  b % d = a % d
  <1> DEFINE y == a \div d
             t == a % d
  <1>1. y \in Int /\ t \in 0 .. d - 1 /\ a = d * y + t
    BY Remainder
  <1> HIDE DEF y, t
  <1>2. b = d * (y - 1) + t
    BY <1>1
  <1>3. b % d = t
    BY <1>1, <1>2, UniqueRemainder
  <1> QED BY <1>3 DEF t

----------------------------------------------------------------------------
(* There is a cell. *)
LEMMA SizeIsNat == dsize \in Nat \ {0}
  BY QueueAssumption, FS_EmptySet, FS_CardinalityType DEF dsize

LEMMA CellOf ==
  ASSUME NEW q \in Int PROVE q % dsize \in Cells
  BY Remainder, SizeIsNat DEF Cells

LEMMA BaseIsNat ==
  ASSUME QueueTypes
  PROVE  /\ Base \in Nat
         /\ Base + dsize = syncs * dsize
         /\ Base + dsize <= MaxSyncs * dsize
         /\ (MaxSyncs + 1) * dsize = MaxSyncs * dsize + dsize
  <1>1. dsize \in Nat /\ MaxSyncs \in Nat /\ syncs \in 1 .. MaxSyncs
    BY SizeIsNat, QueueAssumption DEF QueueTypes
  <1>2. \A m, n \in Nat : m * n \in Nat
    OBVIOUS
  <1>3. (syncs - 1) * dsize \in Nat /\ (MaxSyncs - syncs) * dsize \in Nat
    BY <1>1, <1>2
  <1>4. MaxSyncs * dsize = syncs * dsize + (MaxSyncs - syncs) * dsize
    BY <1>1
  <1>5. syncs * dsize = (syncs - 1) * dsize + dsize
    BY <1>1
  <1> QED BY <1>1, <1>3, <1>4, <1>5 DEF Base

(* The entries that are still wanted are finitely many, and of them there  *)
(* is one while somebody puts.                                             *)
LEMMA WantedFinite ==
  ASSUME QueueTypes, CountInv
  PROVE  /\ Wanted \subseteq Items /\ IsFiniteSet(Wanted)
         /\ wPtr <= Base + dsize
         /\ \A p \in Procs : Putting(p) => wPtr < Base + dsize
  <1>1. Wanted \subseteq Items
    BY DEF Wanted, QueueTypes, CountInv
  <1>2. IsFiniteSet(Wanted) /\ Cardinality(Wanted) \in Nat
    BY <1>1, FS_Subset, FS_CardinalityType, QueueAssumption
  <1>3. wPtr \in Nat /\ Base \in Nat /\ dsize \in Nat
    BY BaseIsNat, SizeIsNat DEF QueueTypes
  <1>4. \A p \in Procs : Putting(p) => Cardinality(Wanted) # 0
    BY <1>2, FS_EmptySet DEF Wanted
  <1> QED BY <1>1, <1>2, <1>3, <1>4 DEF CountInv

(* At first there is nothing, and all cells are free. *)
LEMMA QueueInit == Init => IInv
  <1> SUFFICES ASSUME Init PROVE IInv
    OBVIOUS
  <1>1. dsize \in Nat \ {0} /\ MaxSyncs \in Nat \ {0}
    BY SizeIsNat, QueueAssumption
  <1>2. QueueTypes
    <2>1. res \in [0 .. rPtr - 1 -> Items \cup {NoItem}]
      BY DEF Init
    <2> QED BY <1>1, <2>1 DEF Init, QueueTypes, Cells
  <1>3. Base = 0
    BY <1>1 DEF Init, Base
  <1>4. PtrInv
    BY <1>3 DEF Init, PtrInv
  <1>5. \A p \in Procs : ~Putting(p) /\ ~Claimed(p) /\ pc[p] = "idle" /\ op[p] = "insert"
    BY DEF Init, Putting, Claimed
  <1>6. CountInv
    <2>1. Wanted = Items
      BY <1>5 DEF Wanted, Init
    <2> QED BY <1>1, <1>3, <1>5, <2>1 DEF CountInv, dsize, Init
  <1>7. ClaimInv /\ TakeInv
    BY <1>5 DEF ClaimInv, TakeInv, Writing, Reading
  <1>8. SeqInv
    <2> SUFFICES ASSUME NEW q \in -dsize .. -1
                 PROVE  sequence[q % dsize] = SeqOf(q)
      BY <1>1 DEF SeqInv, Init
    <2>1. q = dsize * (-1) + (q + dsize) /\ q + dsize \in 0 .. dsize - 1
      BY <1>1
    <2>2. (dsize * (-1) + (q + dsize)) % dsize = q + dsize
      BY <1>1, <2>1, UniqueRemainder
    <2>3. q % dsize = q + dsize
      BY <2>1, <2>2
    <2>4. SeqOf(q) = q + dsize
      BY <1>1, <1>5 DEF SeqOf, Written, Released, Writing, Reading, Init
    <2> QED BY <1>1, <2>3, <2>4 DEF Init, Cells
  <1>9. DataInv
    BY <1>3, <1>5 DEF DataInv, Writing, Init
  <1>10. InsertSucceeds
    BY <1>5 DEF InsertSucceeds
  <1> QED BY <1>2, <1>4, <1>6, <1>7, <1>8, <1>9, <1>10 DEF IInv

----------------------------------------------------------------------------
(* The steps.  Those of a thread that has no position and gets none leave  *)
(* the ring as it is.                                                      *)
LEMMA RingStays ==
  ASSUME IInv, QueueTypes', NEW p \in Procs, ~Claimed(p), ~Claimed(p)',
         \A r \in Procs \ {p} : /\ pc'[r] = pc[r] /\ op'[r] = op[r]
                                /\ pos'[r] = pos[r] /\ arg'[r] = arg[r],
         UNCHANGED <<sequence, data, rPtr, wPtr, syncs, res>>
  PROVE  PtrInv' /\ ClaimInv' /\ SeqInv' /\ DataInv'
  <1>1. \A r \in Procs : /\ Claimed(r)' <=> Claimed(r)
                         /\ Writing(r)' <=> Writing(r)
                         /\ Reading(r)' <=> Reading(r)
                         /\ Claimed(r) => pos'[r] = pos[r] /\ arg'[r] = arg[r]
                                          /\ pc'[r] = pc[r]
    BY DEF Claimed, Writing, Reading
  <1>2. \A r \in Procs : Writing(r) \/ Reading(r) => Claimed(r)
    BY DEF Writing, Reading
  <1>3. Base' = Base
    BY DEF Base, dsize
  <1>4. \A q : (Written(q)' <=> Written(q)) /\ (Released(q)' <=> Released(q))
    BY <1>1, <1>2 DEF Written, Released
  <1>5. PtrInv'
    BY <1>3 DEF IInv, PtrInv
  <1>6. ClaimInv'
    BY <1>1, <1>2, <1>3 DEF IInv, ClaimInv
  <1>7. SeqInv'
    BY <1>4 DEF IInv, SeqInv, SeqOf
  <1>8. DataInv'
    <2>1. \A q : (\E r \in Procs : Writing(r) /\ AtData(r) /\ pos[r] = q)'
                 <=> \E r \in Procs : Writing(r) /\ AtData(r) /\ pos[r] = q
      BY <1>1, <1>2 DEF AtData
    <2>2. \A q : (\E r \in Procs : Reading(r) /\ AtData(r) /\ pos[r] = q)'
                 <=> \E r \in Procs : Reading(r) /\ AtData(r) /\ pos[r] = q
      BY <1>1, <1>2 DEF AtData
    <2>3. \A r \in Procs : Writing(r)' => arg'[r] \in Items
      BY <1>1, <1>2 DEF IInv, DataInv
    <2> QED BY <1>3, <2>1, <2>2, <2>3 DEF IInv, DataInv
  <1> QED BY <1>5, <1>6, <1>7, <1>8

(* Nor does it matter to the other threads that want to take an entry. *)
LEMMA TakeStays ==
  ASSUME IInv, QueueTypes', NEW p \in Procs, ~Claimed(p), ~Claimed(p)',
         \A r \in Procs \ {p} : pc'[r] = pc[r] /\ op'[r] = op[r] /\ pos'[r] = pos[r],
         UNCHANGED <<rPtr, wPtr>>,
         op'[p] = "remove" => pos'[p] <= rPtr /\ pc'[p] # "cas"
  PROVE  TakeInv'
  <1>1. \A q : Written(q) => Written(q)'
    BY DEF Written, Writing, Claimed
  <1> QED BY <1>1 DEF IInv, TakeInv

(* The entries that are wanted stay the same. *)
LEMMA CountStays ==
  ASSUME IInv, QueueTypes', NEW p \in Procs,
         \A r \in Procs \ {p} : /\ pc'[r] = pc[r] /\ op'[r] = op[r]
                                /\ pos'[r] = pos[r],
         UNCHANGED <<arg, todo, wPtr, syncs>>,
         Putting(p)' <=> Putting(p),
         Putting(p)' => Base <= pos'[p] /\ pos'[p] <= wPtr
  PROVE  CountInv'
  <1>1. \A r \in Procs : Putting(r)' <=> Putting(r)
    BY DEF Putting
  <1>2. Wanted' = Wanted
    BY <1>1 DEF Wanted
  <1>3. Base' = Base /\ dsize' = dsize
    BY DEF Base, dsize
  <1>4. \A r \in Procs : Putting(r)' => Base <= pos'[r] /\ pos'[r] <= wPtr
    BY <1>1 DEF IInv, CountInv
  <1> QED BY <1>1, <1>2, <1>3, <1>4 DEF IInv, CountInv

(* An entry that was to be put in is in the hands of a thread. *)
LEMMA TryInsertStep ==
  ASSUME IInv, NEW p \in Procs, NEW i \in Items, TryInsert(p, i)
  PROVE  IInv'
  <1> USE DEF TryInsert, Goto
  <1>1. QueueTypes'
    BY DEF IInv, QueueTypes
  <1>2. /\ ~Claimed(p) /\ ~Claimed(p)' /\ ~Putting(p) /\ Putting(p)'
        /\ arg'[p] = i /\ op'[p] = "insert" /\ pos'[p] = wPtr
    BY DEF Claimed, Putting, IInv, QueueTypes
  <1>3. \A r \in Procs \ {p} : /\ pc'[r] = pc[r] /\ op'[r] = op[r]
                               /\ pos'[r] = pos[r] /\ arg'[r] = arg[r]
    BY DEF IInv, QueueTypes
  <1>4. PtrInv' /\ ClaimInv' /\ SeqInv' /\ DataInv'
    BY <1>1, <1>2, <1>3, RingStays
  <1>5. TakeInv'
    BY <1>1, <1>2, <1>3, TakeStays
  <1>6. CountInv'
    <2>1. \A r \in Procs : Putting(r)' <=> Putting(r) \/ r = p
      BY <1>2, <1>3 DEF Putting
    <2>2. \A r \in Procs : Putting(r) => arg'[r] = arg[r] /\ r # p /\ pos'[r] = pos[r]
      BY <1>2, <1>3
    <2>3. Wanted' = Wanted
      <3>1. {arg[r] : r \in {s \in Procs : Putting(s)}}' =
              {arg[r] : r \in {s \in Procs : Putting(s)}} \cup {i}
        BY <1>2, <2>1, <2>2
      <3>2. todo' = todo \ {i} /\ i \in todo
        OBVIOUS
      <3> QED BY <3>1, <3>2 DEF Wanted
    <2>4. Base' = Base /\ dsize' = dsize /\ wPtr' = wPtr
      BY DEF Base, dsize
    <2>5. Base <= wPtr
      BY BaseIsNat DEF IInv, PtrInv, QueueTypes
    <2>6. \A r \in Procs : Putting(r)' =>
            arg'[r] \in Items \ todo' /\ Base <= pos'[r] /\ pos'[r] <= wPtr
      BY <1>2, <2>1, <2>2, <2>5 DEF IInv, CountInv, QueueTypes
    <2>7. \A r, s \in Procs : Putting(r)' /\ Putting(s)' /\ r # s => arg'[r] # arg'[s]
      BY <1>2, <2>1, <2>2 DEF IInv, CountInv
    <2> QED BY <2>3, <2>4, <2>6, <2>7 DEF IInv, CountInv
  <1>7. InsertSucceeds'
    BY <1>2, <1>3 DEF IInv, InsertSucceeds, QueueTypes
  <1> QED BY <1>1, <1>4, <1>5, <1>6, <1>7 DEF IInv

LEMMA TryRemoveStep ==
  ASSUME IInv, NEW p \in Procs, TryRemove(p)
  PROVE  IInv'
  <1> USE DEF TryRemove, Goto
  <1>1. QueueTypes'
    BY DEF IInv, QueueTypes
  <1>2. /\ ~Claimed(p) /\ ~Claimed(p)' /\ ~Putting(p) /\ ~Putting(p)'
        /\ pc'[p] = "seq" /\ op'[p] = "remove" /\ pos'[p] = rPtr
    BY DEF Claimed, Putting, IInv, QueueTypes
  <1>3. \A r \in Procs \ {p} : /\ pc'[r] = pc[r] /\ op'[r] = op[r]
                               /\ pos'[r] = pos[r] /\ arg'[r] = arg[r]
    BY DEF IInv, QueueTypes
  <1>4. PtrInv' /\ ClaimInv' /\ SeqInv' /\ DataInv'
    BY <1>1, <1>2, <1>3, RingStays
  <1>5. TakeInv'
    BY <1>1, <1>2, <1>3, TakeStays DEF IInv, QueueTypes
  <1>6. CountInv'
    BY <1>1, <1>2, <1>3, CountStays
  <1>7. InsertSucceeds'
    BY <1>2, <1>3 DEF IInv, InsertSucceeds, QueueTypes
  <1> QED BY <1>1, <1>4, <1>5, <1>6, <1>7 DEF IInv

(* Everything before this sync is written, and read. *)
LEMMA OldPositions ==
  ASSUME QueueTypes, PtrInv, ClaimInv, NEW q \in Int, q < Base
  PROVE  Written(q) /\ Released(q) /\ q < rPtr
  BY BaseIsNat DEF PtrInv, ClaimInv, QueueTypes, Written, Released

(* The cell of the next position to write is free while somebody puts. *)
LEMMA FreeCell ==
  ASSUME IInv, NEW p \in Procs, Putting(p), pos[p] = wPtr
  PROVE  sequence[Cell(p)] = wPtr
  <1>1. /\ QueueTypes /\ PtrInv /\ CountInv /\ ClaimInv /\ SeqInv
        /\ dsize \in Nat \ {0} /\ Base \in Nat /\ wPtr \in Nat
    BY SizeIsNat, BaseIsNat DEF IInv, QueueTypes
  <1>2. wPtr < Base + dsize
    BY <1>1, WantedFinite
  <1> DEFINE q == wPtr - dsize
  <1>3. q \in Int /\ q \in wPtr - dsize .. wPtr - 1 /\ q < Base /\ q + dsize = wPtr
    BY <1>1, <1>2
  <1> HIDE DEF q
  <1>4. sequence[q % dsize] = SeqOf(q)
    BY <1>1, <1>3 DEF SeqInv
  <1>5. q % dsize = wPtr % dsize
    <2>1. q = wPtr - dsize /\ wPtr \in Int
      BY <1>1 DEF q
    <2> QED BY <1>1, <1>3, <2>1, NextLap
  <1>6. SeqOf(q) = wPtr
    <2>1. Written(q) /\ Released(q) /\ q < rPtr
      BY <1>1, <1>3, OldPositions
    <2> QED BY <1>1, <1>3, <2>1 DEF SeqOf, QueueTypes
  <1> QED BY <1>4, <1>5, <1>6 DEF Cell

(* Who puts finds a cell that is free or that another has claimed: never   *)
(* one of the lap before.                                                  *)
LEMMA RoomForPut ==
  ASSUME IInv, NEW p \in Procs, Putting(p)
  PROVE  sequence[Cell(p)] \in Int /\ sequence[Cell(p)] >= pos[p]
  <1>1. /\ QueueTypes /\ PtrInv /\ CountInv /\ ClaimInv /\ SeqInv
        /\ dsize \in Nat \ {0} /\ Base \in Nat
        /\ pos[p] \in Nat /\ rPtr \in Nat /\ wPtr \in Nat
    BY SizeIsNat, BaseIsNat DEF IInv, QueueTypes
  <1>2. Base <= pos[p] /\ pos[p] <= wPtr /\ wPtr <= Base + dsize
    BY <1>1, WantedFinite DEF CountInv
  <1>3. CASE pos[p] < wPtr
    <2>1. sequence[Cell(p)] = SeqOf(pos[p])
      BY <1>1, <1>2, <1>3 DEF SeqInv, Cell
    <2> QED BY <1>1, <2>1 DEF SeqOf
  <1>4. CASE pos[p] = wPtr
    BY <1>1, <1>4, FreeCell
  <1> QED BY <1>1, <1>2, <1>3, <1>4

(* Who finds the number of a written cell at the next position to read can *)
(* read it.                                                                *)
LEMMA SomethingToTake ==
  ASSUME IInv, NEW p \in Procs, pos[p] = rPtr, sequence[Cell(p)] = rPtr + 1
  PROVE  rPtr < wPtr /\ Written(rPtr)
  <1>1. /\ QueueTypes /\ PtrInv /\ CountInv /\ ClaimInv /\ SeqInv
        /\ dsize \in Nat \ {0} /\ Base \in Nat
        /\ rPtr \in Nat /\ wPtr \in Nat
    BY SizeIsNat, BaseIsNat DEF IInv, QueueTypes
  <1>2. Base <= rPtr /\ rPtr <= wPtr /\ wPtr <= Base + dsize
    BY <1>1, WantedFinite DEF PtrInv
  <1>3. CASE rPtr < wPtr
    <2>1. sequence[Cell(p)] = SeqOf(rPtr)
      BY <1>1, <1>2, <1>3 DEF SeqInv, Cell
    <2> QED BY <1>1, <1>3, <2>1 DEF SeqOf
  <1>4. CASE rPtr = wPtr
    <2> DEFINE q == wPtr - dsize
    <2>1. q \in Int /\ q \in wPtr - dsize .. wPtr - 1 /\ q < rPtr
      BY <1>1, <1>2, <1>4
    <2>2. sequence[q % dsize] = SeqOf(q)
      BY <1>1, <2>1 DEF SeqInv
    <2>3. q % dsize = Cell(p)
      <3>1. q = wPtr - dsize /\ wPtr \in Int /\ dsize \in Nat \ {0} /\ q \in Int
        BY <1>1
      <3> HIDE DEF q
      <3>2. q % dsize = wPtr % dsize
        BY <3>1, NextLap
      <3> QED BY <1>4, <3>2 DEF Cell
    <2>4. Written(q)
      BY <1>1, <2>1 DEF ClaimInv, Written, QueueTypes
    <2>5. CASE Released(q)
      BY <1>1, <1>4, <2>1, <2>2, <2>3, <2>4, <2>5 DEF SeqOf
    <2>6. CASE ~Released(q)
      <3>1. SeqOf(q) = q + 1
        BY <2>4, <2>6 DEF SeqOf
      <3> QED BY <1>1, <1>4, <2>2, <2>3, <3>1
    <2> QED BY <2>5, <2>6
  <1> QED BY <1>1, <1>2, <1>3, <1>4

(* The steps that look at the ring and go on, or back, or give up. *)
LEMMA LoadSequenceStep ==
  ASSUME IInv, NEW p \in Procs, LoadSequence(p)
  PROVE  IInv'
  <1> DEFINE l == pc'[p]
  <1>0. /\ pc[p] = "seq" /\ pc' = [pc EXCEPT ![p] = l]
        /\ l \in {"cas", "false", "load"}
        /\ UNCHANGED <<sequence, data, rPtr, wPtr, op, pos, arg, todo, syncs, res>>
    BY DEF LoadSequence, Goto, IInv, QueueTypes
  <1>1. QueueTypes'
    BY <1>0 DEF IInv, QueueTypes
  <1>2. ~Claimed(p) /\ ~Claimed(p)'
    BY <1>0 DEF Claimed
  <1>3. op[p] = "insert" => l # "false"
    <2> SUFFICES ASSUME op[p] = "insert" PROVE l # "false"
      OBVIOUS
    <2>1. sequence[Cell(p)] \in Int /\ sequence[Cell(p)] >= pos[p] /\ pos[p] \in Nat
      BY <1>0, RoomForPut DEF Putting, IInv, QueueTypes
    <2> QED BY <2>1 DEF LoadSequence, Goto, IInv, QueueTypes
  <1>4. Putting(p)' <=> Putting(p)
    BY <1>0, <1>3 DEF Putting, IInv, QueueTypes
  <1>5. \A r \in Procs \ {p} : pc'[r] = pc[r]
    BY <1>0 DEF IInv, QueueTypes
  <1>6. PtrInv' /\ ClaimInv' /\ SeqInv' /\ DataInv'
    BY <1>0, <1>1, <1>2, <1>5, RingStays
  <1>7. CountInv'
    BY <1>0, <1>1, <1>4, <1>5, CountStays DEF IInv, CountInv
  <1>8. TakeInv'
    <2>1. \A q : Written(q) => Written(q)'
      BY <1>0, <1>2, <1>5 DEF Written, Writing, Claimed
    <2>2. ASSUME op[p] = "remove", l = "cas", pos[p] = rPtr
          PROVE  rPtr < wPtr /\ Written(rPtr)
      <3>1. sequence[Cell(p)] - (pos[p] + 1) = 0
        BY <2>2 DEF LoadSequence, Goto, IInv, QueueTypes
      <3>2. Cell(p) \in Cells /\ sequence[Cell(p)] \in Int /\ rPtr \in Nat
        BY CellOf DEF IInv, QueueTypes, Cell
      <3>3. sequence[Cell(p)] = rPtr + 1
        BY <2>2, <3>1, <3>2
      <3> QED BY <2>2, <3>3, SomethingToTake
    <2>3. ASSUME NEW r \in Procs, op[r] = "remove"
          PROVE  /\ pos[r] <= rPtr
                 /\ pc'[r] = "cas" /\ pos[r] = rPtr => rPtr < wPtr /\ Written(rPtr)
      BY <1>5, <2>2, <2>3 DEF IInv, TakeInv
    <2> QED BY <1>0, <2>1, <2>3 DEF TakeInv
  <1>9. InsertSucceeds'
    BY <1>0, <1>3, <1>5 DEF IInv, InsertSucceeds
  <1> QED BY <1>1, <1>6, <1>7, <1>8, <1>9 DEF IInv

(* Reload, and a compare-and-swap that fails. *)
LEMMA ReloadStep ==
  ASSUME IInv, NEW p \in Procs, Reload(p) \/ CasFail(p)
  PROVE  IInv'
  <1>0. /\ pc[p] \in {"load", "cas"} /\ pc' = [pc EXCEPT ![p] = "seq"]
        /\ pos' = [pos EXCEPT ![p] = IF op[p] = "insert" THEN wPtr ELSE rPtr]
        /\ UNCHANGED <<sequence, data, rPtr, wPtr, op, arg, todo, syncs, res>>
    BY DEF Reload, CasFail, Goto
  <1>1. QueueTypes'
    BY <1>0 DEF IInv, QueueTypes
  <1>2. ~Claimed(p) /\ ~Claimed(p)' /\ (Putting(p)' <=> Putting(p))
    BY <1>0 DEF Claimed, Putting, IInv, QueueTypes
  <1>3. \A r \in Procs \ {p} : pc'[r] = pc[r] /\ pos'[r] = pos[r]
    BY <1>0 DEF IInv, QueueTypes
  <1>4. pc'[p] = "seq" /\ pos'[p] = IF op[p] = "insert" THEN wPtr ELSE rPtr
    BY <1>0 DEF IInv, QueueTypes
  <1>5. PtrInv' /\ ClaimInv' /\ SeqInv' /\ DataInv'
    BY <1>0, <1>1, <1>2, <1>3, RingStays
  <1>6. CountInv'
    <2>1. Putting(p)' => Base <= pos'[p] /\ pos'[p] <= wPtr
      BY <1>0, <1>4, BaseIsNat DEF Putting, IInv, PtrInv, QueueTypes
    <2> QED BY <1>0, <1>1, <1>2, <1>3, <2>1, CountStays
  <1>7. TakeInv'
    BY <1>0, <1>1, <1>2, <1>3, <1>4, TakeStays DEF IInv, QueueTypes
  <1>8. InsertSucceeds'
    BY <1>0, <1>3, <1>4 DEF IInv, InsertSucceeds
  <1> QED BY <1>1, <1>5, <1>6, <1>7, <1>8 DEF IInv

LEMMA ReturnFalseStep ==
  ASSUME IInv, NEW p \in Procs, ReturnFalse(p)
  PROVE  IInv'
  <1>0. /\ pc[p] = "false" /\ pc' = [pc EXCEPT ![p] = "idle"]
        /\ UNCHANGED <<sequence, data, rPtr, wPtr, op, pos, arg, todo, syncs, res>>
    BY DEF ReturnFalse, Goto
  <1>1. QueueTypes'
    BY <1>0 DEF IInv, QueueTypes
  <1>2. /\ ~Claimed(p) /\ ~Claimed(p)' /\ ~Putting(p) /\ ~Putting(p)'
        /\ pc'[p] = "idle"
    BY <1>0 DEF Claimed, Putting, IInv, QueueTypes
  <1>3. \A r \in Procs \ {p} : pc'[r] = pc[r]
    BY <1>0 DEF IInv, QueueTypes
  <1>4. PtrInv' /\ ClaimInv' /\ SeqInv' /\ DataInv'
    BY <1>0, <1>1, <1>2, <1>3, RingStays
  <1>5. CountInv'
    BY <1>0, <1>1, <1>2, <1>3, CountStays
  <1>6. TakeInv'
    BY <1>0, <1>1, <1>2, <1>3, TakeStays DEF IInv, TakeInv
  <1>7. InsertSucceeds'
    BY <1>0, <1>2, <1>3 DEF IInv, InsertSucceeds
  <1> QED BY <1>1, <1>4, <1>5, <1>6, <1>7 DEF IInv

(* A position is claimed for writing: its entry is wanted no more. *)
LEMMA ClaimToWrite ==
  ASSUME IInv, NEW p \in Procs, CasWin(p), op[p] = "insert"
  PROVE  IInv'
  <1>0. /\ pc[p] = "cas" /\ pos[p] = wPtr /\ wPtr' = wPtr + 1
        /\ pc' = [pc EXCEPT ![p] = "data"]
        /\ UNCHANGED <<sequence, data, rPtr, op, pos, arg, todo, syncs, res>>
    BY DEF CasWin, Goto
  <1>1. QueueTypes'
    BY <1>0 DEF IInv, QueueTypes
  <1>2. Putting(p) /\ ~Putting(p)' /\ ~Claimed(p) /\ Writing(p)' /\ pc'[p] = "data"
    BY <1>0 DEF Claimed, Putting, Writing, IInv, QueueTypes
  <1>3. \A r \in Procs \ {p} :
          /\ pc'[r] = pc[r] /\ (Putting(r)' <=> Putting(r))
          /\ (Writing(r)' <=> Writing(r)) /\ (Reading(r)' <=> Reading(r))
          /\ (Claimed(r)' <=> Claimed(r))
    BY <1>0 DEF Putting, Writing, Reading, Claimed, IInv, QueueTypes
  <1>4. /\ Base' = Base /\ dsize' = dsize /\ dsize \in Nat \ {0} /\ Base \in Nat
        /\ wPtr \in Nat /\ rPtr \in Nat /\ wPtr < Base + dsize
        /\ Base <= rPtr /\ rPtr <= wPtr
        /\ \A r \in Procs : Writing(r) => pos[r] < wPtr
        /\ \A r \in Procs : Reading(r) => pos[r] < wPtr
        /\ \A r \in Procs : Claimed(r) => Writing(r) \/ Reading(r)
    <2>1. Base' = Base /\ dsize' = dsize
      BY <1>0 DEF Base, dsize
    <2>2. wPtr < Base + dsize
      BY <1>2, WantedFinite DEF IInv
    <2> QED BY <2>1, <2>2, SizeIsNat, BaseIsNat
            DEF IInv, QueueTypes, PtrInv, ClaimInv, Claimed, Writing, Reading
  <1>5. PtrInv'
    BY <1>0, <1>4 DEF PtrInv
  <1>6. CountInv'
    <2>1. Wanted' = Wanted \ {arg[p]} /\ arg[p] \in Wanted
      <3>1. arg[p] \notin todo /\ \A r \in Procs \ {p} : Putting(r) => arg[r] # arg[p]
        BY <1>2 DEF IInv, CountInv
      <3> QED BY <1>0, <1>2, <1>3, <3>1 DEF Wanted
    <2>2. Cardinality(Wanted') = Cardinality(Wanted) - 1
      BY <2>1, WantedFinite, FS_RemoveElement DEF IInv
    <2>3. Cardinality(Wanted) = Base + dsize - wPtr
      BY DEF IInv, CountInv
    <2>4. Cardinality(Wanted') = Base + dsize - wPtr'
      BY <1>0, <1>4, <2>2, <2>3
    <2>5. \A r \in Procs : Putting(r)' => Putting(r) /\ pos[r] \in Nat
      BY <1>2, <1>3 DEF IInv, QueueTypes
    <2> QED BY <1>0, <1>4, <2>4, <2>5 DEF IInv, CountInv
  <1>7. ClaimInv'
    <2>1. \A r \in Procs : Writing(r)' => rPtr <= pos[r] /\ pos[r] < wPtr'
      BY <1>0, <1>3, <1>4 DEF IInv, ClaimInv, QueueTypes
    <2>2. \A r \in Procs : Reading(r)' => Reading(r)
      BY <1>2, <1>3 DEF Writing, Reading
    <2>3. \A r, s \in Procs : Claimed(r)' /\ Claimed(s)' /\ r # s => pos[r] # pos[s]
      <3>1. \A r \in Procs : Claimed(r)' => Claimed(r) \/ r = p
        BY <1>3
      <3>2. \A r \in Procs : Claimed(r) => pos[r] < wPtr /\ pos[r] \in Nat
        BY <1>4 DEF IInv, QueueTypes
      <3> QED BY <1>0, <1>4, <3>1, <3>2 DEF IInv, ClaimInv
    <2> QED BY <1>0, <1>4, <2>1, <2>2, <2>3 DEF IInv, ClaimInv
  <1>8. \A q : q # wPtr => (Written(q)' <=> Written(q)) /\ (Released(q)' <=> Released(q))
    BY <1>0, <1>2, <1>3 DEF Written, Released, Writing, Reading, Claimed
  <1>9. TakeInv'
    <2>1. \A r \in Procs : op[r] = "remove" => r # p
      BY <1>2 DEF Putting
    <2> QED BY <1>0, <1>3, <1>4, <1>8, <2>1 DEF IInv, TakeInv
  <1>10. SeqInv'
    <2> SUFFICES ASSUME NEW q \in wPtr + 1 - dsize .. wPtr
                 PROVE  sequence[q % dsize] = SeqOf(q)'
      BY <1>0, <1>4 DEF SeqInv
    <2>1. CASE q = wPtr
      <3>1. sequence[q % dsize] = wPtr
        BY <1>0, <1>2, <2>1, FreeCell DEF Cell
      <3>2. ~Written(q)'
        BY <1>0, <1>2, <2>1 DEF Written
      <3> QED BY <2>1, <3>1, <3>2 DEF SeqOf
    <2>2. CASE q # wPtr
      <3>1. q \in wPtr - dsize .. wPtr - 1
        BY <1>4, <2>2
      <3>2. SeqOf(q)' = SeqOf(q)
        BY <1>0, <1>4, <1>8, <2>2 DEF SeqOf
      <3> QED BY <3>1, <3>2 DEF IInv, SeqInv
    <2> QED BY <2>1, <2>2
  <1>11. DataInv'
    <2>1. \A r \in Procs : Writing(r)' => arg[r] \in Items
      BY <1>2, <1>3 DEF IInv, DataInv, CountInv
    <2>2. \A r \in Procs : Writing(r) /\ AtData(r) => (Writing(r) /\ AtData(r))'
      BY <1>0, <1>2, <1>3 DEF AtData
    <2>3. ASSUME NEW q \in Base .. wPtr
          PROVE  \/ data[q % dsize] \in Items
                 \/ \E r \in Procs : (Writing(r) /\ AtData(r))' /\ pos[r] = q
      <3>1. CASE q = wPtr
        BY <1>0, <1>2, <3>1 DEF AtData
      <3>2. CASE q # wPtr
        <4>1. q \in Base .. wPtr - 1
          BY <1>4, <3>2
        <4> QED BY <2>2, <4>1 DEF IInv, DataInv
      <3> QED BY <3>1, <3>2
    <2>4. \A r \in Procs : (Reading(r) /\ AtData(r))' <=> Reading(r) /\ AtData(r)
      BY <1>2, <1>3 DEF AtData, Writing, Reading, Claimed
    <2>5. wPtr' - 1 = wPtr
      BY <1>0, <1>4
    <2> QED BY <1>0, <1>4, <2>1, <2>3, <2>4, <2>5 DEF IInv, DataInv
  <1>12. InsertSucceeds'
    BY <1>0, <1>2, <1>3 DEF IInv, InsertSucceeds
  <1> QED BY <1>1, <1>5, <1>6, <1>7, <1>9, <1>10, <1>11, <1>12 DEF IInv

(* A position is claimed for reading: it was written before. *)
LEMMA ClaimToRead ==
  ASSUME IInv, NEW p \in Procs, CasWin(p), op[p] = "remove"
  PROVE  IInv'
  <1>0. /\ pc[p] = "cas" /\ pos[p] = rPtr /\ rPtr' = rPtr + 1
        /\ pc' = [pc EXCEPT ![p] = "data"]
        /\ res' = [q \in 0 .. rPtr |-> IF q = rPtr THEN NoItem ELSE res[q]]
        /\ UNCHANGED <<sequence, data, wPtr, op, pos, arg, todo, syncs>>
    BY DEF CasWin, Goto
  <1>1. QueueTypes'
    <2>1. res' \in [0 .. rPtr' - 1 -> Items \cup {NoItem}]
      <3>1. rPtr' - 1 = rPtr /\ rPtr \in Nat
        BY <1>0 DEF IInv, QueueTypes
      <3>2. \A q \in 0 .. rPtr : q # rPtr => q \in 0 .. rPtr - 1
        BY <3>1
      <3>3. \A q \in 0 .. rPtr : q # rPtr => res[q] \in Items \cup {NoItem}
        BY <3>2 DEF IInv, QueueTypes
      <3> QED BY <1>0, <3>1, <3>3
    <2> QED BY <1>0, <2>1 DEF IInv, QueueTypes
  <1>2. ~Putting(p) /\ ~Putting(p)' /\ ~Claimed(p) /\ Reading(p)' /\ pc'[p] = "data"
    BY <1>0 DEF Claimed, Putting, Reading, IInv, QueueTypes
  <1>3. \A r \in Procs \ {p} :
          /\ pc'[r] = pc[r] /\ (Putting(r)' <=> Putting(r))
          /\ (Writing(r)' <=> Writing(r)) /\ (Reading(r)' <=> Reading(r))
          /\ (Claimed(r)' <=> Claimed(r))
    BY <1>0 DEF Putting, Writing, Reading, Claimed, IInv, QueueTypes
  <1>4. /\ Base' = Base /\ dsize' = dsize /\ dsize \in Nat \ {0} /\ Base \in Nat
        /\ wPtr \in Nat /\ rPtr \in Nat /\ rPtr < wPtr /\ Written(rPtr)
        /\ Base <= rPtr
        /\ \A r \in Procs : pos[r] \in Nat
        /\ \A r \in Procs : Claimed(r) => Writing(r) \/ Reading(r)
    <2>1. Base' = Base /\ dsize' = dsize
      BY <1>0 DEF Base, dsize
    <2>2. rPtr < wPtr /\ Written(rPtr)
      BY <1>0 DEF IInv, TakeInv
    <2> QED BY <2>1, <2>2, SizeIsNat, BaseIsNat
            DEF IInv, QueueTypes, PtrInv, Claimed, Writing, Reading
  <1>5. PtrInv'
    BY <1>0, <1>4 DEF PtrInv
  <1>6. CountInv'
    BY <1>0, <1>1, <1>2, <1>3, CountStays
  <1>7. ClaimInv'
    <2>1. \A r \in Procs : Writing(r)' => rPtr' <= pos[r] /\ pos[r] < wPtr
      <3>1. \A r \in Procs : Writing(r)' => Writing(r)
        BY <1>2, <1>3 DEF Writing, Reading
      <3> QED BY <1>0, <1>4, <3>1 DEF IInv, ClaimInv, Written
    <2>2. \A r \in Procs : Reading(r)' => Base <= pos[r] /\ pos[r] < rPtr'
      BY <1>0, <1>3, <1>4 DEF IInv, ClaimInv
    <2>3. \A r, s \in Procs : Claimed(r)' /\ Claimed(s)' /\ r # s => pos[r] # pos[s]
      <3>1. \A r \in Procs : Claimed(r)' => Claimed(r) \/ r = p
        BY <1>3
      <3>2. \A r \in Procs : Claimed(r) => pos[r] # rPtr
        BY <1>4 DEF IInv, ClaimInv, Written
      <3> QED BY <1>0, <3>1, <3>2 DEF IInv, ClaimInv
    <2> QED BY <1>0, <1>4, <2>1, <2>2, <2>3 DEF ClaimInv
  <1>8. \A q : /\ Written(q)' <=> Written(q)
               /\ q # rPtr => (Released(q)' <=> Released(q))
    BY <1>0, <1>2, <1>3 DEF Written, Released, Writing, Reading, Claimed
  <1>9. TakeInv'
    <2>1. \A r \in Procs : op[r] = "remove" => pos[r] <= rPtr' /\ pos[r] # rPtr'
      BY <1>0, <1>4 DEF IInv, TakeInv
    <2> QED BY <1>0, <2>1 DEF TakeInv
  <1>10. SeqInv'
    <2> SUFFICES ASSUME NEW q \in wPtr - dsize .. wPtr - 1
                 PROVE  SeqOf(q)' = SeqOf(q)
      BY <1>0, <1>4 DEF IInv, SeqInv
    <2>1. CASE q = rPtr
      <3>1. ~Released(q)'
        BY <1>0, <1>2, <2>1 DEF Released
      <3> QED BY <1>0, <1>4, <1>8, <2>1, <3>1 DEF SeqOf
    <2>2. CASE q # rPtr
      BY <1>0, <1>4, <1>8, <2>2 DEF SeqOf
    <2> QED BY <2>1, <2>2
  <1>11. DataInv'
    <2>1. \A r \in Procs : (Writing(r) /\ AtData(r))' <=> Writing(r) /\ AtData(r)
      BY <1>2, <1>3 DEF AtData, Writing, Reading, Claimed
    <2>2. \A r \in Procs : Writing(r)' => Writing(r)
      BY <1>2, <1>3 DEF Writing, Reading
    <2>3. ASSUME NEW q \in 0 .. rPtr
          PROVE  res'[q] = NoItem
                 <=> \E r \in Procs : (Reading(r) /\ AtData(r))' /\ pos[r] = q
      <3>1. CASE q = rPtr
        BY <1>0, <1>2, <3>1 DEF AtData
      <3>2. CASE q # rPtr
        <4>1. q \in 0 .. rPtr - 1 /\ res'[q] = res[q]
          BY <1>0, <1>4, <3>2
        <4>2. \A r \in Procs : pos[r] = q =>
                ((Reading(r) /\ AtData(r))' <=> Reading(r) /\ AtData(r))
          BY <1>0, <1>3, <3>2 DEF AtData
        <4> QED BY <4>1, <4>2 DEF IInv, DataInv
      <3> QED BY <3>1, <3>2
    <2>4. rPtr' - 1 = rPtr
      BY <1>0, <1>4
    <2>5. \A t \in Procs : Writing(t)' => arg'[t] \in Items
      BY <1>0, <1>4, <2>2 DEF IInv, DataInv
    <2>6. \A q \in Base .. wPtr - 1 :
            \/ data[q % dsize] \in Items
            \/ \E t \in Procs : (Writing(t) /\ AtData(t))' /\ pos[t] = q
      BY <2>1 DEF IInv, DataInv
    <2> QED BY <1>0, <1>4, <2>3, <2>4, <2>5, <2>6 DEF DataInv
  <1>12. InsertSucceeds'
    BY <1>0, <1>2, <1>3 DEF IInv, InsertSucceeds
  <1> QED BY <1>1, <1>5, <1>6, <1>7, <1>9, <1>10, <1>11, <1>12 DEF IInv

(* What the steps of a thread that has a position leave alone: the claims, *)
(* the pointers and what is wanted.                                        *)
LEMMA ClaimsStay ==
  ASSUME IInv, QueueTypes', NEW p \in Procs, Claimed(p),
         \A r \in Procs \ {p} : pc'[r] = pc[r],
         pc'[p] \in {"data", "store", "idle"},
         UNCHANGED <<rPtr, wPtr, op, pos, arg, todo, syncs>>
  PROVE  PtrInv' /\ CountInv' /\ ClaimInv' /\ TakeInv' /\ InsertSucceeds'
  <1>1. \A r \in Procs : /\ Putting(r)' <=> Putting(r)
                         /\ Claimed(r)' => Claimed(r)
                         /\ Writing(r)' => Writing(r)
                         /\ Reading(r)' => Reading(r)
    BY DEF Putting, Claimed, Writing, Reading
  <1>2. Base' = Base /\ dsize' = dsize
    BY DEF Base, dsize
  <1>3. PtrInv'
    BY <1>2 DEF IInv, PtrInv
  <1>4. CountInv'
    BY <1>1, CountStays DEF IInv, CountInv
  <1>5. ClaimInv'
    BY <1>1, <1>2 DEF IInv, ClaimInv
  <1>6. TakeInv'
    <2>1. \A q : Written(q) => Written(q)'
      BY <1>1 DEF Written
    <2>2. \A r \in Procs : pc'[r] = "cas" => pc[r] = "cas"
      OBVIOUS
    <2> QED BY <2>1, <2>2 DEF IInv, TakeInv
  <1>7. InsertSucceeds'
    <2>1. \A r \in Procs : pc'[r] = "false" => pc[r] = "false"
      OBVIOUS
    <2> QED BY <2>1 DEF IInv, InsertSucceeds
  <1> QED BY <1>3, <1>4, <1>5, <1>6, <1>7

(* What the steps of a thread that has a position know. *)
LEMMA ThreadFacts ==
  ASSUME IInv, NEW p \in Procs
  PROVE  /\ dsize \in Nat \ {0} /\ Base \in Nat /\ wPtr \in Nat /\ rPtr \in Nat
         /\ Base <= rPtr /\ rPtr <= wPtr /\ wPtr <= Base + dsize
         /\ pos[p] \in Nat /\ Cell(p) \in Cells /\ op[p] \in {"insert", "remove"}
  <1>1. QueueTypes /\ PtrInv /\ CountInv
    BY DEF IInv
  <1>2. dsize \in Nat \ {0} /\ Base \in Nat /\ wPtr <= Base + dsize
    BY <1>1, SizeIsNat, BaseIsNat, WantedFinite
  <1>3. pos[p] \in Nat /\ op[p] \in {"insert", "remove"} /\ wPtr \in Nat /\ rPtr \in Nat
    BY <1>1 DEF QueueTypes
  <1>4. Cell(p) \in Cells
    <2>1. pos[p] \in Int
      BY <1>3
    <2> QED BY <2>1, CellOf DEF Cell
  <1> QED BY <1>1, <1>2, <1>3, <1>4 DEF PtrInv

(* A claimed cell is written or read. *)
LEMMA AccessStep ==
  ASSUME IInv, NEW p \in Procs, Access(p)
  PROVE  IInv'
  <1>0. /\ pc[p] = "data" /\ pc' = [pc EXCEPT ![p] = "store"]
        /\ UNCHANGED <<sequence, rPtr, wPtr, op, pos, arg, todo, syncs>>
    BY DEF Access, Goto
  <1>1. /\ dsize \in Nat \ {0} /\ Base \in Nat /\ wPtr \in Nat /\ rPtr \in Nat
        /\ Base <= rPtr /\ rPtr <= wPtr /\ wPtr <= Base + dsize
        /\ pos[p] \in Nat /\ Cell(p) \in Cells /\ op[p] \in {"insert", "remove"}
    BY ThreadFacts
  <1>2. /\ Base' = Base /\ dsize' = dsize /\ Claimed(p) /\ pc'[p] = "store"
        /\ \A r \in Procs \ {p} : pc'[r] = pc[r]
    BY <1>0 DEF Base, dsize, Claimed, IInv, QueueTypes
  <1>3. \A r \in Procs : /\ Claimed(r)' <=> Claimed(r)
                         /\ Writing(r)' <=> Writing(r)
                         /\ Reading(r)' <=> Reading(r)
                         /\ AtData(r)' <=> AtData(r) /\ r # p
    BY <1>0, <1>2 DEF Claimed, Writing, Reading, AtData
  <1>4. SeqInv'
    <2>1. \A q : (Written(q)' <=> Written(q)) /\ (Released(q)' <=> Released(q))
      BY <1>0, <1>3 DEF Written, Released
    <2> QED BY <1>0, <1>2, <2>1 DEF IInv, SeqInv, SeqOf
  <1>5. CASE op[p] = "insert"
    <2>1. data' = [data EXCEPT ![Cell(p)] = arg[p]] /\ res' = res
      BY <1>5 DEF Access
    <2>2. Writing(p) /\ ~Reading(p) /\ arg[p] \in Items /\ rPtr <= pos[p] /\ pos[p] < wPtr
      BY <1>2, <1>5 DEF IInv, DataInv, ClaimInv, Writing, Reading
    <2>3. QueueTypes'
      BY <1>0, <2>1, <2>2 DEF IInv, QueueTypes
    <2>4. DataInv'
      <3>1. \A r \in Procs : Writing(r)' => arg[r] \in Items
        BY <1>3 DEF IInv, DataInv
      <3>2. \A r \in Procs : (Reading(r) /\ AtData(r))' <=> Reading(r) /\ AtData(r)
        BY <1>3, <2>2
      <3>3. ASSUME NEW q \in Base .. wPtr - 1
            PROVE  \/ data'[q % dsize] \in Items
                   \/ \E r \in Procs : (Writing(r) /\ AtData(r))' /\ pos[r] = q
        <4>1. CASE q = pos[p]
          BY <1>1, <2>1, <2>2, <4>1 DEF IInv, QueueTypes, Cell
        <4>2. CASE q # pos[p]
          <5>1. q % dsize # Cell(p)
            <6>1. /\ q \in Int /\ pos[p] \in Int /\ q # pos[p]
                  /\ q - pos[p] < dsize /\ pos[p] - q < dsize
              BY <1>1, <2>2, <4>2
            <6> QED BY <1>1, <6>1, SameCell DEF Cell
          <5>2. data'[q % dsize] = data[q % dsize]
            BY <2>1, <5>1, CellOf DEF IInv, QueueTypes
          <5> QED BY <1>3, <4>2, <5>2 DEF IInv, DataInv
        <4> QED BY <4>1, <4>2
      <3> QED BY <1>0, <1>2, <2>1, <3>1, <3>2, <3>3 DEF IInv, DataInv
    <2> QED BY <1>0, <1>2, <1>4, <2>3, <2>4, ClaimsStay DEF IInv
  <1>6. CASE op[p] = "remove"
    <2>1. res' = [res EXCEPT ![pos[p]] = data[Cell(p)]] /\ data' = data
      BY <1>6 DEF Access
    <2>2. Reading(p) /\ ~Writing(p) /\ Base <= pos[p] /\ pos[p] < rPtr
      BY <1>2, <1>6 DEF IInv, ClaimInv, Writing, Reading
    <2>3. data[Cell(p)] \in Items
      <3>1. pos[p] \in Base .. wPtr - 1
        BY <1>1, <2>2
      <3>2. ~\E r \in Procs : Writing(r) /\ AtData(r) /\ pos[r] = pos[p]
        BY <1>2, <2>2 DEF IInv, ClaimInv, Writing
      <3> QED BY <3>1, <3>2 DEF IInv, DataInv, Cell
    <2>4. QueueTypes'
      BY <1>0, <2>1, <2>3 DEF IInv, QueueTypes
    <2>5. DataInv'
      <3>1. \A r \in Procs : Writing(r)' => arg[r] \in Items
        BY <1>3 DEF IInv, DataInv
      <3>2. \A r \in Procs : (Writing(r) /\ AtData(r))' <=> Writing(r) /\ AtData(r)
        BY <1>3, <2>2
      <3>3. ASSUME NEW q \in 0 .. rPtr - 1
            PROVE  res'[q] = NoItem
                   <=> \E r \in Procs : (Reading(r) /\ AtData(r))' /\ pos[r] = q
        <4>1. CASE q = pos[p]
          <5>1. res'[q] # NoItem
            BY <2>1, <2>3, <4>1, QueueAssumption DEF IInv, QueueTypes
          <5>2. ~\E r \in Procs : (Reading(r) /\ AtData(r))' /\ pos[r] = q
            BY <1>2, <1>3, <4>1 DEF IInv, ClaimInv, Reading
          <5> QED BY <5>1, <5>2
        <4>2. CASE q # pos[p]
          BY <1>3, <2>1, <4>2 DEF IInv, DataInv, QueueTypes
        <4> QED BY <4>1, <4>2
      <3> QED BY <1>0, <1>2, <2>1, <3>1, <3>2, <3>3 DEF IInv, DataInv
    <2> QED BY <1>0, <1>2, <1>4, <2>4, <2>5, ClaimsStay DEF IInv
  <1> QED BY <1>1, <1>5, <1>6

(* A cell is handed over. *)
LEMMA StoreStep ==
  ASSUME IInv, NEW p \in Procs, Store(p)
  PROVE  IInv'
  <1> DEFINE n == pos[p] + (IF op[p] = "insert" THEN 1 ELSE dsize)
  <1>0. /\ pc[p] = "store" /\ pc' = [pc EXCEPT ![p] = "idle"]
        /\ sequence' = [sequence EXCEPT ![Cell(p)] = n]
        /\ UNCHANGED <<data, rPtr, wPtr, op, pos, arg, todo, syncs, res>>
    BY DEF Store, Goto
  <1>1. /\ dsize \in Nat \ {0} /\ Base \in Nat /\ wPtr \in Nat /\ rPtr \in Nat
        /\ Base <= rPtr /\ rPtr <= wPtr /\ wPtr <= Base + dsize
        /\ pos[p] \in Nat /\ Cell(p) \in Cells /\ op[p] \in {"insert", "remove"}
    BY ThreadFacts
  <1>2. /\ Base' = Base /\ dsize' = dsize /\ Claimed(p) /\ pc'[p] = "idle"
        /\ ~Claimed(p)'
        /\ \A r \in Procs \ {p} : pc'[r] = pc[r]
    BY <1>0 DEF Base, dsize, Claimed, IInv, QueueTypes
  <1>3. \A r \in Procs : /\ Claimed(r)' <=> Claimed(r) /\ r # p
                         /\ Writing(r)' <=> Writing(r) /\ r # p
                         /\ Reading(r)' <=> Reading(r) /\ r # p
                         /\ AtData(r)' <=> AtData(r)
    BY <1>0, <1>2 DEF Claimed, Writing, Reading, AtData
  <1>4. QueueTypes'
    BY <1>0, <1>1 DEF IInv, QueueTypes
  <1>5. DataInv'
    <2>1. \A r \in Procs : AtData(r) => r # p
      BY <1>0 DEF AtData
    <2>2. \A r \in Procs : /\ (Writing(r) /\ AtData(r))' <=> Writing(r) /\ AtData(r)
                           /\ (Reading(r) /\ AtData(r))' <=> Reading(r) /\ AtData(r)
      BY <1>3, <2>1
    <2> QED BY <1>0, <1>2, <1>3, <2>2 DEF IInv, DataInv
  <1>6. \A q : q # pos[p] => (Written(q)' <=> Written(q)) /\ (Released(q)' <=> Released(q))
    BY <1>0, <1>3 DEF Written, Released
  <1>7. Base <= pos[p] /\ pos[p] < wPtr
    BY <1>1, <1>2 DEF IInv, ClaimInv, Writing, Reading
  <1>8. SeqInv'
    <2> SUFFICES ASSUME NEW q \in wPtr - dsize .. wPtr - 1
                 PROVE  sequence'[q % dsize] = SeqOf(q)'
      BY <1>0, <1>2 DEF SeqInv
    <2>1. CASE q = pos[p]
      <3>1. sequence'[q % dsize] = n
        BY <1>0, <1>1, <2>1 DEF Cell, IInv, QueueTypes
      <3>2. Written(q)' /\ Released(q)'
        BY <1>0, <1>2, <1>3, <2>1 DEF Written, Released, IInv, ClaimInv, Writing, Reading
      <3>3. rPtr <= q <=> op[p] = "insert"
        BY <1>1, <1>2, <2>1 DEF IInv, ClaimInv, Writing, Reading
      <3> QED BY <1>0, <1>1, <1>2, <2>1, <3>1, <3>2, <3>3 DEF SeqOf
    <2>2. CASE q # pos[p]
      <3>1. q % dsize # Cell(p)
        <4>1. /\ q \in Int /\ pos[p] \in Int /\ q # pos[p]
              /\ q - pos[p] < dsize /\ pos[p] - q < dsize
          BY <1>1, <1>7, <2>2
        <4> QED BY <1>1, <4>1, SameCell DEF Cell
      <3>2. sequence'[q % dsize] = sequence[q % dsize]
        BY <1>0, <1>1, <3>1, CellOf DEF IInv, QueueTypes
      <3>3. SeqOf(q)' = SeqOf(q)
        BY <1>0, <1>2, <1>6, <2>2 DEF SeqOf
      <3> QED BY <3>2, <3>3 DEF IInv, SeqInv
    <2> QED BY <2>1, <2>2
  <1> QED BY <1>0, <1>2, <1>4, <1>5, <1>8, ClaimsStay DEF IInv

(* The next sync finds everything taken, and wants everything again. *)
LEMMA NextSyncStep ==
  ASSUME IInv, NextSync
  PROVE  IInv'
  <1>0. /\ syncs < MaxSyncs /\ todo = {} /\ rPtr = wPtr
        /\ \A p \in Procs : pc[p] = "idle"
        /\ todo' = Items /\ syncs' = syncs + 1
        /\ UNCHANGED <<sequence, data, rPtr, wPtr, op, pc, pos, arg, res>>
    BY DEF NextSync
  <1>1. QueueTypes'
    BY <1>0, QueueAssumption DEF IInv, QueueTypes
  <1>2. \A p \in Procs : /\ ~Putting(p) /\ ~Claimed(p) /\ ~Writing(p) /\ ~Reading(p)
                         /\ ~Putting(p)' /\ ~Claimed(p)' /\ ~Writing(p)' /\ ~Reading(p)'
    BY <1>0 DEF Putting, Claimed, Writing, Reading
  <1>3. Wanted = {} /\ Wanted' = Items
    BY <1>0, <1>2 DEF Wanted
  <1>4. /\ dsize \in Nat \ {0} /\ Base \in Nat /\ wPtr \in Nat
        /\ dsize' = dsize /\ Base' = Base + dsize
    BY <1>0, SizeIsNat, BaseIsNat DEF IInv, QueueTypes, Base, dsize
  <1>5. wPtr = Base'
    BY <1>3, <1>4, FS_EmptySet DEF IInv, CountInv
  <1>6. PtrInv' /\ ClaimInv'
    BY <1>0, <1>2, <1>4, <1>5 DEF PtrInv, ClaimInv
  <1>7. CountInv'
    BY <1>0, <1>2, <1>3, <1>4, <1>5 DEF CountInv, dsize
  <1>8. TakeInv'
    BY <1>0 DEF IInv, TakeInv
  <1>9. SeqInv'
    BY <1>0, <1>4 DEF IInv, SeqInv, SeqOf, Written, Released, Writing, Reading, Claimed
  <1>10. DataInv'
    BY <1>0, <1>2, <1>4, <1>5 DEF IInv, DataInv
  <1>11. InsertSucceeds'
    BY <1>0 DEF InsertSucceeds
  <1> QED BY <1>1, <1>6, <1>7, <1>8, <1>9, <1>10, <1>11 DEF IInv

(* No step of a thread, and no new sync, breaks the ring. *)
LEMMA QueueNext == IInv /\ [Next]_vars => IInv'
  <1> SUFFICES ASSUME IInv, [Next]_vars PROVE IInv'
    OBVIOUS
  <1>1. ASSUME NEW p \in Procs, CasWin(p) PROVE IInv'
    <2>1. op[p] = "insert" \/ op[p] = "remove"
      BY <1>1 DEF IInv, QueueTypes
    <2> QED BY <1>1, <2>1, ClaimToWrite, ClaimToRead
  <1>2. CASE UNCHANGED vars
    BY <1>2 DEF vars, IInv, QueueTypes, PtrInv, CountInv, ClaimInv, TakeInv, SeqInv,
                DataInv, InsertSucceeds, Base, Wanted, dsize, SeqOf, Written, Released,
                Putting, Writing, Reading, Claimed, AtData, Cells
  <1> QED BY <1>1, <1>2, TryInsertStep, TryRemoveStep, LoadSequenceStep, ReloadStep,
             AccessStep, StoreStep, ReturnFalseStep, NextSyncStep
          DEF Next, Work

(* How far positions and numbers go. *)
Bounds ==
  /\ \A c \in Cells : sequence[c] \in 0 .. (MaxSyncs + 1) * dsize
  /\ \A p \in Procs : pos[p] <= wPtr

LEMMA InBounds ==
  ASSUME IInv
  PROVE  /\ dsize \in Nat \ {0} /\ wPtr \in Nat /\ rPtr \in Nat /\ rPtr <= wPtr
         /\ MaxSyncs * dsize \in Nat /\ wPtr <= MaxSyncs * dsize
         /\ (MaxSyncs + 1) * dsize = MaxSyncs * dsize + dsize
  <1>1. MaxSyncs * dsize \in Nat
    <2>1. \A m, n \in Nat : m * n \in Nat
      OBVIOUS
    <2> QED BY <2>1, SizeIsNat, QueueAssumption
  <1>2. /\ Base \in Nat /\ Base + dsize <= MaxSyncs * dsize
        /\ (MaxSyncs + 1) * dsize = MaxSyncs * dsize + dsize
        /\ wPtr <= Base + dsize
    BY BaseIsNat, WantedFinite DEF IInv
  <1> QED BY <1>1, <1>2, SizeIsNat DEF IInv, QueueTypes, PtrInv

LEMMA BoundsInit == Init => Bounds
  <1> SUFFICES ASSUME Init PROVE Bounds
    OBVIOUS
  <1>1. IInv
    BY QueueInit
  <1> QED BY <1>1, InBounds DEF Init, Bounds, Cells

LEMMA BoundsNext == IInv /\ Bounds /\ [Next]_vars => Bounds'
  <1> SUFFICES ASSUME IInv, Bounds, [Next]_vars PROVE Bounds'
    OBVIOUS
  <1>0. dsize' = dsize /\ Cells' = Cells /\ QueueTypes /\ rPtr <= wPtr /\ wPtr \in Nat
    BY DEF dsize, Cells, IInv, PtrInv, QueueTypes
  <1>1. ASSUME NEW p \in Procs, Store(p)
        PROVE  Bounds'
    <2> DEFINE n == pos[p] + (IF op[p] = "insert" THEN 1 ELSE dsize)
    <2>1. n \in 0 .. (MaxSyncs + 1) * dsize
      BY InBounds DEF IInv, QueueTypes, Bounds
    <2>2. sequence' = [sequence EXCEPT ![Cell(p)] = n] /\ UNCHANGED <<pos, wPtr>>
      BY <1>1 DEF Store
    <2> HIDE DEF n
    <2> QED BY <1>0, <2>1, <2>2 DEF Bounds, QueueTypes
  <1>2. CASE UNCHANGED sequence /\ wPtr' \in {wPtr, wPtr + 1}
             /\ \/ UNCHANGED pos
                \/ \E p \in Procs : pos' = [pos EXCEPT ![p] = wPtr]
                \/ \E p \in Procs : pos' = [pos EXCEPT ![p] = rPtr]
    <2>1. ASSUME NEW r \in Procs PROVE pos'[r] <= wPtr
      <3>1. pos[r] <= wPtr /\ pos \in [Procs -> Nat] /\ rPtr <= wPtr /\ wPtr \in Nat
        BY <1>0 DEF Bounds, QueueTypes
      <3>2. CASE UNCHANGED pos
        BY <3>1, <3>2
      <3>3. ASSUME NEW p \in Procs, \/ pos' = [pos EXCEPT ![p] = wPtr]
                                    \/ pos' = [pos EXCEPT ![p] = rPtr]
            PROVE  pos'[r] <= wPtr
        BY <3>1, <3>3
      <3> QED BY <1>2, <3>2, <3>3
    <2>2. QueueTypes'
      BY QueueNext DEF IInv
    <2> QED BY <1>0, <1>2, <2>1, <2>2 DEF Bounds, QueueTypes
  <1>3. ASSUME NEW p \in Procs, Work(p) \/ CasFail(p) \/ TryRemove(p), ~Store(p)
        PROVE  Bounds'
    BY <1>2, <1>3 DEF Work, LoadSequence, Reload, CasWin, CasFail, Access, ReturnFalse,
                      TryRemove
  <1>4. ASSUME NEW p \in Procs, NEW i \in Items, TryInsert(p, i) PROVE Bounds'
    BY <1>2, <1>4 DEF TryInsert
  <1>5. CASE NextSync \/ UNCHANGED vars
    BY <1>2, <1>5 DEF NextSync, vars
  <1> QED BY <1>1, <1>3, <1>4, <1>5 DEF Next, Work

LEMMA InvType == IInv /\ Bounds => TypeOK
  <1> SUFFICES ASSUME IInv, Bounds PROVE TypeOK
    OBVIOUS
  <1> QED BY InBounds DEF IInv, QueueTypes, Bounds, TypeOK, Positions

(* Positions, numbers and pointers stay in the ranges that the syncs give  *)
(* them, with any number of threads and cells (threadsafe.h:195-240).      *)
THEOREM TypeCorrect == Spec => []TypeOK
  BY QueueInit, QueueNext, BoundsInit, BoundsNext, InvType, PTL DEF Spec

(* The ring never turns a put away, which is what the callers of           *)
(* try_insert rely on that do not look at its answer                       *)
(* (rankSyncParallelSkip.cc:189, :239, :295, :333): there is a cell for    *)
(* every entry, and all cells are free when a sync begins.                 *)
THEOREM PutsSucceed == Spec => []InsertSucceeds
  <1>1. IInv => InsertSucceeds
    BY DEF IInv
  <1> QED BY QueueInit, QueueNext, <1>1, PTL DEF Spec

----------------------------------------------------------------------------
(* The ring implements the queue.  The abstract queue is made of the       *)
(* entries at the positions that were claimed for writing and not yet for  *)
(* reading; the steps change it only where a position is claimed.          *)
Queue == [k \in 1 .. wPtr - rPtr |-> At(rPtr + k - 1)]
Out == [k \in 1 .. rPtr |-> At(k - 1)]

Holding(p) == op[p] = "insert" /\ pc[p] = "data"

(* Where the entry of a position is: with its writer, with its reader, or  *)
(* in its cell.                                                            *)
AtIs ==
  \A q : /\ \A p \in Procs : Holding(p) /\ pos[p] = q => At(q) = arg[p]
         /\ (\A p \in Procs : Holding(p) => pos[p] # q) =>
              At(q) = IF q < rPtr /\ res[q] # NoItem THEN res[q] ELSE data[q % dsize]

LEMMA AtOne == IInv => AtIs
  <1> SUFFICES ASSUME IInv, NEW q
               PROVE  /\ \A p \in Procs : Holding(p) /\ pos[p] = q => At(q) = arg[p]
                      /\ (\A p \in Procs : Holding(p) => pos[p] # q) =>
                           At(q) = IF q < rPtr /\ res[q] # NoItem
                                   THEN res[q] ELSE data[q % dsize]
    BY DEF AtIs
  <1>1. ASSUME NEW p \in Procs, Holding(p), pos[p] = q
        PROVE  At(q) = arg[p]
    <2> DEFINE c == CHOOSE r \in Procs : op[r] = "insert" /\ pc[r] = "data" /\ pos[r] = q
    <2>1. c \in Procs /\ op[c] = "insert" /\ pc[c] = "data" /\ pos[c] = q
      BY <1>1 DEF Holding
    <2>2. At(q) = arg[c]
      BY <1>1 DEF At, Holding
    <2> HIDE DEF c
    <2>3. c = p
      BY <1>1, <2>1 DEF Holding, IInv, ClaimInv, Claimed
    <2> QED BY <2>2, <2>3
  <1>2. ASSUME \A p \in Procs : Holding(p) => pos[p] # q
        PROVE  At(q) = IF q < rPtr /\ res[q] # NoItem THEN res[q] ELSE data[q % dsize]
    <2>1. ~\E r \in Procs : op[r] = "insert" /\ pc[r] = "data" /\ pos[r] = q
      BY <1>2 DEF Holding
    <2> QED BY <2>1 DEF At
  <1> QED BY <1>1, <1>2

(* A step that touches no cell, no answer and no thread that is about to   *)
(* write leaves every entry at its position.                               *)
LEMMA AtStays ==
  ASSUME AtIs, AtIs', UNCHANGED <<data, res, rPtr>>,
         \A p \in Procs : /\ Holding(p)' <=> Holding(p)
                          /\ Holding(p) => pos'[p] = pos[p] /\ arg'[p] = arg[p],
         NEW q
  PROVE  At(q)' = At(q)
  <1>1. CASE \E p \in Procs : Holding(p) /\ pos[p] = q
    BY <1>1 DEF AtIs
  <1>2. CASE \A p \in Procs : Holding(p) => pos[p] # q
    <2>1. \A p \in Procs : Holding(p)' => pos'[p] # q
      BY <1>2
    <2> QED BY <1>2, <2>1 DEF AtIs, dsize
  <1> QED BY <1>1, <1>2

(* The write of a claimed cell moves the entry from the writer to the      *)
(* cell.  What was in the cell is of the lap before and has been read.     *)
LEMMA WriteStays ==
  ASSUME IInv, AtIs, AtIs', NEW p \in Procs, Access(p), op[p] = "insert",
         NEW q \in 0 .. wPtr - 1
  PROVE  At(q)' = At(q)
  <1>1. /\ pc[p] = "data" /\ pc' = [pc EXCEPT ![p] = "store"]
        /\ data' = [data EXCEPT ![Cell(p)] = arg[p]]
        /\ UNCHANGED <<sequence, rPtr, wPtr, op, pos, arg, todo, syncs, res>>
    BY DEF Access, Goto
  <1>2. Holding(p) /\ Writing(p) /\ Claimed(p)
    BY <1>1 DEF Holding, Writing, Claimed
  <1>3. \A r \in Procs : Holding(r)' <=> Holding(r) /\ r # p
    BY <1>1 DEF Holding, IInv, QueueTypes
  <1>4. \A r \in Procs : Holding(r) => Claimed(r)
    BY DEF Holding, Claimed
  <1>5. /\ dsize \in Nat \ {0} /\ Base \in Nat /\ wPtr \in Nat /\ rPtr \in Nat
        /\ Base <= rPtr /\ wPtr <= Base + dsize
        /\ pos[p] \in Nat /\ Cell(p) \in Cells /\ rPtr <= pos[p] /\ pos[p] < wPtr
    BY <1>2, ThreadFacts DEF IInv, ClaimInv
  <1>6. CASE q = pos[p]
    <2>1. \A r \in Procs : Holding(r)' => pos'[r] # q
      BY <1>1, <1>2, <1>3, <1>4, <1>6 DEF IInv, ClaimInv
    <2>2. At(q)' = data'[q % dsize]
      <3>1. ~(q < rPtr')
        BY <1>1, <1>5, <1>6
      <3> QED BY <2>1, <3>1 DEF AtIs, dsize
    <2>3. data'[q % dsize] = arg[p]
      BY <1>1, <1>5, <1>6 DEF Cell, IInv, QueueTypes
    <2> QED BY <1>2, <1>6, <2>2, <2>3 DEF AtIs
  <1>7. CASE q # pos[p]
    <2>1. CASE \E r \in Procs : Holding(r) /\ pos[r] = q
      BY <1>1, <1>3, <1>7, <2>1 DEF AtIs
    <2>2. CASE \A r \in Procs : Holding(r) => pos[r] # q
      <3>1. \A r \in Procs : Holding(r)' => pos'[r] # q
        BY <1>1, <1>3, <2>2
      <3>2. /\ At(q) = IF q < rPtr /\ res[q] # NoItem THEN res[q] ELSE data[q % dsize]
            /\ At(q)' = IF q < rPtr /\ res[q] # NoItem THEN res[q] ELSE data'[q % dsize]
        BY <1>1, <2>2, <3>1 DEF AtIs, dsize
      <3>3. CASE q < rPtr /\ res[q] # NoItem
        BY <3>2, <3>3
      <3>4. CASE ~(q < rPtr /\ res[q] # NoItem)
        <4>1. Base <= q
          <5>1. CASE rPtr <= q
            BY <1>5, <5>1
          <5>2. CASE q < rPtr
            <6>1. q \in 0 .. rPtr - 1 /\ res[q] = NoItem
              BY <1>5, <3>4, <5>2
            <6> QED BY <6>1 DEF IInv, DataInv, ClaimInv
          <5> QED BY <1>5, <5>1, <5>2
        <4>2. q % dsize # Cell(p)
          <5>1. /\ q \in Int /\ pos[p] \in Int
                /\ q - pos[p] < dsize /\ pos[p] - q < dsize
            BY <1>5, <4>1
          <5> QED BY <1>5, <1>7, <5>1, SameCell DEF Cell
        <4>3. data'[q % dsize] = data[q % dsize]
          BY <1>1, <4>2, CellOf DEF IInv, QueueTypes
        <4> QED BY <3>2, <4>3
      <3> QED BY <3>3, <3>4
    <2> QED BY <2>1, <2>2
  <1> QED BY <1>6, <1>7

(* The read of a claimed cell finds the entry of its position there. *)
LEMMA ReadStays ==
  ASSUME IInv, AtIs, AtIs', NEW p \in Procs, Access(p), op[p] = "remove",
         NEW q \in 0 .. wPtr - 1
  PROVE  At(q)' = At(q)
  <1>1. /\ pc[p] = "data" /\ pc' = [pc EXCEPT ![p] = "store"]
        /\ res' = [res EXCEPT ![pos[p]] = data[Cell(p)]]
        /\ UNCHANGED <<sequence, data, rPtr, wPtr, op, pos, arg, todo, syncs>>
    BY DEF Access, Goto
  <1>2. Reading(p) /\ AtData(p) /\ Claimed(p) /\ ~Holding(p)
    BY <1>1 DEF Holding, Reading, Claimed, AtData
  <1>3. \A r \in Procs : (Holding(r)' <=> Holding(r)) /\ (Holding(r) => Claimed(r) /\ r # p)
    BY <1>1, <1>2 DEF Holding, Claimed, IInv, QueueTypes
  <1>4. rPtr \in Nat /\ pos[p] \in Nat /\ pos[p] < rPtr /\ res \in [0 .. rPtr - 1 -> Items \cup {NoItem}]
    BY <1>2 DEF IInv, ClaimInv, QueueTypes
  <1>5. CASE \E r \in Procs : Holding(r) /\ pos[r] = q
    BY <1>1, <1>3, <1>5 DEF AtIs
  <1>6. CASE \A r \in Procs : Holding(r) => pos[r] # q
    <2>1. \A r \in Procs : Holding(r)' => pos'[r] # q
      BY <1>1, <1>3, <1>6
    <2>2. /\ At(q) = IF q < rPtr /\ res[q] # NoItem THEN res[q] ELSE data[q % dsize]
          /\ At(q)' = IF q < rPtr /\ res'[q] # NoItem THEN res'[q] ELSE data[q % dsize]
      BY <1>1, <1>6, <2>1 DEF AtIs, dsize
    <2>3. CASE q = pos[p]
      <3>1. q \in 0 .. rPtr - 1
        BY <1>4, <2>3
      <3>2. res[q] = NoItem
        BY <1>2, <2>3, <3>1 DEF IInv, DataInv
      <3>3. res'[q] = data[q % dsize]
        BY <1>1, <1>4, <2>3, <3>1 DEF Cell
      <3> QED BY <2>2, <3>2, <3>3
    <2>4. CASE q # pos[p]
      <3>1. q < rPtr => res'[q] = res[q]
        BY <1>1, <1>4, <2>4
      <3> QED BY <2>2, <3>1
    <2> QED BY <2>3, <2>4
  <1> QED BY <1>5, <1>6

(* A claim adds the entry of the writer behind the others, ... *)
LEMMA ClaimAdds ==
  ASSUME IInv, AtIs, AtIs', NEW p \in Procs, CasWin(p), op[p] = "insert"
  PROVE  /\ wPtr' = wPtr + 1 /\ rPtr' = rPtr /\ arg[p] \in Items
         /\ \A q : q = wPtr => At(q)' = arg[p]
         /\ \A q \in 0 .. wPtr - 1 : At(q)' = At(q)
  <1>1. /\ pc[p] = "cas" /\ pos[p] = wPtr /\ wPtr' = wPtr + 1
        /\ pc' = [pc EXCEPT ![p] = "data"]
        /\ UNCHANGED <<sequence, data, rPtr, op, pos, arg, todo, syncs, res>>
    BY DEF CasWin, Goto
  <1>2. Putting(p) /\ arg[p] \in Items
    BY <1>1 DEF Putting, IInv, CountInv
  <1>3. \A r \in Procs : Holding(r)' <=> Holding(r) \/ r = p
    BY <1>1 DEF Holding, IInv, QueueTypes
  <1>4. ASSUME NEW q \in 0 .. wPtr - 1
        PROVE  At(q)' = At(q)
    <2>1. q # wPtr
      BY DEF IInv, QueueTypes
    <2>2. CASE \E r \in Procs : Holding(r) /\ pos[r] = q
      BY <1>1, <1>3, <2>2 DEF AtIs
    <2>3. CASE \A r \in Procs : Holding(r) => pos[r] # q
      <3>1. \A r \in Procs : Holding(r)' => pos'[r] # q
        BY <1>1, <1>3, <2>1, <2>3
      <3> QED BY <1>1, <2>3, <3>1 DEF AtIs, dsize
    <2> QED BY <2>2, <2>3
  <1>5. ASSUME NEW q, q = wPtr
        PROVE  At(q)' = arg[p]
    BY <1>1, <1>3, <1>5 DEF AtIs
  <1> QED BY <1>1, <1>2, <1>4, <1>5

(* ... or takes the one at the front, wherever its reader will find it. *)
LEMMA ClaimTakes ==
  ASSUME IInv, AtIs, AtIs', NEW p \in Procs, CasWin(p), op[p] = "remove"
  PROVE  /\ rPtr < wPtr /\ rPtr' = rPtr + 1 /\ wPtr' = wPtr
         /\ \A q \in 0 .. wPtr - 1 : At(q)' = At(q)
  <1>1. /\ pc[p] = "cas" /\ pos[p] = rPtr /\ rPtr' = rPtr + 1
        /\ pc' = [pc EXCEPT ![p] = "data"]
        /\ res' = [q \in 0 .. rPtr |-> IF q = rPtr THEN NoItem ELSE res[q]]
        /\ UNCHANGED <<sequence, data, wPtr, op, pos, arg, todo, syncs>>
    BY DEF CasWin, Goto
  <1>2. rPtr < wPtr /\ Written(rPtr) /\ rPtr \in Nat /\ wPtr \in Nat
    BY <1>1 DEF IInv, TakeInv, QueueTypes
  <1>3. \A r \in Procs : /\ Holding(r)' <=> Holding(r)
                         /\ Holding(r) => pos[r] # rPtr
    BY <1>1, <1>2 DEF Holding, Written, Writing, Claimed, IInv, QueueTypes
  <1>4. ASSUME NEW q \in 0 .. wPtr - 1
        PROVE  At(q)' = At(q)
    <2>1. CASE \E r \in Procs : Holding(r) /\ pos[r] = q
      <3>1. PICK r \in Procs : Holding(r) /\ pos[r] = q
        BY <2>1
      <3>2. Holding(r)' /\ pos'[r] = q /\ arg'[r] = arg[r]
        BY <1>1, <1>3, <3>1
      <3>3. At(q) = arg[r]
        BY <3>1 DEF AtIs
      <3>4. At(q)' = arg'[r]
        BY <3>2 DEF AtIs
      <3> QED BY <3>2, <3>3, <3>4
    <2>2. CASE \A r \in Procs : Holding(r) => pos[r] # q
      <3>1. \A r \in Procs : Holding(r)' => pos'[r] # q
        BY <1>1, <1>3, <2>2
      <3>2. /\ At(q) = IF q < rPtr /\ res[q] # NoItem THEN res[q] ELSE data[q % dsize]
            /\ At(q)' = IF q < rPtr + 1 /\ res'[q] # NoItem THEN res'[q] ELSE data[q % dsize]
        BY <1>1, <2>2, <3>1 DEF AtIs, dsize
      <3>3. CASE q < rPtr
        BY <1>1, <1>2, <3>2, <3>3
      <3>4. CASE q = rPtr
        BY <1>1, <1>2, <3>2, <3>4
      <3>5. CASE q > rPtr
        BY <1>2, <3>2, <3>5
      <3> QED BY <1>2, <3>3, <3>4, <3>5
    <2> QED BY <2>1, <2>2
  <1> QED BY <1>1, <1>2, <1>4

(* All other steps are stutters of the queue. *)
LEMMA OthersStutter ==
  ASSUME IInv, IInv', AtIs, AtIs', [Next]_vars, \A p \in Procs : ~CasWin(p)
  PROVE  /\ rPtr' = rPtr /\ wPtr' = wPtr
         /\ \A q \in 0 .. wPtr - 1 : At(q)' = At(q)
  <1> DEFINE Same == /\ rPtr' = rPtr /\ wPtr' = wPtr
                     /\ \A q \in 0 .. wPtr - 1 : At(q)' = At(q)
  <1>1. ASSUME NEW p \in Procs, Access(p) PROVE Same
    <2>1. op[p] \in {"insert", "remove"} /\ UNCHANGED <<rPtr, wPtr>>
      BY <1>1 DEF Access, IInv, QueueTypes
    <2> QED BY <1>1, <2>1, WriteStays, ReadStays
  <1>2. CASE /\ UNCHANGED <<data, res, rPtr, wPtr>>
             /\ \A p \in Procs : /\ Holding(p)' <=> Holding(p)
                                 /\ Holding(p) => pos'[p] = pos[p] /\ arg'[p] = arg[p]
    BY <1>2, AtStays
  <1>3. ASSUME NEW p \in Procs,
               LoadSequence(p) \/ Reload(p) \/ CasFail(p) \/ Store(p) \/ ReturnFalse(p)
        PROVE  Same
    <2>1. /\ UNCHANGED <<data, res, rPtr, wPtr, op, arg>>
          /\ pc[p] # "data" /\ pc'[p] # "data" /\ \A r \in Procs \ {p} : pc'[r] = pc[r]
          /\ \A r \in Procs \ {p} : pos'[r] = pos[r]
      BY <1>3 DEF LoadSequence, Reload, CasFail, Store, ReturnFalse, Goto, IInv, QueueTypes
    <2> QED BY <1>2, <2>1 DEF Holding
  <1>4. ASSUME NEW p \in Procs, TryRemove(p) \/ \E i \in Items : TryInsert(p, i)
        PROVE  Same
    <2>1. /\ UNCHANGED <<data, res, rPtr, wPtr>>
          /\ pc[p] # "data" /\ pc'[p] # "data"
          /\ \A r \in Procs \ {p} : /\ pc'[r] = pc[r] /\ op'[r] = op[r]
                                    /\ pos'[r] = pos[r] /\ arg'[r] = arg[r]
      BY <1>4 DEF TryInsert, TryRemove, Goto, IInv, QueueTypes
    <2> QED BY <1>2, <2>1 DEF Holding
  <1>5. CASE NextSync \/ UNCHANGED vars
    BY <1>2, <1>5 DEF NextSync, vars, Holding
  <1> QED BY <1>1, <1>3, <1>4, <1>5 DEF Next, Work

(* Sequences written as functions. *)
LEMMA FunctionIsSeq ==
  ASSUME NEW S, NEW n \in Nat, NEW f \in [1 .. n -> S]
  PROVE  f \in Seq(S) /\ Len(f) = n
  <1>1. f \in Seq(S)
    BY SeqDef
  <1>2. DOMAIN f = 1 .. Len(f) /\ Len(f) \in Nat
    BY <1>1, LenProperties
  <1>3. 1 .. n = 1 .. Len(f)
    BY <1>2
  <1> QED BY <1>1, <1>2, <1>3

LEMMA AppendIs ==
  ASSUME NEW S, NEW n \in Nat, NEW f \in [1 .. n -> S], NEW e \in S
  PROVE  Append(f, e) = [k \in 1 .. n + 1 |-> IF k = n + 1 THEN e ELSE f[k]]
  <1>1. f \in Seq(S) /\ Len(f) = n
    BY FunctionIsSeq
  <1>2. /\ Append(f, e) \in Seq(S) /\ Len(Append(f, e)) = n + 1
        /\ \A k \in 1 .. n : Append(f, e)[k] = f[k]
        /\ Append(f, e)[n + 1] = e
    BY <1>1, AppendProperties
  <1>3. Append(f, e) \in [1 .. n + 1 -> S]
    BY <1>2, LenProperties
  <1>4. \A k \in 1 .. n + 1 : Append(f, e)[k] = IF k = n + 1 THEN e ELSE f[k]
    BY <1>2
  <1> QED BY <1>3, <1>4

LEMMA TailIs ==
  ASSUME NEW S, NEW n \in Nat \ {0}, NEW f \in [1 .. n -> S]
  PROVE  /\ Head(f) = f[1] /\ f # <<>>
         /\ Tail(f) \in [1 .. n - 1 -> S]
         /\ \A k \in 1 .. n - 1 : Tail(f)[k] = f[k + 1]
  <1>1. f \in Seq(S) /\ Len(f) = n
    BY FunctionIsSeq
  <1>2. f # <<>>
    BY <1>1, EmptySeq
  <1>3. /\ Tail(f) \in Seq(S) /\ Len(Tail(f)) = n - 1
        /\ \A k \in 1 .. n - 1 : Tail(f)[k] = f[k + 1]
    BY <1>1, <1>2, HeadTailProperties
  <1>4. Tail(f) \in [1 .. n - 1 -> S]
    BY <1>3, LenProperties
  <1>5. Head(f) = f[1]
    BY <1>1, <1>2
  <1> QED BY <1>2, <1>3, <1>4, <1>5

(* The steps of the queue. *)
LEMMA AbstractInsert ==
  ASSUME QueueTypes, PtrInv, NEW i \in Items,
         wPtr' = wPtr + 1, rPtr' = rPtr,
         \A q : q = wPtr => At(q)' = i,
         \A q \in 0 .. wPtr - 1 : At(q)' = At(q)
  PROVE  Queue' = Append(Queue, i) /\ Out' = Out
  <1> DEFINE n == wPtr - rPtr
             S == {Queue[k] : k \in 1 .. n} \cup {i}
  <1>1. rPtr \in Nat /\ wPtr \in Nat /\ rPtr <= wPtr /\ n \in Nat
    BY BaseIsNat DEF QueueTypes, PtrInv
  <1>2. Queue \in [1 .. n -> S] /\ \A k \in 1 .. n : Queue[k] = At(rPtr + k - 1)
    BY DEF Queue
  <1>3. Append(Queue, i) = [k \in 1 .. n + 1 |-> IF k = n + 1 THEN i ELSE Queue[k]]
    <2> HIDE DEF S, n
    <2>1. i \in S
      BY DEF S
    <2> QED BY <1>1, <1>2, <2>1, AppendIs
  <1>4. ASSUME NEW k \in 1 .. n + 1
        PROVE  At(rPtr + k - 1)' = IF k = n + 1 THEN i ELSE Queue[k]
    <2> DEFINE q == rPtr + k - 1
    <2>1. CASE k = n + 1
      <3>1. q = wPtr /\ q' = q
        BY <1>1, <2>1
      <3> QED BY <2>1, <3>1
    <2>2. CASE k # n + 1
      <3>1. k \in 1 .. n /\ q \in 0 .. wPtr - 1 /\ q' = q
        BY <1>1, <2>2
      <3> QED BY <1>2, <2>2, <3>1
    <2> QED BY <2>1, <2>2
  <1>5. Queue' = [k \in 1 .. n + 1 |-> At(rPtr + k - 1)']
    <2>1. wPtr' - rPtr' = n + 1
      BY <1>1
    <2> QED BY <2>1 DEF Queue
  <1>6. Out' = Out
    <2>1. \A k \in 1 .. rPtr : k - 1 \in 0 .. wPtr - 1
      BY <1>1
    <2> QED BY <2>1 DEF Out
  <1> QED BY <1>3, <1>4, <1>5, <1>6

LEMMA AbstractRemove ==
  ASSUME QueueTypes, PtrInv, rPtr < wPtr,
         wPtr' = wPtr, rPtr' = rPtr + 1,
         \A q \in 0 .. wPtr - 1 : At(q)' = At(q)
  PROVE  Queue # <<>> /\ Queue' = Tail(Queue) /\ Out' = Append(Out, Head(Queue))
  <1> DEFINE n == wPtr - rPtr
             S == {At(q) : q \in 0 .. wPtr}
  <1>1. rPtr \in Nat /\ wPtr \in Nat /\ n \in Nat \ {0} /\ n - 1 = wPtr' - rPtr'
    BY BaseIsNat DEF QueueTypes, PtrInv
  <1>2. /\ Queue \in [1 .. n -> S]
        /\ \A k \in 1 .. n : Queue[k] = At(rPtr + k - 1)
    BY <1>1 DEF Queue
  <1>3. /\ Head(Queue) = Queue[1] /\ Queue # <<>>
        /\ Tail(Queue) \in [1 .. n - 1 -> S]
        /\ \A k \in 1 .. n - 1 : Tail(Queue)[k] = Queue[k + 1]
    <2> HIDE DEF S, n
    <2> QED BY <1>1, <1>2, TailIs
  <1>4. Queue' = Tail(Queue)
    <2>1. ASSUME NEW k \in 1 .. n - 1
          PROVE  At(rPtr + k - 1)' = Queue[k + 1]
      <3>1. /\ (rPtr + k - 1)' = rPtr + k /\ rPtr + k \in 0 .. wPtr - 1
            /\ k + 1 \in 1 .. n /\ rPtr + (k + 1) - 1 = rPtr + k
        BY <1>1
      <3> DEFINE q == rPtr + k
      <3>2. At(rPtr + k - 1)' = At(q)
        BY <3>1
      <3>3. Queue[k + 1] = At(q)
        BY <1>2, <3>1
      <3> QED BY <3>2, <3>3
    <2>2. Queue' = [k \in 1 .. n - 1 |-> At(rPtr + k - 1)']
      BY <1>1 DEF Queue
    <2> QED BY <1>3, <2>1, <2>2
  <1>5. Out \in [1 .. rPtr -> S] /\ \A k \in 1 .. rPtr : Out[k] = At(k - 1)
    BY <1>1 DEF Out
  <1>6. Head(Queue) = At(rPtr) /\ At(rPtr) \in S
    <2>1. 1 \in 1 .. n /\ rPtr + 1 - 1 = rPtr /\ rPtr \in 0 .. wPtr
      BY <1>1
    <2> QED BY <1>2, <1>3, <2>1
  <1>7. Append(Out, Head(Queue)) =
          [k \in 1 .. rPtr + 1 |-> IF k = rPtr + 1 THEN At(rPtr) ELSE Out[k]]
    <2> HIDE DEF S
    <2> QED BY <1>1, <1>5, <1>6, AppendIs
  <1>8. Out' = Append(Out, Head(Queue))
    <2>1. ASSUME NEW k \in 1 .. rPtr + 1
          PROVE  At(k - 1)' = IF k = rPtr + 1 THEN At(rPtr) ELSE Out[k]
      <3> DEFINE q == k - 1
      <3>1. q \in 0 .. wPtr - 1 /\ (k = rPtr + 1 => q = rPtr)
            /\ (k # rPtr + 1 => k \in 1 .. rPtr)
        BY <1>1
      <3>2. At(q)' = At(q)
        BY <3>1
      <3>3. CASE k = rPtr + 1
        BY <3>1, <3>2, <3>3
      <3>4. CASE k # rPtr + 1
        BY <1>5, <3>1, <3>2, <3>4
      <3> QED BY <3>3, <3>4
    <2>2. Out' = [k \in 1 .. rPtr + 1 |-> At(k - 1)']
      BY DEF Out
    <2> QED BY <1>7, <2>1, <2>2
  <1> QED BY <1>3, <1>4, <1>8

LEMMA AbstractInit == Init => Queue = <<>> /\ Out = <<>>
  <1> SUFFICES ASSUME Init PROVE Queue = <<>> /\ Out = <<>>
    OBVIOUS
  <1>1. Queue \in [1 .. 0 -> {}] /\ Out \in [1 .. 0 -> {}]
    BY DEF Init, Queue, Out
  <1>2. /\ Queue \in Seq({}) /\ Len(Queue) = 0
        /\ Out \in Seq({}) /\ Len(Out) = 0
    BY <1>1, FunctionIsSeq
  <1> QED BY <1>2, EmptySeq

(* Every step of the ring is a step of the queue, or none. *)
LEMMA AbstractNext ==
  IInv /\ IInv' /\ AtIs /\ AtIs' /\ [Next]_vars
    => \/ \E i \in Items : Queue' = Append(Queue, i) /\ Out' = Out
       \/ Queue # <<>> /\ Queue' = Tail(Queue) /\ Out' = Append(Out, Head(Queue))
       \/ Queue' = Queue /\ Out' = Out
  <1> SUFFICES ASSUME IInv, IInv', AtIs, AtIs', [Next]_vars
               PROVE  \/ \E i \in Items : Queue' = Append(Queue, i) /\ Out' = Out
                      \/ /\ Queue # <<>> /\ Queue' = Tail(Queue)
                         /\ Out' = Append(Out, Head(Queue))
                      \/ Queue' = Queue /\ Out' = Out
    OBVIOUS
  <1>0. QueueTypes /\ PtrInv
    BY DEF IInv
  <1>1. ASSUME NEW p \in Procs, CasWin(p), op[p] = "insert"
        PROVE  \E i \in Items : Queue' = Append(Queue, i) /\ Out' = Out
    BY <1>0, <1>1, ClaimAdds, AbstractInsert
  <1>2. ASSUME NEW p \in Procs, CasWin(p), op[p] = "remove"
        PROVE  Queue # <<>> /\ Queue' = Tail(Queue) /\ Out' = Append(Out, Head(Queue))
    BY <1>0, <1>2, ClaimTakes, AbstractRemove
  <1>3. CASE \A p \in Procs : ~CasWin(p)
    <2>1. /\ rPtr' = rPtr /\ wPtr' = wPtr
          /\ \A q \in 0 .. wPtr - 1 : At(q)' = At(q)
      BY <1>3, OthersStutter
    <2>2. rPtr \in Nat /\ wPtr \in Nat /\ rPtr <= wPtr
      BY <1>0, BaseIsNat DEF QueueTypes, PtrInv
    <2>3. Queue' = Queue
      <3>1. Queue' = [k \in 1 .. wPtr - rPtr |-> At(rPtr + k - 1)']
        BY <2>1 DEF Queue
      <3>2. ASSUME NEW k \in 1 .. wPtr - rPtr
            PROVE  At(rPtr + k - 1)' = At(rPtr + k - 1)
        <4> DEFINE q == rPtr + k - 1
        <4>1. q \in 0 .. wPtr - 1 /\ q' = q
          BY <2>1, <2>2
        <4> QED BY <2>1, <4>1
      <3> QED BY <3>1, <3>2 DEF Queue
    <2>4. Out' = Out
      <3>1. \A k \in 1 .. rPtr : k - 1 \in 0 .. wPtr - 1
        BY <2>2
      <3> QED BY <2>1, <3>1 DEF Out
    <2> QED BY <2>3, <2>4
  <1>4. \A p \in Procs : op[p] \in {"insert", "remove"}
    BY <1>0 DEF QueueTypes
  <1> QED BY <1>1, <1>2, <1>3, <1>4

(* Entries come out in the order in which their positions were claimed,    *)
(* none twice and none overwritten before its reader has it, however slow  *)
(* a writer or a reader is and however often the ring goes round           *)
(* (threadsafe.h:195-240).                                                 *)
THEOREM RingIsFifo == Spec => FifoRefined
  <1>1. Init => Abs!Init
    BY AbstractInit DEF Abs!Init, Queue, Out
  <1>2. IInv /\ IInv' /\ AtIs /\ AtIs' /\ [Next]_vars
          => [Abs!Next]_<<Queue, Out>>
    BY AbstractNext DEF Abs!Next, Abs!Insert, Abs!Remove, Queue, Out
  <1> QED BY QueueInit, QueueNext, AtOne, <1>1, <1>2, PTL
          DEF Spec, FifoRefined, Abs!Spec, Queue, Out
=============================================================================
