---------------------------- MODULE BoundedQueue ----------------------------
(***************************************************************************)
(* ThreadSafe::BoundedQueue (threadsafe.h): a ring of cells with sequence  *)
(* numbers and two positions that threads claim by compare-and-swap.  One  *)
(* step is one access to memory other threads see.                         *)
(*                                                                         *)
(* It is used the way the rank sync uses its work queues                   *)
(* (rankSyncParallelSkip.cc): there is a cell for every entry of the       *)
(* communication map, each entry goes in once per sync, any thread may put *)
(* it in or take it out, and barriers separate the syncs.                  *)
(***************************************************************************)
EXTENDS Integers, Sequences, FiniteSets

CONSTANTS Procs,            \* threads of the rank
          Items,            \* entries of the communication map
          NoItem,           \* what a cell holds before its first entry
          MaxSyncs          \* bound: syncs that are looked at

ASSUME QueueAssumption ==
  Items # {} /\ IsFiniteSet(Items) /\ NoItem \notin Items /\ MaxSyncs \in Nat \ {0}

VARIABLES sequence,         \* of a cell
          data,             \* of a cell
          rPtr, wPtr,       \* next position to read, to write
          op,               \* what a thread is in: insert or remove
          pc,               \* how far it is
          pos,              \* its local pos
          arg,              \* its argument
          todo,             \* entries still to be put in during this sync
          syncs,            \* syncs begun
          res               \* history: what the reader of a position got

vars == <<sequence, data, rPtr, wPtr, op, pc, pos, arg, todo, syncs, res>>

dsize == Cardinality(Items)
Cells == 0 .. dsize - 1
Positions == 0 .. MaxSyncs * dsize
Cell(p) == pos[p] % dsize

TypeOK ==
  /\ sequence \in [Cells -> 0 .. (MaxSyncs + 1) * dsize]
  /\ data \in [Cells -> Items \cup {NoItem}]
  /\ rPtr \in Positions /\ wPtr \in Positions
  /\ op \in [Procs -> {"insert", "remove"}]
  /\ pc \in [Procs -> {"idle", "seq", "load", "cas", "data", "store", "false"}]
  /\ pos \in [Procs -> Positions]
  /\ arg \in [Procs -> Items \cup {NoItem}]
  /\ todo \subseteq Items /\ syncs \in 1 .. MaxSyncs
  /\ res \in [0 .. rPtr - 1 -> Items \cup {NoItem}]

(* initialize(dsize), and the first sync begins. *)
Init ==
  /\ sequence = [c \in Cells |-> c]
  /\ data = [c \in Cells |-> NoItem]
  /\ rPtr = 0 /\ wPtr = 0
  /\ op = [p \in Procs |-> "insert"]
  /\ pc = [p \in Procs |-> "idle"]
  /\ pos = [p \in Procs |-> 0]
  /\ arg = [p \in Procs |-> NoItem]
  /\ todo = Items /\ syncs = 1
  /\ res = <<>>

Goto(p, l) == pc' = [pc EXCEPT ![p] = l]

(* try_insert(i), try_remove(res): pos is loaded. *)
TryInsert(p, i) ==
  /\ pc[p] = "idle" /\ i \in todo
  /\ todo' = todo \ {i}
  /\ op' = [op EXCEPT ![p] = "insert"]
  /\ arg' = [arg EXCEPT ![p] = i]
  /\ pos' = [pos EXCEPT ![p] = wPtr]
  /\ Goto(p, "seq")
  /\ UNCHANGED <<sequence, data, rPtr, wPtr, syncs, res>>

TryRemove(p) ==
  /\ pc[p] = "idle"
  /\ op' = [op EXCEPT ![p] = "remove"]
  /\ pos' = [pos EXCEPT ![p] = rPtr]
  /\ Goto(p, "seq")
  /\ UNCHANGED <<sequence, data, rPtr, wPtr, arg, todo, syncs, res>>

(* fault: a cell that is not written yet is read all the same *)
LoadSequenceAny(p) ==
  /\ pc[p] = "seq"
  /\ LET diff == sequence[Cell(p)] - (IF op[p] = "insert" THEN pos[p] ELSE pos[p] + 1)
     IN  Goto(p, IF diff <= 0 THEN "cas" ELSE "load")
  /\ UNCHANGED <<sequence, data, rPtr, wPtr, op, pos, arg, todo, syncs, res>>

(* The cell's sequence number tells whether pos can be claimed, the queue  *)
(* is full or empty, or another thread has been faster.                    *)
LoadSequence(p) ==
  /\ pc[p] = "seq"
  /\ LET diff == sequence[Cell(p)] - (IF op[p] = "insert" THEN pos[p] ELSE pos[p] + 1)
     IN  Goto(p, IF diff = 0 THEN "cas" ELSE IF diff < 0 THEN "false" ELSE "load")
  /\ UNCHANGED <<sequence, data, rPtr, wPtr, op, pos, arg, todo, syncs, res>>

(* fault: a thread that was overtaken tries the same position again *)
ReloadSame(p) ==
  /\ pc[p] = "load"
  /\ Goto(p, "seq")
  /\ UNCHANGED <<sequence, data, rPtr, wPtr, op, pos, arg, todo, syncs, res>>

Reload(p) ==
  /\ pc[p] = "load"
  /\ pos' = [pos EXCEPT ![p] = IF op[p] = "insert" THEN wPtr ELSE rPtr]
  /\ Goto(p, "seq")
  /\ UNCHANGED <<sequence, data, rPtr, wPtr, op, arg, todo, syncs, res>>

(* compare_exchange_weak of try_insert (threadsafe.h:204) or of try_remove *)
(* (:228): it fails, and loads pos, where the position has moved on, and   *)
(* it may fail for no reason at all.                                       *)
CasWin(p) ==
  /\ pc[p] = "cas"
  /\ \/ /\ op[p] = "insert" /\ wPtr = pos[p]
        /\ wPtr' = wPtr + 1
        /\ UNCHANGED <<rPtr, res>>
     \/ /\ op[p] = "remove" /\ rPtr = pos[p]
        /\ rPtr' = rPtr + 1
        /\ res' = [q \in 0 .. rPtr |-> IF q = rPtr THEN NoItem ELSE res[q]]
        /\ UNCHANGED wPtr
  /\ Goto(p, "data")
  /\ UNCHANGED <<sequence, data, op, pos, arg, todo, syncs>>

CasFail(p) ==
  /\ pc[p] = "cas"
  /\ pos' = [pos EXCEPT ![p] = IF op[p] = "insert" THEN wPtr ELSE rPtr]
  /\ Goto(p, "seq")
  /\ UNCHANGED <<sequence, data, rPtr, wPtr, op, arg, todo, syncs, res>>

(* The claimed cell is written, or read. *)
Access(p) ==
  /\ pc[p] = "data"
  /\ \/ /\ op[p] = "insert"
        /\ data' = [data EXCEPT ![Cell(p)] = arg[p]]
        /\ UNCHANGED res
     \/ /\ op[p] = "remove"
        /\ res' = [res EXCEPT ![pos[p]] = data[Cell(p)]]
        /\ UNCHANGED data
  /\ Goto(p, "store")
  /\ UNCHANGED <<sequence, rPtr, wPtr, op, pos, arg, todo, syncs>>

(* fault: the cell is handed over before it is written or read *)
StoreFirst(p) ==
  /\ pc[p] \in {"data", "store"}
  /\ IF pc[p] = "data" /\ sequence[Cell(p)] # pos[p] + 1 /\ op[p] = "insert"
     THEN sequence' = [sequence EXCEPT ![Cell(p)] = pos[p] + 1] /\ UNCHANGED pc
     ELSE /\ pc[p] = "store"
          /\ sequence' = [sequence EXCEPT ![Cell(p)] =
                            pos[p] + (IF op[p] = "insert" THEN 1 ELSE dsize)]
          /\ Goto(p, "idle")
  /\ UNCHANGED <<data, rPtr, wPtr, op, pos, arg, todo, syncs, res>>

(* fault: a cell that was read is not given to the next lap *)
StoreNext(p) ==
  /\ pc[p] = "store"
  /\ sequence' = [sequence EXCEPT ![Cell(p)] = pos[p] + 1]
  /\ Goto(p, "idle")
  /\ UNCHANGED <<data, rPtr, wPtr, op, pos, arg, todo, syncs, res>>

(* The cell is handed over: to a reader, or to the writer of the next lap. *)
Store(p) ==
  /\ pc[p] = "store"
  /\ sequence' = [sequence EXCEPT ![Cell(p)] =
                    pos[p] + (IF op[p] = "insert" THEN 1 ELSE dsize)]
  /\ Goto(p, "idle")
  /\ UNCHANGED <<data, rPtr, wPtr, op, pos, arg, todo, syncs, res>>

(* return false; the caller of try_insert does not look. *)
ReturnFalse(p) ==
  /\ pc[p] = "false"
  /\ Goto(p, "idle")
  /\ UNCHANGED <<sequence, data, rPtr, wPtr, op, pos, arg, todo, syncs, res>>

(* All entries have been taken and all threads have met: the next sync.    *)
NextSync ==
  /\ syncs < MaxSyncs
  /\ todo = {} /\ rPtr = wPtr /\ \A p \in Procs : pc[p] = "idle"
  /\ todo' = Items /\ syncs' = syncs + 1
  /\ UNCHANGED <<sequence, data, rPtr, wPtr, op, pc, pos, arg, res>>

Work(p) ==
  \/ LoadSequence(p) \/ Reload(p) \/ CasWin(p) \/ Access(p) \/ Store(p)
  \/ ReturnFalse(p)

Next ==
  \/ \E p \in Procs : (\E i \in Items : TryInsert(p, i)) \/ TryRemove(p)
  \/ \E p \in Procs : Work(p) \/ CasFail(p)
  \/ NextSync

Spec == Init /\ [][Next]_vars

(* A thread that has called goes on, and a compare-and-swap that may       *)
(* succeed again and again does; whoever has an entry puts it in, and      *)
(* every thread asks for one.                                              *)
FairSpec ==
  /\ Spec
  /\ \A p \in Procs : WF_vars(Work(p) \/ CasFail(p)) /\ SF_vars(CasWin(p))
  /\ SF_vars(\E p \in Procs, i \in Items : TryInsert(p, i))
  /\ \A p \in Procs : SF_vars(TryRemove(p))

----------------------------------------------------------------------------
(* The item at a position: its writer has it until the cell is written,    *)
(* its reader once it has read it.                                         *)
At(q) ==
  IF \E p \in Procs : op[p] = "insert" /\ pc[p] = "data" /\ pos[p] = q
  THEN arg[CHOOSE p \in Procs : op[p] = "insert" /\ pc[p] = "data" /\ pos[p] = q]
  ELSE IF q < rPtr /\ res[q] # NoItem THEN res[q]
  ELSE data[q % dsize]

(* The ring is a queue: entries come out in the order in which their       *)
(* positions were claimed, none twice, none overwritten before its reader  *)
(* has it, however slow a writer or a reader is (threadsafe.h:195-240).    *)
Abs == INSTANCE Fifo
         WITH queue <- [k \in 1 .. wPtr - rPtr |-> At(rPtr + k - 1)],
              out <- [k \in 1 .. rPtr |-> At(k - 1)]
FifoRefined == Abs!Spec

(* A put never fails, which is what callers that ignore the answer rely on *)
(* (rankSyncParallelSkip.cc:189, :239, :295, :333).                        *)
InsertSucceeds == \A p \in Procs : ~(pc[p] = "false" /\ op[p] = "insert")

(* What was put in is taken out, in every sync: a thread that has claimed  *)
(* a position and was overtaken holds up the others only for a while.      *)
AllTaken == \A n \in 1 .. MaxSyncs : syncs = n ~> rPtr >= n * dsize
=============================================================================
