--------------------------- MODULE BarrierProofs ---------------------------
(***************************************************************************)
(* For any finite set of threads and any width of size_t that holds their  *)
(* number: the barrier's types and round invariant are inductive, and the  *)
(* barrier implements BarrierSpec.                                         *)
(***************************************************************************)
EXTENDS Barrier, FiniteSetTheorems, TLAPS

(* The invariant that carries every proof: the types and the round. *)
Inv == TypeOK /\ RoundInv

(* origCount is a positive number below SizeMod. *)
LEMMA OrigCount == origCount \in Nat /\ origCount > 0 /\ origCount < SizeMod
  <1>1. origCount \in Nat
    BY FS_CardinalityType, ThreadsAssumption DEF origCount
  <1>2. origCount # 0
    BY FS_EmptySet, ThreadsAssumption DEF origCount
  <1> QED BY <1>1, <1>2, SizeAssumption DEF origCount

(* The waiting threads are counted by a number, that of all threads only   *)
(* when they all wait.                                                     *)
LEMMA WaitingCount ==
  ASSUME NEW S \in SUBSET Threads
  PROVE  /\ IsFiniteSet(S)
         /\ Cardinality(S) \in 0 .. origCount
         /\ Cardinality(S) = origCount => S = Threads
  <1>1. IsFiniteSet(S)
    BY FS_Subset, ThreadsAssumption
  <1>2. Cardinality(S) \in Nat /\ Cardinality(S) <= origCount
    BY <1>1, FS_Subset, FS_CardinalityType, ThreadsAssumption DEF origCount
  <1>3. Cardinality(S) = origCount => S = Threads
    BY FS_Subset, ThreadsAssumption DEF origCount
  <1> QED BY <1>1, <1>2, <1>3, OrigCount

(* Successive generations differ, also where generation wraps. *)
LEMMA NextGeneration ==
  ASSUME NEW g \in 0 .. SizeMod - 1
  PROVE  (g + 1) % SizeMod \in 0 .. SizeMod - 1 /\ (g + 1) % SizeMod # g
  <1>1. SizeMod \in Nat /\ SizeMod > 1
    BY OrigCount, SizeAssumption
  <1>2. CASE g + 1 = SizeMod
    <2>1. (g + 1) % SizeMod = 0
      BY <1>1, <1>2
    <2> QED BY <1>1, <1>2, <2>1
  <1>3. CASE g + 1 < SizeMod
    <2>1. (g + 1) % SizeMod = g + 1
      BY <1>1, <1>3
    <2> QED BY <1>1, <1>3, <2>1
  <1> QED BY <1>1, <1>2, <1>3

(* Every barrier starts outside any round, with its full count. *)
LEMMA InitInv == Init => Inv
  <1> SUFFICES ASSUME Init PROVE Inv
    OBVIOUS
  <1>1. TypeOK
    BY OrigCount, SizeAssumption DEF Init, TypeOK, PCs
  <1>2. Waiting = {}
    BY DEF Init, Waiting
  <1>3. RoundInv
    BY <1>2, OrigCount, FS_EmptySet DEF Init, RoundInv
  <1> QED BY <1>1, <1>3 DEF Inv

----------------------------------------------------------------------------
(* A step that neither moves the waiting set nor the shared words, and     *)
(* leaves the stepping thread outside the round, keeps the invariant.      *)
LEMMA OutsideStep ==
  ASSUME Inv, NEW t \in Threads, t \notin Waiting,
         NEW l \in {"out", "load", "leave"},
         pc[t] # "bump", pc' = [pc EXCEPT ![t] = l],
         UNCHANGED <<count, generation, gen>>
  PROVE  Inv'
  <1>1. TypeOK'
    BY DEF Inv, TypeOK, PCs
  <1>2. Waiting' = Waiting
    BY DEF Inv, TypeOK, Waiting
  <1>3. RoundInv'
    BY <1>2 DEF Inv, TypeOK, RoundInv, origCount
  <1> QED BY <1>1, <1>3 DEF Inv

(* Reading the generation leaves a thread outside the round. *)
LEMMA LoadGenInv ==
  ASSUME Inv, NEW t \in Threads, LoadGen(t)
  PROVE  Inv'
  <1>1. TypeOK'
    BY DEF Inv, TypeOK, PCs, LoadGen, Goto
  <1>2. Waiting' = Waiting
    BY DEF Inv, TypeOK, Waiting, LoadGen, Goto
  <1>3. RoundInv'
    BY <1>2 DEF Inv, TypeOK, RoundInv, LoadGen, Goto, origCount
  <1> QED BY <1>1, <1>3 DEF Inv

(* The decrement moves t into the waiting set; it reaches 0 exactly when   *)
(* the set has become that of all threads.                                 *)
LEMMA FetchSubCount ==
  ASSUME Inv, NEW t \in Threads, FetchSub(t)
  PROVE  /\ t \notin Waiting
         /\ Waiting' = Waiting \cup {t}
         /\ \A u \in Threads : pc[u] \notin {"reset", "bump"}
         /\ count' \in 0 .. origCount
         /\ count' = origCount - Cardinality(Waiting \cup {t})
         /\ count' = 0 <=> Waiting \cup {t} = Threads
  <1>1. t \notin Waiting
    BY DEF FetchSub, Waiting
  <1>2. \A u \in Threads : pc[u] \notin {"reset", "bump"}
    BY <1>1 DEF Inv, RoundInv
  <1>3. gen[t] = generation
    BY DEF Inv, RoundInv, FetchSub
  <1>4. Waiting' = Waiting \cup {t}
    BY <1>1, <1>3 DEF Inv, TypeOK, Waiting, FetchSub, Goto
  <1>5. Waiting \in SUBSET Threads /\ Waiting \cup {t} \in SUBSET Threads
    BY DEF Waiting
  <1>6. Cardinality(Waiting \cup {t}) = Cardinality(Waiting) + 1
    BY <1>1, <1>5, WaitingCount, FS_AddElement
  <1>7. count = origCount - Cardinality(Waiting)
    BY <1>2 DEF Inv, RoundInv
  <1>8. /\ Cardinality(Waiting) \in 0 .. origCount
        /\ Cardinality(Waiting \cup {t}) \in 0 .. origCount
        /\ Cardinality(Waiting \cup {t}) = origCount => Waiting \cup {t} = Threads
    BY <1>5, WaitingCount
  <1> DEFINE w == Cardinality(Waiting)
             w1 == Cardinality(Waiting \cup {t})
             n == origCount
  <1>9. count - 1 \in 0 .. n /\ count - 1 < SizeMod
    <2> HIDE DEF w, w1, n
    <2>1. w1 = w + 1 /\ count = n - w /\ w \in 0 .. n /\ w1 \in 0 .. n
      BY <1>6, <1>7, <1>8 DEF w, w1, n
    <2>2. n \in Nat /\ n < SizeMod /\ SizeMod \in Nat
      BY OrigCount, SizeAssumption DEF n
    <2> QED BY <2>1, <2>2
  <1>10. count' = count - 1
    BY <1>9, SizeAssumption, OrigCount DEF FetchSub
  <1>11. Waiting \cup {t} = Threads => Cardinality(Waiting \cup {t}) = origCount
    BY DEF origCount
  <1> HIDE DEF Waiting, origCount
  <1> QED
    BY <1>1, <1>2, <1>4, <1>6, <1>7, <1>8, <1>9, <1>10, <1>11, OrigCount

(* Counting down takes a thread into the round, and the last one to the release. *)
LEMMA FetchSubInv ==
  ASSUME Inv, NEW t \in Threads, FetchSub(t)
  PROVE  Inv'
  <1>1. TypeOK'
    BY FetchSubCount DEF Inv, TypeOK, PCs, FetchSub, Goto
  <1>2. CASE count' = 0
    <2>1. Waiting' = Threads
      BY <1>2, FetchSubCount
    <2> QED
      BY <1>1, <1>2, <2>1, FetchSubCount
         DEF Inv, TypeOK, RoundInv, FetchSub, Goto, origCount
  <1>3. CASE count' # 0
    BY <1>1, <1>3, FetchSubCount
       DEF Inv, TypeOK, RoundInv, FetchSub, Goto, origCount
  <1> QED BY <1>2, <1>3

(* The releaser restores the count before anybody can use it. *)
LEMMA ResetInv ==
  ASSUME Inv, NEW t \in Threads, Reset(t)
  PROVE  Inv'
  <1>1. TypeOK'
    BY OrigCount DEF Inv, TypeOK, PCs, Reset, Goto
  <1>2. Waiting' = Waiting
    BY DEF Inv, TypeOK, Waiting, Reset, Goto
  <1>3. RoundInv'
    BY <1>2 DEF Inv, TypeOK, RoundInv, Reset, Goto, origCount
  <1> QED BY <1>1, <1>3 DEF Inv

(* The release empties the waiting set: everybody else spins with the      *)
(* generation that has just been left behind.                              *)
LEMMA BumpInv ==
  ASSUME Inv, NEW t \in Threads, Bump(t)
  PROVE  Inv' /\ Waiting' = {}
  <1>1. /\ generation' \in 0 .. SizeMod - 1
        /\ generation' = (generation + 1) % SizeMod
        /\ generation' # generation
    BY NextGeneration DEF Inv, TypeOK, Bump
  <1>2. TypeOK'
    BY <1>1 DEF Inv, TypeOK, PCs, Bump, Goto
  <1>3. \A u \in Threads : u # t => pc[u] = "spin" /\ gen[u] = generation
    BY DEF Inv, RoundInv, Waiting, Bump
  <1>4. Waiting' = {}
    BY <1>1, <1>3 DEF Inv, TypeOK, Waiting, Bump, Goto
  <1>5. count = origCount
    BY DEF Inv, RoundInv, Bump
  <1>6. RoundInv'
    BY <1>1, <1>3, <1>4, <1>5, FS_EmptySet, OrigCount
       DEF Inv, TypeOK, RoundInv, Bump, Goto, origCount
  <1> QED BY <1>2, <1>4, <1>6 DEF Inv

(* The types and the round survive every step. *)
LEMMA NextInv == Inv /\ [Next]_vars => Inv'
  <1> SUFFICES ASSUME Inv, [Next]_vars PROVE Inv'
    OBVIOUS
  <1>1. UNCHANGED vars => Inv'
    BY DEF Inv, TypeOK, RoundInv, Waiting, vars, origCount
  <1>2. CASE Next
    <2> PICK t \in Threads : Call(t) \/ InWait(t)
      BY <1>2 DEF Next
    <2>1. CASE Call(t)
      BY <2>1, OutsideStep DEF Call, Goto, Waiting
    <2>2. CASE LoadGen(t)
      BY <2>2, LoadGenInv
    <2>3. CASE FetchSub(t)
      BY <2>3, FetchSubInv
    <2>4. CASE Reset(t)
      BY <2>4, ResetInv
    <2>5. CASE Bump(t)
      BY <2>5, BumpInv
    <2>6. CASE Spin(t)
      <3>1. CASE generation = gen[t]
        <4>1. UNCHANGED vars
          BY <2>6, <3>1 DEF Spin, Goto, Inv, TypeOK, vars
        <4> QED BY <4>1, <1>1
      <3>2. CASE generation # gen[t]
        BY <2>6, <3>2, OutsideStep DEF Spin, Goto, Waiting
      <3> QED BY <3>1, <3>2
    <2>7. CASE Return(t)
      BY <2>7, OutsideStep DEF Return, Goto, Waiting
    <2> QED BY <2>1, <2>2, <2>3, <2>4, <2>5, <2>6, <2>7 DEF InWait
  <1> QED BY <1>1, <1>2 DEF Next

(* The barrier's types hold in every reachable state: in particular the    *)
(* unsigned count never goes below 0 (threadsafe.h:79).                    *)
THEOREM TypeCorrect == Spec => []TypeOK
  <1>1. Inv => TypeOK
    BY DEF Inv
  <1> QED BY <1>1, InitInv, NextInv, PTL DEF Spec

(* The count belongs to the open round, whatever the interleaving of the   *)
(* threads of two rounds (threadsafe.h:77).                                *)
THEOREM RoundCorrect == Spec => []RoundInv
  <1>1. Inv => RoundInv
    BY DEF Inv
  <1> QED BY <1>1, InitInv, NextInv, PTL DEF Spec

----------------------------------------------------------------------------
(* The steps of wait() under the refinement mapping.                       *)

(* Initially nobody waits in the abstract barrier either. *)
LEMMA InitRefines == Init => Abs!Init
  BY DEF Init, Abs!Init, Status, Waiting

(* A step that changes neither the waiting set nor who is on its way out.  *)
LEMMA StatusStutter ==
  ASSUME Waiting' = Waiting,
         \A t \in Threads : t \notin Waiting =>
           (pc[t] \in {"spin", "leave"} <=> pc'[t] \in {"spin", "leave"})
  PROVE  Status' = Status
  BY DEF Status

(* Calling wait() is invisible until the thread counts itself down. *)
LEMMA CallRefines ==
  ASSUME Inv, NEW t \in Threads, Call(t)
  PROVE  Status' = Status
  <1>1. Waiting' = Waiting
    BY DEF Inv, TypeOK, Waiting, Call, Goto
  <1> QED BY <1>1, StatusStutter DEF Inv, TypeOK, Call, Goto

(* Reading the generation is invisible. *)
LEMMA LoadGenRefines ==
  ASSUME Inv, NEW t \in Threads, LoadGen(t)
  PROVE  Status' = Status
  <1>1. Waiting' = Waiting
    BY DEF Inv, TypeOK, Waiting, LoadGen, Goto
  <1> QED BY <1>1, StatusStutter DEF Inv, TypeOK, LoadGen, Goto

(* Counting down is the arrival in the round. *)
LEMMA FetchSubRefines ==
  ASSUME Inv, NEW t \in Threads, FetchSub(t)
  PROVE  Abs!Arrive(t)
  <1>1. /\ t \notin Waiting
        /\ Waiting' = Waiting \cup {t}
    BY FetchSubCount
  <1>2. pc[t] = "dec"
    BY DEF FetchSub
  <1>3. \A u \in Threads : u # t => pc'[u] = pc[u]
    BY DEF Inv, TypeOK, FetchSub, Goto
  <1>4. Status[t] = "out"
    BY <1>1, <1>2 DEF Status
  <1>5. \A u \in Threads : Status'[u] = IF u = t THEN "waiting" ELSE Status[u]
    BY <1>1, <1>3 DEF Status
  <1>6. Status' = [Status EXCEPT ![t] = "waiting"]
    BY <1>5 DEF Status
  <1> QED BY <1>4, <1>6 DEF Abs!Arrive

(* Resetting the count is invisible. *)
LEMMA ResetRefines ==
  ASSUME Inv, NEW t \in Threads, Reset(t)
  PROVE  Status' = Status
  <1>1. Waiting' = Waiting
    BY DEF Inv, TypeOK, Waiting, Reset, Goto
  <1>2. Waiting = Threads
    BY DEF Inv, RoundInv, Reset
  <1> QED BY <1>1, <1>2, StatusStutter

(* The fetch_add of generation is the instant of the release. *)
LEMMA BumpRefines ==
  ASSUME Inv, NEW t \in Threads, Bump(t)
  PROVE  Abs!Release
  <1>1. Waiting = Threads
    BY DEF Inv, RoundInv, Bump
  <1>2. Waiting' = {}
    BY BumpInv
  <1>3. \A u \in Threads : pc'[u] \in {"spin", "leave"}
    BY <1>1 DEF Inv, TypeOK, RoundInv, Waiting, Bump, Goto
  <1>4. \A u \in Threads : Status[u] = "waiting"
    BY <1>1 DEF Status
  <1>5. Status' = [u \in Threads |-> "released"]
    BY <1>2, <1>3 DEF Status
  <1> QED BY <1>4, <1>5 DEF Abs!Release

(* A polling turn is invisible. *)
LEMMA SpinRefines ==
  ASSUME Inv, NEW t \in Threads, Spin(t)
  PROVE  Status' = Status
  <1>1. Waiting' = Waiting
    BY DEF Inv, TypeOK, Waiting, Spin, Goto
  <1> QED BY <1>1, StatusStutter DEF Inv, TypeOK, Spin, Goto

(* Returning from wait() is the departure from a released round. *)
LEMMA ReturnRefines ==
  ASSUME Inv, NEW t \in Threads, Return(t)
  PROVE  Abs!Leave(t)
  <1>1. Waiting' = Waiting /\ t \notin Waiting
    BY DEF Inv, TypeOK, Waiting, Return, Goto
  <1>2. pc[t] = "leave" /\ pc'[t] = "out"
    BY DEF Inv, TypeOK, Return, Goto
  <1>3. \A u \in Threads : u # t => pc'[u] = pc[u]
    BY DEF Inv, TypeOK, Return, Goto
  <1>4. Status[t] = "released"
    BY <1>1, <1>2 DEF Status
  <1>5. \A u \in Threads : Status'[u] = IF u = t THEN "out" ELSE Status[u]
    BY <1>1, <1>2, <1>3 DEF Status
  <1>6. Status' = [Status EXCEPT ![t] = "out"]
    BY <1>5 DEF Status
  <1> QED BY <1>4, <1>6 DEF Abs!Leave

(* Every step of wait() is a step of the rounds, or none. *)
LEMMA StepRefines == Inv /\ [Next]_vars => [Abs!Next]_Status
  <1> SUFFICES ASSUME Inv, [Next]_vars PROVE [Abs!Next]_Status
    OBVIOUS
  <1>1. CASE UNCHANGED vars
    BY <1>1 DEF vars, Status, Waiting
  <1>2. CASE Next
    <2> PICK t \in Threads : Call(t) \/ InWait(t)
      BY <1>2 DEF Next
    <2>1. CASE Call(t) \/ LoadGen(t) \/ Reset(t) \/ Spin(t)
      BY <2>1, CallRefines, LoadGenRefines, ResetRefines, SpinRefines
    <2>2. CASE FetchSub(t)
      BY <2>2, FetchSubRefines DEF Abs!Next
    <2>3. CASE Bump(t)
      BY <2>3, BumpRefines DEF Abs!Next
    <2>4. CASE Return(t)
      BY <2>4, ReturnRefines DEF Abs!Next
    <2> QED BY <2>1, <2>2, <2>3, <2>4 DEF InWait
  <1> QED BY <1>1, <1>2

(* The barrier implements BarrierSpec: no thread returns from wait() in a  *)
(* round that some thread has not come into (threadsafe.h:77).             *)
THEOREM BarrierCorrect == Spec => BarrierRefined
  BY InitRefines, InitInv, NextInv, StepRefines, PTL
     DEF Spec, BarrierRefined, Abs!Spec
=============================================================================
