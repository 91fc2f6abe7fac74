----------------------------- MODULE SyncProofs -----------------------------
(***************************************************************************)
(* For any number of ranks, threads and components and any latencies:      *)
(*                                                                         *)
(* The counters of the Exit objects tell how many components hold the      *)
(* simulation open, the variables of the run phase keep their types, and   *)
(* threads meet in the same sync.  The counters follow from what refInc    *)
(* and refDec do, whatever the threads do and in whatever order.  For the  *)
(* rest the argument is that the threads of a rank go through the          *)
(* phases of a sync in lockstep, from one barrier to the next, and that    *)
(* whatever they decide on by themselves in a phase they decide on from    *)
(* data that does not change in it.                                        *)
(*                                                                         *)
(* As long as simulated time does not overflow, no event comes too late.   *)
(* The argument is that of conservative synchronization: the next sync is  *)
(* never later than an event that is still to be sent can be due on the    *)
(* other side of a link it is to wait for, and no clock goes past the      *)
(* next sync.                                                              *)
(***************************************************************************)
EXTENDS ParallelSim, FiniteSetTheorems, SequenceTheorems, NaturalsInduction,
        WellFoundedInduction, TLAPS

(* What the counters need: the sets hold components of their rank only,    *)
(* and the command line does not change.                                   *)
Placement ==
  /\ idSet \in [Ranks -> SUBSET Comps]
  /\ \A r \in Ranks : idSet[r] \subseteq PlacedIn(r)
  /\ refCount \in [Ranks -> Nat]
  /\ threadCount \in [RankInfo -> Nat]

CountInv == config \in Configs /\ Placement /\ CountsMatch

countVars == <<idSet, refCount, threadCount, config>>

(* A component is placed on a thread of a rank. *)
LEMMA HomeOf ==
  ASSUME NEW c \in Comps
  PROVE  /\ Home[c] \in RankInfo /\ Home[c][1] \in Ranks
         /\ c \in PlacedOn(Home[c]) /\ c \in PlacedIn(Home[c][1])
  BY BaseAssumption DEF RankInfo, PlacedOn, PlacedIn

(* Sets of components are finite. *)
LEMMA FiniteComps ==
  ASSUME NEW S \in SUBSET Comps
  PROVE  IsFiniteSet(S) /\ Cardinality(S) \in Nat
  BY FS_Subset, FS_CardinalityType, BaseAssumption

(* The components placed on other threads are not those placed here. *)
LEMMA Elsewhere ==
  ASSUME NEW c \in Comps, NEW x \in RankInfo, x # Home[c], NEW S
  PROVE  /\ (S \cup {c}) \cap PlacedOn(x) = S \cap PlacedOn(x)
         /\ (S \ {c}) \cap PlacedOn(x) = S \cap PlacedOn(x)
  BY DEF PlacedOn

(* Initially: Primary is a set of components. *)
LEMMA CountInit == Init => CountInv
  <1> SUFFICES ASSUME Init PROVE CountInv
    OBVIOUS
  <1>1. config \in Configs /\ ExitInit(Primary)
    BY DEF Init
  <1>2. Primary \subseteq Comps
    BY <1>1, SimAssumption DEF Primary, Configurations
  <1>3. \A r \in Ranks : Primary \cap PlacedIn(r) \in SUBSET Comps
    BY <1>2
  <1>4. \A x \in RankInfo : Primary \cap PlacedOn(x) \in SUBSET Comps
    BY <1>2
  <1>5. Placement
    BY <1>1, <1>3, <1>4, FiniteComps DEF ExitInit, Placement
  <1>6. \A x \in RankInfo : x[1] \in Ranks
                            /\ (Primary \cap PlacedIn(x[1])) \cap PlacedOn(x) = Primary \cap PlacedOn(x)
    BY DEF RankInfo, PlacedIn, PlacedOn
  <1>7. CountsMatch
    BY <1>1, <1>6 DEF ExitInit, CountsMatch
  <1> QED BY <1>1, <1>5, <1>7 DEF CountInv

(* refInc counts a component once. *)
LEMMA RefIncCounts ==
  ASSUME CountInv, UNCHANGED config, NEW c \in Comps, RefInc(c)
  PROVE  CountInv'
  <1> DEFINE x == Home[c]
             r == Home[c][1]
  <1>1. CASE c \in idSet[r]
    BY <1>1 DEF RefInc, exitVars, CountInv, Placement, CountsMatch
  <1>2. CASE c \notin idSet[r]
    <2>1. /\ idSet' = [idSet EXCEPT ![r] = @ \cup {c}]
          /\ refCount' = [refCount EXCEPT ![r] = @ + 1]
          /\ threadCount' = [threadCount EXCEPT ![x] = @ + 1]
      BY <1>2 DEF RefInc
    <2>2. x \in RankInfo /\ r \in Ranks /\ c \in PlacedIn(r) /\ c \in PlacedOn(x)
      BY HomeOf
    <2>3. Placement'
      BY <2>1, <2>2 DEF CountInv, Placement, PlacedIn
    <2>4. ASSUME NEW q \in Ranks
          PROVE  refCount'[q] = Cardinality(idSet'[q])
      <3>1. CASE q = r
        <4>1. Cardinality(idSet[r] \cup {c}) = Cardinality(idSet[r]) + 1
          BY <1>2, <2>2, FiniteComps, FS_AddElement DEF CountInv, Placement
        <4> QED BY <3>1, <4>1, <2>1, <2>2 DEF CountInv, Placement, CountsMatch
      <3>2. CASE q # r
        BY <3>2, <2>1, <2>2 DEF CountInv, Placement, CountsMatch
      <3> QED BY <3>1, <3>2
    <2>5. ASSUME NEW y \in RankInfo
          PROVE  threadCount'[y] = Cardinality(idSet'[y[1]] \cap PlacedOn(y))
      <3>0. y[1] \in Ranks
        BY DEF RankInfo
      <3>1. CASE y = x
        <4> DEFINE S == idSet[r] \cap PlacedOn(x)
        <4>1. S \in SUBSET Comps /\ c \notin S
          BY <1>2, <2>2 DEF CountInv, Placement
        <4>2. Cardinality(S \cup {c}) = Cardinality(S) + 1
          BY <4>1, FiniteComps, FS_AddElement
        <4>3. idSet'[r] \cap PlacedOn(x) = S \cup {c}
          BY <2>1, <2>2 DEF CountInv, Placement
        <4>4. threadCount[x] = Cardinality(S)
          BY <2>2 DEF CountInv, CountsMatch
        <4>5. threadCount'[x] = threadCount[x] + 1
          BY <2>1, <2>2 DEF CountInv, Placement
        <4> QED BY <3>1, <4>2, <4>3, <4>4, <4>5
      <3>2. CASE y # x
        <4>1. idSet'[y[1]] \cap PlacedOn(y) = idSet[y[1]] \cap PlacedOn(y)
          BY <3>0, <3>2, <2>1, <2>2, Elsewhere DEF CountInv, Placement
        <4>2. threadCount'[y] = threadCount[y]
          BY <3>2, <2>1 DEF CountInv, Placement
        <4> QED BY <4>1, <4>2 DEF CountInv, CountsMatch
      <3> QED BY <3>1, <3>2
    <2> QED BY <2>3, <2>4, <2>5 DEF CountInv, CountsMatch, PlacedOn
  <1> QED BY <1>1, <1>2

(* refDec counts a component once, and only one that is in the set. *)
LEMMA RefDecCounts ==
  ASSUME CountInv, UNCHANGED config, NEW c \in Comps, NEW t, RefDec(c, t)
  PROVE  CountInv'
  <1> DEFINE x == Home[c]
             r == Home[c][1]
  <1>1. CASE c \notin idSet[r]
    BY <1>1 DEF RefDec, exitVars, CountInv, Placement, CountsMatch
  <1>2. CASE c \in idSet[r]
    <2>1. /\ idSet' = [idSet EXCEPT ![r] = @ \ {c}]
          /\ refCount' = [refCount EXCEPT ![r] = @ - 1]
          /\ threadCount' = [threadCount EXCEPT ![x] = @ - 1]
      BY <1>2 DEF RefDec
    <2>2. x \in RankInfo /\ r \in Ranks /\ c \in PlacedOn(x)
      BY HomeOf
    <2>3. /\ IsFiniteSet(idSet[r]) /\ Cardinality(idSet[r] \ {c}) \in Nat
          /\ Cardinality(idSet[r] \ {c}) = Cardinality(idSet[r]) - 1
      BY <1>2, <2>2, FiniteComps, FS_RemoveElement DEF CountInv, Placement
    <2>4. ASSUME NEW q \in Ranks
          PROVE  refCount'[q] = Cardinality(idSet'[q]) /\ refCount'[q] \in Nat
      <3>1. CASE q = r
        BY <3>1, <2>1, <2>2, <2>3 DEF CountInv, Placement, CountsMatch
      <3>2. CASE q # r
        BY <3>2, <2>1, <2>2 DEF CountInv, Placement, CountsMatch
      <3> QED BY <3>1, <3>2
    <2>5. ASSUME NEW y \in RankInfo
          PROVE  /\ threadCount'[y] = Cardinality(idSet'[y[1]] \cap PlacedOn(y))
                 /\ threadCount'[y] \in Nat
      <3>0. y[1] \in Ranks
        BY DEF RankInfo
      <3>1. CASE y = x
        <4> DEFINE S == idSet[r] \cap PlacedOn(x)
        <4>1. S \in SUBSET Comps /\ c \in S
          BY <1>2, <2>2 DEF CountInv, Placement
        <4>2. Cardinality(S \ {c}) = Cardinality(S) - 1 /\ Cardinality(S \ {c}) \in Nat
          BY <4>1, FiniteComps, FS_RemoveElement
        <4>3. idSet'[r] \cap PlacedOn(x) = S \ {c}
          BY <2>1, <2>2 DEF CountInv, Placement
        <4>4. threadCount[x] = Cardinality(S)
          BY <2>2 DEF CountInv, CountsMatch
        <4>5. threadCount'[x] = threadCount[x] - 1
          BY <2>1, <2>2 DEF CountInv, Placement
        <4> QED BY <3>1, <4>2, <4>3, <4>4, <4>5
      <3>2. CASE y # x
        <4>1. idSet'[y[1]] \cap PlacedOn(y) = idSet[y[1]] \cap PlacedOn(y)
          BY <3>0, <3>2, <2>1, <2>2, Elsewhere DEF CountInv, Placement
        <4>2. threadCount'[y] = threadCount[y] /\ threadCount[y] \in Nat
          BY <3>2, <2>1 DEF CountInv, Placement
        <4> QED BY <4>1, <4>2 DEF CountInv, CountsMatch
      <3> QED BY <3>1, <3>2
    <2>6. Placement'
      BY <2>1, <2>2, <2>4, <2>5 DEF CountInv, Placement
    <2> QED BY <2>6, <2>4, <2>5 DEF CountInv, CountsMatch, PlacedOn
  <1> QED BY <1>1, <1>2

(* Everything else leaves the sets and the counters alone. *)
LEMMA CountsStay ==
  ASSUME CountInv, UNCHANGED countVars
  PROVE  CountInv'
  BY DEF CountInv, countVars, Placement, CountsMatch, PlacedOn, PlacedIn

(* The one step in which a component calls refInc or refDec. *)
LEMMA HandleCounts ==
  ASSUME CountInv, NEW x \in RankInfo, Handle(x)
  PROVE  CountInv'
  <1>1. Primary \cup Reopening \subseteq Comps
    BY SimAssumption DEF CountInv, Primary, Reopening, Configurations
  <1>2. PICK a : /\ UNCHANGED config
                 /\ \/ UNCHANGED exitVars
                    \/ a.comp \in Primary \cup Reopening /\ RefDec(a.comp, a.time)
                    \/ a.comp \in Reopening /\ RefInc(a.comp)
    BY DEF Handle
  <1>3. CASE UNCHANGED exitVars
    BY <1>2, <1>3, CountsStay DEF exitVars, countVars
  <1>4. CASE a.comp \in Primary \cup Reopening /\ RefDec(a.comp, a.time)
    BY <1>1, <1>2, <1>4, RefDecCounts
  <1>5. CASE a.comp \in Reopening /\ RefInc(a.comp)
    BY <1>1, <1>2, <1>5, RefIncCounts
  <1> QED BY <1>2, <1>3, <1>4, <1>5

(* No step of the run phase makes a counter and its set differ. *)
LEMMA CountStep == CountInv /\ [Next]_vars => CountInv'
  <1> SUFFICES ASSUME CountInv, [Next]_vars PROVE CountInv'
    OBVIOUS
  <1> USE DEF countVars, compVars, exitVars
  <1>1. ASSUME NEW x \in RankInfo, Handle(x) PROVE CountInv'
    BY <1>1, HandleCounts
  <1>2. ASSUME NEW x \in RankInfo, Stop(x) PROVE CountInv'
    BY <1>2, CountsStay DEF Stop, SetEndTime
  <1>3. ASSUME NEW x \in RankInfo, Sync(x) PROVE CountInv'
    BY <1>3, CountsStay DEF Sync
  <1>4. ASSUME NEW x \in RankInfo, LeaveLoop(x) PROVE CountInv'
    BY <1>4, CountsStay DEF LeaveLoop
  <1>5. ASSUME NEW x \in RankInfo, Before(x) PROVE CountInv'
    BY <1>5, CountsStay DEF Before
  <1>6. ASSUME NEW x \in RankInfo, SendRank(x) PROVE CountInv'
    BY <1>6, CountsStay DEF SendRank
  <1>7. ASSUME NEW x \in RankInfo, NEW r \in Ranks, ReceiveRank(x, r) PROVE CountInv'
    BY <1>7, CountsStay DEF ReceiveRank
  <1>8. ASSUME NEW x \in RankInfo, ReceivedAll(x) PROVE CountInv'
    BY <1>8, CountsStay DEF ReceivedAll
  <1>9. ASSUME NEW x \in RankInfo, After(x) PROVE CountInv'
    BY <1>9, CountsStay DEF After
  <1>10. ASSUME NEW x \in RankInfo, EndOrNext(x) PROVE CountInv'
    BY <1>10, CountsStay DEF EndOrNext
  <1>11. ASSUME NEW x \in RankInfo, InsertNext(x) PROVE CountInv'
    BY <1>11, CountsStay DEF InsertNext
  <1>12. ASSUME NEW r \in Ranks, NEW b \in Barriers, Barrier(r, b) PROVE CountInv'
    BY <1>12, CountsStay DEF Barrier
  <1>13. CASE ReduceNext
    BY <1>13, CountsStay DEF ReduceNext
  <1>14. CASE CheckRanks
    BY <1>14, CountsStay DEF CheckRanks, CheckExit
  <1>15. CASE FinalEndTime
    BY <1>15, CountsStay DEF FinalEndTime
  <1>16. CASE UNCHANGED vars
    BY <1>16, CountsStay DEF vars
  <1> QED BY <1>1, <1>2, <1>3, <1>4, <1>5, <1>6, <1>7, <1>8, <1>9, 
             <1>10, <1>11, <1>12, <1>13, <1>14, <1>15, <1>16
          DEF Next, ThreadStep, Meeting, Finished

(* Whatever the number of ranks, threads and components, and however often *)
(* a component says OK or takes it back, the counters by which the engine  *)
(* decides to end are those of the sets (exit.cc:80, exit.cc:104).         *)
THEOREM CountsCorrect == Spec => []CountsMatch
  <1>1. CountInv => CountsMatch
    BY DEF CountInv
  <1> QED BY CountInit, CountStep, <1>1, PTL DEF Spec

----------------------------------------------------------------------------
(* The variables.                                                          *)

(* The activities of a vortex. *)
Activities ==
  Events \cup {SyncAt(t) : t \in SimTime} \cup {StopAt(t) : t \in SimTime}

(* What every variable is. *)
Shapes ==
  /\ tv \in [RankInfo -> SUBSET Activities]
  /\ now \in [RankInfo -> SimTime] /\ pc \in [RankInfo -> PCs]
  /\ back \in [RankInfo -> {"run", "next"}]
  /\ syncType \in [RankInfo -> {"RANK", "THREAD"}]
  /\ threadNext \in [RankInfo -> SimTime] /\ rankNext \in [Ranks -> SimTime]
  /\ tq \in [RankInfo -> SUBSET Events] /\ rq \in [Ranks -> SUBSET Events]
  /\ net \in [Ranks \X RankInfo -> Seq(SUBSET Events)]
  /\ got \in [RankInfo -> SUBSET Ranks]
  /\ endSim \in [RankInfo -> BOOLEAN] /\ endCycle \in [RankInfo -> SimTime]
  /\ sent \in [Comps -> 0 .. MaxSends] /\ okAt \in [Comps -> SimTime]
  /\ endTime \in [Ranks -> SimTime] /\ globalCount \in [Ranks -> 0 .. NumRanks]

(* A thread that has not ended has a stop event left, at the end of time;  *)
(* one that has takes part in no sync.                                     *)
EndInv ==
  \A x \in RankInfo :
    IF endSim[x] THEN pc[x] \in {"run", "exitB", "next", "R5", "runB", "final", "done"}
    ELSE pc[x] \notin {"exitB", "runB", "final", "done"} /\ StopAt(MaxTime) \in tv[x]

TypeInv == CountInv /\ Shapes /\ EndInv

----------------------------------------------------------------------------
(* The phase a thread is in.  Only a barrier or a collective takes a       *)
(* thread from one phase to another, and it takes all threads of the rank. *)
Phase(x) ==
  CASE pc[x] \in {"run", "R0", "T0", "runB"} -> "run"
    [] pc[x] \in {"before", "R1", "T1"} -> "before"
    [] pc[x] = "xStart" -> "start"
    [] pc[x] \in {"xSend", "xRecv", "xDone"} -> "exchange"
    [] pc[x] \in {"xReduce", "xAll"} -> "reduce"
    [] pc[x] = "R2" -> "reduced"
    [] pc[x] \in {"after", "T2"} -> IF Direct /\ syncType[x] = "THREAD" THEN "run" ELSE "after"
    [] pc[x] = "R3" -> "after"
    [] pc[x] \in {"check", "R4"} -> "check"
    [] pc[x] \in {"end", "next", "R5"} -> "end"
    [] pc[x] = "exitB" -> IF back[x] = "run" THEN "run" ELSE "end"
    [] OTHER -> "final"

Lockstep == \A x, y \in RankInfo : x[1] = y[1] => Phase(x) = Phase(y)

Exchanging == {"xStart", "xSend", "xRecv", "xDone", "xReduce", "xAll"}

(* Where the threads of a sync of either kind may be. *)
TypeOfSync ==
  \A x \in RankInfo :
    /\ pc[x] \in {"R0", "R1", "R2", "R3", "R4", "check"} \cup Exchanging => syncType[x] = "RANK"
    /\ pc[x] \in {"T0", "T1", "T2"} => syncType[x] = "THREAD"
    /\ pc[x] \in {"T0", "T1"} \/ (pc[x] = "before" /\ syncType[x] = "THREAD") => ~Direct
    /\ pc[x] \in Exchanging => MinPart # MaxTime

(* What only the first thread of a rank does. *)
MasterInv ==
  \A x \in RankInfo : pc[x] \in {"xSend", "xReduce", "check", "final"} => x \in Masters

(* Has thread x found out the cycle of the next thread sync? *)
Post(x) ==
  \/ pc[x] \in {"R3", "T2", "check", "R4", "end", "next", "R5"}
  \/ pc[x] = "exitB" /\ back[x] = "next"

(* Has rank r found out the cycle of the next rank sync? *)
Reduced(r) ==
  \/ pc[Master(r)] \in {"xAll", "R2", "R3", "check"}
  \/ pc[Master(r)] = "after" /\ syncType[Master(r)] = "RANK"

(* Has thread x, in a sync, not yet found out anything? *)
Fresh(x) ==
  \/ pc[x] \in {"R0", "T0", "before", "R1", "T1"} \cup (Exchanging \ {"xAll"})
  \/ pc[x] = "xAll" /\ ~Reduced(x[1])
  \/ pc[x] = "after" /\ syncType[x] = "THREAD"

(* The cycle of the thread sync after this one, as x finds it out. *)
NextThreadSync(x) ==
  LET nextmin == LocalMinimum(x[1])
  IN  IF ThreadLat(x[1]) = MaxTime THEN MaxTime
      ELSE IF Direct THEN Plus(now[x], ThreadLat(x[1]))
      ELSE MaxOf(nextmin, Plus(nextmin, ThreadLat(x[1])))

(* The times of the next syncs agree. *)
TimesAgree ==
  /\ \A q, r \in Ranks : rankNext[q] = rankNext[r]
  /\ MinPart = MaxTime => \A r \in Ranks : rankNext[r] = MaxTime
  /\ \A x \in RankInfo : ThreadLat(x[1]) = MaxTime => threadNext[x] = MaxTime
  /\ \A x, y \in RankInfo :
       x[1] = y[1] /\ (Post(x) <=> Post(y)) => threadNext[x] = threadNext[y]
  /\ \A x \in RankInfo : pc[x] \in {"R3", "T2"} => threadNext[x] = NextThreadSync(x)

(* The types of the syncs agree. *)
TypesAgree ==
  \A x, y \in RankInfo :
    x[1] = y[1] /\ pc[x] # "R5" /\ pc[y] # "R5" => syncType[x] = syncType[y]

(* The next sync is in the vortex of a thread until it begins. *)
NextSync(x) == NextCycle(x[1], rankNext[x[1]], threadNext[x])
Queued ==
  \A x \in RankInfo :
    /\ Fresh(x) \/ pc[x] = "R5" \/ (pc[x] = "run" /\ ~endSim[x]) =>
         syncType[x] = NextType(x[1], rankNext[x[1]], threadNext[x])
    /\ ~endSim[x] => {a \in tv[x] : a.kind = "sync"} =
                       IF pc[x] \in {"run", "R5"} THEN {SyncAt(NextSync(x))} ELSE {}

(* The clocks in a sync. *)
ClocksAgree ==
  /\ \A x \in RankInfo : Fresh(x) => now[x] = NextSync(x)
  /\ \A x, y \in RankInfo :
       x[1] = y[1] /\ ~Post(x) /\ pc[y] = "T2" /\ Direct => now[y] = NextSync(x)
  /\ \A x, y \in RankInfo : x[1] = y[1] /\ InSync(x) /\ InSync(y) => now[x] = now[y]

(* The ranks find out the next rank sync together. *)
RanksAgree ==
  MinPart # MaxTime => \A q, r \in Ranks :
    /\ Reduced(q) = Reduced(r)
    /\ Reduced(q) => now[Master(q)] = now[Master(r)]

SyncInv ==
  /\ TypeInv /\ Lockstep /\ TypeOfSync /\ MasterInv /\ TimesAgree /\ TypesAgree
  /\ Queued /\ ClocksAgree /\ RanksAgree

----------------------------------------------------------------------------
(* Simulated time.                                                         *)

(* Sums and differences are times again. *)
LEMMA TimeSums ==
  ASSUME NEW a \in Int, NEW b \in Int
  PROVE  Plus(a, b) \in SimTime /\ Minus(a, b) \in SimTime
  <1> DEFINE d == MaxTime + 1
  <1>1. d \in Nat \ {0} /\ SimTime = 0 .. d - 1 /\ a + b \in Int /\ a - b \in Int
    BY BaseAssumption DEF SimTime
  <1>2. Plus(a, b) = (a + b) % d /\ Minus(a, b) = (a - b) % d
    BY DEF Plus, Minus
  <1> HIDE DEF d
  <1>3. \A n \in Int : n % d \in 0 .. d - 1
    BY <1>1
  <1> QED BY <1>1, <1>2, <1>3

(* A set of times has an earliest. *)
LEMMA EarliestTime ==
  ASSUME NEW S \in SUBSET SimTime, S # {}
  PROVE  MinTime(S) \in S /\ \A u \in S : MinTime(S) <= u
  <1>1. SimTime \subseteq Nat
    BY BaseAssumption DEF SimTime
  <1> DEFINE R == OpToRel(<, Nat)
  <1>2. \E t \in S : \A u \in S : <<u, t>> \notin R
    <2>1. IsWellFoundedOn(R, Nat)
      BY NatLessThanWellFounded
    <2> HIDE DEF R
    <2> QED BY <1>1, <2>1, WFMin
  <1>3. \A t, u \in Nat : <<u, t>> \notin R => t <= u
    BY DEF OpToRel
  <1>4. \E t \in S : \A u \in S : t <= u
    <2> HIDE DEF R
    <2> QED BY <1>1, <1>2, <1>3
  <1> QED BY <1>4 DEF MinTime

(* A set of times has a latest. *)
LEMMA LatestTime ==
  ASSUME NEW S \in SUBSET SimTime, S # {}
  PROVE  \E t \in S : \A u \in S : u <= t
  <1> DEFINE T == {MaxTime - u : u \in S}
  <1>1. T \in SUBSET SimTime /\ T # {}
    BY BaseAssumption DEF SimTime
  <1>2. MinTime(T) \in T /\ \A v \in T : MinTime(T) <= v
    BY <1>1, EarliestTime
  <1>3. PICK t \in S : MinTime(T) = MaxTime - t
    BY <1>2
  <1>4. \A u \in S : MaxTime - t <= MaxTime - u
    BY <1>2, <1>3
  <1>5. \A u \in S : u \in Int /\ t \in Int /\ MaxTime \in Int
    BY BaseAssumption DEF SimTime
  <1> QED BY <1>4, <1>5

(* The records the activities are. *)
LEMMA ActivityFields ==
  ASSUME NEW a \in Activities
  PROVE  /\ a.time \in SimTime /\ a.kind \in {"sync", "stop", "event"}
         /\ a.kind = "event" => a \in Events
         /\ a.kind = "sync" => a = SyncAt(a.time)
         /\ a.kind = "stop" => a = StopAt(a.time)
         /\ Priority[a.kind] \in Nat
  BY DEF Activities, Events, SyncAt, StopAt, Activity, Priority

(* Syncs, stops and events are activities. *)
LEMMA ActivityKinds ==
  /\ \A t \in SimTime : SyncAt(t) \in Activities /\ StopAt(t) \in Activities
  /\ Events \subseteq Activities
  /\ \A t : SyncAt(t).kind = "sync" /\ SyncAt(t).time = t
  /\ \A t : StopAt(t).kind = "stop" /\ StopAt(t).time = t
  /\ \A e \in Events : e.kind = "event"
  BY DEF Activities, Events, SyncAt, StopAt, Activity

(* A vortex that is not empty has a front. *)
LEMMA Front ==
  ASSUME NEW S \in SUBSET Activities, S # {}
  PROVE  /\ \E a \in S : a \in Earliest(S)
         /\ \A a \in Earliest(S) : a \in S /\ \A b \in S : a.time <= b.time
  <1> DEFINE T == {a.time : a \in S}
             t == MinTime(T)
             F == {a \in S : a.time = t}
             P == {Priority[a.kind] : a \in F}
             p == MinTime(P)
  <1>0. \A a \in S : a.time \in SimTime /\ Priority[a.kind] \in Nat
                     /\ a.kind \in {"sync", "stop", "event"}
    BY ActivityFields
  <1>00. SimTime \subseteq Int
    BY DEF SimTime
  <1>1. T \in SUBSET SimTime /\ T # {}
    BY <1>0
  <1>2. t \in T /\ \A u \in T : t <= u
    BY <1>1, EarliestTime
  <1> HIDE DEF t
  <1>3. F # {} /\ F \subseteq S
    BY <1>2
  <1>4. \E a \in F : \A b \in F : Priority[a.kind] <= Priority[b.kind]
    <2>1. \A a \in F : a.kind \in {"sync", "stop", "event"}
      BY <1>0
    <2>2. Priority["sync"] = 25 /\ Priority["stop"] = 30 /\ Priority["event"] = 50
      BY DEF Priority
    <2>3. CASE \E a \in F : a.kind = "sync"
      BY <2>1, <2>2, <2>3
    <2>4. CASE (\E a \in F : a.kind = "stop") /\ ~ \E a \in F : a.kind = "sync"
      BY <2>1, <2>2, <2>4
    <2>5. CASE ~(\E a \in F : a.kind = "stop") /\ ~ \E a \in F : a.kind = "sync"
      BY <2>1, <2>2, <2>5, <1>3
    <2> QED BY <2>3, <2>4, <2>5
  <1>5. PICK a \in F : \A b \in F : Priority[a.kind] <= Priority[b.kind]
    BY <1>4
  <1>6. ASSUME NEW b \in S PROVE ~Less(b, a)
    <2>1. a.time = t /\ t <= b.time /\ t \in Int /\ b.time \in Int
      BY <1>0, <1>00, <1>2
    <2>2. b.time = t => Priority[a.kind] <= Priority[b.kind]
      BY <1>5
    <2>3. Priority[a.kind] \in Int /\ Priority[b.kind] \in Int
      BY <1>0
    <2> QED BY <2>1, <2>2, <2>3 DEF Less
  <1>7. a \in Earliest(S)
    BY <1>6 DEF Earliest
  <1>8. ASSUME NEW e \in Earliest(S), NEW b \in S PROVE e \in S /\ e.time <= b.time
    <2>1. e \in S /\ ~Less(b, e)
      BY DEF Earliest
    <2>2. e.time \in Int /\ b.time \in Int
      BY <2>1, <1>0, <1>00
    <2> QED BY <2>1, <2>2 DEF Less
  <1> QED BY <1>7, <1>8 DEF Earliest

(* The earliest activity of a rank whose vortices are not empty. *)
LEMMA RankMinimum ==
  ASSUME NEW r \in Ranks, tv \in [RankInfo -> SUBSET Activities],
         \A x \in ThreadsOf(r) : tv[x] # {}
  PROVE  /\ LocalMinimum(r) \in SimTime
         /\ \A x \in ThreadsOf(r) : \A a \in tv[x] : LocalMinimum(r) <= a.time
         /\ \E x \in ThreadsOf(r) : \E a \in tv[x] : LocalMinimum(r) = a.time
  <1> DEFINE T == {a.time : a \in UNION {Earliest(tv[x]) : x \in ThreadsOf(r)}}
  <1>0. LocalMinimum(r) = MinTime(T)
    BY DEF LocalMinimum
  <1>1. \A x \in ThreadsOf(r) : tv[x] \in SUBSET Activities /\ tv[x] # {}
    BY DEF ThreadsOf
  <1>2. T \in SUBSET SimTime
    <2>1. ASSUME NEW x \in ThreadsOf(r), NEW a \in Earliest(tv[x]) PROVE a.time \in SimTime
      <3>1. a \in tv[x] /\ tv[x] \in SUBSET Activities
        BY <1>1 DEF Earliest
      <3> QED BY <3>1, ActivityFields
    <2> QED BY <2>1
  <1>3. Master(r) \in ThreadsOf(r)
    BY BaseAssumption DEF Master, ThreadsOf, RankInfo, TIds
  <1>4. T # {}
    <2>1. PICK a \in Earliest(tv[Master(r)]) : TRUE
      BY <1>1, <1>3, Front
    <2>2. a.time \in T
      BY <1>3
    <2> QED BY <2>2
  <1>5. MinTime(T) \in T /\ \A u \in T : MinTime(T) <= u
    BY <1>2, <1>4, EarliestTime
  <1>6. ASSUME NEW x \in ThreadsOf(r), NEW a \in tv[x] PROVE LocalMinimum(r) <= a.time
    <2>1. PICK b \in tv[x] : b \in Earliest(tv[x])
      BY <1>1, Front
    <2>2. b.time \in T
      BY <2>1
    <2>3. b.time <= a.time
      BY <1>1, <2>1, Front
    <2>4. MinTime(T) <= b.time
      BY <1>5, <2>2
    <2>5. MinTime(T) \in SimTime /\ b.time \in SimTime /\ a.time \in SimTime
      BY <1>1, <1>2, <1>5, ActivityFields
    <2> QED BY <1>0, <2>3, <2>4, <2>5 DEF SimTime
  <1>7. \E x \in ThreadsOf(r) : \E a \in tv[x] : LocalMinimum(r) = a.time
    BY <1>0, <1>5 DEF Earliest
  <1> QED BY <1>0, <1>2, <1>5, <1>6, <1>7

(* It stays as it is where the vortices do. *)
LEMMA MinimumStays ==
  ASSUME NEW r \in Ranks, \A x \in ThreadsOf(r) : tv'[x] = tv[x]
  PROVE  LocalMinimum(r)' = LocalMinimum(r)
  <1>1. \A x \in ThreadsOf(r) : Earliest(tv'[x]) = Earliest(tv[x])
    OBVIOUS
  <1>2. {Earliest(tv'[x]) : x \in ThreadsOf(r)} = {Earliest(tv[x]) : x \in ThreadsOf(r)}
    BY <1>1
  <1>3. LocalMinimum(r)' = MinTime({a.time : a \in UNION {Earliest(tv'[x]) : x \in ThreadsOf(r)}})
    BY DEF LocalMinimum, ThreadsOf, Earliest, MinTime, Less
  <1> QED BY <1>2, <1>3 DEF LocalMinimum

(* The ranks can find out the latest of their end times. *)
LEMMA LatestEndTime ==
  ASSUME endTime \in [Ranks -> SimTime] PROVE LatestEnd(Ranks) \in SimTime
  <1> DEFINE S == {endTime[r] : r \in Ranks}
  <1>1. 0 \in Ranks
    BY BaseAssumption DEF Ranks
  <1>2. S \in SUBSET SimTime /\ S # {}
    BY <1>1
  <1>3. \E t \in S : \A u \in S : u <= t
    BY <1>2, LatestTime
  <1>4. \E t \in S : \A r \in Ranks : endTime[r] <= t
    BY <1>3
  <1>5. LatestEnd(Ranks) \in S
    BY <1>4 DEF LatestEnd
  <1> QED BY <1>2, <1>5

(* The ranks that are not done yet can be counted. *)
LEMMA OpenRanksCount == OpenRanks(Ranks) \in 0 .. NumRanks
  <1> DEFINE S == {r \in Ranks : refCount[r] > 0}
  <1>1. IsFiniteSet(Ranks) /\ Cardinality(Ranks) = NumRanks
    BY FS_Interval, BaseAssumption DEF Ranks
  <1>2. S \in SUBSET Ranks
    OBVIOUS
  <1>3. IsFiniteSet(S) /\ Cardinality(S) <= Cardinality(Ranks)
    BY <1>1, <1>2, FS_Subset
  <1>4. Cardinality(S) \in Nat
    BY <1>3, FS_CardinalityType
  <1> QED BY <1>1, <1>3, <1>4, BaseAssumption DEF OpenRanks

----------------------------------------------------------------------------
(* Types.                                                                  *)

(* What a run is started with. *)
LEMMA ConfigFacts ==
  ASSUME config \in Configs
  PROVE  /\ Direct \in BOOLEAN /\ StopCycle \in SimTime
         /\ RankLat \in SimTime \ {0}
         /\ \A r \in Ranks : ThreadLat(r) \in SimTime \ {0}
         /\ \A x \in RankInfo : ThreadLat(x[1]) \in SimTime \ {0}
         /\ NumThreads = 1 => \A x \in RankInfo : ThreadLat(x[1]) = MaxTime
         /\ NumRanks = 1 => RankLat = MaxTime
         /\ Direct => \A x \in RankInfo : ThreadLat(x[1]) > 1
         /\ Active \subseteq Comps /\ \A c \in Active : config.start[c] \in SimTime
         /\ MinPart = RankLat
  <1>1. config \in Configurations
    BY SimAssumption
  <1>2. PICK C \in SUBSET Comps : config.start \in [C -> SimTime]
    BY <1>1 DEF Configurations
  <1>3. \A x \in RankInfo : x[1] \in Ranks
    BY DEF RankInfo
  <1>4. /\ config.threadLat \in [Ranks -> SimTime \ {0}]
        /\ NumThreads = 1 => \A r \in Ranks : ThreadLat(r) = MaxTime
        /\ Direct => \A r \in Ranks : ThreadLat(r) > 1
    BY <1>1, SimAssumption DEF Configurations, ThreadLat, Direct
  <1>5. \A r \in Ranks : ThreadLat(r) \in SimTime \ {0}
    BY <1>4 DEF ThreadLat
  <1> QED BY <1>1, <1>2, <1>3, <1>4, <1>5, SimAssumption
          DEF Configurations, Direct, StopCycle, RankLat, MinPart, Active

(* The place of the largest time, and of the first. *)
LEMMA TimeBounds ==
  /\ MaxTime \in SimTime /\ 0 \in SimTime
  /\ \A t \in SimTime : t \in Nat /\ t \in Int /\ 0 <= t /\ t <= MaxTime
  BY BaseAssumption DEF SimTime

(* Every rank has a master; a thread belongs to a rank. *)
LEMMA Threads ==
  /\ \A r \in Ranks : Master(r) \in RankInfo /\ Master(r)[1] = r /\ Master(r) \in Masters
  /\ \A x \in RankInfo : x[1] \in Ranks
  /\ Masters \subseteq RankInfo
  /\ \A x \in Masters : x = Master(x[1])
  /\ NumThreads = 1 => \A x, y \in RankInfo : x[1] = y[1] => x = y
  BY BaseAssumption DEF Master, Masters, RankInfo, TIds

(* The cycle of the next sync is a time. *)
LEMMA NextCycleTime ==
  ASSUME NEW r, NEW rn \in SimTime, NEW tn \in SimTime
  PROVE  /\ NextCycle(r, rn, tn) \in SimTime /\ NextCycle(r, rn, tn) <= rn
         /\ NextType(r, rn, tn) \in {"RANK", "THREAD"}
         /\ NextType(r, rn, tn) = "RANK" => NextCycle(r, rn, tn) = rn
         /\ NextType(r, rn, tn) = "THREAD" => NextCycle(r, rn, tn) = ThreadNextSync(r, tn)
  <1>1. ThreadNextSync(r, tn) \in SimTime
    BY TimeSums, TimeBounds DEF ThreadNextSync
  <1>2. ThreadNextSync(r, tn) \in Int /\ rn \in Int
    BY <1>1 DEF SimTime
  <1>3. CASE rn <= ThreadNextSync(r, tn)
    BY <1>1, <1>2, <1>3 DEF NextCycle, NextType
  <1>4. CASE ~(rn <= ThreadNextSync(r, tn))
    BY <1>1, <1>2, <1>4 DEF NextCycle, NextType
  <1> QED BY <1>3, <1>4

(* What a component sends are events, and no more of them than it may. *)
LEMMA SentEvents ==
  ASSUME CountInv, Shapes, NEW c \in Comps, NEW t \in SimTime, NEW S \in Sends(c, t)
  PROVE  /\ S \in SUBSET Events
         /\ sent[c] + Cardinality(S) \in 0 .. MaxSends
  <1> DEFINE n == sent[c]
             Ms(i) == Messages(c, t, i)
             Ts(i) == Timers(c, t, i)
  <1>1. n \in 0 .. MaxSends /\ MaxSends \in Nat
    BY SimAssumption DEF Shapes
  <1>2. ASSUME NEW i \in 1 .. MaxSends PROVE Ts(i) \subseteq Events
    <2>0. Periods \subseteq Nat
      BY SimAssumption
    <2>1. \A d \in Periods : Plus(t, d) \in SimTime
      BY <2>0, TimeSums, TimeBounds
    <2> QED BY <2>1 DEF Timers, EventTo, Activity, Events
  <1>3. ASSUME NEW i \in 1 .. MaxSends PROVE Ms(i) \subseteq Events
    <2>0. /\ LocalLat \in Nat /\ RankLat \in Nat
          /\ \A x \in RankInfo : ThreadLat(x[1]) \in Nat
      BY ConfigFacts, TimeBounds, SimAssumption DEF CountInv
    <2>1. \A d \in Comps : Latency(Home[c], Home[d]) \in Nat
      BY <2>0, HomeOf DEF Latency
    <2>2. \A d \in Comps : \A z \in Delays : Plus(t, Latency(Home[c], Home[d]) + z) \in SimTime
      BY <2>1, TimeSums, TimeBounds, SimAssumption
    <2> QED BY <2>2 DEF Messages, EventTo, Activity, Events
  <1>4. n + Cardinality(S) <= MaxSends
    BY DEF Sends
  <1>5. \/ S = {}
        \/ \E e \in Ts(n + 1) \cup Ms(n + 1) : S = {e}
        \/ \E e \in Ts(n + 1), f \in Ms(n + 2) : S = {e, f}
    BY DEF Sends
  <1>6. CASE S = {}
    BY <1>1, <1>4, <1>6, FS_EmptySet
  <1>7. ASSUME NEW e \in Ts(n + 1) \cup Ms(n + 1), S = {e}
        PROVE  S \in SUBSET Events /\ sent[c] + Cardinality(S) \in 0 .. MaxSends
    <2>1. Cardinality(S) = 1
      BY <1>7, FS_Singleton
    <2>2. n + 1 \in 1 .. MaxSends /\ n + Cardinality(S) \in 0 .. MaxSends
      BY <2>1, <1>1, <1>4
    <2> HIDE DEF Ms, Ts
    <2> QED BY <2>2, <1>2, <1>3, <1>7
  <1>8. ASSUME NEW e \in Ts(n + 1), NEW f \in Ms(n + 2), S = {e, f}
        PROVE  S \in SUBSET Events /\ sent[c] + Cardinality(S) \in 0 .. MaxSends
    <2>1. e.seq = n + 1 /\ f.seq = n + 2
      BY DEF Timers, Messages, EventTo, Activity
    <2>2. f # e
      <3>1. n + 1 # n + 2
        BY <1>1
      <3> HIDE DEF n, Ms, Ts
      <3> QED BY <2>1, <3>1
    <2>3. Cardinality({e} \cup {f}) = 2
      <3>1. IsFiniteSet({e}) /\ Cardinality({e}) = 1 /\ f \notin {e}
        BY <2>2, FS_Singleton
      <3>2. Cardinality({e} \cup {f}) = Cardinality({e}) + 1
        BY <3>1, FS_AddElement
      <3> QED BY <3>1, <3>2
    <2>4. S = {e} \cup {f}
      BY <1>8
    <2>5. n + 1 \in 1 .. MaxSends /\ n + 2 \in 1 .. MaxSends /\ n + Cardinality(S) \in 0 .. MaxSends
      BY <2>3, <2>4, <1>1, <1>4
    <2> HIDE DEF Ms, Ts
    <2> QED BY <2>5, <1>2, <1>3, <1>8
  <1> QED BY <1>5, <1>6, <1>7, <1>8

(* Where events that are sent go. *)
LEMMA SendAllTypes ==
  ASSUME Shapes, NEW x \in RankInfo, NEW S \in SUBSET Events,
         NEW own \in SUBSET Activities, SendAll(x, S, own)
  PROVE  /\ tv' \in [RankInfo -> SUBSET Activities]
         /\ tq' \in [RankInfo -> SUBSET Events] /\ rq' \in [Ranks -> SUBSET Events]
         /\ own \subseteq tv'[x]
         /\ \A y \in RankInfo : y # x => tv[y] \subseteq tv'[y]
         /\ \A y \in RankInfo : y[1] # x[1] => tv'[y] = tv[y]
         /\ \A y \in RankInfo : \A a \in tv'[y] : a \in (IF y = x THEN own ELSE tv[y]) \/ a \in S
  <1>1. \A y \in RankInfo : \A w : Carried(S, x, y, w) \subseteq S
    BY DEF Carried
  <1>2. \A y \in RankInfo : y[1] # x[1] => Carried(S, x, y, "vortex") = {}
    BY DEF Carried, Route
  <1>3. S \subseteq Activities
    BY ActivityKinds
  <1>4. x[1] \in Ranks
    BY Threads
  <1> QED BY <1>1, <1>2, <1>3, <1>4 DEF SendAll, Shapes

(* Initially everything has its type, and a stop event is left. *)
LEMMA TypeInit == Init => TypeInv
  <1> SUFFICES ASSUME Init PROVE TypeInv
    OBVIOUS
  <1>1. CountInv
    BY CountInit
  <1>2. config \in Configs /\ ExitInit(Primary)
    BY DEF Init
  <1>3. MinPart \in SimTime /\ StopCycle \in SimTime
        /\ \A x \in RankInfo : ThreadLat(x[1]) \in SimTime
    BY <1>2, ConfigFacts
  <1>4. \A x \in RankInfo : tv[x] \in SUBSET Activities /\ StopAt(MaxTime) \in tv[x]
    <2> SUFFICES ASSUME NEW x \in RankInfo
                 PROVE  tv[x] \in SUBSET Activities /\ StopAt(MaxTime) \in tv[x]
      OBVIOUS
    <2>1. tv[x] = InitialStops(x)
                  \cup {SyncAt(NextCycle(x[1], MinPart, ThreadLat(x[1])))}
                  \cup {EventTo(c, config.start[c], c, 1) : c \in Active \cap PlacedOn(x)}
      BY DEF Init
    <2>2. InitialStops(x) \subseteq Activities /\ StopAt(MaxTime) \in InitialStops(x)
      BY <1>3, TimeBounds, ActivityKinds DEF InitialStops
    <2>3. SyncAt(NextCycle(x[1], MinPart, ThreadLat(x[1]))) \in Activities
      BY <1>3, NextCycleTime, ActivityKinds
    <2>4. ASSUME NEW c \in Active PROVE EventTo(c, config.start[c], c, 1) \in Events
      <3>1. c \in Comps /\ config.start[c] \in SimTime
        BY <1>2, ConfigFacts
      <3> QED BY <3>1, SimAssumption DEF EventTo, Activity, Events
    <2> QED BY <2>1, <2>2, <2>3, <2>4, ActivityKinds
  <1>5. tv \in [RankInfo -> SUBSET Activities]
    BY <1>4 DEF Init
  <1>6. endTime \in [Ranks -> SimTime] /\ globalCount \in [Ranks -> 0 .. NumRanks]
    BY <1>2, TimeBounds, BaseAssumption DEF ExitInit
  <1>7. net \in [Ranks \X RankInfo -> Seq(SUBSET Events)]
    BY DEF Init
  <1>8. sent \in [Comps -> 0 .. MaxSends]
    BY SimAssumption DEF Init
  <1>9. /\ syncType \in [RankInfo -> {"RANK", "THREAD"}]
        /\ threadNext \in [RankInfo -> SimTime] /\ rankNext \in [Ranks -> SimTime]
    BY <1>3, NextCycleTime DEF Init
  <1>10. Shapes
    BY <1>5, <1>6, <1>7, <1>8, <1>9, TimeBounds DEF Init, Shapes, PCs
  <1>11. EndInv
    BY <1>4 DEF Init, EndInv
  <1> QED BY <1>1, <1>10, <1>11 DEF TypeInv

(* A thread that pops an activity. *)
LEMMA Popped ==
  ASSUME TypeInv, NEW x \in RankInfo, NEW a \in Earliest(tv[x]), Pop(x, a)
  PROVE  /\ a \in tv[x] /\ a \in Activities /\ a.time \in SimTime
         /\ \A b \in tv[x] : a.time <= b.time
         /\ now' \in [RankInfo -> SimTime] /\ now'[x] = a.time
         /\ \A y \in RankInfo : y # x => now'[y] = now[y]
         /\ pc[x] = "run" /\ endSim[x] = FALSE /\ StopAt(MaxTime) \in tv[x]
  <1>1. tv[x] \in SUBSET Activities /\ StopAt(MaxTime) \in tv[x]
        /\ pc[x] = "run" /\ endSim[x] = FALSE
    BY DEF TypeInv, Shapes, EndInv, Pop
  <1>2. a \in tv[x] /\ \A b \in tv[x] : a.time <= b.time
    BY <1>1, Front
  <1>3. a.time \in SimTime
    BY <1>1, <1>2, ActivityFields
  <1> QED BY <1>1, <1>2, <1>3 DEF Pop, TypeInv, Shapes

(* What Handle does to the vortices, whatever the component says. *)
HandleParts(x, a, S, own) ==
  /\ a.kind = "event" /\ a \in Earliest(tv[x]) /\ Pop(x, a)
  /\ S \in Sends(a.comp, a.time)
  /\ own \in {tv[x] \ {a}, (tv[x] \ {a}) \cup {StopAt(a.time)}}
  /\ SendAll(x, S, own)
  /\ sent' = [sent EXCEPT ![a.comp] = @ + Cardinality(S)]
  /\ UNCHANGED <<pc, back, syncVars, net, got, endVars, config>>
  /\ \/ UNCHANGED <<exitVars, okAt>>
     \/ /\ RefDec(a.comp, a.time)
        /\ okAt' = [okAt EXCEPT ![a.comp] = IF a.comp \in idSet[x[1]] THEN a.time ELSE @]
     \/ RefInc(a.comp) /\ UNCHANGED okAt

LEMMA HandleHas ==
  ASSUME NEW x \in RankInfo, Handle(x)
  PROVE  \E a, S, own : HandleParts(x, a, S, own)
  <1>1. PICK a \in Earliest(tv[x]), say \in {"nothing", "ok", "open"} :
          /\ a.kind = "event" /\ Pop(x, a)
          /\ \E S \in Sends(a.comp, a.time) :
               /\ \/ /\ say = "nothing"
                     /\ UNCHANGED <<exitVars, okAt>>
                     /\ SendAll(x, S, tv[x] \ {a})
                  \/ /\ say = "ok" /\ a.comp \in Primary \cup Reopening
                     /\ RefDec(a.comp, a.time)
                     /\ okAt' = [okAt EXCEPT ![a.comp] = IF a.comp \in idSet[x[1]] THEN a.time ELSE @]
                     /\ SendAll(x, S, AfterOK(tv[x] \ {a}, a.comp, a.time))
                  \/ /\ say = "open" /\ a.comp \in Reopening
                     /\ RefInc(a.comp)
                     /\ UNCHANGED okAt
                     /\ SendAll(x, S, tv[x] \ {a})
               /\ a.comp \in idSet'[x[1]] => SelfPending(a.comp, (tv[x] \ {a}) \cup S)
               /\ sent' = [sent EXCEPT ![a.comp] = @ + Cardinality(S)]
          /\ UNCHANGED <<pc, back, syncVars, net, got, endVars, config>>
    BY ZenonT(60) DEF Handle
  <1>2. PICK S \in Sends(a.comp, a.time) :
          /\ \/ /\ UNCHANGED <<exitVars, okAt>>
                /\ SendAll(x, S, tv[x] \ {a})
             \/ /\ RefDec(a.comp, a.time)
                /\ okAt' = [okAt EXCEPT ![a.comp] = IF a.comp \in idSet[x[1]] THEN a.time ELSE @]
                /\ SendAll(x, S, AfterOK(tv[x] \ {a}, a.comp, a.time))
             \/ /\ RefInc(a.comp)
                /\ UNCHANGED okAt
                /\ SendAll(x, S, tv[x] \ {a})
          /\ sent' = [sent EXCEPT ![a.comp] = @ + Cardinality(S)]
    BY <1>1
  <1>3. AfterOK(tv[x] \ {a}, a.comp, a.time)
          \in {tv[x] \ {a}, (tv[x] \ {a}) \cup {StopAt(a.time)}}
    BY DEF AfterOK
  <1>4. CASE SendAll(x, S, tv[x] \ {a})
    BY <1>1, <1>2, <1>3, <1>4 DEF HandleParts
  <1>5. CASE /\ RefDec(a.comp, a.time)
             /\ okAt' = [okAt EXCEPT ![a.comp] = IF a.comp \in idSet[x[1]] THEN a.time ELSE @]
             /\ SendAll(x, S, AfterOK(tv[x] \ {a}, a.comp, a.time))
    BY <1>1, <1>2, <1>3, <1>5 DEF HandleParts
  <1> QED BY <1>2, <1>4, <1>5

(* The Exit object keeps its end time a time. *)
LEMMA EndTimeType ==
  ASSUME endTime \in [Ranks -> SimTime], NEW c \in Comps, NEW t \in SimTime,
         RefDec(c, t) \/ RefInc(c) \/ UNCHANGED exitVars
  PROVE  endTime' \in [Ranks -> SimTime] /\ globalCount' = globalCount
  <1>1. CASE UNCHANGED exitVars
    BY <1>1 DEF exitVars
  <1>2. CASE RefInc(c)
    BY <1>2 DEF RefInc, exitVars
  <1>3. CASE RefDec(c, t)
    <2>1. \A u \in SimTime : MaxOf(u, t) \in SimTime
      BY DEF MaxOf
    <2>2. Home[c][1] \in Ranks
      BY HomeOf
    <2> QED BY <1>3, <2>1, <2>2 DEF RefDec, exitVars
  <1> QED BY <1>1, <1>2, <1>3

(* A component handles an event. *)
LEMMA HandleTypes ==
  ASSUME TypeInv, NEW x \in RankInfo, NEW a, NEW S, NEW own, HandleParts(x, a, S, own)
  PROVE  /\ Shapes' /\ EndInv'
         /\ S \in SUBSET Events /\ own \in SUBSET Activities
         /\ a \in Events /\ a.comp \in Comps /\ a.time \in SimTime
  <1>0. a \in Earliest(tv[x]) /\ Pop(x, a)
    BY DEF HandleParts
  <1>1. /\ a \in tv[x] /\ a \in Activities /\ a.time \in SimTime
        /\ now' \in [RankInfo -> SimTime] /\ StopAt(MaxTime) \in tv[x]
    BY <1>0, Popped
  <1>2. a \in Events /\ a.comp \in Comps /\ a.kind = "event"
    BY <1>1, ActivityFields DEF HandleParts, Events
  <1>3. S \in SUBSET Events /\ sent[a.comp] + Cardinality(S) \in 0 .. MaxSends
    BY <1>1, <1>2, SentEvents DEF HandleParts, TypeInv
  <1>4. own \in SUBSET Activities /\ StopAt(MaxTime) \in own
    <2>1. tv[x] \in SUBSET Activities /\ StopAt(a.time) \in Activities
      BY <1>1, ActivityKinds DEF TypeInv, Shapes
    <2>2. StopAt(MaxTime) # a
      BY <1>2, ActivityKinds
    <2> QED BY <1>1, <2>1, <2>2 DEF HandleParts
  <1>5. /\ tv' \in [RankInfo -> SUBSET Activities]
        /\ tq' \in [RankInfo -> SUBSET Events] /\ rq' \in [Ranks -> SUBSET Events]
        /\ own \subseteq tv'[x]
        /\ \A y \in RankInfo : y # x => tv[y] \subseteq tv'[y]
    BY <1>3, <1>4, SendAllTypes DEF HandleParts, TypeInv
  <1>6. endTime' \in [Ranks -> SimTime] /\ globalCount' = globalCount
    BY <1>1, <1>2, EndTimeType DEF HandleParts, TypeInv, Shapes, exitVars
  <1>7. sent' \in [Comps -> 0 .. MaxSends]
    BY <1>2, <1>3 DEF HandleParts, TypeInv, Shapes
  <1>8. okAt' \in [Comps -> SimTime]
    BY <1>1, <1>2 DEF HandleParts, TypeInv, Shapes
  <1>9. UNCHANGED <<pc, back, syncType, threadNext, rankNext, net, got, endSim, endCycle>>
    BY DEF HandleParts, syncVars, endVars
  <1>10. Shapes'
    BY <1>1, <1>5, <1>6, <1>7, <1>8, <1>9 DEF TypeInv, Shapes
  <1>11. EndInv'
    <2>1. \A y \in RankInfo : StopAt(MaxTime) \in tv[y] => StopAt(MaxTime) \in tv'[y]
      BY <1>4, <1>5
    <2> QED BY <2>1, <1>9 DEF TypeInv, EndInv
  <1> QED BY <1>1, <1>2, <1>3, <1>4, <1>10, <1>11

(* A thread stops, or begins a sync. *)
LEMMA StopTypes ==
  ASSUME TypeInv, NEW x \in RankInfo, Stop(x) PROVE Shapes' /\ EndInv'
  <1>1. PICK a \in Earliest(tv[x]) :
          /\ a.kind = "stop" /\ Pop(x, a)
          /\ tv' = [tv EXCEPT ![x] = @ \ {a}]
          /\ SetEndTime(x[1], a.time)
          /\ EndSimulation(x, a.time, "run")
          /\ UNCHANGED <<syncVars, queueVars, compVars>>
    BY DEF Stop
  <1>2. a.time \in SimTime /\ now' \in [RankInfo -> SimTime] /\ pc[x] = "run"
    BY <1>1, Popped
  <1>3. tv' \in [RankInfo -> SUBSET Activities] /\ \A y \in RankInfo : y # x => tv'[y] = tv[y]
    BY <1>1 DEF TypeInv, Shapes
  <1>4. Shapes'
    BY <1>1, <1>2, <1>3 DEF TypeInv, Shapes, SetEndTime, EndSimulation, syncVars, queueVars,
                            compVars, PCs, Barriers
  <1>5. /\ \A y \in RankInfo : y # x => endSim'[y] = endSim[y] /\ pc'[y] = pc[y]
        /\ endSim'[x] = TRUE /\ pc'[x] = "exitB"
    BY <1>1 DEF EndSimulation, TypeInv, Shapes
  <1>6. EndInv'
    BY <1>3, <1>5 DEF TypeInv, EndInv
  <1> QED BY <1>4, <1>6

LEMMA SyncTypes ==
  ASSUME TypeInv, NEW x \in RankInfo, Sync(x) PROVE Shapes' /\ EndInv'
  <1>1. PICK a \in Earliest(tv[x]) :
          /\ a.kind = "sync" /\ Pop(x, a)
          /\ tv' = [tv EXCEPT ![x] = @ \ {a}]
          /\ pc' = [pc EXCEPT ![x] = IF syncType[x] = "RANK" THEN "R0"
                                     ELSE IF Direct THEN "after" ELSE "T0"]
          /\ UNCHANGED <<back, syncVars, queueVars, endVars, compVars, exitVars>>
    BY DEF Sync
  <1>2. /\ now' \in [RankInfo -> SimTime] /\ pc[x] = "run" /\ StopAt(MaxTime) \in tv[x]
        /\ endSim[x] = FALSE
    BY <1>1, Popped
  <1>3. tv' \in [RankInfo -> SUBSET Activities] /\ \A y \in RankInfo : y # x => tv'[y] = tv[y]
    BY <1>1 DEF TypeInv, Shapes
  <1>4. Shapes'
    BY <1>1, <1>2, <1>3 DEF TypeInv, Shapes, syncVars, queueVars, endVars, compVars, exitVars,
                            PCs, Barriers, SyncCode
  <1>5. StopAt(MaxTime) \in tv'[x]
    <2>1. StopAt(MaxTime) # a
      BY <1>1, ActivityKinds
    <2> QED BY <2>1, <1>1, <1>2 DEF TypeInv, Shapes
  <1>6. /\ \A y \in RankInfo : y # x => pc'[y] = pc[y]
        /\ pc'[x] \in {"R0", "after", "T0"} /\ endSim' = endSim
    BY <1>1 DEF TypeInv, Shapes, endVars
  <1>7. EndInv'
    BY <1>2, <1>3, <1>5, <1>6 DEF TypeInv, EndInv
  <1> QED BY <1>4, <1>7

(* Events that are delivered late keep their time or wrap: times anyway. *)
Delivered(S, t) == {[e EXCEPT !.time = Plus(t, Minus(@, t))] : e \in S}

LEMMA DeliveredEvents ==
  ASSUME NEW S \in SUBSET Events, NEW t \in SimTime
  PROVE  Delivered(S, t) \in SUBSET Events
  <1> SUFFICES ASSUME NEW e \in S
               PROVE  [e EXCEPT !.time = Plus(t, Minus(@, t))] \in Events
    BY DEF Delivered
  <1>1. e \in Events /\ e.time \in SimTime
    BY DEF Events
  <1>2. Plus(t, Minus(e.time, t)) \in SimTime
    BY <1>1, TimeSums, TimeBounds
  <1> QED BY <1>1, <1>2 DEF Events

LEMMA BeforeTypes ==
  ASSUME TypeInv, NEW x \in RankInfo, Before(x) PROVE Shapes' /\ EndInv'
  <1>1. tv' = [tv EXCEPT ![x] = @ \cup Delivered(tq[x], now[x])]
    BY DEF Before, Delivered
  <1>2. Delivered(tq[x], now[x]) \in SUBSET Activities
    BY DeliveredEvents, ActivityKinds DEF TypeInv, Shapes
  <1>3. tv' \in [RankInfo -> SUBSET Activities] /\ \A y \in RankInfo : tv[y] \subseteq tv'[y]
    BY <1>1, <1>2 DEF TypeInv, Shapes
  <1>4. Shapes'
    BY <1>3 DEF Before, Goto, TypeInv, Shapes, syncVars, endVars, compVars, exitVars,
                PCs, Barriers, SyncCode
  <1>5. EndInv'
    BY <1>3 DEF Before, Goto, TypeInv, Shapes, EndInv, endVars
  <1> QED BY <1>4, <1>5

LEMMA SendRankTypes ==
  ASSUME TypeInv, NEW x \in RankInfo, SendRank(x) PROVE Shapes' /\ EndInv'
  <1>1. net' \in [Ranks \X RankInfo -> Seq(SUBSET Events)]
    <2>1. \A m \in Ranks \X RankInfo : net[m] \in Seq(SUBSET Events)
      BY DEF TypeInv, Shapes
    <2>2. x[1] \in Ranks
      BY Threads
    <2>3. \A m : {e \in rq[x[1]] : Home[e.comp] = m[2]} \in SUBSET Events
      BY <2>2 DEF TypeInv, Shapes
    <2>4. \A m \in Ranks \X RankInfo :
            Append(net[m], {e \in rq[x[1]] : Home[e.comp] = m[2]}) \in Seq(SUBSET Events)
      BY <2>1, <2>3, AppendProperties
    <2> QED BY <2>1, <2>4 DEF SendRank
  <1>2. Shapes'
    BY <1>1, Threads DEF SendRank, Goto, TypeInv, Shapes, syncVars, endVars, compVars, exitVars,
                PCs, Barriers, SyncCode
  <1>3. EndInv'
    BY DEF SendRank, Goto, TypeInv, Shapes, EndInv, endVars
  <1> QED BY <1>2, <1>3

LEMMA ReceiveRankTypes ==
  ASSUME TypeInv, NEW x \in RankInfo, NEW r \in Ranks, ReceiveRank(x, r)
  PROVE  Shapes' /\ EndInv' /\ Head(net[r, x]) \in SUBSET Events
  <1>1. net[r, x] \in Seq(SUBSET Events) /\ net[r, x] # <<>>
    BY DEF ReceiveRank, TypeInv, Shapes
  <1>2. Head(net[r, x]) \in SUBSET Events /\ Tail(net[r, x]) \in Seq(SUBSET Events)
    BY <1>1, HeadTailProperties
  <1>3. tv' = [tv EXCEPT ![x] = @ \cup Delivered(Head(net[r, x]), now[x])]
    BY DEF ReceiveRank, Delivered
  <1>4. Delivered(Head(net[r, x]), now[x]) \in SUBSET Activities
    BY <1>2, DeliveredEvents, ActivityKinds DEF TypeInv, Shapes
  <1>5. tv' \in [RankInfo -> SUBSET Activities] /\ \A y \in RankInfo : tv[y] \subseteq tv'[y]
    BY <1>3, <1>4 DEF TypeInv, Shapes
  <1>6. net' \in [Ranks \X RankInfo -> Seq(SUBSET Events)]
    BY <1>2 DEF ReceiveRank, TypeInv, Shapes
  <1>7. Shapes'
    BY <1>5, <1>6 DEF ReceiveRank, TypeInv, Shapes, syncVars, endVars, compVars, exitVars
  <1>8. EndInv'
    BY <1>5 DEF ReceiveRank, TypeInv, Shapes, EndInv, endVars
  <1> QED BY <1>2, <1>7, <1>8

(* The steps that touch no vortex and compute no time. *)
LEMMA QuietTypes ==
  ASSUME TypeInv, NEW x \in RankInfo, LeaveLoop(x) \/ ReceivedAll(x) \/ EndOrNext(x)
  PROVE  Shapes' /\ EndInv'
  <1>0. x[1] \in Ranks
    BY Threads
  <1>1. CASE LeaveLoop(x)
    BY <1>1 DEF LeaveLoop, TypeInv, Shapes, EndInv, syncVars, queueVars, endVars, compVars,
                exitVars, PCs, Barriers, SyncCode
  <1>2. CASE ReceivedAll(x)
    BY <1>2 DEF ReceivedAll, Goto, TypeInv, Shapes, EndInv, syncVars, endVars, compVars,
                exitVars, PCs, Barriers, SyncCode
  <1>3. CASE EndOrNext(x)
    <2>1. /\ pc[x] = "end"
          /\ \/ EndSimulation(x, endTime[x[1]], "next")
             \/ Goto(x, "next") /\ UNCHANGED <<back, endVars>>
          /\ UNCHANGED <<tv, now, syncVars, queueVars, compVars, exitVars>>
      BY <1>3 DEF EndOrNext
    <2>2. CASE EndSimulation(x, endTime[x[1]], "next")
      <3>1. Shapes'
        BY <1>0, <2>1, <2>2 DEF EndSimulation, TypeInv, Shapes, syncVars, queueVars, compVars,
                                exitVars, PCs, Barriers
      <3>2. EndInv'
        BY <2>1, <2>2 DEF EndSimulation, TypeInv, Shapes, EndInv
      <3> QED BY <3>1, <3>2
    <2>3. CASE Goto(x, "next") /\ UNCHANGED <<back, endVars>>
      <3>1. Shapes'
        BY <2>1, <2>3 DEF Goto, TypeInv, Shapes, syncVars, queueVars, endVars, compVars,
                          exitVars, PCs, SyncCode
      <3>2. EndInv'
        BY <2>1, <2>3 DEF Goto, TypeInv, Shapes, EndInv, endVars
      <3> QED BY <3>1, <3>2
    <2> QED BY <2>1, <2>2, <2>3
  <1> QED BY <1>1, <1>2, <1>3

LEMMA InsertNextTypes ==
  ASSUME TypeInv, NEW x \in RankInfo, InsertNext(x) PROVE Shapes' /\ EndInv'
  <1>1. /\ syncType' = [syncType EXCEPT ![x] = NextType(x[1], rankNext[x[1]], threadNext[x])]
        /\ tv' = [tv EXCEPT ![x] = @ \cup {SyncAt(NextSync(x))}]
    BY DEF InsertNext, NextSync
  <1>2. rankNext[x[1]] \in SimTime /\ threadNext[x] \in SimTime
    BY Threads DEF TypeInv, Shapes
  <1>3. SyncAt(NextSync(x)) \in Activities
        /\ NextType(x[1], rankNext[x[1]], threadNext[x]) \in {"RANK", "THREAD"}
    BY <1>2, NextCycleTime, ActivityKinds DEF NextSync
  <1>4. tv' \in [RankInfo -> SUBSET Activities] /\ \A y \in RankInfo : tv[y] \subseteq tv'[y]
    BY <1>1, <1>3 DEF TypeInv, Shapes
  <1>5. Shapes'
    BY <1>1, <1>3, <1>4 DEF InsertNext, Goto, TypeInv, Shapes, queueVars, endVars, compVars,
                            exitVars, PCs, Barriers
  <1>6. EndInv'
    BY <1>4 DEF InsertNext, Goto, TypeInv, Shapes, EndInv, endVars
  <1> QED BY <1>5, <1>6

(* Where a barrier lets a thread go. *)
LEMMA ResumeAt ==
  ASSUME NEW x, NEW b \in Barriers
  PROVE  /\ b \in {"R0", "T0"} => Resume(x, b) = "before"
         /\ b = "R1" => Resume(x, b) = IF MinPart = MaxTime THEN "R2"
                                       ELSE IF NumThreads = 1 THEN "xSend" ELSE "xStart"
         /\ b = "xStart" => Resume(x, b) = IF x = Master(x[1]) THEN "xSend" ELSE "xRecv"
         /\ b = "xDone" => Resume(x, b) = IF x = Master(x[1]) THEN "xReduce" ELSE "xAll"
         /\ b = "xAll" => Resume(x, b) = "R2"
         /\ b \in {"R2", "T1"} => Resume(x, b) = "after"
         /\ b = "R3" => Resume(x, b) = IF x = Master(x[1]) THEN "check" ELSE "R4"
         /\ b \in {"R4", "T2"} => Resume(x, b) = "end"
         /\ b = "R5" => Resume(x, b) = "run"
         /\ b = "exitB" => Resume(x, b) = back[x]
         /\ b = "runB" => Resume(x, b) \in {"final", "done"}
  <1>1. b \in {"R0", "R1", "R2", "R3", "R4", "R5", "T0", "T1", "T2",
               "xStart", "xDone", "xAll", "exitB", "runB"}
    BY DEF Barriers
  <1> QED BY <1>1 DEF Resume

(* What a barrier does. *)
LEMMA BarrierStep ==
  ASSUME TypeInv, NEW r \in Ranks, NEW b \in Barriers, Barrier(r, b)
  PROVE  /\ \A x \in RankInfo : x[1] = r => pc[x] = b /\ pc'[x] = Resume(x, b)
         /\ \A x \in RankInfo : x[1] # r => pc'[x] = pc[x]
         /\ UNCHANGED <<tv, now, back, syncType, threadNext, rankNext, tq, rq, net, got,
                        endSim, endCycle, sent, okAt, config, exitVars>>
  BY DEF Barrier, ThreadsOf, syncVars, queueVars, endVars, compVars

LEMMA BarrierTypes ==
  ASSUME TypeInv, NEW r \in Ranks, NEW b \in Barriers, Barrier(r, b) PROVE Shapes' /\ EndInv'
  <1>0. b \in {"R0", "R1", "R2", "R3", "R4", "R5", "T0", "T1", "T2",
               "xStart", "xDone", "xAll", "exitB", "runB"}
    BY DEF Barriers
  <1>1. /\ \A x \in RankInfo : x[1] = r => pc[x] = b /\ pc'[x] = Resume(x, b)
        /\ \A x \in RankInfo : x[1] # r => pc'[x] = pc[x]
        /\ UNCHANGED <<tv, now, back, syncType, threadNext, rankNext, tq, rq, net, got,
                       endSim, endCycle, sent, okAt, config, exitVars>>
    BY BarrierStep
  <1>2. ASSUME NEW x \in RankInfo, x[1] = r
        PROVE  /\ pc'[x] \in PCs
               /\ IF endSim[x]
                  THEN pc'[x] \in {"run", "exitB", "next", "R5", "runB", "final", "done"}
                  ELSE pc'[x] \notin {"exitB", "runB", "final", "done"}
    <2>1. pc[x] = b /\ pc'[x] = Resume(x, b)
      BY <1>1, <1>2
    <2>2. back[x] \in {"run", "next"}
      BY DEF TypeInv, Shapes
    <2>3. IF endSim[x] THEN b \in {"run", "exitB", "next", "R5", "runB", "final", "done"}
                       ELSE b \notin {"exitB", "runB", "final", "done"}
      BY <2>1 DEF TypeInv, EndInv
    <2>4. Resume(x, b) \in PCs
      BY <1>0, <2>2, ResumeAt DEF PCs, Barriers, SyncCode
    <2> QED BY <1>0, <2>1, <2>2, <2>3, <2>4, ResumeAt
  <1>3. pc' \in [RankInfo -> PCs]
    BY <1>1, <1>2 DEF Barrier, TypeInv, Shapes
  <1>4. Shapes'
    BY <1>1, <1>3 DEF TypeInv, Shapes, exitVars
  <1>5. EndInv'
    BY <1>1, <1>2 DEF TypeInv, EndInv
  <1> QED BY <1>4, <1>5

(* A collective of the masters. *)
LEMMA CollectiveTypes ==
  ASSUME TypeInv, CheckRanks \/ FinalEndTime PROVE Shapes' /\ EndInv'
  <1>1. CASE CheckRanks
    <2>1. endTime' \in [Ranks -> SimTime] /\ globalCount' \in [Ranks -> 0 .. NumRanks]
      BY <1>1, LatestEndTime, OpenRanksCount DEF CheckRanks, CheckExit, TypeInv, Shapes
    <2>2. Shapes'
      BY <1>1, <2>1 DEF CheckRanks, TypeInv, Shapes, syncVars, queueVars, endVars, compVars,
                        PCs, Barriers
    <2>3. EndInv'
      BY <1>1, Threads DEF CheckRanks, TypeInv, EndInv, endVars
    <2> QED BY <2>2, <2>3
  <1>2. CASE FinalEndTime
    <2>1. endTime' \in [Ranks -> SimTime] /\ endCycle' \in [RankInfo -> SimTime]
      BY <1>2, LatestEndTime DEF FinalEndTime, TypeInv, Shapes
    <2>2. Shapes'
      BY <1>2, <2>1 DEF FinalEndTime, TypeInv, Shapes, syncVars, queueVars, compVars, PCs
    <2>3. EndInv'
      BY <1>2, Threads DEF FinalEndTime, TypeInv, EndInv
    <2> QED BY <2>2, <2>3
  <1> QED BY <1>1, <1>2

BaseInv == TypeInv /\ Lockstep /\ TypeOfSync

(* The phases from the first barrier of a sync to the check. *)
InnerPhases == {"before", "start", "exchange", "reduce", "reduced", "after", "check"}

(* In them no thread has ended. *)
LEMMA InnerOpen ==
  ASSUME BaseInv, NEW x \in RankInfo, Phase(x) \in InnerPhases
  PROVE  /\ endSim[x] = FALSE /\ StopAt(MaxTime) \in tv[x]
         /\ \A y \in ThreadsOf(x[1]) : /\ y \in RankInfo /\ Phase(y) = Phase(x)
                                       /\ endSim[y] = FALSE /\ StopAt(MaxTime) \in tv[y]
  <1>1. ASSUME NEW y \in RankInfo, Phase(y) \in InnerPhases
        PROVE  endSim[y] = FALSE /\ StopAt(MaxTime) \in tv[y]
    <2>1. pc[y] \notin {"run", "exitB", "next", "R5", "runB", "final", "done"}
      BY <1>1 DEF Phase, InnerPhases
    <2> QED BY <2>1 DEF BaseInv, TypeInv, EndInv, Shapes
  <1>2. \A y \in ThreadsOf(x[1]) : y \in RankInfo /\ Phase(y) = Phase(x)
    BY DEF ThreadsOf, BaseInv, Lockstep
  <1> QED BY <1>1, <1>2

(* The earliest activity of a rank in such a phase. *)
LEMMA InnerMinimum ==
  ASSUME BaseInv, NEW x \in RankInfo, Phase(x) \in InnerPhases
  PROVE  /\ LocalMinimum(x[1]) \in SimTime
         /\ \A y \in ThreadsOf(x[1]) : \A a \in tv[y] : LocalMinimum(x[1]) <= a.time
         /\ \E y \in ThreadsOf(x[1]) : \E a \in tv[y] : LocalMinimum(x[1]) = a.time
  <1>1. \A y \in ThreadsOf(x[1]) : tv[y] # {}
    BY InnerOpen
  <1>2. x[1] \in Ranks /\ tv \in [RankInfo -> SUBSET Activities]
    BY Threads DEF BaseInv, TypeInv, Shapes
  <1> QED BY <1>1, <1>2, RankMinimum

(* The cycle of the next thread sync is a time. *)
LEMMA NextThreadSyncTime ==
  ASSUME BaseInv, NEW x \in RankInfo, pc[x] \in {"after", "R3", "T2"}
  PROVE  NextThreadSync(x) \in SimTime
  <1>1. ThreadLat(x[1]) \in SimTime /\ now[x] \in SimTime
    BY ConfigFacts DEF BaseInv, TypeInv, CountInv, Shapes
  <1>2. CASE Direct
    BY <1>1, <1>2, TimeSums, TimeBounds DEF NextThreadSync
  <1>3. CASE ~Direct
    <2>1. Phase(x) = "after"
      BY <1>3 DEF Phase
    <2>2. LocalMinimum(x[1]) \in SimTime
      BY <2>1, InnerMinimum DEF InnerPhases
    <2>3. Plus(LocalMinimum(x[1]), ThreadLat(x[1])) \in SimTime
      BY <1>1, <2>2, TimeSums, TimeBounds
    <2> QED BY <1>3, <2>2, <2>3, TimeBounds DEF NextThreadSync, MaxOf
  <1> QED BY <1>2, <1>3

LEMMA AfterTypes ==
  ASSUME BaseInv, TimesAgree, NEW x \in RankInfo, After(x)
  PROVE  /\ threadNext' = [threadNext EXCEPT ![x] = NextThreadSync(x)]
         /\ Shapes' /\ EndInv'
  <1>1. threadNext' = [threadNext EXCEPT ![x] = NextThreadSync(x)]
    BY DEF After, NextThreadSync, TimesAgree, BaseInv, TypeInv, Shapes
  <1>2. NextThreadSync(x) \in SimTime
    BY NextThreadSyncTime DEF After
  <1>3. Shapes'
    BY <1>1, <1>2 DEF After, Goto, BaseInv, TypeInv, Shapes, queueVars, endVars, compVars,
                      exitVars, PCs, Barriers
  <1>4. EndInv'
    BY DEF After, Goto, BaseInv, TypeInv, Shapes, EndInv, endVars
  <1> QED BY <1>1, <1>3, <1>4

(* The ranks' earliest activity. *)
EarliestOfAll == MinTime({LocalMinimum(r) : r \in Ranks})

LEMMA AllReducing ==
  ASSUME BaseInv, ReduceNext
  PROVE  /\ \A x \in RankInfo : Phase(x) = "reduce" /\ pc[x] \in {"xReduce", "xAll"}
         /\ \A r \in Ranks : LocalMinimum(r) \in SimTime
         /\ EarliestOfAll \in SimTime
         /\ \A r \in Ranks : EarliestOfAll <= LocalMinimum(r)
         /\ \E r \in Ranks : EarliestOfAll = LocalMinimum(r)
  <1>1. ASSUME NEW x \in RankInfo PROVE Phase(x) = "reduce" /\ pc[x] \in {"xReduce", "xAll"}
    <2>1. x[1] \in Ranks /\ Master(x[1]) \in RankInfo /\ Master(x[1])[1] = x[1]
          /\ Master(x[1]) \in Masters
      BY Threads
    <2>2. pc[Master(x[1])] = "xReduce"
      BY <2>1 DEF ReduceNext
    <2>3. Phase(Master(x[1])) = "reduce"
      BY <2>2 DEF Phase
    <2>4. Phase(x) = "reduce"
      BY <2>1, <2>3 DEF BaseInv, Lockstep
    <2>5. pc[x] \in PCs
      BY DEF BaseInv, TypeInv, Shapes
    <2> QED BY <2>4, <2>5 DEF Phase, PCs, Barriers, SyncCode
  <1>2. ASSUME NEW r \in Ranks PROVE LocalMinimum(r) \in SimTime
    <2>1. Master(r) \in RankInfo /\ Master(r)[1] = r
      BY Threads
    <2>2. Phase(Master(r)) \in InnerPhases
      BY <1>1, <2>1 DEF InnerPhases
    <2>3. LocalMinimum(Master(r)[1]) \in SimTime
      BY <2>1, <2>2, InnerMinimum
    <2> QED BY <2>1, <2>3
  <1> DEFINE S == {LocalMinimum(r) : r \in Ranks}
  <1>3. S \in SUBSET SimTime /\ S # {}
    <2>1. 0 \in Ranks
      BY BaseAssumption DEF Ranks
    <2> QED BY <1>2, <2>1
  <1>4. MinTime(S) \in S /\ \A u \in S : MinTime(S) <= u
    BY <1>3, EarliestTime
  <1> QED BY <1>1, <1>2, <1>3, <1>4 DEF EarliestOfAll

LEMMA ReduceTypes ==
  ASSUME BaseInv, ReduceNext PROVE Shapes' /\ EndInv'
  <1>1. Plus(EarliestOfAll, RankLat) \in SimTime
    <2>1. RankLat \in SimTime
      BY ConfigFacts DEF BaseInv, TypeInv, CountInv
    <2> QED BY <2>1, AllReducing, TimeSums, TimeBounds
  <1>2. rankNext' = [r \in Ranks |-> Plus(EarliestOfAll, RankLat)]
    BY DEF ReduceNext, EarliestOfAll
  <1>3. pc' \in [RankInfo -> PCs]
    <2>1. {"R2", "xAll"} \subseteq PCs
      BY DEF PCs, Barriers
    <2> QED BY <2>1 DEF ReduceNext, BaseInv, TypeInv, Shapes
  <1>4. rankNext' \in [Ranks -> SimTime] /\ rq' \in [Ranks -> SUBSET Events]
    BY <1>1, <1>2 DEF ReduceNext
  <1>5. Shapes'
    BY <1>3, <1>4 DEF ReduceNext, BaseInv, TypeInv, Shapes, endVars, compVars, exitVars
  <1>6. EndInv'
    <2>1. \A x \in RankInfo : pc'[x] \in {"xReduce", "xAll", "R2"} /\ endSim[x] = FALSE
      BY AllReducing DEF ReduceNext, BaseInv, TypeInv, EndInv, Shapes
    <2> QED BY <2>1 DEF ReduceNext, BaseInv, TypeInv, EndInv, endVars
  <1> QED BY <1>5, <1>6

(* No step gives a variable another type. *)
LEMMA TypeStep ==
  ASSUME BaseInv, TimesAgree, [Next]_vars PROVE TypeInv'
  <1>0. TypeInv /\ CountInv
    BY DEF BaseInv, TypeInv
  <1> SUFFICES Shapes' /\ EndInv'
    BY <1>0, CountStep DEF TypeInv
  <1>1. ASSUME NEW x \in RankInfo, ThreadStep(x) PROVE Shapes' /\ EndInv'
    <2>1. CASE Handle(x)
      <3>1. PICK a, S, own : HandleParts(x, a, S, own)
        BY <2>1, HandleHas
      <3> QED BY <1>0, <3>1, HandleTypes
    <2>2. CASE \E r \in Ranks : ReceiveRank(x, r)
      BY <1>0, <2>2, ReceiveRankTypes
    <2> QED BY <1>0, <1>1, <2>1, <2>2, StopTypes, SyncTypes, QuietTypes, BeforeTypes,
               SendRankTypes, AfterTypes, InsertNextTypes DEF ThreadStep
  <1>2. CASE Meeting
    BY <1>0, <1>2, BarrierTypes, ReduceTypes, CollectiveTypes DEF Meeting
  <1>3. CASE UNCHANGED vars
    <2>1. UNCHANGED <<tv, now, pc, back, syncType, threadNext, rankNext, tq, rq, net, got,
                      endSim, endCycle, sent, okAt, endTime, globalCount>>
      BY <1>3 DEF vars, syncVars, queueVars, endVars, compVars, exitVars
    <2>2. Shapes'
      BY <1>0, <2>1 DEF TypeInv, Shapes
    <2>3. EndInv'
      BY <1>0, <2>1 DEF TypeInv, EndInv
    <2> QED BY <2>2, <2>3
  <1> QED BY <1>1, <1>2, <1>3 DEF Next, Finished

----------------------------------------------------------------------------
(* What the steps of a thread do to what the syncs depend on.              *)

SyncsOf(x) == {a \in tv[x] : a.kind = "sync"}

(* Nothing of another thread changes, nor of another rank. *)
OthersKeep(x) ==
  /\ UNCHANGED <<config, rankNext>>
  /\ \A y \in RankInfo : y # x =>
       /\ pc'[y] = pc[y] /\ back'[y] = back[y] /\ syncType'[y] = syncType[y]
       /\ threadNext'[y] = threadNext[y] /\ now'[y] = now[y] /\ endSim'[y] = endSim[y]
       /\ SyncsOf(y)' = SyncsOf(y)
       /\ pc[x] # "run" \/ y[1] # x[1] => tv'[y] = tv[y]

KeepsNow(x) == now'[x] = now[x]
KeepsSync(x) == syncType'[x] = syncType[x]
KeepsNext(x) == threadNext'[x] = threadNext[x]
KeepsLoop(x) == back'[x] = back[x] /\ endSim'[x] = endSim[x]
KeepsSyncs(x) == SyncsOf(x)' = SyncsOf(x)
KeepsAll(x) == KeepsNow(x) /\ KeepsSync(x) /\ KeepsNext(x) /\ KeepsLoop(x) /\ KeepsSyncs(x)

Runs(x) ==
  /\ pc[x] = "run" /\ pc'[x] = "run" /\ ~endSim[x]
  /\ KeepsSync(x) /\ KeepsNext(x) /\ KeepsLoop(x) /\ KeepsSyncs(x)
Finishes(x, l) ==
  /\ pc[x] = (IF l = "run" THEN "run" ELSE "end") /\ pc'[x] = "exitB"
  /\ back'[x] = l /\ endSim'[x] = TRUE
  /\ KeepsSync(x) /\ KeepsNext(x)
Begins(x) ==
  /\ pc[x] = "run" /\ ~endSim[x]
  /\ pc'[x] = IF syncType[x] = "RANK" THEN "R0" ELSE IF Direct THEN "after" ELSE "T0"
  /\ now'[x] = NextSync(x) /\ SyncsOf(x)' = {}
  /\ KeepsSync(x) /\ KeepsNext(x) /\ KeepsLoop(x)
Moves(x) ==
  /\ \/ pc[x] = "run" /\ pc'[x] = "runB" /\ endSim[x]
     \/ pc[x] = "before" /\ pc'[x] = IF syncType[x] = "RANK" THEN "R1" ELSE "T1"
     \/ pc[x] = "xSend" /\ pc'[x] = "xRecv"
     \/ pc[x] = "xRecv" /\ pc'[x] = "xRecv"
     \/ pc[x] = "xRecv" /\ pc'[x] = IF NumThreads = 1 THEN "xReduce" ELSE "xDone"
     \/ pc[x] = "end" /\ pc'[x] = "next"
  /\ KeepsAll(x)
FindsNext(x) ==
  /\ pc[x] = "after" /\ pc'[x] = IF syncType[x] = "RANK" THEN "R3" ELSE "T2"
  /\ threadNext'[x] = NextThreadSync(x) /\ tv' = tv
  /\ KeepsNow(x) /\ KeepsSync(x) /\ KeepsLoop(x) /\ KeepsSyncs(x)
Inserts(x) ==
  /\ pc[x] = "next" /\ pc'[x] = "R5"
  /\ syncType'[x] = NextType(x[1], rankNext[x[1]], threadNext[x])
  /\ SyncsOf(x)' = SyncsOf(x) \cup {SyncAt(NextSync(x))}
  /\ KeepsNow(x) /\ KeepsNext(x) /\ KeepsLoop(x)

Effect(x) ==
  \/ Runs(x) \/ Finishes(x, "run") \/ Finishes(x, "next") \/ Begins(x) \/ Moves(x)
  \/ FindsNext(x) \/ Inserts(x)

(* Events that are added to a vortex are no syncs. *)
LEMMA EventsNoSyncs ==
  ASSUME NEW V, NEW S \in SUBSET Events
  PROVE  {a \in V \cup S : a.kind = "sync"} = {a \in V : a.kind = "sync"}
  BY ActivityKinds

LEMMA HandleEffect ==
  ASSUME TypeInv, NEW x \in RankInfo, Handle(x) PROVE OthersKeep(x) /\ Runs(x)
  <1>1. PICK a, S, own : HandleParts(x, a, S, own)
    BY HandleHas
  <1>2. S \in SUBSET Events /\ own \in SUBSET Activities /\ a \in Events
    BY <1>1, HandleTypes
  <1>3. /\ \A y \in RankInfo : y # x => now'[y] = now[y]
        /\ pc[x] = "run" /\ endSim[x] = FALSE
    BY <1>1, Popped DEF HandleParts
  <1>4. UNCHANGED <<pc, back, syncType, threadNext, rankNext, endSim, config>>
    BY <1>1 DEF HandleParts, syncVars, endVars
  <1>5. \A y \in RankInfo : y[1] # x[1] => tv'[y] = tv[y]
    BY <1>1, <1>2, SendAllTypes DEF HandleParts, TypeInv
  <1>6. \A y \in RankInfo : tv'[y] = (IF y = x THEN own ELSE tv[y]) \cup Carried(S, x, y, "vortex")
    BY <1>1 DEF HandleParts, SendAll
  <1>7. \A y \in RankInfo : Carried(S, x, y, "vortex") \in SUBSET Events
    BY <1>2 DEF Carried
  <1>8. {b \in own : b.kind = "sync"} = SyncsOf(x)
    <2>1. a.kind = "event" /\ StopAt(a.time).kind = "stop"
      BY <1>1, ActivityKinds DEF HandleParts
    <2>2. own = tv[x] \ {a} \/ own = (tv[x] \ {a}) \cup {StopAt(a.time)}
      BY <1>1 DEF HandleParts
    <2> QED BY <2>1, <2>2 DEF SyncsOf
  <1>9. \A y \in RankInfo : SyncsOf(y)' = SyncsOf(y)
    <2> SUFFICES ASSUME NEW y \in RankInfo
                 PROVE  {b \in tv'[y] : b.kind = "sync"} = SyncsOf(y)
      BY DEF SyncsOf
    <2>1. {b \in tv'[y] : b.kind = "sync"}
            = {b \in (IF y = x THEN own ELSE tv[y]) : b.kind = "sync"}
      BY <1>6, <1>7, EventsNoSyncs
    <2> QED BY <2>1, <1>8 DEF SyncsOf
  <1> QED BY <1>3, <1>4, <1>5, <1>9
          DEF OthersKeep, Runs, KeepsSync, KeepsNext, KeepsLoop, KeepsSyncs

LEMMA StopEffect ==
  ASSUME TypeInv, NEW x \in RankInfo, Stop(x) PROVE OthersKeep(x) /\ Finishes(x, "run")
  <1>1. PICK a \in Earliest(tv[x]) :
          /\ a.kind = "stop" /\ Pop(x, a)
          /\ tv' = [tv EXCEPT ![x] = @ \ {a}]
          /\ EndSimulation(x, a.time, "run")
          /\ UNCHANGED <<syncVars, queueVars, compVars>>
    BY DEF Stop
  <1>2. /\ \A y \in RankInfo : y # x => now'[y] = now[y]
        /\ pc[x] = "run"
    BY <1>1, Popped
  <1>3. \A y \in RankInfo : y # x => tv'[y] = tv[y]
    BY <1>1 DEF TypeInv, Shapes
  <1>4. \A y \in RankInfo : y # x => SyncsOf(y)' = SyncsOf(y)
    BY <1>3 DEF SyncsOf
  <1> QED BY <1>1, <1>2, <1>3, <1>4
          DEF OthersKeep, Finishes, EndSimulation, KeepsSync, KeepsNext, syncVars, compVars,
              TypeInv, Shapes

LEMMA SyncEffect ==
  ASSUME SyncInv, NEW x \in RankInfo, Sync(x) PROVE OthersKeep(x) /\ Begins(x)
  <1>0. TypeInv
    BY DEF SyncInv
  <1>1. PICK a \in Earliest(tv[x]) :
          /\ a.kind = "sync" /\ Pop(x, a)
          /\ tv' = [tv EXCEPT ![x] = @ \ {a}]
          /\ pc' = [pc EXCEPT ![x] = IF syncType[x] = "RANK" THEN "R0"
                                     ELSE IF Direct THEN "after" ELSE "T0"]
          /\ UNCHANGED <<back, syncVars, queueVars, endVars, compVars, exitVars>>
    BY DEF Sync
  <1>2. /\ \A y \in RankInfo : y # x => now'[y] = now[y]
        /\ pc[x] = "run" /\ endSim[x] = FALSE /\ now'[x] = a.time /\ a \in tv[x]
    BY <1>0, <1>1, Popped
  <1>3. \A y \in RankInfo : y # x => tv'[y] = tv[y]
    BY <1>0, <1>1 DEF TypeInv, Shapes
  <1>4. \A y \in RankInfo : y # x => SyncsOf(y)' = SyncsOf(y)
    BY <1>3 DEF SyncsOf
  <1>5. SyncsOf(x) = {SyncAt(NextSync(x))}
    BY <1>2 DEF SyncInv, Queued, SyncsOf
  <1>6. a = SyncAt(NextSync(x))
    BY <1>1, <1>2, <1>5 DEF SyncsOf
  <1>7. now'[x] = NextSync(x)
    BY <1>2, <1>6, ActivityKinds
  <1>8. tv'[x] = tv[x] \ {a}
    BY <1>0, <1>1 DEF TypeInv, Shapes
  <1>9. SyncsOf(x)' = {}
    BY <1>5, <1>6, <1>8 DEF SyncsOf
  <1> QED BY <1>0, <1>1, <1>2, <1>3, <1>4, <1>7, <1>9
          DEF OthersKeep, Begins, KeepsSync, KeepsNext, KeepsLoop, syncVars, endVars, compVars,
              TypeInv, Shapes

LEMMA MoveEffect ==
  ASSUME TypeInv, NEW x \in RankInfo,
         \/ LeaveLoop(x) \/ Before(x) \/ SendRank(x) \/ (\E r \in Ranks : ReceiveRank(x, r))
         \/ ReceivedAll(x)
  PROVE  OthersKeep(x) /\ Moves(x)
  <1> USE DEF KeepsAll, KeepsNow, KeepsSync, KeepsNext, KeepsLoop, KeepsSyncs
  <1>0. ASSUME UNCHANGED tv PROVE \A y \in RankInfo : tv'[y] = tv[y] /\ SyncsOf(y)' = SyncsOf(y)
    BY <1>0 DEF SyncsOf
  <1>00. ASSUME NEW S \in SUBSET Events, tv' = [tv EXCEPT ![x] = @ \cup Delivered(S, now[x])]
         PROVE  \A y \in RankInfo : /\ y # x => tv'[y] = tv[y]
                                    /\ SyncsOf(y)' = SyncsOf(y)
    <2>1. Delivered(S, now[x]) \in SUBSET Events
      BY DeliveredEvents DEF TypeInv, Shapes
    <2>2. /\ tv'[x] = tv[x] \cup Delivered(S, now[x])
          /\ \A y \in RankInfo : y # x => tv'[y] = tv[y]
      BY <1>00 DEF TypeInv, Shapes
    <2>3. SyncsOf(x)' = SyncsOf(x)
      BY <2>1, <2>2, EventsNoSyncs DEF SyncsOf
    <2> QED BY <2>2, <2>3 DEF SyncsOf
  <1>1. CASE LeaveLoop(x)
    BY <1>0, <1>1 DEF LeaveLoop, OthersKeep, Moves, TypeInv, Shapes, syncVars, endVars, compVars
  <1>2. CASE Before(x)
    <2>1. tv' = [tv EXCEPT ![x] = @ \cup Delivered(tq[x], now[x])] /\ tq[x] \in SUBSET Events
      BY <1>2 DEF Before, Delivered, TypeInv, Shapes
    <2>2. \A y \in RankInfo : (y # x => tv'[y] = tv[y]) /\ SyncsOf(y)' = SyncsOf(y)
      BY <2>1, <1>00
    <2> QED BY <1>2, <2>2 DEF Before, Goto, OthersKeep, Moves, TypeInv, Shapes, syncVars, endVars,
                              compVars
  <1>3. CASE SendRank(x)
    BY <1>0, <1>3 DEF SendRank, Goto, OthersKeep, Moves, TypeInv, Shapes, syncVars, endVars,
                      compVars
  <1>4. ASSUME NEW r \in Ranks, ReceiveRank(x, r) PROVE OthersKeep(x) /\ Moves(x)
    <2>1. tv' = [tv EXCEPT ![x] = @ \cup Delivered(Head(net[r, x]), now[x])]
          /\ Head(net[r, x]) \in SUBSET Events
      BY <1>4, ReceiveRankTypes DEF ReceiveRank, Delivered
    <2>2. \A y \in RankInfo : (y # x => tv'[y] = tv[y]) /\ SyncsOf(y)' = SyncsOf(y)
      BY <2>1, <1>00
    <2> QED BY <1>4, <2>2 DEF ReceiveRank, OthersKeep, Moves, TypeInv, Shapes, syncVars, endVars,
                              compVars
  <1>5. CASE ReceivedAll(x)
    BY <1>0, <1>5 DEF ReceivedAll, Goto, OthersKeep, Moves, TypeInv, Shapes, syncVars, endVars,
                      compVars
  <1> QED BY <1>1, <1>2, <1>3, <1>4, <1>5

LEMMA LateEffect ==
  ASSUME BaseInv, TimesAgree, NEW x \in RankInfo, After(x) \/ EndOrNext(x) \/ InsertNext(x)
  PROVE  OthersKeep(x) /\ Effect(x)
  <1> USE DEF KeepsAll, KeepsNow, KeepsSync, KeepsNext, KeepsLoop, KeepsSyncs
  <1>0. ASSUME UNCHANGED tv PROVE \A y \in RankInfo : tv'[y] = tv[y] /\ SyncsOf(y)' = SyncsOf(y)
    BY <1>0 DEF SyncsOf
  <1>00. TypeInv
    BY DEF BaseInv
  <1>1. CASE After(x)
    <2>1. threadNext' = [threadNext EXCEPT ![x] = NextThreadSync(x)]
      BY <1>1, AfterTypes
    <2>2. /\ pc[x] = "after"
          /\ pc' = [pc EXCEPT ![x] = IF syncType[x] = "RANK" THEN "R3" ELSE "T2"]
          /\ UNCHANGED <<tv, now, back, syncType, rankNext, endSim, config>>
      BY <1>1 DEF After, Goto, endVars, compVars
    <2>3. OthersKeep(x)
      BY <1>0, <1>00, <2>1, <2>2 DEF OthersKeep, TypeInv, Shapes
    <2>4. FindsNext(x)
      BY <1>0, <1>00, <2>1, <2>2 DEF FindsNext, TypeInv, Shapes
    <2> QED BY <2>3, <2>4 DEF Effect
  <1>2. CASE EndOrNext(x)
    <2>1. /\ pc[x] = "end"
          /\ UNCHANGED <<tv, now, syncType, threadNext, rankNext, config>>
          /\ \/ EndSimulation(x, endTime[x[1]], "next")
             \/ Goto(x, "next") /\ UNCHANGED <<back, endVars>>
      BY <1>2 DEF EndOrNext, syncVars, compVars
    <2>2. CASE EndSimulation(x, endTime[x[1]], "next")
      BY <1>0, <1>00, <2>1, <2>2 DEF EndSimulation, OthersKeep, Effect, Finishes, TypeInv, Shapes
    <2>3. CASE Goto(x, "next") /\ UNCHANGED <<back, endVars>>
      BY <1>0, <1>00, <2>1, <2>3 DEF Goto, endVars, OthersKeep, Effect, Moves, TypeInv, Shapes
    <2> QED BY <2>1, <2>2, <2>3
  <1>3. CASE InsertNext(x)
    <2>1. /\ pc[x] = "next" /\ pc' = [pc EXCEPT ![x] = "R5"]
          /\ syncType' = [syncType EXCEPT ![x] = NextType(x[1], rankNext[x[1]], threadNext[x])]
          /\ tv' = [tv EXCEPT ![x] = @ \cup {SyncAt(NextSync(x))}]
          /\ UNCHANGED <<now, back, threadNext, rankNext, endSim, config>>
      BY <1>3 DEF InsertNext, Goto, NextSync, endVars, compVars
    <2>2. /\ \A y \in RankInfo : y # x => tv'[y] = tv[y]
          /\ tv'[x] = tv[x] \cup {SyncAt(NextSync(x))}
      BY <1>00, <2>1 DEF TypeInv, Shapes
    <2>3. SyncsOf(x)' = SyncsOf(x) \cup {SyncAt(NextSync(x))}
      <3>1. SyncAt(NextSync(x)).kind = "sync"
        BY ActivityKinds
      <3> QED BY <2>2, <3>1 DEF SyncsOf
    <2>4. \A y \in RankInfo : y # x => SyncsOf(y)' = SyncsOf(y)
      BY <2>2 DEF SyncsOf
    <2> QED BY <1>00, <2>1, <2>2, <2>3, <2>4 DEF OthersKeep, Effect, Inserts, TypeInv, Shapes
  <1> QED BY <1>1, <1>2, <1>3

(* In short: *)
LEMMA ThreadEffect ==
  ASSUME SyncInv, NEW x \in RankInfo, ThreadStep(x)
  PROVE  OthersKeep(x) /\ Effect(x)
  <1>1. TypeInv /\ BaseInv /\ TimesAgree
    BY DEF SyncInv, BaseInv
  <1>2. CASE Handle(x)
    BY <1>1, <1>2, HandleEffect DEF Effect
  <1>3. CASE Stop(x)
    BY <1>1, <1>3, StopEffect DEF Effect
  <1>4. CASE Sync(x)
    BY <1>4, SyncEffect DEF Effect
  <1>5. CASE After(x) \/ EndOrNext(x) \/ InsertNext(x)
    BY <1>1, <1>5, LateEffect
  <1>6. CASE \/ LeaveLoop(x) \/ Before(x) \/ SendRank(x) \/ (\E r \in Ranks : ReceiveRank(x, r))
             \/ ReceivedAll(x)
    BY <1>1, <1>6, MoveEffect DEF Effect
  <1> QED BY <1>2, <1>3, <1>4, <1>5, <1>6 DEF ThreadStep

----------------------------------------------------------------------------
(* The steps of a thread keep the ranks in step.                           *)

(* The command line does not change. *)
LEMMA SameConfig ==
  ASSUME UNCHANGED config
  PROVE  Direct' = Direct /\ MinPart' = MinPart /\ (\A rk : ThreadLat(rk)' = ThreadLat(rk)) /\ RankLat' = RankLat
  BY DEF Direct, MinPart, ThreadLat, RankLat

(* A thread that stays where it is stays in its phase. *)
LEMMA PhaseStays ==
  ASSUME UNCHANGED config, NEW x,
         pc'[x] = pc[x], back'[x] = back[x], syncType'[x] = syncType[x]
  PROVE  Phase(x)' = Phase(x)
  BY SameConfig DEF Phase

(* The phases, from where a thread is. *)
LEMMA PhaseAt ==
  ASSUME NEW x
  PROVE  /\ pc[x] \in {"run", "R0", "T0", "runB"} => Phase(x) = "run"
         /\ pc[x] \in {"before", "R1", "T1"} => Phase(x) = "before"
         /\ pc[x] = "xStart" => Phase(x) = "start"
         /\ pc[x] \in {"xSend", "xRecv", "xDone"} => Phase(x) = "exchange"
         /\ pc[x] \in {"xReduce", "xAll"} => Phase(x) = "reduce"
         /\ pc[x] = "R2" => Phase(x) = "reduced"
         /\ pc[x] \in {"after", "T2"} =>
              Phase(x) = IF Direct /\ syncType[x] = "THREAD" THEN "run" ELSE "after"
         /\ pc[x] = "R3" => Phase(x) = "after"
         /\ pc[x] \in {"check", "R4"} => Phase(x) = "check"
         /\ pc[x] \in {"end", "next", "R5"} => Phase(x) = "end"
         /\ pc[x] = "exitB" => Phase(x) = IF back[x] = "run" THEN "run" ELSE "end"
         /\ pc[x] \in {"final", "done"} => Phase(x) = "final"
  BY DEF Phase

LEMMA ThreadLockstep ==
  ASSUME SyncInv, NEW x \in RankInfo, OthersKeep(x), Effect(x)
  PROVE  Lockstep' /\ TypeOfSync'
  <1> USE DEF KeepsAll, KeepsNow, KeepsSync, KeepsNext, KeepsLoop, KeepsSyncs
  <1>1. UNCHANGED config /\ Direct' = Direct /\ MinPart' = MinPart
    BY SameConfig DEF OthersKeep
  <1>2. \A y \in RankInfo : y # x => Phase(y)' = Phase(y)
    BY <1>1, PhaseStays DEF OthersKeep
  <1>3. /\ pc[x] \in {"T0", "T1", "T2"} => syncType[x] = "THREAD"
        /\ pc[x] \in {"R0", "R1", "R2", "R3", "R4", "check"} \cup Exchanging => syncType[x] = "RANK"
        /\ pc[x] \in {"T0", "T1"} \/ (pc[x] = "before" /\ syncType[x] = "THREAD") => ~Direct
        /\ pc[x] \in Exchanging => MinPart # MaxTime
        /\ syncType[x] \in {"RANK", "THREAD"}
    BY DEF SyncInv, TypeOfSync, TypeInv, Shapes
  <1>4. NumThreads = 1 \/ Phase(x)' = Phase(x)
    <2>1. CASE Runs(x)
      BY <1>1, <2>1, PhaseStays DEF Runs
    <2>2. CASE Finishes(x, "run") \/ Finishes(x, "next")
      BY <2>2 DEF Finishes, Phase
    <2>3. CASE Begins(x)
      BY <1>1, <1>3, <2>3 DEF Begins, Phase
    <2>4. CASE Moves(x)
      BY <1>1, <1>3, <2>4 DEF Moves, Phase
    <2>5. CASE FindsNext(x)
      BY <1>1, <1>3, <2>5 DEF FindsNext, Phase
    <2>6. CASE Inserts(x)
      BY <2>6 DEF Inserts, Phase
    <2> QED BY <2>1, <2>2, <2>3, <2>4, <2>5, <2>6 DEF Effect
  <1>5. Lockstep'
    <2> SUFFICES ASSUME NEW y \in RankInfo, NEW z \in RankInfo, y[1] = z[1]
                 PROVE  Phase(y)' = Phase(z)'
      BY DEF Lockstep
    <2>1. NumThreads = 1 => y = z
      BY Threads
    <2>2. Phase(y) = Phase(z)
      BY DEF SyncInv, Lockstep
    <2> QED BY <1>2, <1>4, <2>1, <2>2
  <1>6. TypeOfSync'
    <2>1. /\ pc'[x] \in {"T0", "T1", "T2"} => syncType'[x] = "THREAD"
          /\ pc'[x] \in {"R0", "R1", "R2", "R3", "R4", "check"} \cup Exchanging => syncType'[x] = "RANK"
          /\ pc'[x] \in {"T0", "T1"} \/ (pc'[x] = "before" /\ syncType'[x] = "THREAD") => ~Direct
          /\ pc'[x] \in Exchanging => MinPart # MaxTime
      <3> USE DEF Exchanging
      <3>1. CASE Runs(x)
        BY <3>1 DEF Runs
      <3>2. CASE Finishes(x, "run") \/ Finishes(x, "next")
        BY <3>2 DEF Finishes
      <3>3. CASE Begins(x)
        BY <1>3, <3>3 DEF Begins
      <3>4. CASE Moves(x)
        BY <1>3, <3>4 DEF Moves
      <3>5. CASE FindsNext(x)
        BY <1>3, <3>5 DEF FindsNext
      <3>6. CASE Inserts(x)
        BY <3>6 DEF Inserts
      <3> QED BY <3>1, <3>2, <3>3, <3>4, <3>5, <3>6 DEF Effect
    <2> QED BY <1>1, <2>1 DEF SyncInv, TypeOfSync, OthersKeep
  <1> QED BY <1>5, <1>6

(* Threads of a rank agree on the type of a sync. *)
LEMMA ThreadTypes ==
  ASSUME SyncInv, NEW x \in RankInfo, OthersKeep(x), Effect(x)
  PROVE  TypesAgree'
  <1> USE DEF KeepsAll, KeepsNow, KeepsSync, KeepsNext, KeepsLoop, KeepsSyncs
  <1>1. pc'[x] = "R5" \/ (pc[x] # "R5" /\ syncType'[x] = syncType[x])
    BY DEF Effect, Runs, Finishes, Begins, Moves, FindsNext, Inserts
  <1> QED BY <1>1 DEF SyncInv, TypesAgree, OthersKeep

(* What LocalMinimum and the clock say does not change while it matters. *)
LEMMA SameNextThreadSync ==
  ASSUME SyncInv, NEW x \in RankInfo, OthersKeep(x), Effect(x),
         NEW y \in RankInfo, y # x, pc[y] \in {"R3", "T2"}
  PROVE  NextThreadSync(y)' = NextThreadSync(y)
  <1>1. UNCHANGED config /\ Direct' = Direct /\ (\A rk : ThreadLat(rk)' = ThreadLat(rk))
    BY SameConfig DEF OthersKeep
  <1>2. now'[y] = now[y]
    BY DEF OthersKeep
  <1>3. CASE Direct \/ ThreadLat(y[1]) = MaxTime
    BY <1>1, <1>2, <1>3 DEF NextThreadSync, Plus
  <1>4. CASE ~Direct /\ ThreadLat(y[1]) # MaxTime
    <2>1. Phase(y) = "after"
      BY <1>4, PhaseAt
    <2>2. y[1] = x[1] => pc[x] \in {"after", "T2", "R3"}
      <3>1. y[1] = x[1] => Phase(x) = "after"
        BY <2>1 DEF SyncInv, Lockstep
      <3>2. pc[x] \in PCs
        BY DEF SyncInv, TypeInv, Shapes
      <3> QED BY <3>1, <3>2 DEF Phase, PCs, Barriers, SyncCode
    <2>3. y[1] = x[1] => tv' = tv
      BY <2>2 DEF Effect, Runs, Finishes, Begins, Moves, FindsNext, Inserts
    <2>4. \A z \in ThreadsOf(y[1]) : tv'[z] = tv[z]
      BY <2>3 DEF OthersKeep, ThreadsOf
    <2>5. LocalMinimum(y[1])' = LocalMinimum(y[1])
      BY <2>4, Threads, MinimumStays
    <2> QED BY <1>1, <1>2, <2>5 DEF NextThreadSync, Plus, MaxOf
  <1> QED BY <1>3, <1>4

(* Threads of a rank agree on the cycle of the next thread sync. *)
LEMMA ThreadTimes ==
  ASSUME SyncInv, NEW x \in RankInfo, OthersKeep(x), Effect(x)
  PROVE  TimesAgree'
  <1> USE DEF KeepsAll, KeepsNow, KeepsSync, KeepsNext, KeepsLoop, KeepsSyncs
  <1>1. UNCHANGED <<config, rankNext>> /\ MinPart' = MinPart /\ (\A rk : ThreadLat(rk)' = ThreadLat(rk))
        /\ Direct' = Direct
    BY SameConfig DEF OthersKeep
  <1>2. \/ FindsNext(x)
        \/ /\ threadNext'[x] = threadNext[x] /\ Post(x)' = Post(x) /\ pc'[x] \notin {"R3", "T2"}
    BY DEF Effect, Runs, Finishes, Begins, Moves, Inserts, Post
  <1>3. \A y \in RankInfo : y # x => threadNext'[y] = threadNext[y] /\ Post(y)' = Post(y)
                                     /\ pc'[y] = pc[y]
    BY DEF OthersKeep, Post
  <1>4. ASSUME FindsNext(x)
        PROVE  /\ Post(x)' /\ NextThreadSync(x)' = NextThreadSync(x)
               /\ \A y \in RankInfo : y # x /\ y[1] = x[1] /\ Post(y) =>
                    threadNext[y] = NextThreadSync(x)
    <2>1. Post(x)' /\ tv' = tv /\ now'[x] = now[x] /\ pc[x] = "after"
      BY <1>4 DEF FindsNext, Post
    <2>2. LocalMinimum(x[1])' = LocalMinimum(x[1])
      BY <2>1, Threads, MinimumStays
    <2>3. NextThreadSync(x)' = NextThreadSync(x)
      BY <1>1, <2>1, <2>2 DEF NextThreadSync, Plus, MaxOf
    <2>4. ASSUME NEW y \in RankInfo, y # x, y[1] = x[1], Post(y)
          PROVE  threadNext[y] = NextThreadSync(x)
      <3>1. Phase(y) = Phase(x)
        BY <2>4 DEF SyncInv, Lockstep
      <3>2. Phase(x) \in {"run", "after"}
        BY <2>1, PhaseAt
      <3>3. pc[y] \in {"R3", "T2"}
        BY <3>1, <3>2, <2>4, PhaseAt DEF Post
      <3>4. now[y] = now[x]
        BY <3>3, <2>1, <2>4 DEF SyncInv, ClocksAgree, InSync, Barriers, SyncCode
      <3>5. NextThreadSync(y) = NextThreadSync(x)
        BY <2>4, <3>4 DEF NextThreadSync
      <3> QED BY <3>3, <3>5 DEF SyncInv, TimesAgree
    <2> QED BY <2>1, <2>3, <2>4
  <1>5. ASSUME FindsNext(x) PROVE threadNext'[x] = NextThreadSync(x)
    BY <1>5 DEF FindsNext
  <1>6. \A y \in RankInfo : ThreadLat(y[1]) = MaxTime => threadNext'[y] = MaxTime
    <2>1. ThreadLat(x[1]) = MaxTime => NextThreadSync(x) = MaxTime
      BY DEF NextThreadSync
    <2> QED BY <2>1, <1>2, <1>3, <1>5 DEF SyncInv, TimesAgree
  <1>7. \A y, z \in RankInfo :
          y[1] = z[1] /\ (Post(y)' <=> Post(z)') => threadNext'[y] = threadNext'[z]
    <2>1. \A y \in RankInfo : y # x /\ y[1] = x[1] /\ (Post(y)' <=> Post(x)')
                              => threadNext'[y] = threadNext'[x]
      BY <1>2, <1>3, <1>4, <1>5 DEF SyncInv, TimesAgree
    <2> QED BY <2>1, <1>3 DEF SyncInv, TimesAgree
  <1>8. ASSUME NEW y \in RankInfo, pc'[y] \in {"R3", "T2"}
        PROVE  threadNext'[y] = NextThreadSync(y)'
    <2>1. CASE y = x
      BY <2>1, <1>2, <1>4, <1>5, <1>8
    <2>2. CASE y # x
      <3>1. NextThreadSync(y)' = NextThreadSync(y)
        BY <2>2, <1>3, <1>8, SameNextThreadSync
      <3> QED BY <2>2, <3>1, <1>3, <1>8 DEF SyncInv, TimesAgree
    <2> QED BY <2>1, <2>2
  <1> QED BY <1>1, <1>6, <1>7, <1>8 DEF SyncInv, TimesAgree

(* The next sync of a thread that has not found out a new one. *)
LEMMA SameNextSync ==
  ASSUME UNCHANGED <<config, rankNext>>, NEW x, threadNext'[x] = threadNext[x]
  PROVE  /\ NextSync(x)' = NextSync(x)
         /\ NextType(x[1], rankNext[x[1]], threadNext[x])' = NextType(x[1], rankNext[x[1]], threadNext[x])
  BY SameConfig DEF NextSync, NextCycle, NextType, ThreadNextSync, Minus

(* No thread by itself finds out the next rank sync. *)
LEMMA SameReduced ==
  ASSUME SyncInv, NEW x \in RankInfo, OthersKeep(x), Effect(x)
  PROVE  /\ \A r \in Ranks : Reduced(r)' = Reduced(r) /\ (Reduced(r) => now'[Master(r)] = now[Master(r)])
         /\ \A y \in RankInfo : y # x => Fresh(y)' = Fresh(y)
  <1> USE DEF KeepsAll, KeepsNow, KeepsSync, KeepsNext, KeepsLoop, KeepsSyncs
  <1>1. ASSUME NEW r \in Ranks
        PROVE  Reduced(r)' = Reduced(r) /\ (Reduced(r) => now'[Master(r)] = now[Master(r)])
    <2>1. Master(r) \in RankInfo
      BY Threads
    <2>2. CASE Master(r) # x
      BY <2>1, <2>2 DEF Reduced, OthersKeep
    <2>3. CASE Master(r) = x
      <3>1. syncType[x] \in {"RANK", "THREAD"}
        BY DEF SyncInv, TypeInv, Shapes
      <3> DEFINE Red(l, t) == l \in {"xAll", "R2", "R3", "check"} \/ (l = "after" /\ t = "RANK")
      <3>2. /\ Red(pc'[x], syncType'[x]) = Red(pc[x], syncType[x])
            /\ Red(pc[x], syncType[x]) => now'[x] = now[x]
        <4>1. CASE Runs(x)
          BY <4>1 DEF Runs
        <4>2. CASE Finishes(x, "run") \/ Finishes(x, "next")
          BY <4>2 DEF Finishes
        <4>3. CASE Begins(x)
          BY <3>1, <4>3 DEF Begins
        <4>4. CASE Moves(x)
          BY <3>1, <4>4 DEF Moves
        <4>5. CASE FindsNext(x)
          BY <3>1, <4>5 DEF FindsNext
        <4>6. CASE Inserts(x)
          BY <4>6 DEF Inserts
        <4> QED BY <4>1, <4>2, <4>3, <4>4, <4>5, <4>6 DEF Effect
      <3>3. Reduced(r) = Red(pc[x], syncType[x]) /\ Reduced(r)' = Red(pc'[x], syncType'[x])
        BY <2>3 DEF Reduced
      <3> QED BY <2>3, <3>2, <3>3
    <2> QED BY <2>2, <2>3
  <1>2. ASSUME NEW y \in RankInfo, y # x PROVE Fresh(y)' = Fresh(y)
    <2>1. Reduced(y[1])' = Reduced(y[1])
      BY <1>1, Threads
    <2> QED BY <2>1, <1>2 DEF Fresh, OthersKeep
  <1> QED BY <1>1, <1>2

(* The next sync stays in the vortex until it begins. *)
LEMMA ThreadQueued ==
  ASSUME SyncInv, NEW x \in RankInfo, OthersKeep(x), Effect(x)
  PROVE  Queued'
  <1> USE DEF KeepsAll, KeepsNow, KeepsSync, KeepsNext, KeepsLoop, KeepsSyncs
  <1> DEFINE Good(y) ==
        /\ Fresh(y) \/ pc[y] = "R5" \/ (pc[y] = "run" /\ ~endSim[y]) =>
             syncType[y] = NextType(y[1], rankNext[y[1]], threadNext[y])
        /\ ~endSim[y] => SyncsOf(y) = IF pc[y] \in {"run", "R5"} THEN {SyncAt(NextSync(y))} ELSE {}
  <1>1. \A y \in RankInfo : Good(y)
    BY DEF SyncInv, Queued, SyncsOf
  <1>2. UNCHANGED <<config, rankNext>>
    BY DEF OthersKeep
  <1>3. ASSUME NEW y \in RankInfo, y # x PROVE Good(y)'
    <2>1. NextSync(y)' = NextSync(y)
          /\ NextType(y[1], rankNext[y[1]], threadNext[y])' = NextType(y[1], rankNext[y[1]], threadNext[y])
      BY <1>2, <1>3, SameNextSync DEF OthersKeep
    <2>2. Fresh(y)' = Fresh(y)
      BY <1>3, SameReduced
    <2>3. SyncsOf(y)' = SyncsOf(y) /\ pc'[y] = pc[y] /\ endSim'[y] = endSim[y]
          /\ syncType'[y] = syncType[y]
      BY <1>3 DEF OthersKeep
    <2>4. SyncAt(NextSync(y))' = SyncAt(NextSync(y))
      BY <2>1 DEF SyncAt, Activity
    <2> HIDE DEF SyncsOf
    <2> QED BY <1>1, <2>1, <2>2, <2>3, <2>4
  <1>4. Good(x)'
    <2>0. Reduced(x[1])' = Reduced(x[1])
      BY SameReduced, Threads
    <2>1. Good(x)
      BY <1>1
    <2>2. CASE FindsNext(x)
      <3>1. pc[x] = "after" /\ pc'[x] \in {"R3", "T2"} /\ endSim'[x] = endSim[x]
            /\ SyncsOf(x)' = SyncsOf(x)
        BY <2>2 DEF FindsNext
      <3>2. ~ Fresh(x)'
        BY <3>1 DEF Fresh, Exchanging
      <3> HIDE DEF SyncsOf
      <3> QED BY <2>1, <3>1, <3>2
    <2>3. CASE ~FindsNext(x)
      <3>1. threadNext'[x] = threadNext[x]
        BY <2>3 DEF Effect, Runs, Finishes, Begins, Moves, Inserts
      <3>2. NextSync(x)' = NextSync(x)
            /\ NextType(x[1], rankNext[x[1]], threadNext[x])' = NextType(x[1], rankNext[x[1]], threadNext[x])
        BY <1>2, <3>1, SameNextSync
      <3>3. SyncAt(NextSync(x))' = SyncAt(NextSync(x))
        BY <3>2 DEF SyncAt, Activity
      <3>4. syncType[x] \in {"RANK", "THREAD"}
        BY DEF SyncInv, TypeInv, Shapes
      <3> HIDE DEF SyncsOf
      <3>5. CASE Runs(x)
        BY <2>1, <3>2, <3>3, <3>5 DEF Runs, Fresh, Exchanging
      <3>6. CASE Finishes(x, "run") \/ Finishes(x, "next")
        BY <3>6 DEF Finishes, Fresh, Exchanging
      <3>7. CASE Begins(x)
        BY <2>1, <3>2, <3>3, <3>4, <3>7 DEF Begins, Fresh, Exchanging
      <3>8. CASE Moves(x)
        <4>1. Fresh(x)' => Fresh(x)
          BY <2>0, <3>4, <3>8 DEF Moves, Fresh, Exchanging
        <4>2. pc[x] \notin {"R5"} /\ pc'[x] \notin {"run", "R5"} /\ (pc[x] = "run" => endSim[x])
          BY <3>4, <3>8 DEF Moves
        <4> QED BY <2>1, <3>2, <3>3, <3>8, <4>1, <4>2 DEF Moves
      <3>9. CASE Inserts(x)
        BY <2>1, <3>2, <3>3, <3>9 DEF Inserts, Fresh, Exchanging
      <3> QED BY <2>3, <3>5, <3>6, <3>7, <3>8, <3>9 DEF Effect
    <2> QED BY <2>2, <2>3
  <1>5. \A y \in RankInfo : Good(y)'
    BY <1>3, <1>4
  <1> QED BY <1>5 DEF Queued, SyncsOf

(* Threads begin a sync in the same cycle. *)
LEMMA ThreadClocks ==
  ASSUME SyncInv, NEW x \in RankInfo, OthersKeep(x), Effect(x)
  PROVE  ClocksAgree' /\ RanksAgree'
  <1> USE DEF KeepsAll, KeepsNow, KeepsSync, KeepsNext, KeepsLoop, KeepsSyncs
  <1>1. UNCHANGED <<config, rankNext>> /\ Direct' = Direct /\ MinPart' = MinPart
    BY SameConfig DEF OthersKeep
  <1>2. \A y \in RankInfo : threadNext'[y] = threadNext[y] => NextSync(y)' = NextSync(y)
    BY <1>1, SameNextSync
  <1>3. \A y \in RankInfo : y # x =>
          /\ pc'[y] = pc[y] /\ now'[y] = now[y] /\ NextSync(y)' = NextSync(y)
          /\ Fresh(y)' = Fresh(y) /\ Post(y)' = Post(y) /\ InSync(y)' = InSync(y)
    BY <1>2, SameReduced DEF OthersKeep, Post, InSync
  <1>4. syncType[x] \in {"RANK", "THREAD"}
    BY DEF SyncInv, TypeInv, Shapes
  <1>5. ~FindsNext(x) => threadNext'[x] = threadNext[x] /\ NextSync(x)' = NextSync(x)
                         /\ Post(x)' = Post(x) /\ pc'[x] # "T2"
    <2>1. ~FindsNext(x) => threadNext'[x] = threadNext[x] /\ Post(x)' = Post(x) /\ pc'[x] # "T2"
      BY DEF Effect, Runs, Finishes, Begins, Moves, Inserts, Post
    <2> QED BY <2>1, <1>2
  <1>6. FindsNext(x) =>
          /\ Post(x)' /\ ~Post(x) /\ now'[x] = now[x] /\ ~Fresh(x)' /\ InSync(x)
          /\ pc'[x] = "T2" => Fresh(x)
    BY <1>4 DEF FindsNext, Post, Fresh, InSync, Exchanging, Barriers, SyncCode
  <1>7. ASSUME ~Begins(x)
        PROVE  /\ Fresh(x)' => Fresh(x) /\ now'[x] = now[x] /\ ~FindsNext(x)
               /\ InSync(x)' => InSync(x) /\ now'[x] = now[x]
    <2>0. Reduced(x[1])' = Reduced(x[1])
      BY SameReduced, Threads
    <2>1. CASE Runs(x)
      BY <2>1 DEF Runs, Fresh, Exchanging, InSync, Barriers, SyncCode
    <2>2. CASE Finishes(x, "run") \/ Finishes(x, "next")
      BY <2>2 DEF Finishes, Fresh, Exchanging, InSync, Barriers, SyncCode
    <2>3. CASE Moves(x)
      <3>1. Fresh(x)' => Fresh(x)
        BY <1>4, <2>0, <2>3 DEF Moves, Fresh, Exchanging
      <3>2. InSync(x)' => InSync(x)
        BY <2>3 DEF Moves, InSync, Barriers, SyncCode
      <3>3. now'[x] = now[x] /\ ~FindsNext(x)
        BY <2>3 DEF Moves, FindsNext
      <3> QED BY <3>1, <3>2, <3>3
    <2>4. CASE FindsNext(x)
      BY <1>6, <2>4
    <2>5. CASE Inserts(x)
      BY <2>5 DEF Inserts, Fresh, Exchanging, InSync, Barriers, SyncCode
    <2> QED BY <1>7, <2>1, <2>2, <2>3, <2>4, <2>5 DEF Effect
  <1>8. Begins(x) => /\ now'[x] = NextSync(x) /\ ~FindsNext(x) /\ ~Post(x)
                     /\ Phase(x) = "run" /\ pc[x] = "run"
    BY PhaseAt DEF Begins, FindsNext, Post
  <1>9. \A y, z \in RankInfo : y[1] = z[1] /\ ~Post(y) /\ ~Post(z) => NextSync(y) = NextSync(z)
    BY DEF SyncInv, TimesAgree, NextSync
  <1>10. \A y \in RankInfo : Fresh(y)' => now'[y] = NextSync(y)'
    BY <1>3, <1>5, <1>7, <1>8 DEF SyncInv, ClocksAgree
  <1>11. ASSUME NEW y \in RankInfo, NEW z \in RankInfo, y[1] = z[1], ~Post(y)', pc'[z] = "T2", Direct
         PROVE  now'[z] = NextSync(y)'
    <2>1. CASE y # x /\ z # x
      BY <2>1, <1>3, <1>11 DEF SyncInv, ClocksAgree
    <2>2. CASE y = x /\ z # x
      <3>1. ~FindsNext(x) /\ ~Post(x) /\ NextSync(x)' = NextSync(x)
        BY <2>2, <1>5, <1>6, <1>11
      <3> QED BY <2>2, <3>1, <1>3, <1>11 DEF SyncInv, ClocksAgree
    <2>3. CASE z = x
      <3>1. FindsNext(x)
        BY <2>3, <1>5, <1>11
      <3>2. Fresh(x) /\ now'[x] = now[x] /\ ~Post(x) /\ y # x
        BY <2>3, <3>1, <1>6, <1>11
      <3>3. now[x] = NextSync(x)
        BY <3>2 DEF SyncInv, ClocksAgree
      <3>4. NextSync(y)' = NextSync(y) /\ ~Post(y)
        BY <3>2, <1>3, <1>11
      <3>5. NextSync(y) = NextSync(x)
        BY <2>3, <3>2, <3>4, <1>9, <1>11
      <3> QED BY <2>3, <3>2, <3>3, <3>4, <3>5
    <2> QED BY <2>1, <2>2, <2>3
  <1>12. ASSUME NEW y \in RankInfo, y # x, y[1] = x[1], InSync(y)', InSync(x)'
         PROVE  now'[y] = now'[x]
    <2>1. CASE ~Begins(x)
      BY <2>1, <1>3, <1>7, <1>12 DEF SyncInv, ClocksAgree
    <2>2. CASE Begins(x)
      <3>1. Phase(y) = "run" /\ InSync(y)
        BY <2>2, <1>3, <1>8, <1>12 DEF SyncInv, Lockstep
      <3>2. pc[y] \in PCs /\ syncType[y] \in {"RANK", "THREAD"}
        BY DEF SyncInv, TypeInv, Shapes
      <3>3. \/ Fresh(y) /\ ~Post(y)
            \/ pc[y] = "T2" /\ Direct
        <4>1. pc[y] \in {"R0", "T0", "after", "T2"}
          BY <3>1, <3>2 DEF Phase, InSync, PCs, Barriers, SyncCode
        <4>2. pc[y] \in {"after", "T2"} => Direct /\ syncType[y] = "THREAD"
          BY <3>1 DEF Phase
        <4> QED BY <4>1, <4>2 DEF Fresh, Post
      <3>4. CASE Fresh(y) /\ ~Post(y)
        <4>1. now[y] = NextSync(y)
          BY <3>4 DEF SyncInv, ClocksAgree
        <4>2. NextSync(y) = NextSync(x)
          BY <2>2, <3>4, <1>8, <1>9, <1>12
        <4> QED BY <4>1, <4>2, <2>2, <1>3, <1>8, <1>12
      <3>5. CASE pc[y] = "T2" /\ Direct
        <4>1. now[y] = NextSync(x)
          BY <2>2, <3>5, <1>8, <1>12 DEF SyncInv, ClocksAgree
        <4> QED BY <4>1, <2>2, <1>3, <1>8, <1>12
      <3> QED BY <3>3, <3>4, <3>5
    <2> QED BY <2>1, <2>2
  <1>13. \A y, z \in RankInfo : y[1] = z[1] /\ InSync(y)' /\ InSync(z)' => now'[y] = now'[z]
    BY <1>3, <1>12 DEF SyncInv, ClocksAgree
  <1>14. ClocksAgree'
    BY <1>1, <1>10, <1>11, <1>13 DEF ClocksAgree
  <1>15. RanksAgree'
    BY <1>1, SameReduced DEF SyncInv, RanksAgree
  <1> QED BY <1>14, <1>15

----------------------------------------------------------------------------
(* Barriers keep the ranks in step.                                        *)

(* What a barrier means for a thread x of its rank. *)
Resumes(x, b) ==
  /\ pc[x] = b /\ pc'[x] = Resume(x, b)
  /\ back'[x] = back[x] /\ syncType'[x] = syncType[x]

LEMMA BarrierFrame ==
  ASSUME SyncInv, NEW r \in Ranks, NEW b \in Barriers, Barrier(r, b)
  PROVE  /\ b \in {"R0", "R1", "R2", "R3", "R4", "R5", "T0", "T1", "T2",
                   "xStart", "xDone", "xAll", "exitB", "runB"}
         /\ \A x \in RankInfo : x[1] = r => Resumes(x, b)
         /\ \A x \in RankInfo : x[1] # r => pc'[x] = pc[x]
         /\ UNCHANGED <<tv, now, back, syncType, threadNext, rankNext, endSim, config>>
         /\ Direct' = Direct /\ MinPart' = MinPart /\ (\A rk : ThreadLat(rk)' = ThreadLat(rk))
         /\ \A x \in RankInfo :
              /\ NextSync(x)' = NextSync(x)
              /\ NextType(x[1], rankNext[x[1]], threadNext[x])' = NextType(x[1], rankNext[x[1]], threadNext[x])
              /\ SyncAt(NextSync(x))' = SyncAt(NextSync(x))
              /\ SyncsOf(x)' = SyncsOf(x)
  <1>1. b \in {"R0", "R1", "R2", "R3", "R4", "R5", "T0", "T1", "T2",
               "xStart", "xDone", "xAll", "exitB", "runB"}
    BY DEF Barriers
  <1>2. /\ \A x \in RankInfo : x[1] = r => pc[x] = b /\ pc'[x] = Resume(x, b)
        /\ \A x \in RankInfo : x[1] # r => pc'[x] = pc[x]
        /\ UNCHANGED <<tv, now, back, syncType, threadNext, rankNext, endSim, config>>
    BY BarrierStep DEF SyncInv
  <1>3. \A x \in RankInfo :
          /\ NextSync(x)' = NextSync(x)
          /\ NextType(x[1], rankNext[x[1]], threadNext[x])' = NextType(x[1], rankNext[x[1]], threadNext[x])
    BY <1>2, SameNextSync
  <1>4. \A x \in RankInfo : SyncAt(NextSync(x))' = SyncAt(NextSync(x))
    BY <1>3 DEF SyncAt, Activity
  <1>5. \A x \in RankInfo : SyncsOf(x)' = SyncsOf(x)
    BY <1>2 DEF SyncsOf
  <1> QED BY <1>1, <1>2, <1>3, <1>4, <1>5, SameConfig DEF Resumes

(* All threads of the rank come into the same phase. *)
LEMMA BarrierLockstep ==
  ASSUME SyncInv, NEW r \in Ranks, NEW b \in Barriers, Barrier(r, b)
  PROVE  Lockstep' /\ TypeOfSync'
  <1>1. /\ b \in {"R0", "R1", "R2", "R3", "R4", "R5", "T0", "T1", "T2",
                  "xStart", "xDone", "xAll", "exitB", "runB"}
        /\ \A x \in RankInfo : x[1] = r => Resumes(x, b)
        /\ \A x \in RankInfo : x[1] # r => pc'[x] = pc[x]
        /\ UNCHANGED <<back, syncType, config>> /\ Direct' = Direct /\ MinPart' = MinPart
    BY BarrierFrame
  <1>2. \A x \in RankInfo : x[1] # r => Phase(x)' = Phase(x)
    BY <1>1, PhaseStays
  <1>3. \A x \in RankInfo : x[1] = r =>
          /\ pc[x] = b /\ pc'[x] = Resume(x, b)
          /\ b \in {"T0", "T1", "T2"} => syncType'[x] = "THREAD" /\ syncType[x] = "THREAD"
          /\ b \in {"R0", "R1", "R2", "R3", "R4"} \cup Exchanging => syncType'[x] = "RANK"
          /\ b \in {"T0", "T1"} => ~Direct
          /\ b \in Exchanging => MinPart # MaxTime
          /\ back[x] \in {"run", "next"}
    BY <1>1 DEF Resumes, SyncInv, TypeOfSync, TypeInv, Shapes
  <1>4. TypeOfSync'
    <2>1. ASSUME NEW x \in RankInfo, x[1] = r
          PROVE  /\ pc'[x] \in {"R0", "R1", "R2", "R3", "R4", "check"} \cup Exchanging => syncType'[x] = "RANK"
                 /\ pc'[x] \in {"T0", "T1", "T2"} => syncType'[x] = "THREAD"
                 /\ pc'[x] \in {"T0", "T1"} \/ (pc'[x] = "before" /\ syncType'[x] = "THREAD") => ~Direct
                 /\ pc'[x] \in Exchanging => MinPart # MaxTime
      BY <1>1, <1>3, <2>1, ResumeAt DEF Exchanging
    <2> QED BY <1>1, <2>1 DEF SyncInv, TypeOfSync
  <1>5. ASSUME NEW x \in RankInfo, NEW y \in RankInfo, x[1] = r, y[1] = r
        PROVE  Phase(x)' = Phase(y)'
    <2>1. pc[x] = b /\ pc[y] = b /\ pc'[x] = Resume(x, b) /\ pc'[y] = Resume(y, b)
      BY <1>3, <1>5
    <2>2. b = "exitB" => back[x] = back[y]
      <3>1. Phase(x) = Phase(y)
        BY <1>5 DEF SyncInv, Lockstep
      <3> QED BY <3>1, <2>1, <1>3, <1>5 DEF Phase
    <2>3. CASE b = "exitB"
      BY <2>1, <2>2, <2>3, <1>1, <1>3, <1>5, ResumeAt DEF Phase
    <2>4. CASE b \in {"R0", "T0", "R1", "xStart", "xDone", "xAll"}
      BY <2>1, <2>4, <1>1, ResumeAt DEF Phase
    <2>5. CASE b \in {"R2", "T1"}
      <3>1. pc'[x] = "after" /\ pc'[y] = "after"
        BY <2>1, <2>5, ResumeAt
      <3>2. /\ b = "R2" => syncType'[x] = "RANK" /\ syncType'[y] = "RANK"
            /\ b = "T1" => syncType'[x] = "THREAD" /\ syncType'[y] = "THREAD"
        BY <1>3, <1>5
      <3> QED BY <2>5, <3>1, <3>2 DEF Phase
    <2>6. CASE b \in {"R3", "R4", "T2", "R5", "runB"}
      BY <2>1, <2>6, ResumeAt DEF Phase
    <2> QED BY <1>1, <2>3, <2>4, <2>5, <2>6
  <1>6. Lockstep'
    BY <1>2, <1>5 DEF SyncInv, Lockstep
  <1> QED BY <1>4, <1>6

(* Who is fresh after a barrier was so before. *)
LEMMA BarrierFresh ==
  ASSUME SyncInv, NEW r \in Ranks, NEW b \in Barriers, Barrier(r, b)
  PROVE  /\ \A q \in Ranks : q # r => Reduced(q)' = Reduced(q)
         /\ MinPart # MaxTime => Reduced(r)' = Reduced(r)
         /\ \A x \in RankInfo : Fresh(x)' => Fresh(x)
  <1>1. /\ b \in {"R0", "R1", "R2", "R3", "R4", "R5", "T0", "T1", "T2",
                  "xStart", "xDone", "xAll", "exitB", "runB"}
        /\ \A x \in RankInfo : x[1] = r => Resumes(x, b)
        /\ \A x \in RankInfo : x[1] # r => pc'[x] = pc[x]
        /\ UNCHANGED <<back, syncType, config>> /\ Direct' = Direct /\ MinPart' = MinPart
    BY BarrierFrame
  <1>2. \A x \in RankInfo : x[1] = r =>
          /\ pc[x] = b /\ pc'[x] = Resume(x, b)
          /\ b \in {"T0", "T1", "T2"} => syncType[x] = "THREAD"
          /\ b \in {"R0", "R1", "R2", "R3", "R4"} \cup Exchanging => syncType[x] = "RANK"
          /\ b \in Exchanging => MinPart # MaxTime
          /\ back[x] \in {"run", "next"}
          /\ b \in {"exitB", "runB"} => endSim[x]
    BY <1>1 DEF Resumes, SyncInv, TypeOfSync, TypeInv, Shapes, EndInv
  <1>3. Master(r) \in RankInfo /\ Master(r)[1] = r
    BY Threads
  <1>4. \A q \in Ranks : q # r => Reduced(q)' = Reduced(q)
    <2>1. \A q \in Ranks : q # r => pc'[Master(q)] = pc[Master(q)]
      BY <1>1, Threads
    <2> QED BY <1>1, <2>1 DEF Reduced
  <1>5. MinPart # MaxTime => Reduced(r)' = Reduced(r)
    <2>1. b # "R1" => Reduced(r)' = Reduced(r)
      BY <1>1, <1>2, <1>3, ResumeAt DEF Reduced, Exchanging
    <2>2. MinPart # MaxTime /\ b = "R1" => Reduced(r)' = Reduced(r)
      BY <1>1, <1>2, <1>3, ResumeAt DEF Reduced, Exchanging
    <2> QED BY <2>1, <2>2
  <1>6. \A x \in RankInfo : Fresh(x)' => Fresh(x)
    <2>1. ASSUME NEW x \in RankInfo, x[1] = r, Fresh(x)' PROVE Fresh(x)
      <3>1. b \in {"R0", "T0", "R1", "xStart"} => Fresh(x)
        BY <1>2, <2>1 DEF Fresh, Exchanging
      <3>2. b = "xDone" => Fresh(x)
        BY <1>2, <2>1 DEF Fresh, Exchanging
      <3>3. b = "T1" => Fresh(x)
        BY <1>2, <2>1 DEF Fresh
      <3>4. b \in {"xAll", "R2", "R3", "R4", "R5", "T2", "exitB", "runB"} => ~ Fresh(x)'
        BY <1>1, <1>2, <2>1, ResumeAt DEF Fresh, Exchanging
      <3> QED BY <1>1, <2>1, <3>1, <3>2, <3>3, <3>4
    <2>2. ASSUME NEW x \in RankInfo, x[1] # r, Fresh(x)' PROVE Fresh(x)
      BY <1>1, <1>4, <2>2, Threads DEF Fresh
    <2> QED BY <2>1, <2>2
  <1> QED BY <1>4, <1>5, <1>6

(* The rank goes on with the same times, types and clocks. *)
LEMMA BarrierRest ==
  ASSUME SyncInv, NEW r \in Ranks, NEW b \in Barriers, Barrier(r, b)
  PROVE  TimesAgree' /\ TypesAgree' /\ Queued' /\ ClocksAgree' /\ RanksAgree'
  <1>1. /\ b \in {"R0", "R1", "R2", "R3", "R4", "R5", "T0", "T1", "T2",
                  "xStart", "xDone", "xAll", "exitB", "runB"}
        /\ \A x \in RankInfo : x[1] = r => Resumes(x, b)
        /\ \A x \in RankInfo : x[1] # r => pc'[x] = pc[x]
        /\ UNCHANGED <<tv, now, back, syncType, threadNext, rankNext, endSim, config>>
        /\ Direct' = Direct /\ MinPart' = MinPart /\ (\A rk : ThreadLat(rk)' = ThreadLat(rk))
        /\ \A x \in RankInfo :
             /\ NextSync(x)' = NextSync(x)
             /\ NextType(x[1], rankNext[x[1]], threadNext[x])' = NextType(x[1], rankNext[x[1]], threadNext[x])
             /\ SyncAt(NextSync(x))' = SyncAt(NextSync(x))
             /\ SyncsOf(x)' = SyncsOf(x)
    BY BarrierFrame
  <1>2. \A x \in RankInfo : x[1] = r =>
          /\ pc[x] = b /\ pc'[x] = Resume(x, b)
          /\ b \in {"T0", "T1", "T2"} => syncType[x] = "THREAD"
          /\ b \in {"R0", "R1", "R2", "R3", "R4"} \cup Exchanging => syncType[x] = "RANK"
          /\ b \in Exchanging => MinPart # MaxTime
          /\ back[x] \in {"run", "next"}
          /\ b \in {"exitB", "runB"} => endSim[x]
    BY <1>1 DEF Resumes, SyncInv, TypeOfSync, TypeInv, Shapes, EndInv
  <1>3. Master(r) \in RankInfo /\ Master(r)[1] = r
    BY Threads
  <1>4. \A x, y \in RankInfo : x[1] = r /\ y[1] = r => (b = "exitB" => back[x] = back[y])
    <2>1. \A x, y \in RankInfo : x[1] = r /\ y[1] = r => Phase(x) = Phase(y)
      BY DEF SyncInv, Lockstep
    <2> QED BY <2>1, <1>2, PhaseAt
  <1>5. \A x, y \in RankInfo : x[1] = r /\ y[1] = r => (Post(x) <=> Post(y))
    BY <1>1, <1>2, <1>4 DEF Post
  <1>6. \A x \in RankInfo : x[1] # r => Post(x)' = Post(x)
    BY <1>1 DEF Post
  <1>7. \A x, y \in RankInfo : x[1] = r /\ y[1] = r => threadNext[x] = threadNext[y]
    BY <1>5 DEF SyncInv, TimesAgree
  <1>8. \A x \in RankInfo : x[1] = r => pc'[x] \notin {"R3", "T2", "R5"}
    BY <1>1, <1>2, ResumeAt
  <1>9. \A x \in RankInfo : NextThreadSync(x)' = NextThreadSync(x)
    <2>1. \A q \in Ranks : LocalMinimum(q)' = LocalMinimum(q)
      BY <1>1, MinimumStays
    <2> QED BY <1>1, <2>1, Threads DEF NextThreadSync, Plus, MaxOf
  <1>10. TimesAgree'
    BY <1>1, <1>6, <1>7, <1>8, <1>9 DEF SyncInv, TimesAgree
  <1>11. TypesAgree'
    <2>1. ASSUME NEW x \in RankInfo, NEW y \in RankInfo, x[1] = r, y[1] = r
          PROVE  syncType[x] = syncType[y]
      <3>1. CASE b = "R5"
        <4>1. /\ syncType[x] = NextType(x[1], rankNext[x[1]], threadNext[x])
              /\ syncType[y] = NextType(y[1], rankNext[y[1]], threadNext[y])
          BY <1>2, <2>1, <3>1 DEF SyncInv, Queued
        <4> QED BY <4>1, <1>7, <2>1
      <3>2. CASE b # "R5"
        BY <1>2, <2>1, <3>2 DEF SyncInv, TypesAgree
      <3> QED BY <3>1, <3>2
    <2> QED BY <1>1, <2>1 DEF SyncInv, TypesAgree
  <1>12. /\ \A q \in Ranks : q # r => Reduced(q)' = Reduced(q)
         /\ MinPart # MaxTime => Reduced(r)' = Reduced(r)
         /\ \A x \in RankInfo : Fresh(x)' => Fresh(x)
    BY BarrierFresh
  <1>13. Queued'
    <2>1. \A x \in RankInfo : (pc'[x] = "R5" => pc[x] = "R5")
                              /\ (pc'[x] = "run" /\ ~endSim[x] => pc[x] \in {"run", "R5"})
      BY <1>1, <1>2, <1>8, ResumeAt
    <2>2. \A x \in RankInfo : ~endSim[x] /\ pc[x] \in {"run", "R5"} => pc'[x] \in {"run", "R5"}
      BY <1>1, <1>2, ResumeAt
    <2>3. \A x \in RankInfo : Fresh(x)' \/ pc'[x] = "R5" \/ (pc'[x] = "run" /\ ~endSim[x]) =>
             Fresh(x) \/ pc[x] = "R5" \/ (pc[x] = "run" /\ ~endSim[x])
      BY <1>12, <2>1
    <2>4. \A x \in RankInfo : ~endSim[x] =>
             SyncsOf(x) = IF pc'[x] \in {"run", "R5"} THEN {SyncAt(NextSync(x))} ELSE {}
      BY <2>1, <2>2 DEF SyncInv, Queued, SyncsOf
    <2> HIDE DEF SyncsOf
    <2>5. \A x \in RankInfo : ~endSim'[x] =>
             SyncsOf(x)' = IF pc'[x] \in {"run", "R5"} THEN {SyncAt(NextSync(x))'} ELSE {}
      BY <1>1, <2>4
    <2> QED BY <1>1, <2>3, <2>5 DEF SyncInv, Queued, SyncsOf
  <1>14. \A x \in RankInfo : InSync(x)' => InSync(x)
    BY <1>1, <1>2, ResumeAt DEF InSync, Barriers, SyncCode
  <1>15. ClocksAgree'
    BY <1>1, <1>6, <1>8, <1>12, <1>14 DEF SyncInv, ClocksAgree
  <1>16. RanksAgree'
    <2>1. MinPart # MaxTime => \A q \in Ranks : Reduced(q)' = Reduced(q)
      BY <1>12
    <2> QED BY <1>1, <2>1 DEF SyncInv, RanksAgree
  <1> QED BY <1>10, <1>11, <1>13, <1>15, <1>16

(* Only masters get where only masters go. *)
LEMMA MastersOnly ==
  ASSUME SyncInv,
         \/ \E x \in RankInfo : OthersKeep(x) /\ Effect(x)
         \/ \E r \in Ranks, b \in Barriers : Barrier(r, b)
  PROVE  MasterInv'
  <1>1. Masters' = Masters
    BY DEF Masters, Master
  <1>2. NumThreads = 1 => \A x \in RankInfo : x \in Masters
    BY Threads
  <1>3. ASSUME NEW x \in RankInfo, OthersKeep(x), Effect(x) PROVE MasterInv'
    <2>1. pc'[x] \in {"xSend", "xReduce", "check", "final"} => x \in Masters
      <3>1. syncType[x] \in {"RANK", "THREAD"}
        BY DEF SyncInv, TypeInv, Shapes
      <3> QED BY <1>2, <1>3, <3>1 DEF Effect, Runs, Finishes, Begins, Moves, FindsNext, Inserts
    <2> QED BY <1>1, <1>3, <2>1 DEF SyncInv, MasterInv, OthersKeep
  <1>4. ASSUME NEW r \in Ranks, NEW b \in Barriers, Barrier(r, b) PROVE MasterInv'
    <2>1. /\ b \in {"R0", "R1", "R2", "R3", "R4", "R5", "T0", "T1", "T2",
                    "xStart", "xDone", "xAll", "exitB", "runB"}
          /\ \A x \in RankInfo : x[1] = r => Resumes(x, b)
          /\ \A x \in RankInfo : x[1] # r => pc'[x] = pc[x]
      BY <1>4, BarrierFrame
    <2>2. ASSUME NEW x \in RankInfo, x[1] = r, pc'[x] \in {"xSend", "xReduce", "check", "final"}
          PROVE  x \in Masters
      <3>1. pc'[x] = Resume(x, b) /\ back[x] \in {"run", "next"}
        BY <2>1, <2>2 DEF Resumes, SyncInv, TypeInv, Shapes
      <3>2. x = Master(x[1]) => x \in Masters
        BY Threads
      <3>3. CASE b = "runB"
        BY <2>2, <3>1, <3>2, <3>3 DEF Resume
      <3>4. CASE b # "runB"
        BY <1>2, <2>1, <2>2, <3>1, <3>2, <3>4, ResumeAt
      <3> QED BY <3>3, <3>4
    <2> QED BY <1>1, <2>1, <2>2 DEF SyncInv, MasterInv
  <1> QED BY <1>3, <1>4

----------------------------------------------------------------------------
(* Collectives keep the ranks in step.                                     *)

LEMMA ReduceRest ==
  ASSUME SyncInv, ReduceNext
  PROVE  /\ Lockstep' /\ TypeOfSync' /\ MasterInv' /\ TimesAgree' /\ TypesAgree' /\ Queued'
         /\ ClocksAgree' /\ RanksAgree'
  <1>0. BaseInv
    BY DEF SyncInv, BaseInv
  <1>1. /\ \A x \in Masters : pc[x] = "xReduce"
        /\ rankNext' = [r \in Ranks |-> Plus(EarliestOfAll, RankLat)]
        /\ pc' = [x \in RankInfo |-> IF x \notin Masters THEN pc[x]
                                     ELSE IF NumThreads = 1 THEN "R2" ELSE "xAll"]
        /\ UNCHANGED <<tv, now, back, syncType, threadNext, endSim, config>>
    BY DEF ReduceNext, EarliestOfAll, endVars, compVars
  <1>2. \A x \in RankInfo : /\ pc[x] \in {"xReduce", "xAll"} /\ x \notin Masters => pc[x] = "xAll"
                            /\ pc'[x] = IF NumThreads = 1 THEN "R2" ELSE "xAll"
    <2>1. \A x \in RankInfo : pc[x] \in {"xReduce", "xAll"}
      BY <1>0, AllReducing
    <2>2. \A x \in RankInfo : x \notin Masters => pc[x] = "xAll"
      BY <2>1 DEF SyncInv, MasterInv
    <2>3. NumThreads = 1 => \A x \in RankInfo : x \in Masters
      BY Threads
    <2> QED BY <1>1, <2>1, <2>2, <2>3
  <1>3. Direct' = Direct /\ MinPart' = MinPart /\ (\A rk : ThreadLat(rk)' = ThreadLat(rk))
    BY <1>1, SameConfig
  <1>4. \A x \in RankInfo : syncType[x] = "RANK" /\ MinPart # MaxTime
    BY <1>0, AllReducing DEF SyncInv, TypeOfSync, Exchanging
  <1>5. Lockstep'
    BY <1>2 DEF Lockstep, Phase
  <1>6. TypeOfSync' /\ MasterInv'
    BY <1>1, <1>2, <1>3, <1>4 DEF TypeOfSync, MasterInv, Exchanging
  <1>7. \A x \in RankInfo : ~Post(x) /\ ~Post(x)'
    BY <1>0, <1>2, AllReducing DEF Post
  <1>8. TimesAgree'
    BY <1>1, <1>2, <1>3, <1>4, <1>7, Threads DEF SyncInv, TimesAgree
  <1>9. TypesAgree'
    BY <1>1, <1>2, <1>4 DEF TypesAgree
  <1>10. \A r \in Ranks : Reduced(r)'
    BY <1>2, Threads DEF Reduced
  <1>11. \A x \in RankInfo : ~Fresh(x)'
    BY <1>2, <1>10, Threads DEF Fresh, Exchanging
  <1>12. Queued'
    <2>1. \A x \in RankInfo : ~endSim[x] => SyncsOf(x) = {}
      BY <1>0, AllReducing DEF SyncInv, Queued, SyncsOf
    <2> QED BY <1>1, <1>2, <1>11, <2>1 DEF Queued, SyncsOf
  <1>13. \A x \in RankInfo : InSync(x)
    BY <1>0, AllReducing DEF InSync, Barriers, SyncCode
  <1>14. ClocksAgree'
    BY <1>1, <1>2, <1>11, <1>13 DEF SyncInv, ClocksAgree
  <1>15. ASSUME NEW q \in Ranks, NEW r \in Ranks PROVE now[Master(q)] = now[Master(r)]
    <2>1. /\ Master(q) \in RankInfo /\ Master(q)[1] = q /\ pc[Master(q)] = "xReduce"
          /\ Master(r) \in RankInfo /\ Master(r)[1] = r /\ pc[Master(r)] = "xReduce"
      BY <1>1, Threads
    <2>2. \A x \in RankInfo : pc[x] = "xReduce" => now[x] = rankNext[x[1]]
      <3> SUFFICES ASSUME NEW x \in RankInfo, pc[x] = "xReduce"
                   PROVE  now[x] = rankNext[x[1]]
        OBVIOUS
      <3>1. Fresh(x)
        BY DEF Fresh, Exchanging
      <3>2. now[x] = NextSync(x) /\ NextType(x[1], rankNext[x[1]], threadNext[x]) = "RANK"
        BY <1>4, <3>1 DEF SyncInv, ClocksAgree, Queued
      <3>3. rankNext[x[1]] \in SimTime /\ threadNext[x] \in SimTime
        BY Threads DEF SyncInv, TypeInv, Shapes
      <3> QED BY <3>2, <3>3, NextCycleTime DEF NextSync
    <2> QED BY <2>1, <2>2 DEF SyncInv, TimesAgree
  <1>16. RanksAgree'
    <2>1. \A q, r \in Ranks : now'[Master(q)] = now'[Master(r)]
      BY <1>1, <1>15
    <2> QED BY <1>10, <2>1 DEF RanksAgree
  <1> QED BY <1>5, <1>6, <1>8, <1>9, <1>12, <1>14, <1>16

LEMMA CollectiveRest ==
  ASSUME SyncInv, CheckRanks \/ FinalEndTime
  PROVE  /\ Lockstep' /\ TypeOfSync' /\ MasterInv' /\ TimesAgree' /\ TypesAgree' /\ Queued'
         /\ ClocksAgree' /\ RanksAgree'
  <1>1. UNCHANGED <<tv, now, back, syncType, threadNext, rankNext, endSim, config>>
    BY DEF CheckRanks, FinalEndTime, syncVars, queueVars, endVars, compVars
  <1>2. PICK from \in {"check", "final"} :
          /\ \A x \in Masters : pc[x] = from
          /\ pc' = [x \in RankInfo |-> IF x \in Masters
                                       THEN IF from = "check" THEN "R4" ELSE "done" ELSE pc[x]]
    <2>1. CASE CheckRanks
      BY <2>1 DEF CheckRanks
    <2>2. CASE FinalEndTime
      BY <2>2 DEF FinalEndTime
    <2> QED BY <2>1, <2>2
  <1>3. /\ Direct' = Direct /\ MinPart' = MinPart /\ (\A rk : ThreadLat(rk)' = ThreadLat(rk))
        /\ \A x \in RankInfo :
             /\ NextSync(x)' = NextSync(x)
             /\ NextType(x[1], rankNext[x[1]], threadNext[x])' = NextType(x[1], rankNext[x[1]], threadNext[x])
    BY <1>1, SameConfig, SameNextSync
  <1>4. \A x \in RankInfo :
          /\ x \notin Masters => pc'[x] = pc[x]
          /\ x \in Masters => pc[x] = from /\ pc'[x] = IF from = "check" THEN "R4" ELSE "done"
    BY <1>2
  <1>5. \A x \in RankInfo : Phase(x)' = Phase(x) /\ Phase(x) = IF from = "check" THEN "check" ELSE "final"
    <2>1. ASSUME NEW x \in RankInfo, x \in Masters
          PROVE  Phase(x)' = Phase(x) /\ Phase(x) = IF from = "check" THEN "check" ELSE "final"
      BY <1>4, <2>1 DEF Phase
    <2>2. ASSUME NEW x \in RankInfo, x \notin Masters
          PROVE  Phase(x)' = Phase(x) /\ Phase(x) = IF from = "check" THEN "check" ELSE "final"
      <3>1. Phase(x)' = Phase(x)
        BY <1>1, <1>4, <2>2, PhaseStays
      <3>2. Master(x[1]) \in RankInfo /\ Master(x[1]) \in Masters /\ Master(x[1])[1] = x[1]
        BY Threads
      <3>3. Phase(x) = Phase(Master(x[1]))
        BY <3>2 DEF SyncInv, Lockstep
      <3> QED BY <2>1, <3>1, <3>2, <3>3
    <2> QED BY <2>1, <2>2
  <1>6. \A x \in RankInfo : pc[x] \in {"check", "R4", "final", "done"} /\ pc'[x] \in {"check", "R4", "final", "done"}
    <2>1. ASSUME NEW x \in RankInfo PROVE pc[x] \in {"check", "R4", "final", "done"}
      <3>1. pc[x] \in PCs /\ back[x] \in {"run", "next"}
        BY DEF SyncInv, TypeInv, Shapes
      <3> QED BY <1>5, <3>1 DEF Phase, PCs, Barriers, SyncCode
    <2> QED BY <1>4, <2>1
  <1>7. Lockstep'
    BY <1>5 DEF SyncInv, Lockstep
  <1>8. TypeOfSync'
    <2>1. \A x \in RankInfo : pc'[x] \in {"check", "R4"} => syncType[x] = "RANK"
      BY <1>4, <1>6 DEF SyncInv, TypeOfSync
    <2> QED BY <1>1, <1>6, <2>1 DEF TypeOfSync, Exchanging
  <1>9. MasterInv'
    BY <1>4 DEF SyncInv, MasterInv, Masters, Master
  <1>10. \A x \in RankInfo : Post(x)' = Post(x)
    BY <1>1, <1>4 DEF Post
  <1>11. TimesAgree'
    BY <1>1, <1>3, <1>6, <1>10 DEF SyncInv, TimesAgree
  <1>12. TypesAgree'
    BY <1>1, <1>6 DEF SyncInv, TypesAgree
  <1>13. \A x \in RankInfo : ~Fresh(x)'
    BY <1>6 DEF Fresh, Exchanging
  <1>14. Queued'
    <2>1. \A x \in RankInfo : ~endSim[x] => SyncsOf(x) = {}
      BY <1>6 DEF SyncInv, Queued, SyncsOf
    <2> QED BY <1>1, <1>6, <1>13, <2>1 DEF Queued, SyncsOf
  <1>15. \A x \in RankInfo : InSync(x)' => InSync(x)
    BY <1>4, <1>6 DEF InSync, Barriers, SyncCode
  <1>16. ClocksAgree'
    BY <1>1, <1>6, <1>13, <1>15 DEF SyncInv, ClocksAgree
  <1>17. RanksAgree'
    <2>1. \A r \in Ranks : pc'[Master(r)] \in {"R4", "done"}
      BY <1>2, Threads
    <2> QED BY <2>1 DEF RanksAgree, Reduced
  <1> QED BY <1>7, <1>8, <1>9, <1>11, <1>12, <1>14, <1>16, <1>17

----------------------------------------------------------------------------
(* The invariant of the syncs.                                             *)

LEMMA SyncInvInit == Init => SyncInv
  <1> SUFFICES ASSUME Init PROVE SyncInv
    OBVIOUS
  <1>1. TypeInv
    BY TypeInit
  <1>2. /\ \A x \in RankInfo : /\ pc[x] = "run" /\ back[x] = "run" /\ endSim[x] = FALSE
                               /\ syncType[x] = NextType(x[1], MinPart, ThreadLat(x[1]))
                               /\ threadNext[x] = ThreadLat(x[1])
        /\ \A r \in Ranks : rankNext[r] = MinPart
    BY DEF Init
  <1>3. Lockstep /\ TypeOfSync /\ MasterInv
    BY <1>2 DEF Lockstep, Phase, TypeOfSync, MasterInv, Exchanging
  <1>4. TimesAgree /\ TypesAgree
    BY <1>2 DEF TimesAgree, TypesAgree
  <1>5. \A x \in RankInfo : ~Fresh(x) /\ ~InSync(x)
    BY <1>2 DEF Fresh, Exchanging, InSync, Barriers, SyncCode
  <1>6. ClocksAgree
    BY <1>2, <1>5 DEF ClocksAgree
  <1>7. RanksAgree
    <2>1. \A r \in Ranks : pc[Master(r)] = "run"
      BY <1>2, Threads
    <2> QED BY <2>1 DEF RanksAgree, Reduced
  <1>8. Queued
    <2>1. ASSUME NEW x \in RankInfo PROVE SyncsOf(x) = {SyncAt(NextSync(x))}
      <3>1. tv[x] = InitialStops(x) \cup {SyncAt(NextCycle(x[1], MinPart, ThreadLat(x[1])))}
                    \cup {EventTo(c, config.start[c], c, 1) : c \in Active \cap PlacedOn(x)}
        BY DEF Init
      <3>2. \A a \in InitialStops(x) : a.kind = "stop"
        BY ActivityKinds DEF InitialStops
      <3>3. \A c : EventTo(c, config.start[c], c, 1).kind = "event"
        BY DEF EventTo, Activity
      <3>4. SyncAt(NextCycle(x[1], MinPart, ThreadLat(x[1]))).kind = "sync"
        BY ActivityKinds
      <3>5. NextSync(x) = NextCycle(x[1], MinPart, ThreadLat(x[1]))
        BY <1>2, Threads DEF NextSync
      <3> QED BY <3>1, <3>2, <3>3, <3>4, <3>5 DEF SyncsOf
    <2> HIDE DEF SyncsOf
    <2>2. \A x \in RankInfo : syncType[x] = NextType(x[1], rankNext[x[1]], threadNext[x])
      BY <1>2, Threads
    <2> QED BY <1>2, <2>1, <2>2 DEF Queued, SyncsOf
  <1> QED BY <1>1, <1>3, <1>4, <1>6, <1>7, <1>8 DEF SyncInv

LEMMA SyncInvStep == SyncInv /\ [Next]_vars => SyncInv'
  <1> SUFFICES ASSUME SyncInv, [Next]_vars PROVE SyncInv'
    OBVIOUS
  <1>1. TypeInv'
    BY TypeStep DEF SyncInv, BaseInv
  <1>2. ASSUME NEW x \in RankInfo, ThreadStep(x) PROVE SyncInv'
    <2>1. OthersKeep(x) /\ Effect(x)
      BY <1>2, ThreadEffect
    <2> QED BY <1>1, <2>1, ThreadLockstep, MastersOnly, ThreadTimes, ThreadTypes, ThreadQueued,
               ThreadClocks DEF SyncInv
  <1>3. ASSUME NEW r \in Ranks, NEW b \in Barriers, Barrier(r, b) PROVE SyncInv'
    <2>1. MasterInv'
      BY <1>3, MastersOnly
    <2>2. Lockstep' /\ TypeOfSync'
      BY <1>3, BarrierLockstep
    <2>3. TimesAgree' /\ TypesAgree' /\ Queued' /\ ClocksAgree' /\ RanksAgree'
      BY <1>3, BarrierRest
    <2> QED BY <1>1, <2>1, <2>2, <2>3 DEF SyncInv
  <1>4. CASE ReduceNext
    BY <1>1, <1>4, ReduceRest DEF SyncInv
  <1>5. CASE CheckRanks \/ FinalEndTime
    BY <1>1, <1>5, CollectiveRest DEF SyncInv
  <1>6. CASE UNCHANGED vars
    <2>1. UNCHANGED <<tv, now, pc, back, syncType, threadNext, rankNext, endSim, config>>
      BY <1>6 DEF vars, syncVars, endVars, compVars
    <2>2. Direct' = Direct /\ MinPart' = MinPart /\ (\A rk : ThreadLat(rk)' = ThreadLat(rk))
          /\ \A x \in RankInfo :
               /\ NextSync(x)' = NextSync(x) /\ Phase(x)' = Phase(x) /\ Post(x)' = Post(x)
               /\ NextType(x[1], rankNext[x[1]], threadNext[x])' = NextType(x[1], rankNext[x[1]], threadNext[x])
               /\ InSync(x)' = InSync(x)
      BY <2>1, SameConfig, SameNextSync, PhaseStays DEF Post, InSync
    <2>3. \A r \in Ranks : Reduced(r)' = Reduced(r) /\ LocalMinimum(r)' = LocalMinimum(r)
      BY <2>1, MinimumStays DEF Reduced
    <2>4. \A x \in RankInfo : Fresh(x)' = Fresh(x) /\ NextThreadSync(x)' = NextThreadSync(x)
      BY <2>1, <2>2, <2>3, Threads DEF Fresh, NextThreadSync, Plus, MaxOf
    <2>5. Lockstep' /\ TypeOfSync' /\ MasterInv' /\ TypesAgree'
      BY <2>1, <2>2 DEF SyncInv, Lockstep, TypeOfSync, MasterInv, TypesAgree, Masters, Master
    <2>6. TimesAgree'
      BY <2>1, <2>2, <2>4 DEF SyncInv, TimesAgree
    <2>7. Queued' /\ ClocksAgree' /\ RanksAgree'
      <3>1. \A x \in RankInfo : SyncAt(NextSync(x))' = SyncAt(NextSync(x))
        BY <2>2 DEF SyncAt, Activity
      <3> QED BY <2>1, <2>2, <2>3, <2>4, <3>1 DEF SyncInv, Queued, ClocksAgree, RanksAgree
    <2> QED BY <1>1, <2>5, <2>6, <2>7 DEF SyncInv
  <1> QED BY <1>2, <1>3, <1>4, <1>5, <1>6 DEF Next, Meeting, Finished

LEMMA SyncInvariance == Spec => []SyncInv
  BY SyncInvInit, SyncInvStep, PTL DEF Spec


----------------------------------------------------------------------------
(* The variables of the run phase keep their types: the clocks and the     *)
(* cycles of the next syncs stay within a SimTime_t, the vortices hold     *)
(* activities, the queues and messages events of components of the         *)
(* configuration, and no counter of an Exit object goes below zero or      *)
(* beyond what it counts (simulation.cc:642-704, exit.cc:27-89).           *)
LEMMA TypeInvTypes == TypeInv => TypeOK
  <1> SUFFICES ASSUME TypeInv PROVE TypeOK
    OBVIOUS
  <1>1. ExitTypeOK
    <2> DEFINE n == Cardinality(Comps)
    <2>1. IsFiniteSet(Comps) /\ n \in Nat
      BY BaseAssumption, FS_CardinalityType
    <2>2. \A S \in SUBSET Comps : Cardinality(S) \in 0 .. n
      <3>1. ASSUME NEW S \in SUBSET Comps PROVE Cardinality(S) \in 0 .. n
        <4>1. Cardinality(S) \in Nat /\ Cardinality(S) <= n
          BY <2>1, FiniteComps, FS_Subset
        <4> QED BY <2>1, <4>1
      <3> QED BY <3>1
    <2> HIDE DEF n
    <2>3. /\ idSet \in [Ranks -> SUBSET Comps]
          /\ refCount \in [Ranks -> Nat] /\ threadCount \in [RankInfo -> Nat]
      BY DEF TypeInv, CountInv, Placement
    <2>4. \A r \in Ranks : refCount[r] = Cardinality(idSet[r]) /\ idSet[r] \in SUBSET Comps
      BY <2>3 DEF TypeInv, CountInv, CountsMatch
    <2>5. \A x \in RankInfo :
            /\ threadCount[x] = Cardinality(idSet[x[1]] \cap PlacedOn(x))
            /\ idSet[x[1]] \cap PlacedOn(x) \in SUBSET Comps
      BY <2>3 DEF TypeInv, CountInv, CountsMatch, PlacedOn
    <2>6. \A r \in Ranks : refCount[r] \in 0 .. n
      BY <2>2, <2>4
    <2>7. \A x \in RankInfo : threadCount[x] \in 0 .. n
      BY <2>2, <2>5
    <2>8. refCount \in [Ranks -> 0 .. n] /\ threadCount \in [RankInfo -> 0 .. n]
      BY <2>3, <2>6, <2>7
    <2> QED BY <2>3, <2>8 DEF ExitTypeOK, TypeInv, Shapes, n
  <1>2. ASSUME NEW x \in RankInfo
        PROVE  /\ \A a \in tv[x] :
                    a \in Events \/ (a.kind \in Kinds \ {"event"} /\ a.time \in SimTime)
               /\ tq[x] \subseteq Events
               /\ \A r \in Ranks : \A i \in DOMAIN net[r, x] : net[r, x][i] \subseteq Events
               /\ got[x] \subseteq Ranks
    <2>1. \A a \in tv[x] : a \in Activities
      BY DEF TypeInv, Shapes
    <2>2. ASSUME NEW r \in Ranks, NEW i \in DOMAIN net[r, x]
          PROVE  net[r, x][i] \subseteq Events
      <3> DEFINE s == net[r, x]
      <3>1. s \in Seq(SUBSET Events)
        BY DEF TypeInv, Shapes
      <3>2. i \in DOMAIN s
        OBVIOUS
      <3> HIDE DEF s
      <3>3. i \in 1 .. Len(s)
        BY <3>1, <3>2, LenProperties
      <3>4. s[i] \in SUBSET Events
        BY <3>1, <3>3, ElementOfSeq
      <3> QED BY <3>4 DEF s
    <2>3. \A a \in tv[x] :
            a \in Events \/ (a.kind \in Kinds \ {"event"} /\ a.time \in SimTime)
      BY <2>1, ActivityFields DEF Kinds
    <2> QED BY <2>2, <2>3 DEF TypeInv, Shapes
  <1>3. back \in [RankInfo -> {"run", "R4", "next"}]
    BY DEF TypeInv, Shapes
  <1>4. \A r \in Ranks : rq[r] \subseteq Events
    BY DEF TypeInv, Shapes
  <1> QED BY <1>1, <1>2, <1>3, <1>4 DEF TypeOK, TypeInv, Shapes

THEOREM TypeCorrect == Spec => []TypeOK
  <1>1. SyncInv => TypeOK
    BY TypeInvTypes DEF SyncInv
  <1> QED BY SyncInvariance, <1>1, PTL

(* The next sync of a thread is the rank sync, if that is its type. *)
LEMMA RankSyncNow ==
  ASSUME SyncInv, NEW x \in RankInfo, Fresh(x), syncType[x] = "RANK"
  PROVE  now[x] = rankNext[x[1]]
  <1>1. syncType[x] = NextType(x[1], rankNext[x[1]], threadNext[x])
    BY DEF SyncInv, Queued
  <1>2. rankNext[x[1]] <= ThreadNextSync(x[1], threadNext[x])
    BY <1>1 DEF NextType
  <1>3. now[x] = NextSync(x)
    BY DEF SyncInv, ClocksAgree
  <1> QED BY <1>2, <1>3 DEF NextSync, NextCycle

(* Ranks only exchange in the same cycle.  Before the reduction that is    *)
(* the cycle all of them have in mind; after it, the masters have left the *)
(* reduction together.                                                     *)
LEMMA ExchangeSameCycle ==
  ASSUME SyncInv, NEW x \in RankInfo, NEW y \in RankInfo, InExchange(x), InExchange(y)
  PROVE  now[x] = now[y]
  <1> DEFINE q == x[1]
             r == y[1]
  <1>1. /\ q \in Ranks /\ r \in Ranks
        /\ Master(q) \in RankInfo /\ Master(r) \in RankInfo
        /\ Master(q)[1] = q /\ Master(r)[1] = r
    BY Threads
  <1>2. /\ pc[x] \in Exchanging /\ pc[y] \in Exchanging
        /\ syncType[x] = "RANK" /\ syncType[y] = "RANK" /\ MinPart # MaxTime
    BY DEF InExchange, Exchanging, SyncInv, TypeOfSync
  <1>3. Reduced(q) = Reduced(r) /\ (Reduced(q) => now[Master(q)] = now[Master(r)])
    BY <1>1, <1>2 DEF SyncInv, RanksAgree
  <1>4. ASSUME NEW z \in RankInfo, pc[z] \in Exchanging, Reduced(z[1])
        PROVE  InSync(z) /\ InSync(Master(z[1]))
    <2>1. z[1] \in Ranks /\ Master(z[1]) \in RankInfo
      BY Threads
    <2>2. pc[Master(z[1])] \in {"xAll", "R2", "R3", "check", "after"}
      BY <1>4 DEF Reduced
    <2> QED BY <1>4, <2>1, <2>2 DEF InSync, Barriers, SyncCode, Exchanging
  <1>5. ASSUME NEW z \in RankInfo, pc[z] \in Exchanging, ~Reduced(z[1])
        PROVE  Fresh(z)
    BY <1>5 DEF Fresh, Exchanging
  <1>6. CASE Reduced(q)
    <2>1. now[x] = now[Master(q)]
      BY <1>1, <1>2, <1>4, <1>6 DEF SyncInv, ClocksAgree
    <2>2. now[y] = now[Master(r)]
      BY <1>1, <1>2, <1>3, <1>4, <1>6 DEF SyncInv, ClocksAgree
    <2> QED BY <1>3, <1>6, <2>1, <2>2
  <1>7. CASE ~Reduced(q)
    <2>1. now[x] = rankNext[q]
      BY <1>2, <1>5, <1>7, RankSyncNow
    <2>2. now[y] = rankNext[r]
      BY <1>2, <1>3, <1>5, <1>7, RankSyncNow
    <2> QED BY <1>1, <2>1, <2>2 DEF SyncInv, TimesAgree
  <1> QED BY <1>6, <1>7

(* Threads meet in the same sync: those of a rank that are in a sync are   *)
(* in one of the same type and cycle, those that run have the same next    *)
(* sync in mind, and ranks only exchange in the same cycle                 *)
(* (syncManager.cc:331, :421).                                             *)
THEOREM SyncsAgree == Spec => []SameSync
  <1>1. ASSUME SyncInv PROVE SameSync
    <2>1. ASSUME NEW x \in RankInfo, NEW y \in RankInfo, x[1] = y[1], InSync(x), InSync(y)
          PROVE  syncType[x] = syncType[y] /\ now[x] = now[y]
      <3>1. pc[x] # "R5" /\ pc[y] # "R5"
        BY <2>1 DEF InSync
      <3> QED BY <1>1, <2>1, <3>1 DEF SyncInv, TypesAgree, ClocksAgree
    <2>2. ASSUME NEW x \in RankInfo, NEW y \in RankInfo, x[1] = y[1],
                 pc[x] = "run", pc[y] = "run"
          PROVE  syncType[x] = syncType[y] /\ threadNext[x] = threadNext[y]
      <3>1. ~Post(x) /\ ~Post(y)
        BY <2>2 DEF Post
      <3> QED BY <1>1, <2>2, <3>1 DEF SyncInv, TypesAgree, TimesAgree
    <2> QED BY <1>1, <2>1, <2>2, ExchangeSameCycle DEF SameSync
  <1> QED BY SyncInvariance, <1>1, PTL

----------------------------------------------------------------------------
(* No event comes too late, as long as simulated time does not overflow.   *)

(* Simulated time does not overflow: an event that is to be handled may    *)
(* send others, and a sync look as far ahead again, without a delivery     *)
(* time wrapping around.                                                   *)
Latencies == ({0, LocalLat, RankLat} \cup {ThreadLat(r) : r \in Ranks}) \ {MaxTime}
InTime ==
  \A e \in Pending :
    /\ \A k, l \in Latencies, d \in {0} \cup Delays : e.time + k + l + d <= MaxTime
    /\ \A d \in Periods : e.time + d <= MaxTime

EventsOf(x) == {a \in tv[x] : a.kind = "event"}
Busy(r) == \E x \in ThreadsOf(r) : EventsOf(x) # {}

(* Does threadNext of x go with the events in its vortex? *)
Settled(x) ==
  pc[x] \in {"run", "R0", "T0", "runB", "R3", "T2", "check", "R4", "end", "next", "R5",
             "exitB", "final", "done"}

(* Lookahead: an event that crosses a link is not due before the next sync. *)
Ahead ==
  \A x \in RankInfo :
    /\ RankLat # MaxTime =>
         \A e \in EventsOf(x) \cup tq[x] : rankNext[x[1]] <= e.time + RankLat
    /\ ThreadLat(x[1]) # MaxTime /\ Settled(x) =>
         \A e \in EventsOf(x) : threadNext[x] <= e.time + ThreadLat(x[1])

(* What is on its way is not due before the next sync. *)
Due ==
  /\ \A x \in RankInfo : \A e \in tq[x] : threadNext[x] <= e.time
  /\ \A r \in Ranks : \A e \in rq[r] : rankNext[r] <= e.time
  /\ \A r \in Ranks, x \in RankInfo : \A i \in DOMAIN net[r, x] :
       \A e \in net[r, x][i] : rankNext[r] <= e.time

(* No clock goes past the next sync, nor past what is in the vortex. *)
Behind ==
  \A x \in RankInfo :
    /\ now[x] <= rankNext[x[1]]
    /\ ~Direct => now[x] <= threadNext[x]
    /\ Direct /\ ThreadLat(x[1]) # MaxTime /\ Busy(x[1]) /\ Settled(x) => now[x] < threadNext[x]
    /\ \A a \in tv[x] : a.kind # "sync" => now[x] <= a.time

(* Where events wait, and which messages there are.                        *)
Sent(r) == pc[Master(r)] \in {"xRecv", "xDone", "xReduce"}
Received(x, r) ==
  \/ r \in got[x]
  \/ pc[x] \in {"xDone", "xReduce"} \/ (pc[x] = "xAll" /\ ~Reduced(x[1]))

Waiting ==
  /\ \A x \in RankInfo :
       /\ tq[x] # {} => ~Direct /\ Phase(x) \in {"run", "before", "final"}
                        /\ pc[x] \notin {"R1", "T1"}
       /\ pc[x] # "xRecv" => got[x] = {}
  /\ \A r \in Ranks : rq[r] # {} => MinPart # MaxTime /\ ~Sent(r)
  /\ \A r \in Ranks, x \in RankInfo :
       IF r # x[1] /\ Sent(r) /\ ~Received(x, r) THEN Len(net[r, x]) = 1
       ELSE net[r, x] = <<>>
  /\ \A r \in Ranks, x \in RankInfo : r # x[1] /\ Received(x, r) => Sent(r)

(* Where an event waits there is its receiver, or the way to it. *)
Homes ==
  /\ \A x \in RankInfo : \A e \in EventsOf(x) \cup tq[x] : Home[e.comp] = x
  /\ \A r \in Ranks, x \in RankInfo : \A i \in DOMAIN net[r, x] :
       \A e \in net[r, x][i] : Home[e.comp] = x

(* No event is on its way or to be handled. *)
Nothing ==
  /\ \A x \in RankInfo : EventsOf(x) = {} /\ tq[x] = {}
  /\ \A r \in Ranks : rq[r] = {}
  /\ \A r \in Ranks, x \in RankInfo : \A i \in DOMAIN net[r, x] : net[r, x][i] = {}

Lookahead == Ahead /\ Due /\ Behind /\ Waiting /\ Homes
LookInv == Nothing \/ Lookahead

----------------------------------------------------------------------------
(* Simulated time, where it does not overflow.                             *)

(* Sums that are times do not wrap around. *)
LEMMA NoWrap ==
  ASSUME NEW a \in Nat, NEW b \in Nat, a + b <= MaxTime
  PROVE  Plus(a, b) = a + b
  <1> DEFINE d == MaxTime + 1
             s == a + b
  <1>1. d \in Nat \ {0} /\ s \in 0 .. d - 1
    BY BaseAssumption
  <1>2. Plus(a, b) = s % d
    BY DEF Plus
  <1> HIDE DEF d, s
  <1>3. \A n \in 0 .. d - 1 : n % d = n
    BY <1>1
  <1>4. Plus(a, b) = s
    BY <1>1, <1>2, <1>3
  <1> QED BY <1>4 DEF s

(* An event that is delivered in time keeps its time. *)
LEMMA SameDelivery ==
  ASSUME NEW t \in SimTime, NEW u \in SimTime, t <= u
  PROVE  Plus(t, Minus(u, t)) = u
  <1> DEFINE d == MaxTime + 1
             m == u - t
  <1>1. d \in Nat \ {0} /\ m \in 0 .. d - 1 /\ t \in Nat /\ t + m = u /\ u <= MaxTime
    BY BaseAssumption DEF SimTime
  <1>2. Minus(u, t) = m % d
    BY DEF Minus
  <1>3. m \in Nat
    BY <1>1
  <1> HIDE DEF d, m
  <1>4. \A n \in 0 .. d - 1 : n % d = n
    BY <1>1
  <1>5. Minus(u, t) = m
    BY <1>1, <1>2, <1>4
  <1> QED BY <1>1, <1>3, <1>5, NoWrap

(* Nothing happens to events that are delivered in time. *)
LEMMA DeliveredInTime ==
  ASSUME NEW S \in SUBSET Events, NEW t \in SimTime, \A e \in S : t <= e.time
  PROVE  Delivered(S, t) = S
  <1>1. \A e \in S : [e EXCEPT !.time = Plus(t, Minus(@, t))] = e
    <2>1. ASSUME NEW e \in S PROVE [e EXCEPT !.time = Plus(t, Minus(@, t))] = e
      <3>1. e \in Events /\ e.time \in SimTime /\ t <= e.time
        BY DEF Events
      <3>2. Plus(t, Minus(e.time, t)) = e.time
        BY <3>1, SameDelivery
      <3> QED BY <3>1, <3>2 DEF Events
    <2> QED BY <2>1
  <1> QED BY <1>1 DEF Delivered

(* The direct thread sync comes a cycle before the next time of it. *)
LEMMA ThreadSyncTime ==
  ASSUME NEW n \in SimTime, NEW r
  PROVE  /\ ~Direct \/ ThreadLat(r) = MaxTime => ThreadNextSync(r, n) = n
         /\ Direct /\ ThreadLat(r) # MaxTime /\ n > 0 => ThreadNextSync(r, n) = n - 1
  <1> DEFINE d == MaxTime + 1
             m == n - 1
  <1>1. ASSUME n > 0 PROVE Minus(n, 1) = n - 1
    <2>1. d \in Nat \ {0} /\ m \in 0 .. d - 1
      BY <1>1, BaseAssumption DEF SimTime
    <2>2. Minus(n, 1) = m % d
      BY DEF Minus
    <2> HIDE DEF d, m
    <2>3. Minus(n, 1) = m
      BY <2>1, <2>2
    <2> QED BY <2>3 DEF m
  <1> QED BY <1>1 DEF ThreadNextSync

(* The next sync is no later than either of the two it is chosen from. *)
LEMMA NextSyncTime ==
  ASSUME TypeInv, NEW x \in RankInfo
  PROVE  /\ NextSync(x) \in SimTime /\ NextSync(x) <= rankNext[x[1]]
         /\ NextSync(x) <= ThreadNextSync(x[1], threadNext[x])
         /\ ~Direct \/ ThreadLat(x[1]) = MaxTime => NextSync(x) <= threadNext[x]
         /\ Direct /\ ThreadLat(x[1]) # MaxTime /\ threadNext[x] > 0 => NextSync(x) < threadNext[x]
  <1>1. rankNext[x[1]] \in SimTime /\ threadNext[x] \in SimTime
    BY Threads DEF TypeInv, Shapes
  <1>2. NextSync(x) \in SimTime /\ NextSync(x) <= rankNext[x[1]]
    BY <1>1, NextCycleTime DEF NextSync
  <1>3. ThreadNextSync(x[1], threadNext[x]) \in SimTime
    <2>1. \A n \in SimTime : ThreadNextSync(x[1], n) \in SimTime
      BY TimeSums, TimeBounds DEF ThreadNextSync
    <2> QED BY <1>1, <2>1
  <1>4. NextSync(x) <= ThreadNextSync(x[1], threadNext[x])
    BY <1>1, <1>3, TimeBounds DEF NextSync, NextCycle
  <1> QED BY <1>1, <1>2, <1>3, <1>4, ThreadSyncTime, TimeBounds

----------------------------------------------------------------------------
(* Where events can be.                                                    *)

(* What is in a sequence that something is appended to. *)
LEMMA Appended ==
  ASSUME NEW T, NEW s \in Seq(T), NEW e \in T, NEW i \in DOMAIN Append(s, e)
  PROVE  Append(s, e)[i] = e \/ (i \in DOMAIN s /\ Append(s, e)[i] = s[i])
  <1> DEFINE n == Len(s)
             u == Append(s, e)
  <1>1. n \in Nat /\ DOMAIN s = 1 .. n
    BY LenProperties
  <1>2. u \in Seq(T) /\ Len(u) = n + 1 /\ \A j \in 1 .. n : u[j] = s[j]
    BY AppendProperties
  <1>3. u[n + 1] = e
    BY AppendProperties
  <1>4. DOMAIN u = 1 .. Len(u)
    BY <1>2, LenProperties
  <1> HIDE DEF n, u
  <1>5. i \in 1 .. n + 1
    BY <1>2, <1>4 DEF u
  <1>6. i = n + 1 \/ i \in 1 .. n
    BY <1>1, <1>5
  <1>7. u[i] = e \/ (i \in DOMAIN s /\ u[i] = s[i])
    BY <1>1, <1>2, <1>3, <1>6
  <1> QED BY <1>7 DEF u

(* A sequence of one message, and of none. *)
LEMMA OneMessage ==
  ASSUME NEW T, NEW s \in Seq(T), Len(s) = 1
  PROVE  Head(s) = s[1] /\ 1 \in DOMAIN s /\ Tail(s) = <<>> /\ s[1] \in T
  <1>1. DOMAIN s = 1 .. 1
    BY LenProperties
  <1>2. s # <<>>
    BY EmptySeq
  <1>3. Tail(s) \in Seq(T) /\ Len(Tail(s)) = 0 /\ Head(s) = s[1]
    BY <1>2, HeadTailProperties
  <1>4. Tail(s) = <<>>
    BY <1>3, EmptySeq
  <1> QED BY <1>1, <1>3, <1>4, ElementOfSeq

LEMMA NoMessage == DOMAIN << >> = {}
  OBVIOUS

LEMMA PendingParts ==
  /\ \A x \in RankInfo : \A e \in EventsOf(x) \cup tq[x] : e \in Pending
  /\ \A r \in Ranks : \A e \in rq[r] : Home[e.comp] \in RankInfo => e \in Pending
  /\ \A r \in Ranks, x \in RankInfo : \A i \in DOMAIN net[r, x] :
       \A e \in net[r, x][i] : e \in Pending
  <1>1. \A x \in RankInfo : \A e \in EventsOf(x) \cup InTransit(x) : e \in Pending
    BY DEF Pending, EventsOf
  <1>2. \A x \in RankInfo : tq[x] \subseteq InTransit(x)
    BY DEF InTransit
  <1>3. \A r \in Ranks : \A e \in rq[r] : e \in InTransit(Home[e.comp])
    BY DEF InTransit
  <1>4. \A r \in Ranks, x \in RankInfo : \A i \in DOMAIN net[r, x] :
          net[r, x][i] \subseteq InTransit(x)
    <2> SUFFICES ASSUME NEW r \in Ranks, NEW x \in RankInfo, NEW i \in DOMAIN net[r, x]
                 PROVE  net[r, x][i] \subseteq InTransit(x)
      OBVIOUS
    <2> DEFINE M(q) == UNION {net[q, x][j] : j \in DOMAIN net[q, x]}
    <2>1. net[r, x][i] \subseteq M(r)
      OBVIOUS
    <2>2. M(r) \subseteq UNION {M(q) : q \in Ranks}
      BY Zenon
    <2>3. UNION {M(q) : q \in Ranks} \subseteq InTransit(x)
      BY DEF InTransit
    <2> HIDE DEF M
    <2> QED BY <2>1, <2>2, <2>3
  <1> QED BY <1>1, <1>2, <1>3, <1>4

(* Events that stay where they are. *)
KeepsEvents ==
  /\ UNCHANGED <<config, rankNext, tq, rq, net>>
  /\ \A x \in RankInfo : EventsOf(x)' = EventsOf(x)

(* Events of a vortex that something else is added to, or taken from. *)
LEMMA EventsStay ==
  ASSUME NEW V, NEW W, NEW a, a.kind # "event", W \in {V \cup {a}, V \ {a}}
  PROVE  {b \in W : b.kind = "event"} = {b \in V : b.kind = "event"}
  OBVIOUS

(* The steps of a thread that move no events. *)
LEMMA QuietEvents ==
  ASSUME TypeInv, NEW x \in RankInfo,
         \/ Stop(x) \/ Sync(x) \/ LeaveLoop(x) \/ ReceivedAll(x) \/ After(x)
         \/ EndOrNext(x) \/ InsertNext(x)
  PROVE  KeepsEvents
  <1>1. UNCHANGED <<config, rankNext, tq, rq, net>>
    BY DEF Stop, Sync, LeaveLoop, ReceivedAll, After, EndOrNext, InsertNext, queueVars, syncVars,
           compVars
  <1>2. CASE UNCHANGED tv
    BY <1>1, <1>2 DEF KeepsEvents, EventsOf
  <1>3. CASE \E a : /\ a.kind # "event"
                    /\ \/ tv' = [tv EXCEPT ![x] = @ \ {a}]
                       \/ tv' = [tv EXCEPT ![x] = @ \cup {a}]
    <2>1. PICK a : /\ a.kind # "event"
                   /\ \/ tv' = [tv EXCEPT ![x] = @ \ {a}]
                      \/ tv' = [tv EXCEPT ![x] = @ \cup {a}]
      BY <1>3
    <2>2. /\ tv'[x] \in {tv[x] \cup {a}, tv[x] \ {a}}
          /\ \A y \in RankInfo : y # x => tv'[y] = tv[y]
      BY <2>1 DEF TypeInv, Shapes
    <2>3. EventsOf(x)' = EventsOf(x)
      BY <2>1, <2>2, EventsStay DEF EventsOf
    <2> QED BY <1>1, <2>2, <2>3 DEF KeepsEvents, EventsOf
  <1>4. UNCHANGED tv \/ \E a : /\ a.kind # "event"
                               /\ \/ tv' = [tv EXCEPT ![x] = @ \ {a}]
                                  \/ tv' = [tv EXCEPT ![x] = @ \cup {a}]
    <2>1. CASE LeaveLoop(x) \/ ReceivedAll(x) \/ After(x) \/ EndOrNext(x)
      BY <2>1 DEF LeaveLoop, ReceivedAll, After, EndOrNext
    <2>2. CASE Stop(x) \/ Sync(x)
      BY <2>2 DEF Stop, Sync
    <2>3. CASE InsertNext(x)
      <3>1. tv' = [tv EXCEPT ![x] = @ \cup {SyncAt(NextSync(x))}]
        BY <2>3 DEF InsertNext, NextSync
      <3>2. SyncAt(NextSync(x)).kind # "event"
        BY ActivityKinds
      <3> QED BY <3>1, <3>2
    <2> QED BY <2>1, <2>2, <2>3
  <1> QED BY <1>2, <1>3, <1>4

(* Events that stay pend. *)
LEMMA SamePending ==
  ASSUME KeepsEvents
  PROVE  Pending' = Pending /\ \A r \in Ranks : Busy(r)' = Busy(r)
  <1>1. \A x \in RankInfo : {a \in tv'[x] : a.kind = "event"} = {a \in tv[x] : a.kind = "event"}
    BY DEF KeepsEvents, EventsOf
  <1>2. \A x \in RankInfo : InTransit(x)' = InTransit(x)
    BY DEF KeepsEvents, InTransit
  <1>3. Pending' = Pending
    BY <1>1, <1>2 DEF Pending
  <1>4. \A r \in Ranks : Busy(r)' = Busy(r)
    BY DEF KeepsEvents, Busy, ThreadsOf
  <1> QED BY <1>3, <1>4

(* Where nothing is to be handled, nothing will be.                        *)
LEMMA IdleStays ==
  ASSUME TypeInv, Nothing, Next PROVE Nothing'
  <1>1. ASSUME KeepsEvents PROVE Nothing'
    BY <1>1 DEF KeepsEvents, Nothing
  <1>2. ASSUME NEW x \in RankInfo, ThreadStep(x) PROVE Nothing'
    <2>1. CASE Handle(x)
      <3>1. PICK a, S, own : HandleParts(x, a, S, own)
        BY <2>1, HandleHas
      <3>2. a \in tv[x] /\ a.kind = "event"
        BY <3>1, Popped DEF HandleParts
      <3> QED BY <3>2 DEF Nothing, EventsOf
    <2>2. CASE Before(x)
      <3>1. tq[x] = {} /\ EventsOf(x) = {}
        BY DEF Nothing
      <3>2. tv' = [tv EXCEPT ![x] = @ \cup {[e EXCEPT !.time = Plus(now[x], Minus(@, now[x]))] : e \in {}}]
            /\ tq' = [tq EXCEPT ![x] = {}] /\ UNCHANGED <<rq, net>>
        BY <2>2, <3>1 DEF Before
      <3>3. \A y \in RankInfo : tv'[y] = tv[y] /\ tq'[y] = tq[y]
        BY <3>1, <3>2 DEF TypeInv, Shapes
      <3> QED BY <3>2, <3>3 DEF Nothing, EventsOf
    <2>3. CASE SendRank(x)
      <3>1. {e \in rq[x[1]] : TRUE} = {} /\ x[1] \in Ranks
        BY Threads DEF Nothing
      <3>2. \A m \in Ranks \X RankInfo : net[m] \in Seq(SUBSET Events)
        BY DEF TypeInv, Shapes
      <3>3. \A m \in Ranks \X RankInfo : net'[m] = net[m] \/ net'[m] = Append(net[m], {})
        BY <2>3, <3>1 DEF SendRank
      <3>4. ASSUME NEW r \in Ranks, NEW y \in RankInfo, NEW i \in DOMAIN net'[r, y]
            PROVE  net'[r, y][i] = {}
        <4> DEFINE s == net[r, y]
                   u == net'[r, y]
        <4>1. s \in Seq(SUBSET Events) /\ (u = s \/ u = Append(s, {})) /\ i \in DOMAIN u
              /\ \A j \in DOMAIN s : s[j] = {}
          BY <3>2, <3>3 DEF Nothing
        <4> HIDE DEF s, u
        <4>2. u[i] = {}
          <5>1. ASSUME u = Append(s, {}) PROVE u[i] = {}
            <6>1. i \in DOMAIN Append(s, {}) /\ {} \in SUBSET Events
              BY <4>1, <5>1
            <6>2. Append(s, {})[i] = {} \/ (i \in DOMAIN s /\ Append(s, {})[i] = s[i])
              BY <4>1, <6>1, Appended
            <6> QED BY <4>1, <5>1, <6>2
          <5> QED BY <4>1, <5>1
        <4> QED BY <4>2 DEF u
      <3>5. rq' = [rq EXCEPT ![x[1]] = {}] /\ UNCHANGED <<tv, tq>>
        BY <2>3 DEF SendRank
      <3>6. \A r \in Ranks : rq'[r] = {}
        BY <3>5 DEF Nothing, TypeInv, Shapes
      <3> QED BY <3>4, <3>5, <3>6 DEF Nothing, EventsOf
    <2>4. ASSUME NEW r \in Ranks, ReceiveRank(x, r) PROVE Nothing'
      <3> DEFINE s == net[r, x]
      <3>1. s \in Seq(SUBSET Events) /\ s # <<>> /\ \A j \in DOMAIN s : s[j] = {}
        BY <2>4 DEF Nothing, ReceiveRank, TypeInv, Shapes
      <3>2. net' = [net EXCEPT ![<<r, x>>] = Tail(@)]
            /\ tv' = [tv EXCEPT ![x] = @ \cup Delivered(Head(s), now[x])] /\ UNCHANGED <<tq, rq>>
        BY <2>4 DEF ReceiveRank, Delivered
      <3> HIDE DEF s
      <3>3. Head(s) = {} /\ Tail(s) \in Seq(SUBSET Events) /\ \A j \in DOMAIN Tail(s) : Tail(s)[j] = {}
        BY <3>1, HeadTailProperties, LenProperties
      <3>4. \A y \in RankInfo : tv'[y] = tv[y]
        BY <3>2, <3>3 DEF Delivered, TypeInv, Shapes
      <3>5. ASSUME NEW q \in Ranks, NEW y \in RankInfo, NEW i \in DOMAIN net'[q, y]
            PROVE  net'[q, y][i] = {}
        <4>1. net'[q, y] = IF <<q, y>> = <<r, x>> THEN Tail(s) ELSE net[q, y]
          BY <3>2 DEF s, TypeInv, Shapes
        <4> QED BY <3>3, <4>1 DEF Nothing
      <3> QED BY <3>2, <3>4, <3>5 DEF Nothing, EventsOf
    <2>5. CASE \/ Stop(x) \/ Sync(x) \/ LeaveLoop(x) \/ ReceivedAll(x) \/ After(x)
               \/ EndOrNext(x) \/ InsertNext(x)
      BY <1>1, <2>5, QuietEvents
    <2> QED BY <1>2, <2>1, <2>2, <2>3, <2>4, <2>5 DEF ThreadStep
  <1>3. CASE ReduceNext
    <2>1. \A r \in Ranks : rq'[r] = {}
      BY <1>3 DEF ReduceNext
    <2> QED BY <1>3, <2>1 DEF ReduceNext, Nothing, EventsOf
  <1>4. CASE (\E r \in Ranks, b \in Barriers : Barrier(r, b)) \/ CheckRanks \/ FinalEndTime \/ Finished
    <2>1. UNCHANGED <<config, rankNext, tq, rq, net, tv>>
      BY <1>4 DEF Barrier, CheckRanks, FinalEndTime, Finished, vars, syncVars, queueVars, compVars
    <2>2. KeepsEvents
      BY <2>1 DEF KeepsEvents, EventsOf
    <2> QED BY <1>1, <2>2
  <1> QED BY <1>2, <1>3, <1>4 DEF Next, Meeting



----------------------------------------------------------------------------
(* What InTime says of one event. *)
LEMMA InTimeBounds ==
  ASSUME TypeInv, InTime, NEW e \in Pending, e.time \in SimTime
  PROVE  /\ e.time <= MaxTime
         /\ \A k, l \in Latencies : e.time + k + l <= MaxTime
         /\ \A l \in Latencies : e.time + l <= MaxTime
         /\ \A l \in Latencies : \A d \in Delays : e.time + l + d <= MaxTime
         /\ \A d \in Periods : e.time + d <= MaxTime
         /\ 0 \in Latencies /\ \A l \in Latencies : l \in Nat
         /\ \A r \in Ranks : ThreadLat(r) # MaxTime => ThreadLat(r) \in Latencies
         /\ RankLat # MaxTime => RankLat \in Latencies
         /\ LocalLat # MaxTime => LocalLat \in Latencies
         /\ Delays \subseteq Nat /\ Periods \subseteq Nat
  <1>1. /\ \A r \in Ranks : ThreadLat(r) \in SimTime \ {0}
        /\ RankLat \in SimTime \ {0} /\ LocalLat \in Nat
        /\ Delays \subseteq Nat /\ Periods \subseteq Nat
    BY ConfigFacts, SimAssumption DEF TypeInv, CountInv
  <1>2. /\ \A r \in Ranks : ThreadLat(r) \in Nat
        /\ RankLat \in Nat /\ MaxTime # 0 /\ e.time \in Nat /\ MaxTime \in Nat
    BY <1>1, BaseAssumption DEF SimTime
  <1>3. /\ 0 \in Latencies /\ \A l \in Latencies : l \in Nat
        /\ \A r \in Ranks : ThreadLat(r) # MaxTime => ThreadLat(r) \in Latencies
        /\ RankLat # MaxTime => RankLat \in Latencies
        /\ LocalLat # MaxTime => LocalLat \in Latencies
    BY <1>1, <1>2 DEF Latencies
  <1>4. /\ \A k, l \in Latencies, d \in {0} \cup Delays : e.time + k + l + d <= MaxTime
        /\ \A d \in Periods : e.time + d <= MaxTime
    BY DEF InTime
  <1>5. \A l \in Latencies, d \in {0} \cup Delays : e.time + 0 + l + d <= MaxTime
    BY <1>3, <1>4
  <1>6. \A k, l \in Latencies : e.time + k + l + 0 <= MaxTime
    BY <1>4
  <1>7. \A l \in Latencies : e.time + 0 + l + 0 <= MaxTime
    BY <1>3, <1>6
  <1>8. e.time + 0 + 0 + 0 <= MaxTime
    BY <1>3, <1>5
  <1>9. /\ \A l \in Latencies : e.time + l <= MaxTime
        /\ \A k, l \in Latencies : e.time + k + l <= MaxTime
    BY <1>2, <1>3, <1>6, <1>7
  <1>10. \A l \in Latencies : \A d \in Delays : e.time + l + d <= MaxTime
    BY <1>1, <1>2, <1>3, <1>5
  <1>11. e.time <= MaxTime
    BY <1>2, <1>8
  <1> QED BY <1>1, <1>3, <1>4, <1>9, <1>10, <1>11

(* An event that is sent is due after the latency of the link it takes. *)
LEMMA SentLate ==
  ASSUME TypeInv, InTime, Homes, NEW x \in RankInfo, NEW a, NEW S, NEW own,
         HandleParts(x, a, S, own), NEW e \in S
  PROVE  /\ a \in EventsOf(x) /\ a \in Pending /\ Home[a.comp] = x
         /\ a.time <= e.time
         /\ Home[e.comp] # x =>
              /\ Latency(x, Home[e.comp]) # MaxTime
              /\ a.time + Latency(x, Home[e.comp]) <= e.time
  <1>1. /\ a \in EventsOf(x) /\ a \in Pending /\ Home[a.comp] = x
        /\ a.comp \in Comps /\ a.time \in SimTime /\ a.time \in Nat
    <2>1. a.comp \in Comps /\ a.time \in SimTime
      BY HandleTypes
    <2>2. a \in tv[x] /\ a.kind = "event"
      BY Popped DEF HandleParts
    <2>3. a \in EventsOf(x)
      BY <2>2 DEF EventsOf
    <2> QED BY <2>1, <2>3, PendingParts, TimeBounds DEF Homes
  <1> DEFINE t == a.time
             c == a.comp
  <1>2. \/ \E i : e \in Timers(c, t, i)
        \/ \E i : e \in Messages(c, t, i)
    BY DEF HandleParts, Sends
  <1>3. /\ \A l \in Latencies : \A d \in Delays : t + l + d <= MaxTime
        /\ \A d \in Periods : t + d <= MaxTime
        /\ Delays \subseteq Nat /\ Periods \subseteq Nat
        /\ 0 \in Latencies /\ \A l \in Latencies : l \in Nat
        /\ \A r \in Ranks : ThreadLat(r) # MaxTime => ThreadLat(r) \in Latencies
        /\ RankLat # MaxTime => RankLat \in Latencies
        /\ LocalLat # MaxTime => LocalLat \in Latencies
    BY <1>1, InTimeBounds
  <1>4. CASE \E i : e \in Timers(c, t, i)
    <2>1. PICK d \in Periods : e.time = Plus(t, d) /\ e.comp = c
      BY <1>4 DEF Timers, EventTo, Activity
    <2>2. e.time = t + d /\ d \in Nat
      BY <1>1, <1>3, <2>1, NoWrap
    <2> QED BY <1>1, <2>1, <2>2
  <1>5. CASE \E i : e \in Messages(c, t, i)
    <2>1. PICK b \in Comps, z \in Delays :
            Linked(c, b) /\ e.comp = b /\ e.time = Plus(t, Latency(Home[c], Home[b]) + z)
      BY <1>5 DEF Messages, EventTo, Activity
    <2> DEFINE l == Latency(x, Home[b])
    <2>2. l # MaxTime
      BY <1>1, <2>1 DEF Linked
    <2>3. l \in Latencies
      BY <1>3, <2>2, Threads DEF Latency
    <2> HIDE DEF l
    <2>4. l \in Nat /\ z \in Nat /\ t + (l + z) <= MaxTime
      BY <1>1, <1>3, <2>3
    <2>5. Plus(t, l + z) = t + (l + z)
      BY <1>1, <2>4, NoWrap
    <2>6. e.time = Plus(t, l + z)
      BY <1>1, <2>1 DEF l
    <2>7. t <= e.time /\ t + l <= e.time
      BY <1>1, <2>4, <2>5, <2>6
    <2> QED BY <1>1, <2>1, <2>2, <2>7 DEF l
  <1> QED BY <1>2, <1>4, <1>5

(* Initially the syncs look as far ahead as the latencies. *)
LEMMA LookInit == Init => LookInv
  <1> SUFFICES ASSUME Init PROVE Lookahead
    BY DEF LookInv
  <1>0. TypeInv
    BY TypeInit
  <1>1. /\ \A x \in RankInfo : ThreadLat(x[1]) \in SimTime \ {0}
        /\ RankLat \in SimTime \ {0} /\ MinPart = RankLat
    BY <1>0, ConfigFacts DEF TypeInv, CountInv
  <1>2. /\ \A x \in RankInfo : /\ pc[x] = "run" /\ now[x] = 0 /\ threadNext[x] = ThreadLat(x[1])
                               /\ tq[x] = {} /\ got[x] = {}
                               /\ rankNext[x[1]] = RankLat
        /\ \A r \in Ranks : rq[r] = {} /\ pc[Master(r)] = "run"
        /\ \A r \in Ranks, x \in RankInfo : net[r, x] = <<>>
    BY <1>1, Threads DEF Init
  <1>3. \A x \in RankInfo : \A a \in tv[x] : a.time \in SimTime
    BY <1>0, ActivityFields DEF TypeInv, Shapes
  <1>4. \A r \in Ranks, x \in RankInfo : \A i \in DOMAIN net[r, x] : FALSE
    <2>1. DOMAIN << >> = {}
      OBVIOUS
    <2> QED BY <1>2, <2>1
  <1>5. /\ \A x \in RankInfo : ThreadLat(x[1]) \in Nat /\ 0 < ThreadLat(x[1])
        /\ RankLat \in Nat
        /\ \A x \in RankInfo : \A a \in tv[x] : a.time \in Nat
    BY <1>1, <1>3 DEF SimTime
  <1>6. Ahead
    <2>1. \A x \in RankInfo : \A e \in EventsOf(x) \cup tq[x] : e.time \in Nat
      BY <1>2, <1>5 DEF EventsOf
    <2>2. \A t \in Nat : RankLat <= t + RankLat
      BY <1>5
    <2>3. \A y \in RankInfo : \A t \in Nat : ThreadLat(y[1]) <= t + ThreadLat(y[1])
      BY <1>5
    <2>4. \A x \in RankInfo : \A e \in EventsOf(x) : threadNext[x] <= e.time + ThreadLat(x[1])
      BY <1>2, <2>1, <2>3
    <2> QED BY <1>2, <2>1, <2>2, <2>4 DEF Ahead
  <1>7. Due
    <2> QED BY <1>2, <1>4 DEF Due
  <1>8. Behind
    <2>1. ASSUME NEW x \in RankInfo
          PROVE  /\ now[x] <= rankNext[x[1]] /\ now[x] <= threadNext[x]
                 /\ now[x] < threadNext[x] /\ \A a \in tv[x] : now[x] <= a.time
      <3>1. now[x] = 0 /\ threadNext[x] = ThreadLat(x[1]) /\ rankNext[x[1]] = RankLat
        BY <1>2
      <3>2. \A n \in Nat : 0 <= n
        OBVIOUS
      <3> QED BY <1>5, <3>1, <3>2
    <2> QED BY <2>1 DEF Behind
  <1>9. Waiting
    BY <1>2 DEF Waiting, Sent, Received
  <1>10. Homes
    <2>1. ASSUME NEW x \in RankInfo, NEW e \in EventsOf(x) PROVE Home[e.comp] = x
      <3>1. tv[x] = InitialStops(x) \cup {SyncAt(NextCycle(x[1], MinPart, ThreadLat(x[1])))}
                    \cup {EventTo(c, config.start[c], c, 1) : c \in Active \cap PlacedOn(x)}
        BY DEF Init
      <3>2. \A a \in InitialStops(x) : a.kind = "stop"
        BY ActivityKinds DEF InitialStops
      <3>3. SyncAt(NextCycle(x[1], MinPart, ThreadLat(x[1]))).kind = "sync"
        BY ActivityKinds
      <3>4. PICK c \in PlacedOn(x) : e = EventTo(c, config.start[c], c, 1)
        BY <3>1, <3>2, <3>3 DEF EventsOf
      <3> QED BY <3>4 DEF EventTo, Activity, PlacedOn
    <2> QED BY <1>2, <1>4, <2>1 DEF Homes
  <1> QED BY <1>6, <1>7, <1>8, <1>9, <1>10 DEF Lookahead


----------------------------------------------------------------------------
(* The steps that move no events.                                          *)

(* What is due later stays so, where the next syncs stay. *)
LEMMA StillAhead ==
  ASSUME Ahead, Due, Homes, KeepsEvents,
         \A x \in RankInfo : threadNext'[x] = threadNext[x] /\ (Settled(x)' => Settled(x))
  PROVE  Ahead' /\ Due' /\ Homes'
  <1>1. RankLat' = RankLat /\ (\A rk : ThreadLat(rk)' = ThreadLat(rk))
    BY SameConfig DEF KeepsEvents
  <1>2. Ahead'
    BY <1>1 DEF Ahead, KeepsEvents
  <1>3. Due'
    BY DEF Due, KeepsEvents
  <1>4. Homes'
    BY DEF Homes, KeepsEvents
  <1> QED BY <1>2, <1>3, <1>4

LEMMA StillBehind ==
  ASSUME Behind, KeepsEvents,
         \A x \in RankInfo : /\ now'[x] = now[x] /\ threadNext'[x] = threadNext[x]
                             /\ Settled(x)' => Settled(x)
                             /\ \A a \in tv'[x] : a.kind # "sync" => a \in tv[x]
  PROVE  Behind'
  <1>1. Direct' = Direct /\ (\A rk : ThreadLat(rk)' = ThreadLat(rk)) /\ rankNext' = rankNext
    BY SameConfig DEF KeepsEvents
  <1>2. \A x \in RankInfo : Busy(x[1])' => Busy(x[1])
    BY SamePending, Threads
  <1> QED BY <1>1, <1>2 DEF Behind

LEMMA StillWaiting ==
  ASSUME Waiting, UNCHANGED <<config, rq, net>>,
         \A x \in RankInfo :
           /\ tq'[x] # {} => tq[x] # {}
           /\ tq'[x] # {} => Phase(x)' \in {"run", "before", "final"} /\ pc'[x] \notin {"R1", "T1"}
           /\ pc'[x] # "xRecv" => got'[x] = {},
         \A r \in Ranks : Sent(r)' <=> Sent(r),
         \A r \in Ranks, x \in RankInfo : r # x[1] => (Received(x, r)' <=> Received(x, r))
  PROVE  Waiting'
  <1>1. Direct' = Direct /\ MinPart' = MinPart
    BY SameConfig
  <1> QED BY <1>1 DEF Waiting

(* No clock goes past the next sync. *)
LEMMA PopTimes ==
  ASSUME SyncInv, Behind, NEW x \in RankInfo, NEW a \in Earliest(tv[x]), Pop(x, a)
  PROVE  /\ a \in tv[x] /\ a.time \in SimTime /\ \A b \in tv[x] : a.time <= b.time
         /\ now'[x] = a.time /\ \A y \in RankInfo : y # x => now'[y] = now[y]
         /\ a.time <= NextSync(x) /\ a.time <= rankNext[x[1]]
         /\ ~Direct => a.time <= threadNext[x]
         /\ Direct /\ ThreadLat(x[1]) # MaxTime /\ Busy(x[1]) => a.time < threadNext[x]
  <1>0. TypeInv
    BY DEF SyncInv
  <1>1. /\ a \in tv[x] /\ a.time \in SimTime /\ \A b \in tv[x] : a.time <= b.time
        /\ now'[x] = a.time /\ \A y \in RankInfo : y # x => now'[y] = now[y]
        /\ pc[x] = "run" /\ ~endSim[x]
    BY <1>0, Popped
  <1>2. SyncAt(NextSync(x)) \in tv[x]
    BY <1>1 DEF SyncInv, Queued
  <1>3. a.time <= NextSync(x)
    BY <1>1, <1>2, ActivityKinds
  <1>4. /\ NextSync(x) \in SimTime /\ NextSync(x) <= rankNext[x[1]]
        /\ ~Direct => NextSync(x) <= threadNext[x]
        /\ Direct /\ ThreadLat(x[1]) # MaxTime /\ threadNext[x] > 0 => NextSync(x) < threadNext[x]
    BY <1>0, NextSyncTime
  <1>5. /\ rankNext[x[1]] \in SimTime /\ threadNext[x] \in SimTime /\ now[x] \in SimTime
    BY <1>0, Threads DEF TypeInv, Shapes
  <1>6. Settled(x)
    BY <1>1 DEF Settled
  <1>7. Direct /\ ThreadLat(x[1]) # MaxTime /\ Busy(x[1]) => threadNext[x] > 0
    <2>1. Direct /\ ThreadLat(x[1]) # MaxTime /\ Busy(x[1]) => now[x] < threadNext[x]
      BY <1>6 DEF Behind
    <2> QED BY <2>1, <1>5, TimeBounds
  <1>8. a.time \in Int /\ NextSync(x) \in Int /\ rankNext[x[1]] \in Int /\ threadNext[x] \in Int
    BY <1>1, <1>4, <1>5, TimeBounds
  <1> QED BY <1>1, <1>3, <1>4, <1>7, <1>8

(* A thread that stops, or begins a sync. *)
LEMMA StopLook ==
  ASSUME SyncInv, Lookahead, NEW x \in RankInfo, Stop(x) \/ Sync(x)
  PROVE  Ahead' /\ Due' /\ Homes' /\ Behind'
  <1>0. TypeInv
    BY DEF SyncInv
  <1>1. PICK a \in Earliest(tv[x]) :
          /\ a.kind # "event" /\ Pop(x, a) /\ tv' = [tv EXCEPT ![x] = @ \ {a}]
          /\ UNCHANGED <<threadNext, rankNext, config>>
    BY DEF Stop, Sync, syncVars, compVars
  <1>2. KeepsEvents
    BY <1>0, QuietEvents
  <1>3. /\ pc[x] = "run" /\ \A y \in RankInfo : y # x => pc'[y] = pc[y]
    BY <1>0 DEF Stop, Sync, Pop, EndSimulation, TypeInv, Shapes
  <1>4. \A y \in RankInfo : Settled(y)' => Settled(y)
    BY <1>3 DEF Settled
  <1>5. Ahead' /\ Due' /\ Homes'
    BY <1>1, <1>2, <1>4, StillAhead DEF Lookahead
  <1>6. Direct' = Direct /\ (\A rk : ThreadLat(rk)' = ThreadLat(rk)) /\ rankNext' = rankNext
        /\ threadNext' = threadNext /\ \A y \in RankInfo : Busy(y[1])' => Busy(y[1])
    BY <1>1, <1>2, SameConfig, SamePending, Threads DEF KeepsEvents
  <1>7. \A y \in RankInfo : tv'[y] \subseteq tv[y]
    BY <1>0, <1>1 DEF TypeInv, Shapes
  <1>8. /\ now'[x] = a.time /\ \A y \in RankInfo : y # x => now'[y] = now[y]
        /\ a.time <= rankNext[x[1]] /\ \A b \in tv[x] : a.time <= b.time
        /\ ~Direct => a.time <= threadNext[x]
        /\ Direct /\ ThreadLat(x[1]) # MaxTime /\ Busy(x[1]) => a.time < threadNext[x]
    BY <1>1, PopTimes DEF Lookahead
  <1>9. Behind'
    <2> SUFFICES ASSUME NEW y \in RankInfo
                 PROVE  /\ now'[y] <= rankNext'[y[1]]
                        /\ ~Direct' => now'[y] <= threadNext'[y]
                        /\ Direct' /\ ThreadLat(y[1])' # MaxTime /\ Busy(y[1])' /\ Settled(y)'
                             => now'[y] < threadNext'[y]
                        /\ \A b \in tv'[y] : b.kind # "sync" => now'[y] <= b.time
      BY DEF Behind
    <2>1. CASE y = x
      BY <2>1, <1>6, <1>7, <1>8
    <2>2. CASE y # x
      BY <2>2, <1>4, <1>6, <1>7, <1>8 DEF Lookahead, Behind
    <2> QED BY <2>1, <2>2
  <1> QED BY <1>5, <1>9

(* A thread that goes on without any activity. *)
LEMMA QuietLook ==
  ASSUME SyncInv, Lookahead, NEW x \in RankInfo,
         LeaveLoop(x) \/ ReceivedAll(x) \/ EndOrNext(x) \/ InsertNext(x)
  PROVE  Ahead' /\ Due' /\ Homes' /\ Behind'
  <1>0. TypeInv
    BY DEF SyncInv
  <1>1. KeepsEvents
    BY <1>0, QuietEvents
  <1>2. UNCHANGED <<now, threadNext>>
    BY DEF LeaveLoop, ReceivedAll, EndOrNext, InsertNext, syncVars
  <1>3. /\ \A y \in RankInfo : y # x => pc'[y] = pc[y]
        /\ \/ pc[x] \in {"run", "end", "next"}
           \/ pc'[x] \in {"xReduce", "xDone"}
    BY <1>0 DEF LeaveLoop, ReceivedAll, EndOrNext, InsertNext, Goto, EndSimulation, TypeInv, Shapes
  <1>4. \A y \in RankInfo : Settled(y)' => Settled(y)
    BY <1>3 DEF Settled
  <1>5. \A y \in RankInfo : \A b \in tv'[y] : b.kind # "sync" => b \in tv[y]
    <2>1. CASE UNCHANGED tv
      BY <2>1
    <2>2. CASE InsertNext(x)
      <3>1. tv' = [tv EXCEPT ![x] = @ \cup {SyncAt(NextSync(x))}]
        BY <2>2 DEF InsertNext, NextSync
      <3>2. \A y \in RankInfo : \A b \in tv'[y] : b \in tv[y] \/ b = SyncAt(NextSync(x))
        BY <1>0, <3>1 DEF TypeInv, Shapes
      <3> QED BY <3>2, ActivityKinds
    <2> QED BY <2>1, <2>2 DEF LeaveLoop, ReceivedAll, EndOrNext
  <1> QED BY <1>1, <1>2, <1>4, <1>5, StillAhead, StillBehind DEF Lookahead

(* Barriers and the collectives at the end of a sync, and of the run. *)
LEMMA MeetLook ==
  ASSUME SyncInv, Lookahead,
         (\E r \in Ranks, b \in Barriers : Barrier(r, b)) \/ CheckRanks \/ FinalEndTime
  PROVE  Ahead' /\ Due' /\ Homes' /\ Behind' /\ KeepsEvents
  <1>1. UNCHANGED <<config, tv, now, threadNext, rankNext, tq, rq, net>>
    BY DEF Barrier, CheckRanks, FinalEndTime, syncVars, queueVars, compVars
  <1>2. KeepsEvents
    BY <1>1 DEF KeepsEvents, EventsOf
  <1>3. \A x \in RankInfo : Settled(x)' => Settled(x)
    <2>1. ASSUME NEW r \in Ranks, NEW b \in Barriers, Barrier(r, b), NEW x \in RankInfo
          PROVE  Settled(x)' => Settled(x)
      <3>1. /\ b \in {"R0", "R1", "R2", "R3", "R4", "R5", "T0", "T1", "T2",
                      "xStart", "xDone", "xAll", "exitB", "runB"}
            /\ x[1] = r => Resumes(x, b)
            /\ x[1] # r => pc'[x] = pc[x]
        BY <2>1, BarrierFrame
      <3>2. CASE x[1] # r
        BY <3>1, <3>2 DEF Settled
      <3>3. CASE x[1] = r
        <4>1. pc[x] = b /\ pc'[x] = Resume(x, b)
          BY <3>1, <3>3 DEF Resumes
        <4> QED BY <3>1, <4>1, ResumeAt DEF Settled
      <3> QED BY <3>2, <3>3
    <2>2. CASE CheckRanks \/ FinalEndTime
      <3>1. \A x \in RankInfo : pc'[x] = pc[x] \/ pc[x] \in {"check", "final"}
        BY <2>2 DEF CheckRanks, FinalEndTime, SyncInv, TypeInv, Shapes
      <3> QED BY <3>1 DEF Settled
    <2> QED BY <2>1, <2>2
  <1> QED BY <1>1, <1>2, <1>3, StillAhead, StillBehind DEF Lookahead


(* A thread that goes on finds the queues as they were. *)
LEMMA QuietWaiting ==
  ASSUME SyncInv, Waiting, NEW x \in RankInfo,
         Stop(x) \/ Sync(x) \/ LeaveLoop(x) \/ After(x) \/ EndOrNext(x) \/ InsertNext(x)
  PROVE  Waiting'
  <1>0. TypeInv
    BY DEF SyncInv
  <1>1. UNCHANGED <<config, tq, rq, net, got>>
    BY <1>0 DEF Stop, Sync, LeaveLoop, After, EndOrNext, InsertNext, queueVars, compVars
  <1>2. OthersKeep(x) /\ Effect(x)
    BY ThreadEffect DEF ThreadStep
  <1>3. /\ pc[x] \in {"run", "after", "end", "next"}
        /\ pc'[x] \in {"exitB", "R0", "T0", "after", "runB", "R3", "T2", "next", "R5"}
        /\ pc[x] = "run" => \/ pc'[x] \in {"R0", "T0", "runB"}
                            \/ pc'[x] = "after" /\ Direct
                            \/ pc'[x] = "exitB" /\ back'[x] = "run"
    BY <1>0 DEF Stop, Sync, LeaveLoop, After, EndOrNext, InsertNext, Pop, Goto, EndSimulation,
                TypeInv, Shapes
  <1>4. \A y \in RankInfo : y # x => pc'[y] = pc[y] /\ Phase(y)' = Phase(y)
    BY <1>2, PhaseStays DEF OthersKeep
  <1>5. ASSUME NEW y \in RankInfo
        PROVE  /\ tq[y] # {} => /\ Phase(y)' \in {"run", "before", "final"}
                                /\ pc'[y] \notin {"R1", "T1"}
               /\ pc'[y] # "xRecv" => got'[y] = {}
    <2>1. CASE y # x
      BY <2>1, <1>1, <1>4 DEF Waiting
    <2>2. CASE y = x
      <3>1. got[x] = {} /\ (tq[x] # {} => ~Direct /\ Phase(x) \in {"run", "before", "final"})
        BY <1>3 DEF Waiting
      <3>2. ASSUME tq[x] # {} PROVE pc[x] = "run"
        BY <1>3, <3>1, <3>2, PhaseAt
      <3>3. ASSUME tq[x] # {} PROVE Phase(x)' = "run" /\ pc'[x] \notin {"R1", "T1"}
        BY <1>3, <3>1, <3>2, <3>3 DEF Phase
      <3> QED BY <2>2, <1>1, <3>1, <3>3
    <2> QED BY <2>1, <2>2
  <1>6. \A r \in Ranks : Sent(r)' <=> Sent(r)
    <2>1. \A r \in Ranks : Master(r) = x \/ pc'[Master(r)] = pc[Master(r)]
      BY <1>4, Threads
    <2> QED BY <1>3, <2>1 DEF Sent
  <1>7. \A r \in Ranks, y \in RankInfo : Received(y, r)' <=> Received(y, r)
    <2>1. \A r \in Ranks : Reduced(r)' = Reduced(r)
      BY <1>2, SameReduced
    <2> QED BY <1>1, <1>3, <1>4, <2>1, Threads DEF Received
  <1> QED BY <1>1, <1>5, <1>6, <1>7, StillWaiting

(* All messages have come. *)
LEMMA ReceivedAllWaiting ==
  ASSUME SyncInv, Waiting, NEW x \in RankInfo, ReceivedAll(x) PROVE Waiting'
  <1>0. TypeInv
    BY DEF SyncInv
  <1>1. UNCHANGED <<config, tq, rq, net>>
        /\ got' = [got EXCEPT ![x] = {}] /\ got[x] = Ranks \ {x[1]}
    BY DEF ReceivedAll, compVars
  <1>2. OthersKeep(x) /\ Effect(x)
    BY ThreadEffect DEF ThreadStep
  <1>3. pc[x] = "xRecv" /\ pc'[x] \in {"xReduce", "xDone"}
    BY <1>0 DEF ReceivedAll, Goto, TypeInv, Shapes
  <1>4. \A y \in RankInfo : y # x => pc'[y] = pc[y] /\ Phase(y)' = Phase(y) /\ got'[y] = got[y]
    BY <1>0, <1>1, <1>2, PhaseStays DEF OthersKeep, TypeInv, Shapes
  <1>5. got'[x] = {} /\ tq[x] = {}
    <2>1. Phase(x) = "exchange"
      BY <1>3, PhaseAt
    <2> QED BY <1>0, <1>1, <2>1 DEF Waiting, TypeInv, Shapes
  <1>6. \A r \in Ranks : Sent(r)' <=> Sent(r)
    <2>1. \A r \in Ranks : Master(r) = x \/ pc'[Master(r)] = pc[Master(r)]
      BY <1>4, Threads
    <2> QED BY <1>3, <2>1 DEF Sent
  <1>7. \A r \in Ranks, y \in RankInfo : r # y[1] => (Received(y, r)' <=> Received(y, r))
    <2>1. \A r \in Ranks : Reduced(r)' = Reduced(r)
      BY <1>2, SameReduced
    <2>2. \A r \in Ranks, y \in RankInfo : y # x => (Received(y, r)' <=> Received(y, r))
      BY <1>4, <2>1, Threads DEF Received
    <2>3. \A r \in Ranks : r # x[1] => Received(x, r)' /\ Received(x, r)
      BY <1>1, <1>3 DEF Received
    <2> QED BY <2>2, <2>3
  <1>8. ASSUME NEW y \in RankInfo
        PROVE  /\ tq[y] # {} => /\ Phase(y)' \in {"run", "before", "final"}
                                /\ pc'[y] \notin {"R1", "T1"}
               /\ pc'[y] # "xRecv" => got'[y] = {}
    <2>1. CASE y # x
      BY <2>1, <1>4 DEF Waiting
    <2>2. CASE y = x
      BY <2>2, <1>5
    <2> QED BY <2>1, <2>2
  <1> QED BY <1>1, <1>6, <1>7, <1>8, StillWaiting

(* Barriers let threads through where nothing waits for them. *)
LEMMA BarrierWaiting ==
  ASSUME SyncInv, Waiting, NEW r \in Ranks, NEW b \in Barriers, Barrier(r, b)
  PROVE  Waiting'
  <1>1. /\ b \in {"R0", "R1", "R2", "R3", "R4", "R5", "T0", "T1", "T2",
                  "xStart", "xDone", "xAll", "exitB", "runB"}
        /\ \A x \in RankInfo : x[1] = r => Resumes(x, b)
        /\ \A x \in RankInfo : x[1] # r => pc'[x] = pc[x]
        /\ UNCHANGED <<config, back, syncType>>
    BY BarrierFrame
  <1>2. UNCHANGED <<tq, rq, net, got>>
    BY BarrierStep DEF SyncInv
  <1>3. \A x \in RankInfo : x[1] = r => pc[x] = b /\ pc'[x] = Resume(x, b) /\ back'[x] = back[x]
    BY <1>1 DEF Resumes
  <1>4. \A x \in RankInfo : x[1] # r => Phase(x)' = Phase(x)
    BY <1>1, PhaseStays
  <1>5. ASSUME NEW x \in RankInfo
        PROVE  /\ tq[x] # {} => /\ Phase(x)' \in {"run", "before", "final"}
                                /\ pc'[x] \notin {"R1", "T1"}
               /\ pc'[x] # "xRecv" => got'[x] = {}
    <2>1. CASE x[1] # r
      BY <2>1, <1>1, <1>2, <1>4 DEF Waiting
    <2>2. CASE x[1] = r
      <3>1. pc[x] = b /\ pc'[x] = Resume(x, b) /\ back'[x] = back[x]
        BY <2>2, <1>3
      <3>2. got'[x] = {}
        BY <1>1, <1>2, <3>1 DEF Waiting
      <3>3. ASSUME tq[x] # {}
            PROVE  Phase(x)' \in {"run", "before", "final"} /\ pc'[x] \notin {"R1", "T1"}
        <4>1. ~Direct /\ Phase(x) \in {"run", "before", "final"} /\ b \notin {"R1", "T1"}
          BY <3>1, <3>3 DEF Waiting
        <4>2. b \in {"R0", "T0", "runB"} \/ (b = "exitB" /\ back[x] = "run")
          BY <1>1, <3>1, <4>1 DEF Phase
        <4>3. pc'[x] \in {"before", "final", "done", "run"}
          BY <3>1, <4>2, ResumeAt
        <4> QED BY <4>3 DEF Phase
      <3> QED BY <3>2, <3>3
    <2> QED BY <2>1, <2>2
  <1>6. \A q \in Ranks : Sent(q)' <=> Sent(q)
    <2>1. ASSUME NEW q \in Ranks, q # r PROVE Sent(q)' <=> Sent(q)
      BY <2>1, <1>1, Threads DEF Sent
    <2>2. Sent(r)' <=> Sent(r)
      <3>1. pc[Master(r)] = b /\ pc'[Master(r)] = Resume(Master(r), b) /\ Master(r)[1] = r
        BY <1>3, Threads
      <3>2. back[Master(r)] \in {"run", "next"}
        BY Threads DEF SyncInv, TypeInv, Shapes
      <3> QED BY <1>1, <3>1, <3>2, ResumeAt DEF Sent
    <2> QED BY <2>1, <2>2
  <1>7. \A q \in Ranks, x \in RankInfo : Received(x, q)' <=> Received(x, q)
    <2> SUFFICES ASSUME NEW q \in Ranks, NEW x \in RankInfo
                 PROVE  Received(x, q)' <=> Received(x, q)
      OBVIOUS
    <2>1. CASE x[1] # r
      <3>1. pc'[x] = pc[x] /\ pc'[Master(x[1])] = pc[Master(x[1])] /\ syncType' = syncType
        BY <2>1, <1>1, Threads
      <3>2. Reduced(x[1])' <=> Reduced(x[1])
        BY <3>1 DEF Reduced
      <3> QED BY <1>2, <3>1, <3>2 DEF Received
    <2>2. CASE x[1] = r
      <3>1. pc[x] = b /\ pc'[x] = Resume(x, b) /\ back[x] \in {"run", "next"}
        BY <2>2, <1>3 DEF SyncInv, TypeInv, Shapes
      <3>2. pc[Master(r)] = b /\ pc'[Master(r)] = Resume(Master(r), b) /\ Master(r)[1] = r
        BY <1>3, Threads
      <3>3. CASE b = "xDone"
        <4>1. Received(x, q)
          BY <3>1, <3>3 DEF Received
        <4>2. pc'[x] = "xReduce" \/ (pc'[x] = "xAll" /\ pc'[Master(r)] = "xReduce")
          BY <3>1, <3>2, <3>3, ResumeAt
        <4>3. Received(x, q)'
          BY <2>2, <4>2 DEF Received, Reduced
        <4> QED BY <4>1, <4>3
      <3>4. CASE b = "xAll"
        <4>1. Reduced(x[1]) /\ pc'[x] = "R2"
          BY <2>2, <3>1, <3>2, <3>4, ResumeAt DEF Reduced
        <4> QED BY <1>2, <3>1, <3>4, <4>1 DEF Received
      <3>5. CASE b \notin {"xDone", "xAll"}
        <4>1. pc'[x] \notin {"xDone", "xReduce", "xAll"}
          BY <1>1, <3>1, <3>5, ResumeAt
        <4> QED BY <1>1, <1>2, <3>1, <3>5, <4>1 DEF Received
      <3> QED BY <3>3, <3>4, <3>5
    <2> QED BY <2>1, <2>2
  <1> QED BY <1>1, <1>2, <1>5, <1>6, <1>7, StillWaiting

(* So do the collectives at the end of a sync, and of the run. *)
LEMMA CollectiveWaiting ==
  ASSUME SyncInv, Waiting, CheckRanks \/ FinalEndTime PROVE Waiting'
  <1>1. UNCHANGED <<config, tq, rq, net, got, back, syncType>>
    BY DEF CheckRanks, FinalEndTime, syncVars, queueVars, compVars
  <1>2. \A x \in RankInfo : \/ x \in Masters /\ pc[x] \in {"check", "final"}
                              /\ pc'[x] \in {"R4", "done"}
                            \/ x \notin Masters /\ pc'[x] = pc[x]
    BY DEF CheckRanks, FinalEndTime, SyncInv, TypeInv, Shapes
  <1>3. ASSUME NEW x \in RankInfo
        PROVE  /\ tq[x] # {} => /\ Phase(x)' \in {"run", "before", "final"}
                                /\ pc'[x] \notin {"R1", "T1"}
               /\ pc'[x] # "xRecv" => got'[x] = {}
    <2>1. CASE pc'[x] = pc[x]
      BY <2>1, <1>1, PhaseStays DEF Waiting
    <2>2. CASE pc'[x] # pc[x]
      <3>1. /\ pc[x] \in {"check", "final"} /\ pc'[x] \in {"R4", "done"}
            /\ pc[x] = "check" <=> pc'[x] = "R4"
        BY <2>2, <1>2 DEF CheckRanks, FinalEndTime, SyncInv, TypeInv, Shapes
      <3>2. Phase(x)' = Phase(x)
        BY <3>1 DEF Phase
      <3> QED BY <1>1, <3>1, <3>2 DEF Waiting
    <2> QED BY <2>1, <2>2
  <1>4. \A r \in Ranks : pc[Master(r)] \in {"check", "final"} /\ pc'[Master(r)] \in {"R4", "done"}
    BY <1>2, Threads
  <1>5. \A r \in Ranks : Sent(r)' <=> Sent(r)
    BY <1>4 DEF Sent
  <1>6. \A r \in Ranks, x \in RankInfo : Received(x, r)' <=> Received(x, r)
    <2>1. \A x \in RankInfo : pc[x] # "xAll"
      <3>1. ASSUME NEW x \in RankInfo PROVE pc[x] # "xAll"
        <4>1. pc[Master(x[1])] \in {"check", "final"} /\ Master(x[1]) \in RankInfo
              /\ Master(x[1])[1] = x[1]
          BY <1>4, Threads
        <4>2. Phase(Master(x[1])) \in {"check", "final"}
          BY <4>1, PhaseAt
        <4>3. Phase(x) = Phase(Master(x[1]))
          BY <4>1 DEF SyncInv, Lockstep
        <4> QED BY <4>2, <4>3, PhaseAt
      <3> QED BY <3>1
    <2> QED BY <1>1, <1>2, <2>1 DEF Received
  <1> QED BY <1>1, <1>3, <1>5, <1>6, StillWaiting


----------------------------------------------------------------------------
(* A thread finds out the next thread sync.                                *)

(* In the phases of a sync no clock of the rank has gone past what is left *)
(* in the vortices.                                                        *)
LEMMA MinimumAhead ==
  ASSUME SyncInv, Behind, NEW x \in RankInfo, Phase(x) \in InnerPhases
  PROVE  /\ LocalMinimum(x[1]) \in SimTime /\ now[x] <= LocalMinimum(x[1])
         /\ \A y \in ThreadsOf(x[1]) : \A a \in tv[y] : LocalMinimum(x[1]) <= a.time
  <1>0. BaseInv
    BY DEF SyncInv, BaseInv
  <1>1. /\ LocalMinimum(x[1]) \in SimTime
        /\ \A y \in ThreadsOf(x[1]) : \A a \in tv[y] : LocalMinimum(x[1]) <= a.time
    BY <1>0, InnerMinimum
  <1>2. PICK y \in ThreadsOf(x[1]) : \E a \in tv[y] : LocalMinimum(x[1]) = a.time
    BY <1>0, InnerMinimum
  <1>3. PICK a \in tv[y] : LocalMinimum(x[1]) = a.time
    BY <1>2
  <1>4. y \in RankInfo /\ y[1] = x[1] /\ Phase(y) = Phase(x) /\ endSim[y] = FALSE
    BY <1>0, InnerOpen DEF ThreadsOf
  <1>5. ASSUME NEW z \in RankInfo, Phase(z) \in InnerPhases
        PROVE  InSync(z) /\ pc[z] \notin {"run", "R5"}
    <2>1. pc[z] \in PCs
      BY DEF SyncInv, TypeInv, Shapes
    <2> QED BY <1>5, <2>1 DEF Phase, InnerPhases, InSync, PCs, Barriers, SyncCode
  <1>6. now[y] = now[x]
    BY <1>4, <1>5 DEF SyncInv, ClocksAgree
  <1>7. a.kind # "sync"
    BY <1>4, <1>5 DEF SyncInv, Queued
  <1>8. now[y] <= a.time
    BY <1>4, <1>7 DEF Behind
  <1> QED BY <1>1, <1>3, <1>6, <1>8

LEMMA AfterLook ==
  ASSUME SyncInv, InTime, Lookahead, NEW x \in RankInfo, After(x)
  PROVE  Ahead' /\ Due' /\ Homes' /\ Behind'
  <1>0. TypeInv /\ BaseInv /\ TimesAgree
    BY DEF SyncInv, BaseInv
  <1>1. /\ KeepsEvents /\ UNCHANGED <<tv, now, tq, rankNext>>
        /\ threadNext'[x] = NextThreadSync(x)
        /\ \A y \in RankInfo : y # x => threadNext'[y] = threadNext[y] /\ pc'[y] = pc[y]
        /\ pc[x] = "after"
    <2>1. KeepsEvents
      BY <1>0, QuietEvents
    <2>2. threadNext' = [threadNext EXCEPT ![x] = NextThreadSync(x)]
      BY <1>0, AfterTypes
    <2>3. /\ pc[x] = "after"
          /\ pc' = [pc EXCEPT ![x] = IF syncType[x] = "RANK" THEN "R3" ELSE "T2"]
          /\ UNCHANGED <<tv, now, tq, rankNext>>
      BY DEF After, Goto, queueVars
    <2>4. /\ threadNext'[x] = NextThreadSync(x)
          /\ \A y \in RankInfo : y # x => threadNext'[y] = threadNext[y] /\ pc'[y] = pc[y]
      BY <1>0, <2>2, <2>3 DEF TypeInv, Shapes
    <2> QED BY <2>1, <2>3, <2>4
  <1>2. /\ Direct' = Direct /\ (\A rk : ThreadLat(rk)' = ThreadLat(rk)) /\ RankLat' = RankLat
        /\ \A y \in RankInfo : Busy(y[1])' => Busy(y[1])
        /\ \A y \in RankInfo : y # x => (Settled(y)' <=> Settled(y))
    BY <1>1, SameConfig, SamePending, Threads DEF KeepsEvents, Settled
  <1>3. tq[x] = {}
    <2>1. ~Direct => Phase(x) = "after"
      BY <1>1, PhaseAt
    <2> QED BY <2>1 DEF Lookahead, Waiting
  <1>4. /\ ThreadLat(x[1]) \in Nat /\ 0 < ThreadLat(x[1]) /\ ThreadLat(x[1]) <= MaxTime
        /\ now[x] \in Nat /\ now[x] <= MaxTime /\ MaxTime \in Nat
        /\ NextThreadSync(x) \in Nat
    <2>1. ThreadLat(x[1]) \in SimTime \ {0} /\ now[x] \in SimTime /\ NextThreadSync(x) \in SimTime
      BY <1>0, <1>1, ConfigFacts, NextThreadSyncTime DEF TypeInv, CountInv, Shapes
    <2> QED BY <2>1, BaseAssumption DEF SimTime
  <1>5. ASSUME NEW y \in RankInfo, NEW e \in EventsOf(y)
        PROVE  /\ e.time \in Nat /\ e.time <= MaxTime /\ now[y] <= e.time
               /\ ThreadLat(x[1]) # MaxTime => /\ e.time + ThreadLat(x[1]) <= MaxTime
                                         /\ e.time + ThreadLat(x[1]) + ThreadLat(x[1]) <= MaxTime
    <2>1. e \in tv[y] /\ e.kind = "event"
      BY DEF EventsOf
    <2>2. e.time \in SimTime
      BY <1>0, <2>1, ActivityFields DEF TypeInv, Shapes
    <2>3. now[y] <= e.time
      BY <2>1 DEF Lookahead, Behind
    <2>4. e \in Pending
      BY PendingParts
    <2>5. x[1] \in Ranks
      BY Threads
    <2> QED BY <1>0, <2>2, <2>3, <2>4, <2>5, TimeBounds, InTimeBounds
  <1>6. ASSUME ThreadLat(x[1]) # MaxTime, NEW e \in EventsOf(x)
        PROVE  NextThreadSync(x) <= e.time + ThreadLat(x[1])
    <2>1. CASE Direct
      <3>1. now[x] + ThreadLat(x[1]) <= MaxTime
        BY <1>4, <1>5, <1>6
      <3>2. NextThreadSync(x) = now[x] + ThreadLat(x[1])
        BY <1>4, <1>6, <2>1, <3>1, NoWrap DEF NextThreadSync
      <3> QED BY <1>4, <1>5, <3>2
    <2>2. CASE ~Direct
      <3> DEFINE n == LocalMinimum(x[1])
      <3>1. Phase(x) \in InnerPhases /\ x \in ThreadsOf(x[1]) /\ e \in tv[x]
        BY <1>1, <2>2, PhaseAt DEF InnerPhases, ThreadsOf, EventsOf
      <3>2. n \in SimTime /\ n <= e.time
        BY <1>0, <3>1, InnerMinimum
      <3>3. NextThreadSync(x) = MaxOf(n, Plus(n, ThreadLat(x[1])))
        BY <1>6, <2>2 DEF NextThreadSync
      <3> HIDE DEF n
      <3>4. n \in Nat /\ n + ThreadLat(x[1]) <= MaxTime
        BY <1>4, <1>5, <1>6, <3>2, TimeBounds
      <3>5. Plus(n, ThreadLat(x[1])) = n + ThreadLat(x[1])
        BY <1>4, <3>4, NoWrap
      <3> QED BY <1>4, <1>5, <3>2, <3>3, <3>4, <3>5 DEF MaxOf
    <2> QED BY <2>1, <2>2
  <1>7. ASSUME ~Direct PROVE now[x] <= NextThreadSync(x)
    <2> DEFINE n == LocalMinimum(x[1])
    <2>1. Phase(x) \in InnerPhases
      BY <1>1, <1>7, PhaseAt DEF InnerPhases
    <2>2. n \in SimTime /\ now[x] <= n
      BY <2>1, MinimumAhead DEF Lookahead
    <2>3. NextThreadSync(x) = IF ThreadLat(x[1]) = MaxTime THEN MaxTime ELSE MaxOf(n, Plus(n, ThreadLat(x[1])))
      BY <1>7 DEF NextThreadSync
    <2> HIDE DEF n
    <2>4. n \in Nat /\ Plus(n, ThreadLat(x[1])) \in Int
      <3>1. n \in Nat /\ n \in Int /\ ThreadLat(x[1]) \in Int
        BY <1>4, <2>2, TimeBounds
      <3>2. Plus(n, ThreadLat(x[1])) \in SimTime
        BY <3>1, TimeSums
      <3> QED BY <3>1, <3>2, TimeBounds
    <2> QED BY <1>4, <2>2, <2>3, <2>4 DEF MaxOf
  <1>8. ASSUME Direct, ThreadLat(x[1]) # MaxTime, Busy(x[1]) PROVE now[x] < NextThreadSync(x)
    <2>1. PICK z \in RankInfo : z[1] = x[1] /\ EventsOf(z) # {}
      BY <1>8 DEF Busy, ThreadsOf
    <2>2. PICK e \in EventsOf(z) : TRUE
      BY <2>1
    <2>3. now[x] + ThreadLat(x[1]) <= MaxTime
      <3>1. InSync(x)
        BY <1>1 DEF InSync, Barriers, SyncCode
      <3>2. CASE InSync(z)
        <4>1. now[z] = now[x]
          BY <2>1, <3>1, <3>2 DEF SyncInv, ClocksAgree
        <4> QED BY <1>4, <1>5, <1>8, <2>2, <4>1
      <3>3. CASE ~InSync(z)
        <4>1. Phase(z) = Phase(x) /\ pc[z] \in PCs
          BY <2>1 DEF SyncInv, Lockstep, TypeInv, Shapes
        <4>2. syncType[x] = "THREAD" /\ Settled(z) /\ ~Post(z)
          <5>1. Phase(x) = IF syncType[x] = "THREAD" THEN "run" ELSE "after"
            BY <1>1, <1>8, PhaseAt
          <5>2. pc[z] \in {"run", "exitB", "runB", "next", "R5", "final", "done"}
            BY <3>3, <4>1 DEF InSync, PCs
          <5>3. Phase(z) = "run"
            BY <4>1, <5>1, <5>2 DEF Phase
          <5>4. pc[z] \in {"run", "runB"} \/ (pc[z] = "exitB" /\ back[z] = "run")
            BY <5>2, <5>3 DEF Phase
          <5>5. syncType[x] = "THREAD"
            BY <4>1, <5>1, <5>3
          <5> QED BY <5>4, <5>5 DEF Settled, Post
        <4>3. threadNext[z] = threadNext[x]
          <5>1. ~Post(x)
            BY <1>1 DEF Post
          <5> QED BY <2>1, <4>2, <5>1 DEF SyncInv, TimesAgree
        <4>4. now[z] < threadNext[z] /\ threadNext[z] <= e.time + ThreadLat(x[1])
          BY <1>8, <2>1, <2>2, <4>2 DEF Lookahead, Behind, Ahead
        <4>5. now[x] = NextSync(x)
          BY <1>1, <4>2 DEF Fresh, SyncInv, ClocksAgree
        <4>6. threadNext[x] \in Nat /\ now[z] \in Nat
          BY <1>0, TimeBounds DEF TypeInv, Shapes
        <4>7. threadNext[x] > 0
          BY <4>3, <4>4, <4>6
        <4>8. now[x] < threadNext[x]
          BY <1>0, <1>8, <4>5, <4>7, NextSyncTime
        <4> QED BY <1>4, <1>5, <1>8, <4>3, <4>4, <4>6, <4>8
      <3> QED BY <3>2, <3>3
    <2>4. NextThreadSync(x) = now[x] + ThreadLat(x[1])
      BY <1>4, <1>8, <2>3, NoWrap DEF NextThreadSync
    <2> QED BY <1>4, <2>4
  <1>9. Ahead'
    <2>1. \A y \in RankInfo : EventsOf(y)' = EventsOf(y)
      BY <1>1 DEF KeepsEvents
    <2> QED BY <1>1, <1>2, <1>6, <2>1 DEF Lookahead, Ahead
  <1>10. Due'
    BY <1>1, <1>3 DEF Lookahead, Due, KeepsEvents
  <1>11. Homes'
    BY <1>1 DEF Lookahead, Homes, KeepsEvents
  <1>12. Behind'
    <2> SUFFICES ASSUME NEW y \in RankInfo
                 PROVE  /\ now'[y] <= rankNext'[y[1]]
                        /\ ~Direct' => now'[y] <= threadNext'[y]
                        /\ Direct' /\ ThreadLat(y[1])' # MaxTime /\ Busy(y[1])' /\ Settled(y)'
                             => now'[y] < threadNext'[y]
                        /\ \A b \in tv'[y] : b.kind # "sync" => now'[y] <= b.time
      BY DEF Behind
    <2>1. CASE y = x
      BY <2>1, <1>1, <1>2, <1>7, <1>8 DEF Lookahead, Behind
    <2>2. CASE y # x
      BY <2>2, <1>1, <1>2 DEF Lookahead, Behind
    <2> QED BY <2>1, <2>2
  <1> QED BY <1>9, <1>10, <1>11, <1>12


----------------------------------------------------------------------------
(* Events that come to the vortex of their receiver.                       *)

(* What Before moves keeps its time. *)
LEMMA BeforeMoves ==
  ASSUME SyncInv, Lookahead, NEW x \in RankInfo, Before(x)
  PROVE  /\ pc[x] = "before" /\ pc'[x] \in {"R1", "T1"}
         /\ \A y \in RankInfo : y # x => pc'[y] = pc[y] /\ tq'[y] = tq[y] /\ tv'[y] = tv[y]
         /\ tq'[x] = {} /\ tv'[x] = tv[x] \cup tq[x] /\ \A e \in tq[x] : now[x] <= e.time
         /\ UNCHANGED <<config, now, threadNext, rankNext, rq, net, got, back, syncType>>
         /\ EventsOf(x)' = EventsOf(x) \cup tq[x]
         /\ \A y \in RankInfo : y # x => EventsOf(y)' = EventsOf(y)
  <1>0. TypeInv
    BY DEF SyncInv
  <1>1. /\ pc[x] = "before" /\ pc'[x] \in {"R1", "T1"}
        /\ \A y \in RankInfo : y # x => pc'[y] = pc[y] /\ tq'[y] = tq[y] /\ tv'[y] = tv[y]
        /\ tq'[x] = {} /\ tv'[x] = tv[x] \cup Delivered(tq[x], now[x])
        /\ UNCHANGED <<config, now, threadNext, rankNext, rq, net, got, back, syncType>>
    <2>1. /\ pc[x] = "before" /\ tq' = [tq EXCEPT ![x] = {}]
          /\ tv' = [tv EXCEPT ![x] = @ \cup Delivered(tq[x], now[x])]
          /\ pc' = [pc EXCEPT ![x] = IF syncType[x] = "RANK" THEN "R1" ELSE "T1"]
          /\ UNCHANGED <<config, now, threadNext, rankNext, rq, net, got, back, syncType>>
      BY DEF Before, Delivered, Goto, syncVars, compVars
    <2> QED BY <1>0, <2>1 DEF TypeInv, Shapes
  <1>2. /\ \A e \in tq[x] : now[x] <= e.time
        /\ now[x] \in SimTime /\ tq[x] \in SUBSET Events
    <2>1. /\ now[x] \in SimTime /\ threadNext[x] \in SimTime /\ tq[x] \in SUBSET Events
          /\ \A e \in tq[x] : e.time \in SimTime
      BY <1>0 DEF TypeInv, Shapes, Events
    <2>2. ASSUME NEW e \in tq[x] PROVE now[x] <= threadNext[x] /\ threadNext[x] <= e.time
      BY <2>2 DEF Lookahead, Waiting, Behind, Due
    <2> QED BY <2>1, <2>2, TimeBounds
  <1>3. tv'[x] = tv[x] \cup tq[x]
    BY <1>1, <1>2, DeliveredInTime
  <1>4. /\ EventsOf(x)' = EventsOf(x) \cup tq[x]
        /\ \A y \in RankInfo : y # x => EventsOf(y)' = EventsOf(y)
    <2>1. \A e \in tq[x] : e.kind = "event"
      BY <1>2, ActivityKinds
    <2> QED BY <1>1, <1>3, <2>1 DEF EventsOf
  <1> QED BY <1>1, <1>2, <1>3, <1>4

(* Those of the other threads of the rank. *)
LEMMA BeforeLook ==
  ASSUME SyncInv, Lookahead, NEW x \in RankInfo, Before(x) PROVE Lookahead'
  <1>0. TypeInv
    BY DEF SyncInv
  <1>1. /\ pc[x] = "before" /\ pc'[x] \in {"R1", "T1"}
        /\ \A y \in RankInfo : y # x => pc'[y] = pc[y] /\ tq'[y] = tq[y] /\ tv'[y] = tv[y]
        /\ tq'[x] = {} /\ tv'[x] = tv[x] \cup tq[x] /\ \A e \in tq[x] : now[x] <= e.time
        /\ UNCHANGED <<config, now, threadNext, rankNext, rq, net, got, back, syncType>>
    BY BeforeMoves
  <1>2. /\ EventsOf(x)' = EventsOf(x) \cup tq[x]
        /\ \A y \in RankInfo : y # x => EventsOf(y)' = EventsOf(y)
    BY BeforeMoves
  <1>3. \A y \in RankInfo : y[1] = x[1] => ~Settled(y)'
    <2>1. \A y \in RankInfo : y[1] = x[1] => Phase(y) = "before"
      BY <1>1, PhaseAt DEF SyncInv, Lockstep
    <2>2. \A y \in RankInfo : pc[y] \in PCs /\ Phase(y) = "before" => pc[y] \in {"before", "R1", "T1"}
      BY DEF Phase, PCs, Barriers, SyncCode
    <2>3. \A y \in RankInfo : y[1] = x[1] => pc[y] \in {"before", "R1", "T1"}
      BY <1>0, <2>1, <2>2 DEF TypeInv, Shapes
    <2> QED BY <1>1, <2>3 DEF Settled
  <1>4. /\ Direct' = Direct /\ (\A rk : ThreadLat(rk)' = ThreadLat(rk)) /\ RankLat' = RankLat
        /\ \A y \in RankInfo : y[1] # x[1] => (Settled(y)' <=> Settled(y)) /\ Busy(y[1])' = Busy(y[1])
    <2>1. \A y \in RankInfo : y[1] # x[1] => Busy(y[1])' = Busy(y[1])
      BY <1>2 DEF Busy, ThreadsOf
    <2> QED BY <1>1, <2>1, SameConfig DEF Settled
  <1>5. Ahead'
    BY <1>1, <1>2, <1>3, <1>4 DEF Lookahead, Ahead
  <1>6. Due'
    BY <1>1 DEF Lookahead, Due
  <1>7. Behind'
    <2>1. \A y \in RankInfo : \A b \in tv'[y] : b.kind # "sync" => now'[y] <= b.time
      BY <1>1 DEF Lookahead, Behind
    <2> QED BY <1>1, <1>3, <1>4, <2>1 DEF Lookahead, Behind
  <1>8. Homes'
    BY <1>1, <1>2 DEF Lookahead, Homes
  <1>9. Waiting'
    <2>1. OthersKeep(x) /\ Effect(x)
      BY ThreadEffect DEF ThreadStep
    <2>2. \A y \in RankInfo : y # x => Phase(y)' = Phase(y)
      BY <1>1, PhaseStays
    <2>3. \A r \in Ranks : Reduced(r)' = Reduced(r)
      BY <2>1, SameReduced
    <2>4. \A r \in Ranks : Sent(r)' <=> Sent(r)
      <3>1. \A r \in Ranks : Master(r) = x \/ pc'[Master(r)] = pc[Master(r)]
        BY <1>1, Threads
      <3> QED BY <1>1, <3>1 DEF Sent
    <2>5. \A r \in Ranks, y \in RankInfo : Received(y, r)' <=> Received(y, r)
      BY <1>1, <2>3, Threads DEF Received
    <2>6. \A y \in RankInfo :
            /\ tq'[y] # {} => /\ tq[y] # {} /\ Phase(y)' \in {"run", "before", "final"}
                              /\ pc'[y] \notin {"R1", "T1"}
            /\ pc'[y] # "xRecv" => got'[y] = {}
      BY <1>1, <2>2 DEF Lookahead, Waiting
    <2> QED BY <1>1, <2>4, <2>5, <2>6, StillWaiting DEF Lookahead
  <1> QED BY <1>5, <1>6, <1>7, <1>8, <1>9 DEF Lookahead


(* Those of another rank, by way of a message. *)
(* The events of a rank's queue that go to thread y. *)
ToSend(r, y) == {e \in rq[r] : Home[e.comp] = y}

LEMMA SendRankMoves ==
  ASSUME SyncInv, Lookahead, NEW x \in RankInfo, NEW q \in Ranks, q = x[1], SendRank(x)
  PROVE  /\ x = Master(q) /\ pc[x] = "xSend" /\ pc'[x] = "xRecv"
         /\ \A y \in RankInfo : y # x => pc'[y] = pc[y]
         /\ rq'[q] = {} /\ \A r \in Ranks : r # q => rq'[r] = rq[r]
         /\ UNCHANGED <<config, tv, tq, now, threadNext, rankNext, got, back, syncType>>
         /\ ~Sent(q) /\ \A r \in Ranks : Sent(r)' <=> (r = q \/ Sent(r))
         /\ \A r \in Ranks, y \in RankInfo : Received(y, r)' <=> Received(y, r)
         /\ \A y \in RankInfo : net[q, y] = <<>> /\ (y[1] # q => ~Received(y, q))
         /\ \A y \in RankInfo : y[1] # q =>
              /\ Len(net'[q, y]) = 1
              /\ \A i \in DOMAIN net'[q, y] : net'[q, y][i] = ToSend(q, y)
         /\ \A r \in Ranks, y \in RankInfo : r # q \/ y[1] = q => net'[r, y] = net[r, y]
  <1>0. TypeInv /\ q \in Ranks /\ x = Master(q)
    <2>1. pc[x] = "xSend"
      BY DEF SendRank
    <2> QED BY <2>1, Threads DEF SyncInv, MasterInv
  <1>1. /\ pc[x] = "xSend" /\ pc'[x] = "xRecv"
        /\ \A y \in RankInfo : y # x => pc'[y] = pc[y]
        /\ rq'[q] = {} /\ \A r \in Ranks : r # q => rq'[r] = rq[r]
        /\ UNCHANGED <<config, tv, tq, now, threadNext, rankNext, got, back, syncType>>
    BY <1>0 DEF SendRank, Goto, TypeInv, Shapes, syncVars, compVars
  <1>2. \A r \in Ranks, y \in RankInfo :
          net'[r, y] = IF r = q /\ y[1] # q THEN Append(net[r, y], ToSend(q, y)) ELSE net[r, y]
    BY DEF SendRank, ToSend
  <1>3. ~Sent(q) /\ \A r \in Ranks : Sent(r)' <=> (r = q \/ Sent(r))
    BY <1>0, <1>1, Threads DEF Sent
  <1>4. \A r \in Ranks, y \in RankInfo : Received(y, r)' <=> Received(y, r)
    <2>1. OthersKeep(x) /\ Effect(x)
      BY ThreadEffect DEF ThreadStep
    <2>2. \A r \in Ranks : Reduced(r)' = Reduced(r)
      BY <2>1, SameReduced
    <2> QED BY <1>1, <2>2, Threads DEF Received
  <1>5. \A y \in RankInfo : net[q, y] = <<>> /\ (y[1] # q => ~Received(y, q))
    <2>1. \A y \in RankInfo : IF q # y[1] /\ Sent(q) /\ ~Received(y, q) THEN Len(net[q, y]) = 1
                              ELSE net[q, y] = <<>>
      BY <1>0 DEF Lookahead, Waiting
    <2>2. \A y \in RankInfo : y[1] # q /\ Received(y, q) => Sent(q)
      BY <1>0 DEF Lookahead, Waiting
    <2> QED BY <1>3, <2>1, <2>2
  <1>6. \A y \in RankInfo : y[1] # q =>
          /\ Len(net'[q, y]) = 1
          /\ \A i \in DOMAIN net'[q, y] : net'[q, y][i] = ToSend(q, y)
    <2>1. ASSUME NEW y \in RankInfo, y[1] # q
          PROVE  Len(net'[q, y]) = 1 /\ \A i \in DOMAIN net'[q, y] : net'[q, y][i] = ToSend(q, y)
      <3> DEFINE u == net'[q, y]
                 m == ToSend(q, y)
      <3>1. u = Append(<<>>, m)
        BY <1>0, <1>2, <1>5, <2>1
      <3> HIDE DEF u, m
      <3>2. Len(u) = 1 /\ u[1] = m /\ DOMAIN u = 1 .. 1
        BY <3>1
      <3>3. \A i \in DOMAIN u : u[i] = m
        BY <3>2
      <3> QED BY <3>2, <3>3 DEF u, m
    <2> QED BY <2>1
  <1>7. \A r \in Ranks, y \in RankInfo : r # q \/ y[1] = q => net'[r, y] = net[r, y]
    BY <1>2
  <1> QED BY <1>0, <1>1, <1>3, <1>4, <1>5, <1>6, <1>7

LEMMA SendRankLook ==
  ASSUME SyncInv, Lookahead, NEW x \in RankInfo, SendRank(x) PROVE Lookahead'
  <1> DEFINE q == x[1]
  <1>0. TypeInv /\ q \in Ranks /\ x = Master(q)
    <2>1. pc[x] = "xSend"
      BY DEF SendRank
    <2> QED BY <2>1, Threads DEF SyncInv, MasterInv
  <1>1. /\ pc[x] = "xSend" /\ pc'[x] = "xRecv"
        /\ \A y \in RankInfo : y # x => pc'[y] = pc[y]
        /\ rq'[q] = {} /\ \A r \in Ranks : r # q => rq'[r] = rq[r]
        /\ UNCHANGED <<config, tv, tq, now, threadNext, rankNext, got, back, syncType>>
    BY <1>0, SendRankMoves
  <1>3. ~Sent(q) /\ \A r \in Ranks : Sent(r)' <=> (r = q \/ Sent(r))
    BY <1>0, SendRankMoves
  <1>4. \A r \in Ranks, y \in RankInfo : Received(y, r)' <=> Received(y, r)
    BY <1>0, SendRankMoves
  <1>5. \A y \in RankInfo : net[q, y] = <<>> /\ (y[1] # q => ~Received(y, q))
    BY <1>0, SendRankMoves
  <1>6. \A y \in RankInfo : y[1] # q =>
          /\ Len(net'[q, y]) = 1
          /\ \A i \in DOMAIN net'[q, y] : net'[q, y][i] = ToSend(q, y)
    BY <1>0, SendRankMoves
  <1>7. \A r \in Ranks, y \in RankInfo : r # q \/ y[1] = q => net'[r, y] = net[r, y]
    BY <1>0, SendRankMoves
  <1>8. /\ Direct' = Direct /\ (\A rk : ThreadLat(rk)' = ThreadLat(rk)) /\ RankLat' = RankLat /\ MinPart' = MinPart
        /\ \A y \in RankInfo : EventsOf(y)' = EventsOf(y)
        /\ \A r \in Ranks : Busy(r)' = Busy(r)
        /\ \A y \in RankInfo : Settled(y)' => Settled(y)
    BY <1>1, SameConfig DEF EventsOf, Busy, Settled
  <1>9. Ahead'
    BY <1>1, <1>8 DEF Lookahead, Ahead
  <1>10. Due'
    <2>1. \A r \in Ranks, y \in RankInfo : \A i \in DOMAIN net'[r, y] :
            \A e \in net'[r, y][i] : rankNext[r] <= e.time
      <3> SUFFICES ASSUME NEW r \in Ranks, NEW y \in RankInfo, NEW i \in DOMAIN net'[r, y],
                          NEW e \in net'[r, y][i]
                   PROVE  rankNext[r] <= e.time
        OBVIOUS
      <3>1. CASE r = q /\ y[1] # q
        <4>1. net'[r, y][i] = ToSend(q, y)
          BY <1>6, <3>1
        <4>2. e \in rq[q] /\ \A d \in rq[q] : rankNext[q] <= d.time
          BY <1>0, <4>1 DEF Lookahead, Due, ToSend
        <4> QED BY <3>1, <4>2
      <3>2. CASE r # q \/ y[1] = q
        BY <1>7, <3>2 DEF Lookahead, Due
      <3> QED BY <3>1, <3>2
    <2>2. \A r \in Ranks : \A e \in rq'[r] : rankNext[r] <= e.time
      BY <1>1 DEF Lookahead, Due
    <2> QED BY <1>1, <2>1, <2>2 DEF Lookahead, Due
  <1>11. Behind'
    BY <1>1, <1>8, Threads DEF Lookahead, Behind
  <1>12. Homes'
    <2>1. \A r \in Ranks, y \in RankInfo : \A i \in DOMAIN net'[r, y] :
            \A e \in net'[r, y][i] : Home[e.comp] = y
      <3> SUFFICES ASSUME NEW r \in Ranks, NEW y \in RankInfo, NEW i \in DOMAIN net'[r, y],
                          NEW e \in net'[r, y][i]
                   PROVE  Home[e.comp] = y
        OBVIOUS
      <3>1. CASE r = q /\ y[1] # q
        BY <1>6, <3>1 DEF ToSend
      <3>2. CASE r # q \/ y[1] = q
        <4>1. net'[r, y] = net[r, y]
          BY <1>7, <3>2
        <4>2. i \in DOMAIN net[r, y] /\ e \in net[r, y][i]
          BY <4>1
        <4>3. \A j \in DOMAIN net[r, y] : \A d \in net[r, y][j] : Home[d.comp] = y
          BY DEF Lookahead, Homes
        <4> QED BY <4>2, <4>3
      <3> QED BY <3>1, <3>2
    <2> QED BY <1>1, <1>8, <2>1 DEF Lookahead, Homes
  <1>13. Waiting'
    <2>1. \A y \in RankInfo :
            /\ tq'[y] # {} => ~Direct' /\ Phase(y)' \in {"run", "before", "final"}
                              /\ pc'[y] \notin {"R1", "T1"}
            /\ pc'[y] # "xRecv" => got'[y] = {}
      <3>1. \A y \in RankInfo : y # x => Phase(y)' = Phase(y)
        BY <1>1, PhaseStays
      <3>2. tq[x] = {}
        <4>1. Phase(x) = "exchange"
          BY <1>1, PhaseAt
        <4> QED BY <4>1 DEF Lookahead, Waiting
      <3> QED BY <1>1, <1>8, <3>1, <3>2 DEF Lookahead, Waiting
    <2>2. \A r \in Ranks : rq'[r] # {} => MinPart' # MaxTime /\ ~Sent(r)'
      BY <1>1, <1>3, <1>8 DEF Lookahead, Waiting
    <2>3. \A r \in Ranks, y \in RankInfo :
            IF r # y[1] /\ Sent(r)' /\ ~Received(y, r)' THEN Len(net'[r, y]) = 1
            ELSE net'[r, y] = <<>>
      <3> SUFFICES ASSUME NEW r \in Ranks, NEW y \in RankInfo
                   PROVE  IF r # y[1] /\ Sent(r)' /\ ~Received(y, r)' THEN Len(net'[r, y]) = 1
                          ELSE net'[r, y] = <<>>
        OBVIOUS
      <3>1. CASE r = q /\ y[1] # q
        BY <1>0, <1>3, <1>4, <1>5, <1>6, <3>1
      <3>2. CASE r = q /\ y[1] = q
        BY <1>5, <1>7, <3>2
      <3>3. CASE r # q
        <4>1. IF r # y[1] /\ Sent(r) /\ ~Received(y, r) THEN Len(net[r, y]) = 1
              ELSE net[r, y] = <<>>
          BY DEF Lookahead, Waiting
        <4> QED BY <1>3, <1>4, <1>7, <3>3, <4>1
      <3> QED BY <3>1, <3>2, <3>3
    <2>4. \A r \in Ranks, y \in RankInfo : r # y[1] /\ Received(y, r)' => Sent(r)'
      BY <1>3, <1>4 DEF Lookahead, Waiting
    <2> QED BY <2>1, <2>2, <2>3, <2>4 DEF Waiting
  <1> QED BY <1>9, <1>10, <1>11, <1>12, <1>13 DEF Lookahead


(* The message of rank r that thread x is to take in. *)
First(r, x) == Head(net[r, x])

(* What ReceiveRank moves keeps its time. *)
LEMMA ReceiveRankMoves ==
  ASSUME SyncInv, Lookahead, NEW x \in RankInfo, NEW q \in Ranks, ReceiveRank(x, q)
  PROVE  /\ pc[x] = "xRecv" /\ q \notin got[x] /\ q # x[1] /\ Sent(q) /\ ~Received(x, q)
         /\ UNCHANGED <<config, pc, tq, rq, now, threadNext, rankNext, back, syncType>>
         /\ got'[x] = got[x] \cup {q}
         /\ \A y \in RankInfo : y # x => got'[y] = got[y] /\ tv'[y] = tv[y]
         /\ tv'[x] = tv[x] \cup First(q, x) /\ \A e \in First(q, x) : now[x] <= e.time
         /\ \A e \in First(q, x) : rankNext[x[1]] <= e.time /\ Home[e.comp] = x /\ e.time \in SimTime
         /\ First(q, x) \in SUBSET Events /\ rankNext[x[1]] \in SimTime
         /\ Len(net[q, x]) = 1 /\ First(q, x) = net[q, x][1] /\ 1 \in DOMAIN net[q, x] /\ net'[q, x] = <<>>
         /\ \A r \in Ranks, y \in RankInfo : <<r, y>> # <<q, x>> => net'[r, y] = net[r, y]
         /\ EventsOf(x)' = EventsOf(x) \cup First(q, x)
         /\ \A y \in RankInfo : y # x => EventsOf(y)' = EventsOf(y)
  <1> DEFINE H == First(q, x)
  <1>0. TypeInv
    BY DEF SyncInv
  <1>1. /\ pc[x] = "xRecv" /\ q \notin got[x] /\ net[q, x] # <<>>
        /\ UNCHANGED <<config, pc, tq, rq, now, threadNext, rankNext, back, syncType>>
        /\ got'[x] = got[x] \cup {q} /\ \A y \in RankInfo : y # x => got'[y] = got[y] /\ tv'[y] = tv[y]
        /\ tv'[x] = tv[x] \cup Delivered(H, now[x])
    <2>1. /\ pc[x] = "xRecv" /\ q \notin got[x] /\ net[q, x] # <<>>
          /\ UNCHANGED <<config, pc, tq, rq, now, threadNext, rankNext, back, syncType>>
          /\ got' = [got EXCEPT ![x] = @ \cup {q}]
          /\ tv' = [tv EXCEPT ![x] = @ \cup Delivered(H, now[x])]
      BY DEF ReceiveRank, Delivered, First, syncVars, compVars
    <2> QED BY <1>0, <2>1 DEF TypeInv, Shapes
  <1>2. /\ net' = [net EXCEPT ![<<q, x>>] = Tail(@)]
        /\ net \in [Ranks \X RankInfo -> Seq(SUBSET Events)]
    BY <1>0 DEF ReceiveRank, TypeInv, Shapes
  <1>3. \A r \in Ranks, y \in RankInfo : <<r, y>> # <<q, x>> => net'[r, y] = net[r, y]
    BY <1>2
  <1>4. q # x[1] /\ Sent(q) /\ ~Received(x, q) /\ Len(net[q, x]) = 1
    <2>1. IF q # x[1] /\ Sent(q) /\ ~Received(x, q) THEN Len(net[q, x]) = 1
          ELSE net[q, x] = <<>>
      BY DEF Lookahead, Waiting
    <2> QED BY <1>1, <2>1
  <1>5. H = net[q, x][1] /\ 1 \in DOMAIN net[q, x] /\ net'[q, x] = <<>> /\ H \in SUBSET Events
    <2> DEFINE s == net[q, x]
    <2>1. net'[q, x] = Tail(s) /\ s \in Seq(SUBSET Events) /\ Len(s) = 1
      BY <1>2, <1>4
    <2> HIDE DEF s
    <2>2. Head(s) = s[1] /\ 1 \in DOMAIN s /\ Tail(s) = <<>> /\ s[1] \in SUBSET Events
      BY <2>1, OneMessage
    <2>3. H = Head(s)
      BY DEF s, First
    <2> QED BY <2>1, <2>2, <2>3 DEF s
  <1>6. /\ \A e \in H : rankNext[x[1]] <= e.time /\ Home[e.comp] = x /\ e.time \in SimTime
        /\ rankNext[x[1]] \in SimTime /\ now[x] \in SimTime /\ now[x] <= rankNext[x[1]]
    <2>1. rankNext[q] = rankNext[x[1]] /\ x[1] \in Ranks
      BY Threads DEF SyncInv, TimesAgree
    <2>2. \A i \in DOMAIN net[q, x] : \A e \in net[q, x][i] : rankNext[q] <= e.time
      BY DEF Lookahead, Due
    <2>3. \A i \in DOMAIN net[q, x] : \A e \in net[q, x][i] : Home[e.comp] = x
      BY DEF Lookahead, Homes
    <2>4. \A e \in H : rankNext[q] <= e.time /\ Home[e.comp] = x
      BY <1>5, <2>2, <2>3
    <2>5. \A e \in H : e.time \in SimTime
      BY <1>5 DEF Events
    <2>6. rankNext[x[1]] \in SimTime /\ now[x] \in SimTime
      BY <1>0, <2>1 DEF TypeInv, Shapes
    <2>7. now[x] <= rankNext[x[1]]
      BY DEF Lookahead, Behind
    <2> QED BY <2>1, <2>4, <2>5, <2>6, <2>7
  <1>7. tv'[x] = tv[x] \cup H /\ \A e \in H : now[x] <= e.time
    <2>1. ASSUME NEW e \in H PROVE now[x] <= e.time
      <3>1. now[x] \in Nat /\ rankNext[x[1]] \in Nat /\ e.time \in Nat
        BY <1>6, TimeBounds
      <3>2. now[x] <= rankNext[x[1]] /\ rankNext[x[1]] <= e.time
        BY <1>6
      <3> QED BY <3>1, <3>2
    <2> QED BY <1>1, <1>5, <1>6, <2>1, DeliveredInTime
  <1>8. /\ EventsOf(x)' = EventsOf(x) \cup H
        /\ \A y \in RankInfo : y # x => EventsOf(y)' = EventsOf(y)
    <2>1. \A e \in H : e.kind = "event"
      BY <1>5, ActivityKinds
    <2> QED BY <1>1, <1>7, <2>1 DEF EventsOf
  <1> QED BY <1>1, <1>3, <1>4, <1>5, <1>6, <1>7, <1>8

(* A message is taken in. *)
LEMMA ReceiveRankLook ==
  ASSUME SyncInv, Lookahead, NEW x \in RankInfo, NEW q \in Ranks, ReceiveRank(x, q)
  PROVE  Lookahead'
  <1> DEFINE H == First(q, x)
  <1>0. TypeInv
    BY DEF SyncInv
  <1> HIDE DEF H
  <1>1. /\ pc[x] = "xRecv" /\ q \notin got[x] /\ q # x[1] /\ Sent(q) /\ ~Received(x, q)
        /\ UNCHANGED <<config, pc, tq, rq, now, threadNext, rankNext, back, syncType>>
        /\ got'[x] = got[x] \cup {q}
        /\ \A y \in RankInfo : y # x => got'[y] = got[y] /\ tv'[y] = tv[y]
        /\ tv'[x] = tv[x] \cup H /\ \A e \in H : now[x] <= e.time
        /\ \A e \in H : rankNext[x[1]] <= e.time /\ Home[e.comp] = x /\ e.time \in SimTime
        /\ H \in SUBSET Events /\ rankNext[x[1]] \in SimTime
        /\ Len(net[q, x]) = 1 /\ H = net[q, x][1] /\ 1 \in DOMAIN net[q, x] /\ net'[q, x] = <<>>
        /\ \A r \in Ranks, y \in RankInfo : <<r, y>> # <<q, x>> => net'[r, y] = net[r, y]
        /\ EventsOf(x)' = EventsOf(x) \cup H
        /\ \A y \in RankInfo : y # x => EventsOf(y)' = EventsOf(y)
    BY ReceiveRankMoves DEF H
  <1>2. /\ Direct' = Direct /\ (\A rk : ThreadLat(rk)' = ThreadLat(rk)) /\ RankLat' = RankLat /\ MinPart' = MinPart
        /\ \A y \in RankInfo : Settled(y)' <=> Settled(y)
        /\ \A y \in RankInfo : y[1] # x[1] => Busy(y[1])' = Busy(y[1])
        /\ \A y \in RankInfo : y[1] = x[1] => ~Settled(y)
    <2>1. \A y \in RankInfo : y[1] # x[1] => Busy(y[1])' = Busy(y[1])
      BY <1>1 DEF Busy, ThreadsOf
    <2>2. \A y \in RankInfo : y[1] = x[1] => Phase(y) = "exchange"
      BY <1>1, PhaseAt DEF SyncInv, Lockstep
    <2>3. \A y \in RankInfo : Phase(y) = "exchange" => ~Settled(y)
      BY DEF Phase, Settled
    <2> QED BY <1>1, <2>1, <2>2, <2>3, SameConfig DEF Settled
  <1>3. Ahead'
    <2>1. ASSUME RankLat # MaxTime, NEW y \in RankInfo, NEW e \in EventsOf(y)' \cup tq[y]
          PROVE  rankNext[y[1]] <= e.time + RankLat
      <3>1. CASE e \in EventsOf(y) \cup tq[y]
        BY <2>1, <3>1 DEF Lookahead, Ahead
      <3>2. CASE y = x /\ e \in H
        <4>1. RankLat \in Nat
          BY <1>0, ConfigFacts, TimeBounds DEF TypeInv, CountInv
        <4>2. e.time \in Nat /\ rankNext[x[1]] \in Nat /\ rankNext[x[1]] <= e.time
          BY <1>1, <3>2, TimeBounds
        <4> QED BY <3>2, <4>1, <4>2
      <3> QED BY <1>1, <2>1, <3>1, <3>2
    <2>2. ASSUME NEW y \in RankInfo, ThreadLat(y[1]) # MaxTime, Settled(y), NEW e \in EventsOf(y)'
          PROVE  threadNext[y] <= e.time + ThreadLat(y[1])
      BY <1>1, <1>2, <2>2 DEF Lookahead, Ahead
    <2> QED BY <1>1, <1>2, <2>1, <2>2 DEF Ahead
  <1>4. Due'
    <2>1. \A r \in Ranks, y \in RankInfo : \A i \in DOMAIN net'[r, y] :
            \A e \in net'[r, y][i] : rankNext[r] <= e.time
      <3> SUFFICES ASSUME NEW r \in Ranks, NEW y \in RankInfo, NEW i \in DOMAIN net'[r, y],
                          NEW e \in net'[r, y][i]
                   PROVE  rankNext[r] <= e.time
        OBVIOUS
      <3>1. <<r, y>> # <<q, x>>
        <4>1. ASSUME r = q, y = x PROVE FALSE
          BY <1>1, <4>1, NoMessage
        <4> QED BY <4>1
      <3>2. net'[r, y] = net[r, y]
        BY <1>1, <3>1
      <3>3. i \in DOMAIN net[r, y] /\ e \in net[r, y][i]
        BY <3>2
      <3> QED BY <3>3 DEF Lookahead, Due
    <2> QED BY <1>1, <2>1 DEF Lookahead, Due
  <1>5. Behind'
    <2>1. \A y \in RankInfo : \A b \in tv'[y] : b.kind # "sync" => now'[y] <= b.time
      BY <1>1 DEF Lookahead, Behind
    <2> QED BY <1>1, <1>2, <2>1 DEF Lookahead, Behind
  <1>6. Homes'
    <2>1. \A r \in Ranks, y \in RankInfo : \A i \in DOMAIN net'[r, y] :
            \A e \in net'[r, y][i] : Home[e.comp] = y
      <3> SUFFICES ASSUME NEW r \in Ranks, NEW y \in RankInfo, NEW i \in DOMAIN net'[r, y],
                          NEW e \in net'[r, y][i]
                   PROVE  Home[e.comp] = y
        OBVIOUS
      <3>1. <<r, y>> # <<q, x>>
        <4>1. ASSUME r = q, y = x PROVE FALSE
          BY <1>1, <4>1, NoMessage
        <4> QED BY <4>1
      <3>2. net'[r, y] = net[r, y]
        BY <1>1, <3>1
      <3>3. i \in DOMAIN net[r, y] /\ e \in net[r, y][i]
        BY <3>2
      <3>4. \A j \in DOMAIN net[r, y] : \A d \in net[r, y][j] : Home[d.comp] = y
        BY DEF Lookahead, Homes
      <3> QED BY <3>3, <3>4
    <2>2. \A y \in RankInfo : \A e \in EventsOf(y)' \cup tq'[y] : Home[e.comp] = y
      <3> SUFFICES ASSUME NEW y \in RankInfo, NEW e \in EventsOf(y)' \cup tq'[y]
                   PROVE  Home[e.comp] = y
        OBVIOUS
      <3>1. \A d \in EventsOf(y) \cup tq[y] : Home[d.comp] = y
        BY DEF Lookahead, Homes
      <3>2. tq' = tq /\ EventsOf(y)' \subseteq EventsOf(y) \cup (IF y = x THEN H ELSE {})
        BY <1>1
      <3>3. \A d \in H : Home[d.comp] = x
        BY <1>1
      <3> QED BY <3>1, <3>2, <3>3
    <2> QED BY <2>1, <2>2 DEF Homes
  <1>7. Waiting'
    <2>1. \A r \in Ranks : Sent(r)' <=> Sent(r)
      BY <1>1 DEF Sent
    <2>2. \A r \in Ranks, y \in RankInfo : Received(y, r)' <=> (Received(y, r) \/ <<r, y>> = <<q, x>>)
      <3>1. \A r \in Ranks : Reduced(r)' = Reduced(r)
        BY <1>1 DEF Reduced
      <3> QED BY <1>1, <3>1, Threads DEF Received
    <2>3. \A y \in RankInfo :
            /\ tq'[y] # {} => ~Direct' /\ Phase(y)' \in {"run", "before", "final"}
                              /\ pc'[y] \notin {"R1", "T1"}
            /\ pc'[y] # "xRecv" => got'[y] = {}
      <3>1. \A y \in RankInfo : Phase(y)' = Phase(y)
        BY <1>1, PhaseStays
      <3>2. \A y \in RankInfo :
              /\ tq[y] # {} => ~Direct /\ Phase(y) \in {"run", "before", "final"}
                               /\ pc[y] \notin {"R1", "T1"}
              /\ pc[y] # "xRecv" => got[y] = {}
        BY DEF Lookahead, Waiting
      <3>3. \A y \in RankInfo :
              tq'[y] # {} => ~Direct' /\ Phase(y)' \in {"run", "before", "final"}
                             /\ pc'[y] \notin {"R1", "T1"}
        BY <1>1, <1>2, <3>1, <3>2
      <3>4. \A y \in RankInfo : pc'[y] # "xRecv" => got'[y] = {}
        BY <1>1, <1>2, <3>2
      <3> QED BY <3>3, <3>4
    <2>4. \A r \in Ranks : rq'[r] # {} => MinPart' # MaxTime /\ ~Sent(r)'
      BY <1>1, <1>2, <2>1 DEF Lookahead, Waiting
    <2>5. \A r \in Ranks, y \in RankInfo :
            IF r # y[1] /\ Sent(r)' /\ ~Received(y, r)' THEN Len(net'[r, y]) = 1
            ELSE net'[r, y] = <<>>
      <3> SUFFICES ASSUME NEW r \in Ranks, NEW y \in RankInfo
                   PROVE  IF r # y[1] /\ Sent(r)' /\ ~Received(y, r)' THEN Len(net'[r, y]) = 1
                          ELSE net'[r, y] = <<>>
        OBVIOUS
      <3>1. CASE <<r, y>> = <<q, x>>
        BY <1>1, <2>2, <3>1
      <3>2. CASE <<r, y>> # <<q, x>>
        <4>1. net'[r, y] = net[r, y]
          BY <1>1, <3>2
        <4>2. IF r # y[1] /\ Sent(r) /\ ~Received(y, r) THEN Len(net[r, y]) = 1
              ELSE net[r, y] = <<>>
          BY DEF Lookahead, Waiting
        <4> QED BY <2>1, <2>2, <3>2, <4>1, <4>2
      <3> QED BY <3>1, <3>2
    <2>6. \A r \in Ranks, y \in RankInfo : r # y[1] /\ Received(y, r)' => Sent(r)'
      BY <1>1, <2>1, <2>2 DEF Lookahead, Waiting
    <2> QED BY <2>3, <2>4, <2>5, <2>6 DEF Waiting
  <1> QED BY <1>3, <1>4, <1>5, <1>6, <1>7 DEF Lookahead


----------------------------------------------------------------------------
(* Events that are sent.                                                   *)

(* Where the clocks of the other threads are, of a rank whose threads send *)
(* to each other's vortices, and how far ahead they look. *)
LEMMA DirectNeighbours ==
  ASSUME SyncInv, InTime, Lookahead, Direct,
         NEW x \in RankInfo, ThreadLat(x[1]) # MaxTime, NEW a \in EventsOf(x), a \in Earliest(tv[x]), Pop(x, a),
         NEW y \in RankInfo, y[1] = x[1]
  PROVE  /\ now[y] < a.time + ThreadLat(x[1])
         /\ threadNext[y] <= a.time + ThreadLat(x[1]) \/ threadNext[y] = now[y] + ThreadLat(x[1])
  <1>0. TypeInv /\ TimesAgree
    BY DEF SyncInv
  <1>1. Busy(x[1])
    BY DEF Busy, ThreadsOf
  <1>2. pc[x] = "run" /\ Settled(x) /\ ~Post(x) /\ Phase(x) = "run"
    BY PhaseAt DEF Pop, Settled, Post
  <1>3. a.time \in SimTime /\ a.time < threadNext[x]
    BY <1>1, PopTimes DEF Lookahead
  <1>4. threadNext[x] <= a.time + ThreadLat(x[1])
    BY <1>2 DEF Lookahead, Ahead
  <1>5. a \in Pending
    BY PendingParts
  <1>6. /\ ThreadLat(x[1]) \in Latencies /\ a.time + ThreadLat(x[1]) + ThreadLat(x[1]) <= MaxTime
        /\ ThreadLat(x[1]) \in Nat
    BY <1>0, <1>3, <1>5, Threads, InTimeBounds
  <1>7. /\ threadNext[x] \in Nat /\ threadNext[y] \in Nat /\ now[y] \in Nat /\ a.time \in Nat
        /\ threadNext[x] > 0 /\ MaxTime \in Nat
    <2>1. threadNext[x] \in SimTime /\ threadNext[y] \in SimTime /\ now[y] \in SimTime
      BY <1>0 DEF TypeInv, Shapes
    <2> QED BY <1>3, <2>1, TimeBounds
  <1>8. NextSync(x) < threadNext[x]
    BY <1>0, <1>7, NextSyncTime
  <1>9. Phase(y) = "run" /\ pc[y] \in PCs
    BY <1>0, <1>2 DEF SyncInv, Lockstep, TypeInv, Shapes
  <1>10. \/ pc[y] \in {"run", "R0", "T0", "runB"} \/ (pc[y] = "exitB" /\ back[y] = "run")
         \/ pc[y] \in {"after", "T2"} /\ syncType[y] = "THREAD"
    BY <1>9 DEF Phase, PCs, Barriers, SyncCode
  <1>11. CASE \/ pc[y] \in {"run", "R0", "T0", "runB"} \/ (pc[y] = "exitB" /\ back[y] = "run")
    <2>1. Settled(y) /\ ~Post(y)
      BY <1>11 DEF Settled, Post
    <2>2. now[y] < threadNext[y]
      BY <1>1, <2>1 DEF Lookahead, Behind
    <2>3. threadNext[y] = threadNext[x]
      BY <1>0, <1>2, <2>1 DEF TimesAgree
    <2> QED BY <1>4, <1>6, <1>7, <2>2, <2>3
  <1>12. CASE pc[y] = "after" /\ syncType[y] = "THREAD"
    <2>1. Fresh(y) /\ ~Post(y)
      BY <1>12 DEF Fresh, Post
    <2>2. now[y] = NextSync(y)
      BY <2>1 DEF SyncInv, ClocksAgree
    <2>3. threadNext[y] = threadNext[x]
      BY <1>0, <1>2, <2>1 DEF TimesAgree
    <2>4. NextSync(y) = NextSync(x)
      BY <2>3 DEF NextSync
    <2> QED BY <1>4, <1>6, <1>7, <1>8, <2>2, <2>3, <2>4
  <1>13. CASE pc[y] = "T2"
    <2>1. now[y] = NextSync(x)
      BY <1>2, <1>13 DEF SyncInv, ClocksAgree
    <2>2. threadNext[y] = Plus(now[y], ThreadLat(x[1]))
      BY <1>0, <1>13 DEF TimesAgree, NextThreadSync
    <2>3. now[y] < a.time + ThreadLat(x[1])
      BY <1>4, <1>6, <1>7, <1>8, <2>1
    <2>4. now[y] + ThreadLat(x[1]) <= MaxTime
      BY <1>6, <1>7, <2>3
    <2>5. threadNext[y] = now[y] + ThreadLat(x[1])
      BY <1>6, <1>7, <2>2, <2>4, NoWrap
    <2> QED BY <2>3, <2>5
  <1> QED BY <1>10, <1>11, <1>12, <1>13

(* What is sent is due after the next sync that it waits for, and in the   *)
(* vortex of its receiver it is not late.                                  *)
LEMMA SentInTime ==
  ASSUME SyncInv, InTime, Lookahead, NEW x \in RankInfo, NEW a, NEW S, NEW own,
         HandleParts(x, a, S, own), NEW e \in S, NEW y \in RankInfo, Home[e.comp] = y
  PROVE  /\ a.time <= e.time
         /\ y[1] = x[1] /\ RankLat # MaxTime => rankNext[y[1]] <= e.time + RankLat
         /\ Route(x, y) = "vortex" =>
              /\ y[1] = x[1] /\ (y = x \/ now[y] <= e.time)
              /\ ThreadLat(y[1]) # MaxTime /\ Settled(y) => threadNext[y] <= e.time + ThreadLat(y[1])
         /\ Route(x, y) = "thread" =>
              /\ y[1] = x[1] /\ ~Direct /\ threadNext[y] <= e.time
              /\ Phase(y) = "run" /\ pc[y] \notin {"R1", "T1"}
         /\ Route(x, y) = "rank" =>
              /\ y[1] # x[1] /\ RankLat # MaxTime /\ rankNext[x[1]] <= e.time
  <1>0. TypeInv /\ TimesAgree /\ Homes
    BY DEF SyncInv, Lookahead
  <1>1. /\ a \in EventsOf(x) /\ a.time <= e.time
        /\ y # x => Latency(x, y) # MaxTime /\ a.time + Latency(x, y) <= e.time
    BY <1>0, SentLate
  <1>2. /\ a \in Earliest(tv[x]) /\ Pop(x, a) /\ S \in SUBSET Events /\ a.time \in SimTime
        /\ pc[x] = "run"
    BY <1>0, HandleTypes DEF HandleParts, Pop
  <1>3. /\ a.time \in Nat /\ e.time \in Nat /\ RankLat \in Nat /\ ThreadLat(x[1]) \in Nat
        /\ threadNext[x] \in Nat /\ threadNext[y] \in Nat /\ now[y] \in Nat
        /\ rankNext[x[1]] \in Nat /\ rankNext[y[1]] \in Nat
    <2>1. /\ e.time \in SimTime /\ RankLat \in SimTime /\ ThreadLat(x[1]) \in SimTime
          /\ threadNext[x] \in SimTime /\ threadNext[y] \in SimTime /\ now[y] \in SimTime
          /\ rankNext[x[1]] \in SimTime /\ rankNext[y[1]] \in SimTime
      BY <1>0, <1>2, ConfigFacts, Threads DEF TypeInv, CountInv, Shapes, Events
    <2> QED BY <1>2, <2>1, TimeBounds
  <1>4. Settled(x) /\ ~Post(x) /\ Phase(x) = "run"
    BY <1>2, PhaseAt DEF Settled, Post
  <1>5. /\ RankLat # MaxTime => rankNext[x[1]] <= a.time + RankLat
        /\ ThreadLat(x[1]) # MaxTime => threadNext[x] <= a.time + ThreadLat(x[1])
    BY <1>1, <1>4 DEF Lookahead, Ahead
  <1>6. y[1] = x[1] /\ RankLat # MaxTime => rankNext[y[1]] <= e.time + RankLat
    BY <1>1, <1>3, <1>5
  <1>7. ASSUME Route(x, y) = "vortex"
        PROVE  /\ y[1] = x[1] /\ (y = x \/ now[y] <= e.time)
               /\ ThreadLat(y[1]) # MaxTime /\ Settled(y) => threadNext[y] <= e.time + ThreadLat(y[1])
    <2>1. CASE y = x
      BY <1>1, <1>3, <1>5, <2>1
    <2>2. CASE y # x
      <3>1. y[1] = x[1] /\ Direct /\ Latency(x, y) = ThreadLat(x[1])
        BY <1>7, <2>2 DEF Route, Latency
      <3>2. ThreadLat(x[1]) # MaxTime /\ a.time + ThreadLat(x[1]) <= e.time
        BY <1>1, <2>2, <3>1
      <3>3. /\ now[y] < a.time + ThreadLat(x[1])
            /\ threadNext[y] <= a.time + ThreadLat(x[1]) \/ threadNext[y] = now[y] + ThreadLat(x[1])
        BY <1>1, <1>2, <3>1, <3>2, DirectNeighbours
      <3> QED BY <1>3, <3>1, <3>2, <3>3
    <2> QED BY <2>1, <2>2
  <1>8. ASSUME Route(x, y) = "thread"
        PROVE  /\ y[1] = x[1] /\ ~Direct /\ threadNext[y] <= e.time
               /\ Phase(y) = "run" /\ pc[y] \notin {"R1", "T1"}
    <2>1. y # x /\ y[1] = x[1] /\ ~Direct /\ Latency(x, y) = ThreadLat(x[1])
      BY <1>8 DEF Route, Latency
    <2>2. Phase(y) = "run" /\ pc[y] \notin {"R1", "T1"}
      BY <1>4, <2>1, PhaseAt DEF SyncInv, Lockstep
    <2>3. ~Post(y)
      BY <2>1, <2>2, PhaseAt DEF Post
    <2>4. threadNext[y] = threadNext[x]
      BY <1>0, <1>4, <2>1, <2>3 DEF TimesAgree
    <2> QED BY <1>1, <1>3, <1>5, <2>1, <2>2, <2>4
  <1>9. ASSUME Route(x, y) = "rank"
        PROVE  y[1] # x[1] /\ RankLat # MaxTime /\ rankNext[x[1]] <= e.time
    <2>1. y # x /\ y[1] # x[1] /\ Latency(x, y) = RankLat
      BY <1>9 DEF Route, Latency
    <2> QED BY <1>1, <1>3, <1>5, <2>1
  <1> QED BY <1>1, <1>6, <1>7, <1>8, <1>9


(* A component handles an event. *)
LEMMA HandleLook ==
  ASSUME SyncInv, InTime, Lookahead, NEW x \in RankInfo, Handle(x) PROVE Lookahead'
  <1>0. TypeInv
    BY DEF SyncInv
  <1>1. PICK a, S, own : HandleParts(x, a, S, own)
    BY HandleHas
  <1>2. /\ a \in Earliest(tv[x]) /\ Pop(x, a) /\ a \in Events /\ a.time \in SimTime
        /\ S \in SUBSET Events /\ own \in SUBSET Activities
        /\ SendAll(x, S, own) /\ own \subseteq tv[x] \cup {StopAt(a.time)}
        /\ UNCHANGED <<pc, back, syncType, threadNext, rankNext, net, got, config>>
    BY <1>0, <1>1, HandleTypes DEF HandleParts, syncVars
  <1>3. /\ a \in tv[x] /\ \A b \in tv[x] : a.time <= b.time
        /\ now'[x] = a.time /\ \A y \in RankInfo : y # x => now'[y] = now[y]
        /\ a.time <= rankNext[x[1]]
        /\ ~Direct => a.time <= threadNext[x]
        /\ Direct /\ ThreadLat(x[1]) # MaxTime /\ Busy(x[1]) => a.time < threadNext[x]
    BY <1>2, PopTimes DEF Lookahead
  <1>4. a \in EventsOf(x) /\ Busy(x[1])
    <2>1. a.kind = "event"
      BY <1>1 DEF HandleParts
    <2> QED BY <1>3, <2>1 DEF EventsOf, Busy, ThreadsOf
  <1>5. \A y \in RankInfo, e \in S : Home[e.comp] = y =>
          /\ a.time <= e.time
          /\ y[1] = x[1] /\ RankLat # MaxTime => rankNext[y[1]] <= e.time + RankLat
          /\ Route(x, y) = "vortex" =>
               /\ y[1] = x[1] /\ (y = x \/ now[y] <= e.time)
               /\ ThreadLat(y[1]) # MaxTime /\ Settled(y) => threadNext[y] <= e.time + ThreadLat(y[1])
          /\ Route(x, y) = "thread" =>
               /\ y[1] = x[1] /\ ~Direct /\ threadNext[y] <= e.time
               /\ Phase(y) = "run" /\ pc[y] \notin {"R1", "T1"}
          /\ Route(x, y) = "rank" =>
               /\ y[1] # x[1] /\ RankLat # MaxTime /\ rankNext[x[1]] <= e.time
    BY <1>1, SentInTime
  <1>6. \A e \in S : Home[e.comp] \in RankInfo
    BY <1>2, BaseAssumption DEF Events
  <1> DEFINE New(y, w) == Carried(S, x, y, w)
  <1>7. \A y, w : \A e \in New(y, w) : e \in S /\ Home[e.comp] = y /\ Route(x, y) = w
    BY DEF Carried
  <1>8. /\ \A y \in RankInfo : tv'[y] = (IF y = x THEN own ELSE tv[y]) \cup New(y, "vortex")
        /\ \A y \in RankInfo : tq'[y] = tq[y] \cup New(y, "thread")
        /\ rq'[x[1]] = rq[x[1]] \cup {e \in S : Route(x, Home[e.comp]) = "rank"}
        /\ \A r \in Ranks : r # x[1] => rq'[r] = rq[r]
    BY <1>0, <1>2, Threads DEF SendAll, TypeInv, Shapes
  <1> HIDE DEF New
  <1>9. \A y \in RankInfo : \A e \in EventsOf(y)' : e \in EventsOf(y) \/ e \in New(y, "vortex")
    <2>1. StopAt(a.time).kind # "event"
      BY ActivityKinds
    <2> QED BY <1>2, <1>8, <2>1 DEF EventsOf
  <1>10. /\ Direct' = Direct /\ (\A rk : ThreadLat(rk)' = ThreadLat(rk)) /\ RankLat' = RankLat /\ MinPart' = MinPart
         /\ \A y \in RankInfo : Settled(y)' <=> Settled(y)
         /\ \A y \in RankInfo : Busy(y[1])' => Busy(y[1])
    <2>1. \A y \in RankInfo : y[1] # x[1] => EventsOf(y)' \subseteq EventsOf(y)
      BY <1>5, <1>7, <1>9
    <2>2. \A y \in RankInfo : Busy(y[1])' => Busy(y[1])
      BY <1>4, <2>1, Threads DEF Busy, ThreadsOf
    <2> QED BY <1>2, <2>2, SameConfig DEF Settled
  <1>11. Ahead'
    <2>1. ASSUME RankLat # MaxTime, NEW y \in RankInfo, NEW e \in EventsOf(y)' \cup tq'[y]
          PROVE  rankNext[y[1]] <= e.time + RankLat
      <3>1. CASE e \in EventsOf(y) \cup tq[y]
        BY <2>1, <3>1 DEF Lookahead, Ahead
      <3>2. CASE e \in New(y, "vortex") \/ e \in New(y, "thread")
        BY <1>5, <1>7, <2>1, <3>2
      <3> QED BY <1>8, <1>9, <2>1, <3>1, <3>2
    <2>2. ASSUME NEW y \in RankInfo, ThreadLat(y[1]) # MaxTime, Settled(y), NEW e \in EventsOf(y)'
          PROVE  threadNext[y] <= e.time + ThreadLat(y[1])
      <3>1. CASE e \in EventsOf(y)
        BY <2>2, <3>1 DEF Lookahead, Ahead
      <3>2. CASE e \in New(y, "vortex")
        BY <1>5, <1>7, <2>2, <3>2
      <3> QED BY <1>9, <2>2, <3>1, <3>2
    <2> QED BY <1>2, <1>10, <2>1, <2>2 DEF Ahead
  <1>12. Due'
    <2>1. \A y \in RankInfo : \A e \in tq'[y] : threadNext[y] <= e.time
      <3>1. \A y \in RankInfo : \A e \in tq[y] : threadNext[y] <= e.time
        BY DEF Lookahead, Due
      <3>2. \A y \in RankInfo : \A e \in New(y, "thread") : threadNext[y] <= e.time
        BY <1>5, <1>7
      <3> QED BY <1>8, <3>1, <3>2
    <2>2. \A r \in Ranks : \A e \in rq'[r] : rankNext[r] <= e.time
      <3>1. \A r \in Ranks : \A e \in rq[r] : rankNext[r] <= e.time
        BY DEF Lookahead, Due
      <3>2. \A e \in S : Route(x, Home[e.comp]) = "rank" => rankNext[x[1]] <= e.time
        BY <1>5, <1>6
      <3> QED BY <1>8, <3>1, <3>2
    <2> QED BY <1>2, <2>1, <2>2 DEF Lookahead, Due
  <1>13. Behind'
    <2>1. ASSUME NEW y \in RankInfo, NEW b \in tv'[y], b.kind # "sync"
          PROVE  now'[y] <= b.time
      <3>1. CASE b \in New(y, "vortex")
        BY <1>3, <1>5, <1>7, <3>1
      <3>2. CASE y = x /\ b \in own
        <4>1. StopAt(a.time).time = a.time /\ a.time <= a.time
          BY <1>2, ActivityKinds, TimeBounds
        <4> QED BY <1>2, <1>3, <3>2, <4>1
      <3>3. CASE y # x /\ b \in tv[y]
        BY <1>3, <2>1, <3>3 DEF Lookahead, Behind
      <3> QED BY <1>8, <2>1, <3>1, <3>2, <3>3
    <2>2. ASSUME NEW y \in RankInfo
          PROVE  /\ now'[y] <= rankNext[y[1]]
                 /\ ~Direct => now'[y] <= threadNext[y]
                 /\ Direct /\ ThreadLat(y[1]) # MaxTime /\ Busy(y[1]) /\ Settled(y) =>
                      now'[y] < threadNext[y]
      <3>1. CASE y = x
        BY <1>3, <1>4, <3>1
      <3>2. CASE y # x
        BY <1>3, <3>2 DEF Lookahead, Behind
      <3> QED BY <3>1, <3>2
    <2> QED BY <1>2, <1>10, <2>1, <2>2 DEF Behind
  <1>14. Homes'
    <2>1. \A y \in RankInfo : \A e \in EventsOf(y)' \cup tq'[y] : Home[e.comp] = y
      <3>1. \A y \in RankInfo : \A e \in EventsOf(y) \cup tq[y] : Home[e.comp] = y
        BY DEF Lookahead, Homes
      <3> QED BY <1>7, <1>8, <1>9, <3>1
    <2> QED BY <1>2, <2>1 DEF Lookahead, Homes
  <1>15. Waiting'
    <2>1. /\ \A y \in RankInfo : Phase(y)' = Phase(y)
          /\ \A r \in Ranks : Sent(r)' <=> Sent(r)
          /\ \A r \in Ranks, y \in RankInfo : Received(y, r)' <=> Received(y, r)
      <3>1. \A r \in Ranks : Reduced(r)' = Reduced(r)
        BY <1>2 DEF Reduced
      <3> QED BY <1>2, <3>1, PhaseStays, Threads DEF Sent, Received
    <2>2. ASSUME NEW y \in RankInfo
          PROVE  /\ tq'[y] # {} => ~Direct' /\ Phase(y)' \in {"run", "before", "final"}
                                   /\ pc'[y] \notin {"R1", "T1"}
                 /\ pc'[y] # "xRecv" => got'[y] = {}
      <3>1. pc'[y] # "xRecv" => got'[y] = {}
        BY <1>2 DEF Lookahead, Waiting
      <3>2. CASE tq[y] # {}
        BY <1>2, <1>10, <2>1, <3>1, <3>2 DEF Lookahead, Waiting
      <3>3. CASE \E e \in New(y, "thread") : TRUE
        BY <1>2, <1>5, <1>7, <1>10, <2>1, <3>1, <3>3
      <3> QED BY <1>8, <3>1, <3>2, <3>3
    <2>3. ASSUME NEW r \in Ranks, rq'[r] # {} PROVE MinPart' # MaxTime /\ ~Sent(r)'
      <3>1. CASE rq[r] # {}
        BY <1>10, <2>1, <3>1 DEF Lookahead, Waiting
      <3>2. CASE r = x[1] /\ \E e \in S : Route(x, Home[e.comp]) = "rank"
        <4>1. RankLat # MaxTime
          BY <1>5, <1>6, <3>2
        <4>2. Phase(x) = "run"
          BY <1>2, PhaseAt DEF Pop
        <4>3. Phase(Master(r)) = "run"
          BY <3>2, <4>2, Threads DEF SyncInv, Lockstep
        <4>4. ~Sent(r)
          BY <4>3, PhaseAt DEF Sent
        <4> QED BY <1>10, <2>1, <4>1, <4>4 DEF MinPart
      <3> QED BY <1>8, <2>3, <3>1, <3>2
    <2>4. /\ \A r \in Ranks, y \in RankInfo :
               IF r # y[1] /\ Sent(r)' /\ ~Received(y, r)' THEN Len(net[r, y]) = 1
               ELSE net[r, y] = <<>>
          /\ \A r \in Ranks, y \in RankInfo : r # y[1] /\ Received(y, r)' => Sent(r)'
      BY <2>1 DEF Lookahead, Waiting
    <2> QED BY <1>2, <2>2, <2>3, <2>4 DEF Waiting
  <1> QED BY <1>11, <1>12, <1>13, <1>14, <1>15 DEF Lookahead


----------------------------------------------------------------------------
(* The ranks find out the next rank sync.  They look ahead from the        *)
(* earliest event of all of them, which is in a vortex: in the exchange    *)
(* every message has been taken in.                                        *)
LEMMA ReduceLook ==
  ASSUME SyncInv, InTime, Lookahead, ~Nothing, ReduceNext PROVE Lookahead'
  <1>0. TypeInv /\ BaseInv
    BY DEF SyncInv, BaseInv
  <1> DEFINE E == EarliestOfAll
  <1>1. /\ \A x \in RankInfo : Phase(x) = "reduce" /\ pc[x] \in {"xReduce", "xAll"}
        /\ E \in SimTime /\ \A r \in Ranks : LocalMinimum(r) \in SimTime /\ E <= LocalMinimum(r)
        /\ \E r \in Ranks : E = LocalMinimum(r)
    BY <1>0, AllReducing
  <1>2. /\ \A r \in Ranks : pc[Master(r)] = "xReduce"
        /\ rankNext' = [r \in Ranks |-> Plus(E, RankLat)] /\ rq' = [r \in Ranks |-> {}]
        /\ UNCHANGED <<config, tv, tq, net, got, now, threadNext, back, syncType>>
    BY Threads DEF ReduceNext, EarliestOfAll, compVars
  <1>3. \A x \in RankInfo : pc'[x] \in {"R2", "xAll"} /\ pc'[Master(x[1])] \in {"R2", "xAll"}
    <2>1. \A x \in RankInfo : pc'[x] \in {"R2", "xAll"}
      <3>1. \A x \in RankInfo : x \notin Masters => pc[x] = "xAll"
        BY <1>1 DEF SyncInv, MasterInv
      <3> QED BY <1>0, <3>1 DEF ReduceNext, TypeInv, Shapes
    <2> QED BY <2>1, Threads
  <1>4. /\ \A r \in Ranks : Sent(r) /\ ~Sent(r)'
        /\ \A r \in Ranks, x \in RankInfo : Received(x, r) /\ ~Received(x, r)'
    <2>1. \A x \in RankInfo : got[x] = {}
      BY <1>1 DEF Lookahead, Waiting
    <2>2. \A x \in RankInfo : ~Reduced(x[1]) /\ Reduced(x[1])'
      BY <1>2, <1>3, Threads DEF Reduced
    <2>3. \A r \in Ranks, x \in RankInfo : Received(x, r) /\ ~Received(x, r)'
      BY <1>1, <1>2, <1>3, <2>1, <2>2 DEF Received
    <2>4. \A r \in Ranks : Sent(r) /\ ~Sent(r)'
      BY <1>2, <1>3, Threads DEF Sent
    <2> QED BY <2>3, <2>4
  <1>5. /\ \A x \in RankInfo : tq[x] = {} /\ got[x] = {}
        /\ \A r \in Ranks : rq[r] = {}
        /\ \A r \in Ranks, x \in RankInfo : net[r, x] = <<>>
    <2>1. \A x \in RankInfo : tq[x] = {} /\ got[x] = {}
      BY <1>1 DEF Lookahead, Waiting
    <2>2. \A r \in Ranks : rq[r] = {}
      BY <1>4 DEF Lookahead, Waiting
    <2>3. \A r \in Ranks, x \in RankInfo :
            IF r # x[1] /\ Sent(r) /\ ~Received(x, r) THEN Len(net[r, x]) = 1
            ELSE net[r, x] = <<>>
      BY DEF Lookahead, Waiting
    <2> QED BY <1>4, <2>1, <2>2, <2>3
  <1>6. \A r \in Ranks, x \in RankInfo : \A i \in DOMAIN net[r, x] : FALSE
    BY <1>5, NoMessage
  <1>7. RankLat # MaxTime /\ RankLat \in Nat
    <2>1. Master(0) \in RankInfo /\ 0 \in Ranks
      BY Threads, BaseAssumption DEF Ranks
    <2>2. pc[Master(0)] \in Exchanging
      BY <1>2, <2>1 DEF Exchanging
    <2> QED BY <1>0, <2>1, <2>2, ConfigFacts, TimeBounds
         DEF SyncInv, TypeOfSync, MinPart, TypeInv, CountInv
  <1>8. \A x \in RankInfo : \A b \in tv[x] : E <= b.time
    <2> SUFFICES ASSUME NEW x \in RankInfo, NEW b \in tv[x] PROVE E <= b.time
      OBVIOUS
    <2>1. Phase(x) \in InnerPhases /\ x \in ThreadsOf(x[1]) /\ x[1] \in Ranks
      BY <1>1, Threads DEF InnerPhases, ThreadsOf
    <2>2. LocalMinimum(x[1]) <= b.time
      BY <1>0, <2>1, InnerMinimum
    <2>3. b.time \in SimTime
      BY <1>0, ActivityFields DEF TypeInv, Shapes
    <2>4. E <= LocalMinimum(x[1]) /\ LocalMinimum(x[1]) \in SimTime
      BY <1>1, <2>1
    <2>5. E \in Nat /\ LocalMinimum(x[1]) \in Nat /\ b.time \in Nat
      BY <1>1, <2>3, <2>4, TimeBounds
    <2> HIDE DEF E
    <2> QED BY <2>2, <2>4, <2>5
  <1>9. \A x \in RankInfo : \A e \in EventsOf(x) : E <= e.time /\ e.time \in Nat
    <2>1. \A x \in RankInfo : \A e \in EventsOf(x) : e \in tv[x] /\ e.time \in SimTime
      BY <1>0, ActivityFields DEF EventsOf, TypeInv, Shapes
    <2> QED BY <1>8, <2>1, TimeBounds
  <1>10. E + RankLat <= MaxTime
    <2>1. PICK x \in RankInfo : EventsOf(x) # {}
      BY <1>5, <1>6 DEF Nothing
    <2>2. PICK e \in EventsOf(x) : TRUE
      BY <2>1
    <2>3. e \in Pending /\ e.time \in SimTime /\ e.time \in Nat /\ E <= e.time
      <3>1. e \in tv[x]
        BY <2>2 DEF EventsOf
      <3> QED BY <1>0, <1>9, <2>2, <3>1, PendingParts, ActivityFields DEF TypeInv, Shapes
    <2>4. e.time + RankLat <= MaxTime
      BY <1>0, <1>7, <2>3, InTimeBounds
    <2>5. E \in Nat /\ MaxTime \in Nat
      BY <1>1, TimeBounds
    <2> HIDE DEF E
    <2> QED BY <1>7, <2>3, <2>4, <2>5
  <1>11. \A r \in Ranks : rankNext'[r] = E + RankLat
    <2>1. E \in Nat
      BY <1>1, TimeBounds
    <2> HIDE DEF E
    <2>2. Plus(E, RankLat) = E + RankLat
      BY <1>7, <1>10, <2>1, NoWrap
    <2> QED BY <1>2, <2>2
  <1>12. \A x \in RankInfo : now[x] <= E + RankLat
    <2> SUFFICES ASSUME NEW x \in RankInfo PROVE now[x] <= E + RankLat
      OBVIOUS
    <2>1. PICK r \in Ranks : E = LocalMinimum(r)
      BY <1>1
    <2>2. Master(r) \in RankInfo /\ Master(r)[1] = r
      BY Threads
    <2>3. now[Master(r)] <= LocalMinimum(Master(r)[1])
      BY <1>1, <2>2, MinimumAhead DEF InnerPhases, Lookahead
    <2>4. now[x] = now[Master(r)]
      BY <1>1, <2>2, ExchangeSameCycle DEF InExchange
    <2>5. now[x] \in Nat /\ E \in Nat
      BY <1>0, <1>1, TimeBounds DEF TypeInv, Shapes
    <2>6. now[x] <= E
      BY <2>1, <2>2, <2>3, <2>4
    <2> HIDE DEF E
    <2> QED BY <1>7, <2>5, <2>6
  <1>13. /\ Direct' = Direct /\ (\A rk : ThreadLat(rk)' = ThreadLat(rk)) /\ RankLat' = RankLat /\ MinPart' = MinPart
         /\ \A x \in RankInfo : EventsOf(x)' = EventsOf(x) /\ ~Settled(x)' /\ x[1] \in Ranks
    BY <1>2, <1>3, SameConfig, Threads DEF EventsOf, Settled
  <1>14. E \in Nat
    BY <1>1, TimeBounds
  <1> HIDE DEF E
  <1>15. Ahead'
    <2>1. ASSUME NEW x \in RankInfo, NEW e \in EventsOf(x) PROVE rankNext'[x[1]] <= e.time + RankLat
      <3>1. E <= e.time /\ e.time \in Nat /\ rankNext'[x[1]] = E + RankLat
        BY <1>9, <1>11, <1>13, <2>1
      <3> QED BY <1>7, <1>14, <3>1
    <2> QED BY <1>2, <1>5, <1>13, <2>1 DEF Ahead
  <1>16. Due'
    BY <1>2, <1>5, <1>6 DEF Due
  <1>17. Behind'
    BY <1>2, <1>11, <1>12, <1>13 DEF Lookahead, Behind
  <1>18. Homes'
    BY <1>2, <1>13 DEF Lookahead, Homes
  <1>19. Waiting'
    BY <1>2, <1>4, <1>5 DEF Waiting
  <1> QED BY <1>15, <1>16, <1>17, <1>18, <1>19 DEF Lookahead

----------------------------------------------------------------------------
(* The invariant.                                                          *)

LEMMA ThreadLook ==
  ASSUME SyncInv, InTime, Lookahead, NEW x \in RankInfo, ThreadStep(x) PROVE Lookahead'
  <1>1. CASE Handle(x)
    BY <1>1, HandleLook
  <1>2. CASE Stop(x) \/ Sync(x)
    BY <1>2, StopLook, QuietWaiting DEF Lookahead
  <1>3. CASE LeaveLoop(x) \/ EndOrNext(x) \/ InsertNext(x)
    BY <1>3, QuietLook, QuietWaiting DEF Lookahead
  <1>4. CASE After(x)
    BY <1>4, AfterLook, QuietWaiting DEF Lookahead
  <1>5. CASE ReceivedAll(x)
    BY <1>5, QuietLook, ReceivedAllWaiting DEF Lookahead
  <1>6. CASE Before(x)
    BY <1>6, BeforeLook
  <1>7. CASE SendRank(x)
    BY <1>7, SendRankLook
  <1>8. CASE \E r \in Ranks : ReceiveRank(x, r)
    BY <1>8, ReceiveRankLook
  <1> QED BY <1>1, <1>2, <1>3, <1>4, <1>5, <1>6, <1>7, <1>8 DEF ThreadStep

LEMMA LookInvStep == SyncInv /\ InTime /\ LookInv /\ [Next]_vars => LookInv'
  <1> SUFFICES ASSUME SyncInv, InTime, LookInv, [Next]_vars PROVE LookInv'
    OBVIOUS
  <1>0. TypeInv
    BY DEF SyncInv
  <1>1. CASE UNCHANGED vars
    <2>1. UNCHANGED <<config, tv, tq, rq, net, got, now, threadNext, rankNext, pc, back, syncType>>
      BY <1>1 DEF vars, syncVars, queueVars, compVars
    <2>2. Nothing => Nothing'
      BY <2>1 DEF Nothing, EventsOf
    <2>3. Lookahead => Lookahead'
      <3>1. /\ Direct' = Direct /\ (\A rk : ThreadLat(rk)' = ThreadLat(rk)) /\ RankLat' = RankLat /\ MinPart' = MinPart
            /\ \A x \in RankInfo : EventsOf(x)' = EventsOf(x) /\ Settled(x)' = Settled(x)
            /\ \A x \in RankInfo : Phase(x)' = Phase(x)
            /\ \A r \in Ranks : Busy(r)' = Busy(r) /\ Sent(r)' = Sent(r) /\ Reduced(r)' = Reduced(r)
        BY <2>1, SameConfig, PhaseStays DEF EventsOf, Settled, Busy, Sent, Reduced
      <3>2. \A r \in Ranks, x \in RankInfo : Received(x, r)' <=> Received(x, r)
        BY <2>1, <3>1, Threads DEF Received
      <3>3. Ahead => Ahead'
        BY <2>1, <3>1 DEF Ahead
      <3>4. Due => Due'
        BY <2>1, <3>1 DEF Due
      <3>5. Behind => Behind'
        BY <2>1, <3>1, Threads DEF Behind
      <3>6. Waiting => Waiting'
        BY <2>1, <3>1, <3>2 DEF Waiting
      <3>7. Homes => Homes'
        BY <2>1, <3>1 DEF Homes
      <3> QED BY <3>3, <3>4, <3>5, <3>6, <3>7 DEF Lookahead
    <2> QED BY <2>2, <2>3 DEF LookInv
  <1>2. CASE Next /\ Nothing
    BY <1>0, <1>2, IdleStays DEF LookInv
  <1>3. CASE Next /\ Lookahead /\ ~Nothing /\ ~Finished
    <2>1. CASE \E x \in RankInfo : ThreadStep(x)
      BY <1>3, <2>1, ThreadLook DEF LookInv
    <2>2. CASE ReduceNext
      BY <1>3, <2>2, ReduceLook DEF LookInv
    <2>3. CASE \E r \in Ranks, b \in Barriers : Barrier(r, b)
      BY <1>3, <2>3, MeetLook, BarrierWaiting DEF LookInv, Lookahead
    <2>4. CASE CheckRanks \/ FinalEndTime
      BY <1>3, <2>4, MeetLook, CollectiveWaiting DEF LookInv, Lookahead
    <2> QED BY <1>3, <2>1, <2>2, <2>3, <2>4 DEF Next, Meeting
  <1> QED BY <1>1, <1>2, <1>3 DEF LookInv, Finished

(* What is on its way, a clock has not gone past. *)
LEMMA NothingLate == SyncInv /\ LookInv => NoStraggler
  <1> SUFFICES ASSUME SyncInv, LookInv, NEW x \in RankInfo, NEW e \in InTransit(x)
               PROVE  now[x] <= e.time
    BY DEF NoStraggler
  <1>1. \/ e \in tq[x] \/ \E r \in Ranks : e \in rq[r] /\ Home[e.comp] = x
        \/ \E r \in Ranks : \E i \in DOMAIN net[r, x] : e \in net[r, x][i]
    <2> DEFINE M(r) == UNION {net[r, x][i] : i \in DOMAIN net[r, x]}
    <2>1. \A r : \A d \in M(r) : \E i \in DOMAIN net[r, x] : d \in net[r, x][i]
      BY Zenon
    <2>2. \/ e \in tq[x] \/ \E r \in Ranks : e \in rq[r] /\ Home[e.comp] = x
          \/ \E r \in Ranks : e \in M(r)
      BY DEF InTransit
    <2> HIDE DEF M
    <2> QED BY <2>1, <2>2
  <1>2. CASE Nothing
    BY <1>1, <1>2 DEF Nothing
  <1>3. CASE Lookahead
    <2>1. /\ \A r \in Ranks : rankNext[r] = rankNext[x[1]]
          /\ now[x] \in Nat /\ threadNext[x] \in Nat /\ rankNext[x[1]] \in Nat
          /\ now[x] <= rankNext[x[1]]
      BY <1>3, Threads, TimeBounds DEF Lookahead, Behind, SyncInv, TimesAgree, TypeInv, Shapes
    <2>2. CASE e \in tq[x]
      <3>1. now[x] <= threadNext[x] /\ threadNext[x] <= e.time
        BY <1>3, <2>2 DEF Lookahead, Waiting, Behind, Due
      <3>2. e.time \in Nat
        BY <2>2, TimeBounds DEF SyncInv, TypeInv, Shapes, Events
      <3> QED BY <2>1, <3>1, <3>2
    <2>3. CASE \E r \in Ranks : e \in rq[r]
      <3>1. PICK r \in Ranks : e \in rq[r]
        BY <2>3
      <3>2. rankNext[x[1]] <= e.time
        BY <1>3, <2>1, <3>1 DEF Lookahead, Due
      <3>3. e.time \in Nat
        BY <3>1, TimeBounds DEF SyncInv, TypeInv, Shapes, Events
      <3> QED BY <2>1, <3>2, <3>3
    <2>4. ASSUME \E r \in Ranks : \E i \in DOMAIN net[r, x] : e \in net[r, x][i]
          PROVE  rankNext[x[1]] <= e.time /\ e.time \in Nat
      <3>1. PICK r \in Ranks : \E i \in DOMAIN net[r, x] : e \in net[r, x][i]
        BY <2>4
      <3>2. PICK i \in DOMAIN net[r, x] : e \in net[r, x][i]
        BY <3>1
      <3>3. rankNext[x[1]] <= e.time
        BY <1>3, <2>1, <3>2 DEF Lookahead, Due
      <3>4. e.time \in Nat
        <4>1. net[r, x] \in Seq(SUBSET Events)
          BY DEF SyncInv, TypeInv, Shapes
        <4>2. net[r, x][i] \in SUBSET Events
          BY <4>1, ElementOfSeq, LenProperties
        <4> QED BY <3>2, <4>2, TimeBounds DEF Events
      <3> QED BY <3>3, <3>4
    <2>5. CASE rankNext[x[1]] <= e.time /\ e.time \in Nat
      BY <2>1, <2>5
    <2> QED BY <1>1, <2>2, <2>3, <2>4, <2>5
  <1> QED BY <1>2, <1>3 DEF LookInv

(* As long as simulated time does not overflow, no thread's clock          *)
(* overtakes an event that is on its way to it: delivery time - current    *)
(* cycle never wraps (threadSyncSimpleSkip.cc:109,                         *)
(* rankSyncSerialSkip.cc:210, rankSyncParallelSkip.cc:213).                *)
THEOREM NeverLate == Spec /\ []InTime => []NoStraggler
  <1>1. Spec /\ []InTime => []LookInv
    BY LookInit, LookInvStep, SyncInvariance, PTL DEF Spec
  <1> QED BY <1>1, SyncInvariance, NothingLate, PTL
=============================================================================
