-------------------------------- MODULE Exit --------------------------------
(***************************************************************************)
(* The Exit object of a rank (exit.cc): which components still hold the    *)
(* simulation open, counted per rank and per thread, and the cycle at      *)
(* which the last of a thread let go.  All threads of the rank call it;    *)
(* refInc and refDec hold its spinlock, so each is one step.               *)
(***************************************************************************)
EXTENDS SimBase

VARIABLES idSet,            \* m_idSet, per rank
          refCount,         \* m_refCount, per rank
          threadCount,      \* m_thread_counts, per rank and thread
          endTime,          \* end_time, per rank
          globalCount       \* global_count, per rank

exitVars == <<idSet, refCount, threadCount, endTime, globalCount>>

ExitTypeOK ==
  /\ idSet \in [Ranks -> SUBSET Comps]
  /\ refCount \in [Ranks -> 0 .. Cardinality(Comps)]
  /\ threadCount \in [RankInfo -> 0 .. Cardinality(Comps)]
  /\ endTime \in [Ranks -> SimTime]
  /\ globalCount \in [Ranks -> 0 .. NumRanks]

PlacedOn(x) == {c \in Comps : Home[c] = x}
PlacedIn(r) == {c \in Comps : Home[c][1] = r}

(* The components in P have called primaryComponentDoNotEndSim while they  *)
(* were built.                                                             *)
ExitInit(P) ==
  /\ idSet = [r \in Ranks |-> P \cap PlacedIn(r)]
  /\ refCount = [r \in Ranks |-> Cardinality(P \cap PlacedIn(r))]
  /\ threadCount = [x \in RankInfo |-> Cardinality(P \cap PlacedOn(x))]
  /\ endTime = [r \in Ranks |-> 0]
  /\ globalCount = [r \in Ranks |-> 0]

(* fault: a component is counted as often as it asks *)
RefIncAgain(c) ==
  LET x == Home[c]
  IN  /\ idSet' = [idSet EXCEPT ![x[1]] = @ \cup {c}]
      /\ refCount' = [refCount EXCEPT ![x[1]] = @ + 1]
      /\ threadCount' = threadCount
      /\ UNCHANGED <<endTime, globalCount>>

(* primaryComponentDoNotEndSim: a component is counted once. *)
RefInc(c) ==
  LET x == Home[c]
  IN  IF c \in idSet[x[1]] THEN UNCHANGED exitVars
      ELSE /\ idSet' = [idSet EXCEPT ![x[1]] = @ \cup {c}]
           /\ refCount' = [refCount EXCEPT ![x[1]] = @ + 1]
           /\ threadCount' = [threadCount EXCEPT ![x] = @ + 1]
           /\ UNCHANGED <<endTime, globalCount>>

(* The conditions under which refDec queues an Exit or a StopAction. *)
Serial == NumRanks = 1 /\ NumThreads = 1
LastOfRank(c) == c \in idSet[Home[c][1]] /\ refCount[Home[c][1]] = 1
LastOfThread(c) == c \in idSet[Home[c][1]] /\ threadCount[Home[c]] = 1

(* fault: the last thread to let go overwrites the end time *)
RefDecOverwrites(c, t) ==
  LET x == Home[c]
      r == x[1]
  IN  IF c \notin idSet[r] THEN UNCHANGED exitVars
      ELSE /\ idSet' = [idSet EXCEPT ![r] = @ \ {c}]
           /\ refCount' = [refCount EXCEPT ![r] = @ - 1]
           /\ threadCount' = [threadCount EXCEPT ![x] = @ - 1]
           /\ endTime' = [endTime EXCEPT ![r] = IF LastOfThread(c) THEN t ELSE @]
           /\ UNCHANGED globalCount

(* fault: a component that lets go twice is counted twice *)
RefDecAgain(c, t) ==
  LET x == Home[c]
      r == x[1]
  IN  /\ idSet' = [idSet EXCEPT ![r] = @ \ {c}]
      /\ refCount' = [refCount EXCEPT ![r] = MaxOf(@ - 1, 0)]
      /\ threadCount' = [threadCount EXCEPT ![x] = MaxOf(@ - 1, 0)]
      /\ endTime' =
           [endTime EXCEPT ![r] =
              IF Serial /\ LastOfRank(c) THEN t
              ELSE IF LastOfThread(c) THEN MaxOf(@, t)
              ELSE @]
      /\ UNCHANGED globalCount

(* primaryComponentOKToEndSim at cycle t. *)
RefDec(c, t) ==
  LET x == Home[c]
      r == x[1]
  IN  IF c \notin idSet[r] THEN UNCHANGED exitVars
      ELSE /\ idSet' = [idSet EXCEPT ![r] = @ \ {c}]
           /\ refCount' = [refCount EXCEPT ![r] = @ - 1]
           /\ threadCount' = [threadCount EXCEPT ![x] = @ - 1]
           /\ endTime' =
                [endTime EXCEPT ![r] =
                   IF Serial /\ LastOfRank(c) THEN t
                   ELSE IF LastOfThread(c) THEN MaxOf(@, t)
                   ELSE @]
           /\ UNCHANGED globalCount

(* The MPI_SUM of check() over the ranks in R, and computeEndTime's MPI_MAX *)
(* where nobody is left; the operators are what a rank of R ends up with.  *)
OpenRanks(R) == Cardinality({r \in R : refCount[r] > 0})
LatestEnd(R) == CHOOSE t \in {endTime[r] : r \in R} : \A r \in R : endTime[r] <= t

(* fault: every rank keeps its own end time *)
CheckExitOwn(R) ==
  /\ globalCount' = [r \in Ranks |-> IF r \in R THEN OpenRanks(R) ELSE globalCount[r]]
  /\ UNCHANGED <<idSet, refCount, threadCount, endTime>>

CheckExit(R) ==
  LET n == OpenRanks(R)
  IN  /\ globalCount' = [r \in Ranks |-> IF r \in R THEN n ELSE globalCount[r]]
      /\ endTime' = [r \in Ranks |->
                       IF r \in R /\ n = 0 THEN LatestEnd(R) ELSE endTime[r]]
      /\ UNCHANGED <<idSet, refCount, threadCount>>

(* setEndTime(time) *)
SetEndTime(r, t) ==
  /\ endTime' = [endTime EXCEPT ![r] = t]
  /\ UNCHANGED <<idSet, refCount, threadCount, globalCount>>

(* The counters always tell how many components hold the simulation open, *)
(* in all and per thread (exit.cc:80, exit.cc:104).                       *)
CountsMatch ==
  /\ \A r \in Ranks : refCount[r] = Cardinality(idSet[r])
  /\ \A x \in RankInfo :
       threadCount[x] = Cardinality(idSet[x[1]] \cap PlacedOn(x))
=============================================================================
