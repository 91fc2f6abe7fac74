---------------------------- MODULE ParallelSim ----------------------------
(***************************************************************************)
(* The run phase of the parallel engine: every thread of every rank pops   *)
(* the activities of its time vortex in order (Simulation_impl::run), the  *)
(* events its components send travel by thread queue or rank queue to the  *)
(* vortex of another thread, and the SyncManager, itself an activity,      *)
(* meets the other threads to move them, to agree on the next meeting and  *)
(* to find out whether the simulation is over.                             *)
(*                                                                         *)
(* One step is one activity, or the code of a sync between two barriers.   *)
(* A barrier, or an MPI collective, is one step of all its participants:   *)
(* it lets them go together, and how long each stays is in when it steps   *)
(* next (Barrier.tla has the inside).  pc names the barrier a thread waits *)
(* at, or the code it is about to run.                                     *)
(***************************************************************************)
EXTENDS Exit, Sequences

CONSTANTS LocalLat,         \* latency of a link inside a thread
          Delays,           \* delays a component adds when it sends
          Periods,          \* after which its own next event comes
          MaxSends,         \* bound: events a component sends
          Configs           \* what a run is started with: see config

(* A command line, and what of the configuration differs between runs.     *)
Configurations ==
  [direct : BOOLEAN,        \* --interthread-links: ThreadSyncDirectSkip
   stop : SimTime,          \* --stop-at; 0: none
   primary : SUBSET Comps,  \* call DoNotEndSim when built
   reopening : SUBSET Comps,         \* call it again later
   threadLat : [Ranks -> SimTime \ {0}], \* interThreadMinLatency; MaxTime: no link
   rankLat : SimTime \ {0},          \* min_part; MaxTime: no such link
   start : UNION {[C -> SimTime] : C \in SUBSET Comps}]  \* first events of setup()

(* One thread alone is EventLoop.tla. *)
ASSUME SimAssumption ==
  /\ NumRanks > 1 \/ NumThreads > 1
  /\ LocalLat \in Nat /\ MaxSends \in Nat \ {0}
  /\ Delays \subseteq Nat /\ Periods \subseteq Nat \ {0}
  /\ \A g \in Configs :
       /\ g \in Configurations
       /\ NumThreads = 1 => \A r \in Ranks : g.threadLat[r] = MaxTime
       /\ NumRanks = 1 => g.rankLat = MaxTime
       /\ g.direct => \A r \in Ranks : g.threadLat[r] > 1

VARIABLES tv,               \* timeVortex, per thread
          now,              \* currentSimCycle, per thread
          pc,               \* where the thread is
          back,             \* where a thread goes on after exitBarrier
          syncType,         \* next_sync_type, per thread
          threadNext,       \* ThreadSync::nextSyncTime, per thread
          rankNext,         \* RankSync::myNextSyncTime, per rank
          tq,               \* ThreadSync queues towards a thread
          rq,               \* SyncQueues of a rank
          net,              \* MPI messages from a rank to a thread
          got,              \* ranks a thread has received from in this sync
          endSim,           \* endSim, per thread
          endCycle,         \* endSimCycle, per thread
          sent,             \* events each component has sent
          okAt,             \* history: cycle of a component's last OK
          config            \* command line and configuration, fixed

syncVars == <<syncType, threadNext, rankNext>>
queueVars == <<tq, rq, net, got>>
endVars == <<endSim, endCycle>>
compVars == <<sent, okAt, config>>
vars == <<tv, now, pc, back, syncVars, queueVars, endVars, compVars, exitVars>>

Direct == config.direct
StopCycle == config.stop
Primary == config.primary
Reopening == config.reopening
ThreadLat(r) == config.threadLat[r]
RankLat == config.rankLat
MinPart == RankLat
Active == DOMAIN config.start
Independent(r) == MinPart = MaxTime /\ ThreadLat(r) = MaxTime

Barriers == {"R0", "R1", "R2", "R3", "R4", "R5", "T0", "T1", "T2",
             "xStart", "xDone", "xAll", "exitB", "runB"}
SyncCode == {"before", "after", "xSend", "xRecv", "xReduce", "check", "end", "next"}
PCs == Barriers \cup SyncCode \cup {"run", "final", "done"}

Events == [kind : {"event"}, time : SimTime, comp : Comps, src : Comps,
           seq : 1 .. MaxSends]

TypeOK ==
  /\ ExitTypeOK
  /\ \A x \in RankInfo :
       /\ \A a \in tv[x] : a \in Events \/ (a.kind \in Kinds \ {"event"} /\ a.time \in SimTime)
       /\ tq[x] \subseteq Events
       /\ \A r \in Ranks : \A i \in DOMAIN net[r, x] : net[r, x][i] \subseteq Events
       /\ got[x] \subseteq Ranks
  /\ \A r \in Ranks : rq[r] \subseteq Events
  /\ now \in [RankInfo -> SimTime] /\ pc \in [RankInfo -> PCs]
  /\ back \in [RankInfo -> {"run", "R4", "next"}]
  /\ syncType \in [RankInfo -> {"RANK", "THREAD"}]
  /\ threadNext \in [RankInfo -> SimTime] /\ rankNext \in [Ranks -> SimTime]
  /\ endSim \in [RankInfo -> BOOLEAN] /\ endCycle \in [RankInfo -> SimTime]
  /\ sent \in [Comps -> 0 .. MaxSends] /\ okAt \in [Comps -> SimTime]

----------------------------------------------------------------------------
(* How an event from thread x gets to thread y, and how long that takes.   *)
Route(x, y) ==
  IF x = y THEN "vortex"
  ELSE IF x[1] = y[1] THEN IF Direct THEN "vortex" ELSE "thread"
  ELSE "rank"

Latency(x, y) ==
  IF x = y THEN LocalLat ELSE IF x[1] = y[1] THEN ThreadLat(x[1]) ELSE RankLat

Linked(c, d) == c # d /\ Latency(Home[c], Home[d]) # MaxTime

(* The events of S that go from thread x to thread y on route w. *)
Carried(S, x, y, w) == {e \in S : Home[e.comp] = y /\ Route(x, y) = w}

(* ThreadSync::getNextSyncTime() of a thread of rank r *)
ThreadNextSync(r, n) == IF Direct /\ ThreadLat(r) # MaxTime THEN Minus(n, 1) ELSE n

(* SyncManager::computeNextInsert(): rank syncs win ties. *)
NextType(r, rn, tn) == IF rn <= ThreadNextSync(r, tn) THEN "RANK" ELSE "THREAD"
NextCycle(r, rn, tn) ==
  IF rn <= ThreadNextSync(r, tn) THEN rn ELSE ThreadNextSync(r, tn)

(* Simulation_impl::getLocalMinimumNextActivityTime() *)
LocalMinimum(r) == MinTime({a.time : a \in UNION {Earliest(tv[x]) : x \in ThreadsOf(r)}})

(* The stop events that setStopAtCycle() and run() insert. *)
InitialStops(x) ==
  {StopAt(MaxTime)}
  \cup (IF StopCycle # 0 THEN {StopAt(StopCycle)} ELSE {})
  \cup (IF Independent(x[1]) /\ PlacedOn(x) = {} THEN {StopAt(0)} ELSE {})

(* The active components have sent themselves a first event in setup(). *)
Init ==
  /\ config \in Configs
  /\ ExitInit(Primary)
  /\ tv = [x \in RankInfo |->
             InitialStops(x)
             \cup {SyncAt(NextCycle(x[1], MinPart, ThreadLat(x[1])))}
             \cup {EventTo(c, config.start[c], c, 1) : c \in Active \cap PlacedOn(x)}]
  /\ sent = [c \in Comps |-> IF c \in Active THEN 1 ELSE 0]
  /\ now = [x \in RankInfo |-> 0]
  /\ pc = [x \in RankInfo |-> "run"]
  /\ back = [x \in RankInfo |-> "run"]
  /\ syncType = [x \in RankInfo |-> NextType(x[1], MinPart, ThreadLat(x[1]))]
  /\ threadNext = [x \in RankInfo |-> ThreadLat(x[1])]
  /\ rankNext = [r \in Ranks |-> MinPart]
  /\ tq = [x \in RankInfo |-> {}]
  /\ rq = [r \in Ranks |-> {}]
  /\ net = [m \in Ranks \X RankInfo |-> <<>>]
  /\ got = [x \in RankInfo |-> {}]
  /\ endSim = [x \in RankInfo |-> FALSE]
  /\ endCycle = [x \in RankInfo |-> 0]
  /\ okAt = [c \in Comps |-> 0]

----------------------------------------------------------------------------
(* The event loop of run().                                                *)

(* Thread x pops a, the front of its vortex. *)
Pop(x, a) ==
  /\ pc[x] = "run" /\ ~endSim[x]
  /\ a \in Earliest(tv[x])
  /\ now' = [now EXCEPT ![x] = a.time]

(* The events a component sends while it handles one: a timer to itself,   *)
(* and a message over a link.  A component that holds the simulation open  *)
(* keeps an event of its own pending.                                      *)
Timers(c, t, n) == {EventTo(c, Plus(t, d), c, n) : d \in Periods}
Messages(c, t, n) ==
  {EventTo(m[1], Plus(t, Latency(Home[c], Home[m[1]]) + m[2]), c, n) :
     m \in {d \in Comps : Linked(c, d)} \X Delays}

Sends(c, t) ==
  LET n == sent[c]
  IN  {S \in
         {{}} \cup {{e} : e \in Timers(c, t, n + 1) \cup Messages(c, t, n + 1)}
         \cup {{e, f} : e \in Timers(c, t, n + 1), f \in Messages(c, t, n + 2)} :
       n + Cardinality(S) <= MaxSends}

SelfPending(c, S) == \E e \in S : e.kind = "event" /\ e.comp = c /\ e.src = c

(* What refDec adds to the vortex of the component's thread. *)
AfterOK(S, c, t) ==
  IF LastOfThread(c) /\ Independent(Home[c][1]) THEN S \cup {StopAt(t)} ELSE S

(* Link::send of the events S from thread x: each goes to the queue that   *)
(* its link was given in prepareLinks.  own is what x's vortex holds.      *)
SendAll(x, S, own) ==
  /\ tv' = [y \in RankInfo |->
              (IF y = x THEN own ELSE tv[y]) \cup Carried(S, x, y, "vortex")]
  /\ tq' = [y \in RankInfo |-> tq[y] \cup Carried(S, x, y, "thread")]
  /\ rq' = [rq EXCEPT ![x[1]] =
              @ \cup {e \in S : Route(x, Home[e.comp]) = "rank"}]

(* A component handles an event, and may say OK or DoNotEnd. *)
Handle(x) ==
  \E a \in Earliest(tv[x]), say \in {"nothing", "ok", "open"} :
    /\ a.kind = "event"
    /\ Pop(x, a)
    /\ LET c == a.comp
           t == a.time
           rest == tv[x] \ {a}
       IN  \E S \in Sends(c, t) :
             /\ \/ /\ say = "nothing"
                   /\ UNCHANGED <<exitVars, okAt>>
                   /\ SendAll(x, S, rest)
                \/ /\ say = "ok" /\ c \in Primary \cup Reopening
                   /\ RefDec(c, t)
                   /\ okAt' = [okAt EXCEPT ![c] = IF c \in idSet[x[1]] THEN t ELSE @]
                   /\ SendAll(x, S, AfterOK(rest, c, t))
                \/ /\ say = "open" /\ c \in Reopening
                   /\ RefInc(c)
                   /\ UNCHANGED okAt
                   /\ SendAll(x, S, rest)
             /\ c \in idSet'[x[1]] => SelfPending(c, rest \cup S)
             /\ sent' = [sent EXCEPT ![c] = @ + Cardinality(S)]
    /\ UNCHANGED <<pc, back, syncVars, net, got, endVars, config>>

(* endSimulation(t) by thread x, which goes on at l after exitBarrier. *)
EndSimulation(x, t, l) ==
  /\ endCycle' = [endCycle EXCEPT ![x] = t]
  /\ endSim' = [endSim EXCEPT ![x] = TRUE]
  /\ back' = [back EXCEPT ![x] = l]
  /\ pc' = [pc EXCEPT ![x] = "exitB"]

(* fault: the end time is that of the rank's Exit object *)
StopAtExit(x) ==
  \E a \in Earliest(tv[x]) :
    /\ a.kind = "stop"
    /\ Pop(x, a)
    /\ tv' = [tv EXCEPT ![x] = @ \ {a}]
    /\ UNCHANGED exitVars
    /\ EndSimulation(x, endTime[x[1]], "run")
    /\ UNCHANGED <<syncVars, queueVars, compVars>>

(* StopAction::execute() *)
Stop(x) ==
  \E a \in Earliest(tv[x]) :
    /\ a.kind = "stop"
    /\ Pop(x, a)
    /\ tv' = [tv EXCEPT ![x] = @ \ {a}]
    /\ SetEndTime(x[1], a.time)
    /\ EndSimulation(x, a.time, "run")
    /\ UNCHANGED <<syncVars, queueVars, compVars>>

(* SyncManager::execute(), up to its first barrier *)
Sync(x) ==
  \E a \in Earliest(tv[x]) :
    /\ a.kind = "sync"
    /\ Pop(x, a)
    /\ tv' = [tv EXCEPT ![x] = @ \ {a}]
    /\ pc' = [pc EXCEPT ![x] = IF syncType[x] = "RANK" THEN "R0"
                               ELSE IF Direct THEN "after" ELSE "T0"]
    /\ UNCHANGED <<back, syncVars, queueVars, endVars, compVars, exitVars>>

(* endSim is set: the thread leaves the loop. *)
LeaveLoop(x) ==
  /\ pc[x] = "run" /\ endSim[x]
  /\ pc' = [pc EXCEPT ![x] = "runB"]
  /\ UNCHANGED <<tv, now, back, syncVars, queueVars, endVars, compVars, exitVars>>

----------------------------------------------------------------------------
(* SyncManager::execute(), ThreadSync and RankSync.                        *)

Goto(x, l) == pc' = [pc EXCEPT ![x] = l]

(* Where thread x goes on after barrier b.                                 *)
Resume(x, b) ==
  CASE b \in {"R0", "T0"} -> "before"
    [] b = "R1" -> IF MinPart = MaxTime THEN "R2"
                   ELSE IF NumThreads = 1 THEN "xSend" ELSE "xStart"
    [] b = "xStart" -> IF x = Master(x[1]) THEN "xSend" ELSE "xRecv"
    [] b = "xDone" -> IF x = Master(x[1]) THEN "xReduce" ELSE "xAll"
    [] b = "xAll" -> "R2"
    [] b \in {"R2", "T1"} -> "after"
    [] b = "R3" -> IF x = Master(x[1]) THEN "check" ELSE "R4"
    [] b \in {"R4", "T2"} -> "end"
    [] b = "R5" -> "run"
    [] b = "exitB" -> back[x]
    [] b = "runB" -> IF MinPart = MaxTime /\ NumRanks > 1 /\ x = Master(x[1])
                     THEN "final" ELSE "done"

(* All threads of rank r are at barrier b: it lets them go. *)
Barrier(r, b) ==
  /\ \A x \in ThreadsOf(r) : pc[x] = b
  /\ pc' = [x \in RankInfo |-> IF x[1] = r THEN Resume(x, b) ELSE pc[x]]
  /\ UNCHANGED <<tv, now, back, syncVars, queueVars, endVars, compVars, exitVars>>

(* fault: the queues are read but not cleared *)
BeforeKeeps(x) ==
  /\ pc[x] = "before"
  /\ tv' = [tv EXCEPT ![x] =
              @ \cup {[e EXCEPT !.time = Plus(now[x], Minus(@, now[x]))] : e \in tq[x]}]
  /\ Goto(x, IF syncType[x] = "RANK" THEN "R1" ELSE "T1")
  /\ UNCHANGED <<now, back, syncVars, queueVars, endVars, compVars, exitVars>>

(* threadSync->before(): the events other threads have queued for x go to  *)
(* its vortex, where a delay of delivery time - current cycle puts them at *)
(* their delivery time.                                                    *)
Before(x) ==
  /\ pc[x] = "before"
  /\ tv' = [tv EXCEPT ![x] =
              @ \cup {[e EXCEPT !.time = Plus(now[x], Minus(@, now[x]))] : e \in tq[x]}]
  /\ tq' = [tq EXCEPT ![x] = {}]
  /\ Goto(x, IF syncType[x] = "RANK" THEN "R1" ELSE "T1")
  /\ UNCHANGED <<now, back, syncVars, rq, net, got, endVars, compVars, exitVars>>

(* The master serializes the queues of its rank and sends one message to   *)
(* every thread of another rank, also when there is nothing to tell.       *)
SendRank(x) ==
  /\ pc[x] = "xSend"
  /\ net' = [m \in Ranks \X RankInfo |->
               IF m[1] = x[1] /\ m[2][1] # x[1]
               THEN Append(net[m], {e \in rq[x[1]] : Home[e.comp] = m[2]})
               ELSE net[m]]
  /\ rq' = [rq EXCEPT ![x[1]] = {}]
  /\ Goto(x, "xRecv")
  /\ UNCHANGED <<tv, now, back, syncVars, tq, got, endVars, compVars, exitVars>>

(* Thread x delivers the message of rank r, which its master has received: *)
(* getDeliveryLink(ev)->send(delivery time - current cycle, ev).           *)
ReceiveRank(x, r) ==
  /\ pc[x] = "xRecv" /\ pc[Master(x[1])] \in {"xRecv", "xDone"}
  /\ r \notin got[x] /\ net[r, x] # <<>>
  /\ tv' = [tv EXCEPT ![x] =
              @ \cup {[e EXCEPT !.time = Plus(now[x], Minus(@, now[x]))] :
                        e \in Head(net[r, x])}]
  /\ net' = [net EXCEPT ![<<r, x>>] = Tail(@)]
  /\ got' = [got EXCEPT ![x] = @ \cup {r}]
  /\ UNCHANGED <<now, pc, back, syncVars, tq, rq, endVars, compVars, exitVars>>

(* All messages of this exchange have been delivered by x. *)
ReceivedAll(x) ==
  /\ pc[x] = "xRecv" /\ got[x] = Ranks \ {x[1]}
  /\ got' = [got EXCEPT ![x] = {}]
  /\ Goto(x, IF NumThreads = 1 THEN "xReduce" ELSE "xDone")
  /\ UNCHANGED <<tv, now, back, syncVars, tq, rq, net, endVars, compVars, exitVars>>

(* fault: one cycle more than the lookahead allows *)
ReduceLate ==
  /\ \A x \in Masters : pc[x] = "xReduce"
  /\ LET earliest == MinTime({LocalMinimum(r) : r \in Ranks})
     IN  rankNext' = [r \in Ranks |-> Plus(earliest, RankLat + 1)]
  /\ rq' = [r \in Ranks |-> {}]
  /\ pc' = [x \in RankInfo |-> IF x \notin Masters THEN pc[x]
                              ELSE IF NumThreads = 1 THEN "R2" ELSE "xAll"]
  /\ UNCHANGED <<tv, now, back, syncType, threadNext, tq, net, got, endVars,
                 compVars, exitVars>>

(* fault: every rank uses its own earliest activity *)
ReduceOwn ==
  /\ \A x \in Masters : pc[x] = "xReduce"
  /\ rankNext' = [r \in Ranks |-> Plus(LocalMinimum(r), RankLat)]
  /\ rq' = [r \in Ranks |-> {}]
  /\ pc' = [x \in RankInfo |-> IF x \notin Masters THEN pc[x]
                              ELSE IF NumThreads = 1 THEN "R2" ELSE "xAll"]
  /\ UNCHANGED <<tv, now, back, syncType, threadNext, tq, net, got, endVars,
                 compVars, exitVars>>

(* squeue->clear(), and the MPI_Allreduce that finds the next rank sync:   *)
(* max_period after the earliest activity of all ranks.                    *)
ReduceNext ==
  /\ \A x \in Masters : pc[x] = "xReduce"
  /\ LET earliest == MinTime({LocalMinimum(r) : r \in Ranks})
     IN  rankNext' = [r \in Ranks |-> Plus(earliest, RankLat)]
  /\ rq' = [r \in Ranks |-> {}]
  /\ pc' = [x \in RankInfo |-> IF x \notin Masters THEN pc[x]
                              ELSE IF NumThreads = 1 THEN "R2" ELSE "xAll"]
  /\ UNCHANGED <<tv, now, back, syncType, threadNext, tq, net, got, endVars,
                 compVars, exitVars>>

(* fault: a thread looks only at its own next activity *)
AfterOwn(x) ==
  /\ pc[x] = "after"
  /\ LET nextmin == MinTime({a.time : a \in Earliest(tv[x])})
         next == IF Direct THEN Plus(nextmin, ThreadLat(x[1]))
                 ELSE MaxOf(nextmin, Plus(nextmin, ThreadLat(x[1])))
     IN  threadNext' = [threadNext EXCEPT ![x] = IF ThreadLat(x[1]) = MaxTime THEN @ ELSE next]
  /\ Goto(x, IF syncType[x] = "RANK" THEN "R3" ELSE "T2")
  /\ UNCHANGED <<tv, now, back, syncType, rankNext, queueVars, endVars, compVars,
                 exitVars>>

(* threadSync->after() *)
After(x) ==
  /\ pc[x] = "after"
  /\ LET nextmin == LocalMinimum(x[1])
         next == IF Direct THEN Plus(now[x], ThreadLat(x[1]))
                 ELSE MaxOf(nextmin, Plus(nextmin, ThreadLat(x[1])))
     IN  threadNext' = [threadNext EXCEPT ![x] = IF ThreadLat(x[1]) = MaxTime THEN @ ELSE next]
  /\ Goto(x, IF syncType[x] = "RANK" THEN "R3" ELSE "T2")
  /\ UNCHANGED <<tv, now, back, syncType, rankNext, queueVars, endVars, compVars,
                 exitVars>>

(* exit->check() by the masters, a collective of all ranks.  A single rank *)
(* would end the simulation from inside it, but has no rank sync before    *)
(* the end of time (MinPart).                                              *)
CheckRanks ==
  /\ NumRanks > 1
  /\ \A x \in Masters : pc[x] = "check"
  /\ CheckExit(Ranks)
  /\ pc' = [x \in RankInfo |-> IF x \in Masters THEN "R4" ELSE pc[x]]
  /\ UNCHANGED <<tv, now, back, syncVars, queueVars, endVars, compVars>>

(* fault: the count of the rank decides for all ranks *)
OverLocally(x) == refCount[x[1]] = 0

(* Is it over?  After a rank sync the global count tells, after a thread   *)
(* sync of a rank without rank syncs its own count.                        *)
Over(x) ==
  IF syncType[x] = "RANK" THEN globalCount[x[1]] = 0
  ELSE MinPart = MaxTime /\ refCount[x[1]] = 0

EndOrNext(x) ==
  /\ pc[x] = "end"
  /\ IF Over(x) THEN EndSimulation(x, endTime[x[1]], "next")
     ELSE Goto(x, "next") /\ UNCHANGED <<back, endVars>>
  /\ UNCHANGED <<tv, now, syncVars, queueVars, compVars, exitVars>>

(* fault: nobody waits for the slow threads *)
InsertNextNoBarrier(x) ==
  /\ pc[x] = "next"
  /\ LET rn == rankNext[x[1]]
         tn == threadNext[x]
     IN  /\ syncType' = [syncType EXCEPT ![x] = NextType(x[1], rn, tn)]
         /\ tv' = [tv EXCEPT ![x] = @ \cup {SyncAt(NextCycle(x[1], rn, tn))}]
  /\ Goto(x, "run")
  /\ UNCHANGED <<now, back, threadNext, rankNext, queueVars, endVars, compVars,
                 exitVars>>

(* computeNextInsert(), then the barrier that keeps a fast thread from     *)
(* running components while a slow one still looks at the Exit object.     *)
InsertNext(x) ==
  /\ pc[x] = "next"
  /\ LET rn == rankNext[x[1]]
         tn == threadNext[x]
     IN  /\ syncType' = [syncType EXCEPT ![x] = NextType(x[1], rn, tn)]
         /\ tv' = [tv EXCEPT ![x] = @ \cup {SyncAt(NextCycle(x[1], rn, tn))}]
  /\ Goto(x, "R5")
  /\ UNCHANGED <<now, back, threadNext, rankNext, queueVars, endVars, compVars,
                 exitVars>>

(* fault: every rank takes its own end time *)
FinalEndTimeOwn ==
  /\ \A x \in Masters : pc[x] = "final"
  /\ endCycle' = [x \in RankInfo |-> IF x \in Masters THEN endTime[x[1]]
                                     ELSE endCycle[x]]
  /\ pc' = [x \in RankInfo |-> IF x \in Masters THEN "done" ELSE pc[x]]
  /\ UNCHANGED <<tv, now, back, syncVars, queueVars, endSim, compVars, exitVars>>

(* run() after the loop: without rank syncs the ranks only now agree on    *)
(* the end time, and only thread 0 of each takes it.                       *)
FinalEndTime ==
  /\ \A x \in Masters : pc[x] = "final"
  /\ endTime' = [r \in Ranks |-> LatestEnd(Ranks)]
  /\ endCycle' = [x \in RankInfo |-> IF x \in Masters THEN LatestEnd(Ranks)
                                     ELSE endCycle[x]]
  /\ pc' = [x \in RankInfo |-> IF x \in Masters THEN "done" ELSE pc[x]]
  /\ UNCHANGED <<tv, now, back, syncVars, queueVars, endSim, compVars, idSet,
                 refCount, threadCount, globalCount>>

(* Every thread has come out of run(). *)
Finished ==
  /\ \A x \in RankInfo : pc[x] = "done"
  /\ UNCHANGED vars

----------------------------------------------------------------------------
ThreadStep(x) ==
  \/ Handle(x) \/ Stop(x) \/ Sync(x) \/ LeaveLoop(x)
  \/ Before(x) \/ SendRank(x) \/ (\E r \in Ranks : ReceiveRank(x, r))
  \/ ReceivedAll(x) \/ After(x) \/ EndOrNext(x) \/ InsertNext(x)

Meeting ==
  \/ \E r \in Ranks, b \in Barriers : Barrier(r, b)
  \/ ReduceNext \/ CheckRanks \/ FinalEndTime

Next == (\E x \in RankInfo : ThreadStep(x)) \/ Meeting \/ Finished

Spec == Init /\ [][Next]_vars

(* Every thread is an OS thread of its own and keeps running; who is at a  *)
(* complete barrier or collective gets out of it.                          *)
FairSpec ==
  /\ Spec
  /\ \A x \in RankInfo : WF_vars(ThreadStep(x))
  /\ WF_vars(Meeting)

----------------------------------------------------------------------------
(* What is assumed of a run where simulated time is not to overflow: its   *)
(* first events come by first, an event comes at most step cycles after    *)
(* the one it is sent from, and for all the events that may be sent, and   *)
(* two syncs after the last, there is time.                                *)
Fits(g, first, step) ==
  /\ \A c \in DOMAIN g.start : g.start[c] <= first
  /\ \A l \in ({0, LocalLat, g.rankLat} \cup {g.threadLat[r] : r \in Ranks}) \ {MaxTime},
        d \in {0} \cup Delays : l + d <= step
  /\ \A d \in Periods : d <= step
  /\ first + (Cardinality(Comps) * MaxSends + 2) * step <= MaxTime

Room == \A g \in Configs : \E first, step \in SimTime : Fits(g, first, step)

(* And where nobody who has nothing to do holds the simulation open.       *)
Occupied == \A g \in Configs : g.primary \subseteq DOMAIN g.start

----------------------------------------------------------------------------
(* Properties.                                                             *)

(* The events on their way to thread x that are not in its vortex yet. *)
InTransit(x) ==
  tq[x] \cup {e \in UNION {rq[r] : r \in Ranks} : Home[e.comp] = x}
  \cup UNION {UNION {net[r, x][i] : i \in DOMAIN net[r, x]} : r \in Ranks}

Pending ==
  UNION {{a \in tv[x] : a.kind = "event"} \cup InTransit(x) : x \in RankInfo}

(* Lookahead is never exceeded: no thread's clock overtakes an event still *)
(* on its way to it, which would be delivered into the thread's past:      *)
(* delivery time - current cycle wraps, and back when send() adds it to    *)
(* the cycle (threadSyncSimpleSkip.cc:109, rankSyncSerialSkip.cc:210,      *)
(* rankSyncParallelSkip.cc:213).                                           *)
NoStraggler == \A x \in RankInfo : \A e \in InTransit(x) : now[x] <= e.time

(* The parallel run is a discrete-event simulation: no event is lost,      *)
(* handled twice, early, late or before an earlier one, whichever queues,  *)
(* messages and syncs carry it (simulation.cc:679-683).                    *)
Abs == INSTANCE EventOrder
         WITH Threads <- RankInfo, pend <- Pending, clock <- now
EventOrdered == Abs!Spec

(* Threads meet in the same sync: those of a rank that are in a sync are   *)
(* in one of the same type and cycle, and ranks only exchange in the same  *)
(* cycle, with the same next cycle in mind (syncManager.cc:331, :421).     *)
InSync(x) == pc[x] \in (Barriers \cup SyncCode) \ {"exitB", "runB", "next", "R5"}
InExchange(x) == pc[x] \in {"xStart", "xSend", "xRecv", "xDone", "xReduce", "xAll"}

SameSync ==
  \A x, y \in RankInfo :
    /\ x[1] = y[1] /\ InSync(x) /\ InSync(y)
         => syncType[x] = syncType[y] /\ now[x] = now[y]
    /\ InExchange(x) /\ InExchange(y) => now[x] = now[y]
    /\ pc[x] = "run" /\ pc[y] = "run" /\ x[1] = y[1] =>
         syncType[x] = syncType[y] /\ threadNext[x] = threadNext[y]

(* The threads whose end is one decision: all, where links cross ranks;    *)
(* those of a rank, where they cross its threads only.                     *)
Together(x) ==
  IF MinPart # MaxTime THEN RankInfo
  ELSE IF ThreadLat(x[1]) # MaxTime THEN ThreadsOf(x[1]) ELSE {x}

(* Has --stop-at ended thread x?  And has it, as thread 0 of a rank without *)
(* rank syncs, taken the end time of all ranks after the loop?             *)
Stopped(x) == StopCycle # 0 /\ endCycle[x] = StopCycle
TakenFinal(x) == MinPart = MaxTime /\ NumRanks > 1 /\ x \in Masters /\ pc[x] = "done"

(* A thread ends only once every component it depends on has said OK, and  *)
(* none takes it back afterwards (component.h:86-88), unless --stop-at     *)
(* ends it.                                                                *)
EndsAllOK ==
  \A x \in RankInfo :
    ~Independent(x[1]) /\ endSim[x] /\ ~Stopped(x) /\ ~TakenFinal(x) =>
      \A y \in Together(x) : idSet[y[1]] \cap PlacedOn(y) = {}

(* Threads that end together end with the same simulated time: that at     *)
(* which the last of their components said OK (exit.cc:113, exit.cc:149),  *)
(* or that of --stop-at.                                                   *)
LastOf(C) == MinTime({t \in SimTime : \A c \in C : okAt[c] <= t})
LastOK(x) == LastOf({c \in Comps : Home[c] \in Together(x)})
EndTimeAgreed ==
  \A x \in RankInfo : \A y \in Together(x) :
    ~Independent(x[1]) /\ endSim[x] /\ endSim[y] /\ ~TakenFinal(x) /\ ~TakenFinal(y) =>
      /\ endCycle[x] = endCycle[y]
      /\ endCycle[x] = LastOK(x) \/ Stopped(x)

(* Threads that share no link end one by one, each when its own components *)
(* have said OK and at the cycle of the last of them (exit.cc:115-120), or *)
(* at that of --stop-at; only thread 0 of a rank takes another time, after *)
(* the loop.                                                               *)
OwnEnd ==
  \A x \in RankInfo : Independent(x[1]) /\ endSim[x] /\ ~TakenFinal(x) =>
    \/ Stopped(x)
    \/ idSet[x[1]] \cap PlacedOn(x) = {} /\ endCycle[x] = LastOK(x)

(* Ranks without links find one end time for all of them after the loop,   *)
(* whatever each of them ended with (simulation.cc:735-738).               *)
FinalTimeAgreed ==
  \A x, y \in Masters :
    pc[x] = "done" /\ pc[y] = "done" => endCycle[x] = endCycle[y]

(* The simulation ends: nobody waits for ever in a barrier or a collective *)
(* that somebody else does not come to (simulation.cc:679, :797).          *)
Ends == <>(\A x \in RankInfo : pc[x] = "done")

----------------------------------------------------------------------------
(* What the code says of itself.                                           *)

(* simulation.cc:735-736: the final check gets the right simulated time;   *)
(* rank 0 reports the largest of its threads (main.cc:911).                *)
ReportedTimeRight ==
  (\A x \in RankInfo : pc[x] = "done") =>
    /\ \A x \in ThreadsOf(0) : endCycle[x] <= LastOf(Comps)
    /\ \E x \in ThreadsOf(0) : endCycle[x] = LastOf(Comps)
=============================================================================
