------------------------------ MODULE LifeCycle ------------------------------
(***************************************************************************)
(* The life of a simulation around its run (main.cc, simulation.cc,        *)
(* link.cc): rounds of init() in which components send untimed data and    *)
(* fill shared objects, setup(), the run, and rounds of complete().  Every *)
(* thread of every rank goes through it; the threads of a rank meet in     *)
(* barriers, thread 0 of all ranks in the collectives of MPI.  A round is  *)
(* the last when nobody has sent anything in it.                           *)
(*                                                                         *)
(* Barriers with nothing between them are one barrier.                     *)
(***************************************************************************)
EXTENDS SharedObjects, Sequences

CONSTANTS Channels,         \* directions of links, <<from, to>>
          CompOrder,        \* the order of compInfoMap
          MaxSends,         \* bound: calls in which components send
          MaxUses,          \* bound: uses of the map beside so many of them
          Late,             \* delivery time of an event of the run
          Stops             \* whether --stop-at may end the run between syncs

ASSUME LifeAssumption ==
  /\ Channels \subseteq Comps \X Comps /\ MaxSends \in Nat
  /\ MaxUses \in [0 .. MaxSends -> Nat]
  /\ CompOrder \in Seq(Comps) /\ \A c \in Comps : \E i \in DOMAIN CompOrder : CompOrder[i] = c
  /\ Late \in Nat /\ Late > MaxSends + 1 /\ Stops \subseteq BOOLEAN

VARIABLES pc,               \* where each thread is
          stage,            \* "init" or "complete", the loop it is in or before
          phase,            \* untimed_phase, per thread
          called,           \* components called in this round
          mode,             \* of the links of each thread
          msgCount,         \* untimed_msg_count, per rank
          transit,          \* per channel: what is in the queue of a thread
                            \* sync or a rank sync
          inbox,            \* per channel: the InitQueue at the receiver
          sent,             \* calls in which components have sent
          stopped           \* --stop-at, fixed

linkVars == <<msgCount, transit, inbox, sent>>
vars == <<pc, stage, phase, called, mode, linkVars, stopped, sharedVars>>

(* The barriers, and where a thread goes from there. *)
After ==
  [init0 |-> "update0",     \* simulation.cc:537, main.cc:419
   top |-> "reset",         \* :541, :594
   start |-> "call",        \* :543, :596
   called |-> "process",    \* :550, :602, syncManager.cc:389
   processed |-> "ranks",   \* syncManager.cc:391
   exchanged |-> "decide",  \* syncManager.cc:393, simulation.cc:552, :604
   setup0 |-> "lock",       \* :617, main.cc:422
   setup1 |-> "setup",      \* :622
   setup2 |-> "run",        \* :628, main.cc:426
   complete0 |-> "prepare", \* :581, :731, main.cc:430
   ended |-> "end"]         \* main.cc:433

PCs == DOMAIN After \cup {After[b] : b \in DOMAIN After} \cup {"update", "finalize"}

Data(p, n) == [time |-> p, nth |-> n]
Msgs == [time : Nat, nth : 0 .. MaxSends]

TypeOK ==
  /\ SharedTypeOK
  /\ pc \in [RankInfo -> PCs] /\ stage \in [RankInfo -> {"init", "complete"}]
  /\ phase \in [RankInfo -> 0 .. Late - 1]
  /\ called \subseteq Comps
  /\ mode \in [RankInfo -> {"INIT", "RUN", "COMPLETE"}]
  /\ msgCount \in [Ranks -> Nat]
  /\ transit \in [Channels -> Seq(Msgs)] /\ inbox \in [Channels -> Seq(Msgs)]
  /\ sent \in 0 .. MaxSends /\ stopped \in BOOLEAN

IsLocal(ch) == Home[ch[1]] = Home[ch[2]]
SameRank(ch) == Home[ch[1]][1] = Home[ch[2]][1]
Into(x) == {ch \in Channels : Home[ch[2]] = x}
From(c) == {ch \in Channels : ch[1] = c}
To(c) == {ch \in Channels : ch[2] = c}
OnThread(x) == {c \in Comps : Home[c] = x}

Init ==
  /\ SharedInit
  /\ pc = [x \in RankInfo |-> "init0"]
  /\ stage = [x \in RankInfo |-> "init"] /\ phase = [x \in RankInfo |-> 0]
  /\ called = {} /\ mode = [x \in RankInfo |-> "INIT"]
  /\ msgCount = [r \in Ranks |-> 0]
  /\ transit = [ch \in Channels |-> <<>>] /\ inbox = transit
  /\ sent = 0
  /\ stopped \in Stops

Goto(x, l) == pc' = [pc EXCEPT ![x] = l]

(* What only thread 0 does, the others pass by, and a thread without        *)
(* components has none to call.                                            *)
Past == [update0 |-> "top", reset |-> "start", ranks |-> "exchanged", lock |-> "setup1"]

GoesTo(x, b) ==
  LET l == After[b]
  IN  IF x[2] # 0 /\ l \in DOMAIN Past THEN Past[l]
      ELSE IF l = "call" /\ OnThread(x) = {} THEN "called" ELSE l

(* The threads of rank r have all come to a barrier. *)
Barrier(r) ==
  /\ \A x \in ThreadsOf(r) : pc[x] = pc[Master(r)] /\ pc[x] \in DOMAIN After
  /\ pc' = [x \in RankInfo |-> IF x[1] = r THEN GoesTo(x, pc[x]) ELSE pc[x]]
  /\ UNCHANGED <<stage, phase, called, mode, linkVars, stopped, sharedVars>>

(* untimed_msg_count = 0 *)
Reset(r) ==
  /\ pc[Master(r)] = "reset"
  /\ msgCount' = [msgCount EXCEPT ![r] = 0]
  /\ Goto(Master(r), "start")
  /\ UNCHANGED <<stage, phase, called, mode, transit, inbox, sent, stopped, sharedVars>>

----------------------------------------------------------------------------
(* init(phase) or complete(phase) of component c.                          *)

(* recvUntimedData until it returns nullptr. *)
Readable(x, q) ==
  LET n == CHOOSE i \in 0 .. Len(q) :
             /\ \A j \in 1 .. i : q[j].time <= phase[x]
             /\ i < Len(q) => q[i + 1].time > phase[x]
  IN  SubSeq(q, 1, n)
Left(x, q) == SubSeq(q, Len(Readable(x, q)) + 1, Len(q))

Uses == Cardinality(sharing) + Cardinality(published) + Cardinality(written)

(* sendUntimedData on the channels of S, after everything was read. *)
Exchange(c, S) ==
  LET x == Home[c]
      msg == Data(phase[x] + 1, sent + 1)
      Read(ch) == IF ch \in To(c) THEN Left(x, inbox[ch]) ELSE inbox[ch]
  IN  /\ S # {} => sent < MaxSends /\ Uses <= MaxUses[sent + 1]
      /\ sent' = IF S = {} THEN sent ELSE sent + 1
      /\ msgCount' = [msgCount EXCEPT ![x[1]] = @ + Cardinality(S)]
      /\ inbox' = [ch \in Channels |-> IF ch \in S /\ IsLocal(ch)
                                       THEN Append(Read(ch), msg) ELSE Read(ch)]
      /\ transit' = [ch \in Channels |-> IF ch \in S /\ ~IsLocal(ch)
                                         THEN Append(transit[ch], msg)
                                         ELSE transit[ch]]

(* The components of a thread, one after the other. *)
NextCalled(x) ==
  LET left == {i \in DOMAIN CompOrder : CompOrder[i] \in OnThread(x) \ called}
  IN  CompOrder[MinTime(left)]

(* In init() a component may use the shared map, before it exchanges data. *)
Share(x) ==
  LET c == NextCalled(x)
  IN  /\ pc[x] = "call" /\ stage[x] = "init" /\ Uses < MaxUses[sent]
      /\ \/ Initialize(c)
         \/ \E k \in Keys, v \in Values : Write(c, k, v)
         \/ Publish(c)
      /\ UNCHANGED <<pc, stage, phase, called, mode, linkVars, stopped>>

Call(x) ==
  LET c == NextCalled(x)
      last == OnThread(x) \ called = {c}
  IN  /\ pc[x] = "call" /\ mode[x] # "RUN"
      /\ \E S \in SUBSET From(c) : Exchange(c, S)
      /\ called' = IF last THEN called \ OnThread(x) ELSE called \cup {c}
      /\ pc' = IF last THEN [pc EXCEPT ![x] = "called"] ELSE pc
      /\ UNCHANGED <<stage, phase, mode, stopped, sharedVars>>

----------------------------------------------------------------------------
(* The end of a round.                                                     *)

Delivered(D) ==
  /\ inbox' = [ch \in Channels |-> IF ch \in D THEN inbox[ch] \o transit[ch] ELSE inbox[ch]]
  /\ transit' = [ch \in Channels |-> IF ch \in D THEN <<>> ELSE transit[ch]]

(* fault: thread 0 does it for the others *)
ProcessMaster(x) ==
  /\ pc[x] = "process"
  /\ IF x[2] = 0 THEN Delivered({ch \in Into(x) : SameRank(ch) /\ ~IsLocal(ch)})
     ELSE UNCHANGED <<inbox, transit>>
  /\ Goto(x, "processed")
  /\ UNCHANGED <<stage, phase, called, mode, msgCount, sent, stopped, sharedVars>>

(* processLinkUntimedData: the queues from the other threads of the rank. *)
Process(x) ==
  /\ pc[x] = "process"
  /\ Delivered({ch \in Into(x) : SameRank(ch) /\ ~IsLocal(ch)})
  /\ Goto(x, "processed")
  /\ UNCHANGED <<stage, phase, called, mode, msgCount, sent, stopped, sharedVars>>

CountOf(R) ==
  LET sum[S \in SUBSET R] ==
        IF S = {} THEN 0
        ELSE LET r == CHOOSE s \in S : TRUE IN msgCount[r] + sum[S \ {r}]
  IN  sum[R]

(* fault: every rank looks at its own count *)
ExchangeRanksOwn ==
  /\ \A r \in Ranks : pc[Master(r)] = "ranks"
  /\ Delivered({ch \in Channels : ~SameRank(ch)})
  /\ pc' = [x \in RankInfo |-> IF x[2] = 0 THEN "exchanged" ELSE pc[x]]
  /\ UNCHANGED <<stage, phase, called, mode, msgCount, sent, stopped, sharedVars>>

(* exchangeLinkUntimedData: the data for the other ranks, and the sum of    *)
(* what was sent on all of them.                                           *)
ExchangeRanks ==
  /\ \A r \in Ranks : pc[Master(r)] = "ranks"
  /\ Delivered({ch \in Channels : ~SameRank(ch)})
  /\ msgCount' = [r \in Ranks |-> CountOf(Ranks)]
  /\ pc' = [x \in RankInfo |-> IF x[2] = 0 THEN "exchanged" ELSE pc[x]]
  /\ UNCHANGED <<stage, phase, called, mode, sent, stopped, sharedVars>>

(* Is the round the last one?  In init, thread 0 goes on to updateState. *)
Decide(x) ==
  /\ pc[x] = "decide"
  /\ phase' = [phase EXCEPT ![x] = @ + 1]
  /\ Goto(x, IF stage[x] = "init" /\ x[2] = 0 THEN "update"
             ELSE IF msgCount[x[1]] # 0 THEN "top"
             ELSE IF stage[x] = "init" THEN "finalize" ELSE "ended")
  /\ UNCHANGED <<stage, called, mode, linkVars, stopped, sharedVars>>

(* A thread 0 remembers what it has read of the count: done. *)
Done(r) == msgCount[r] = 0

Updating(r) == pc[Master(r)] \in {"update0", "update", "lock"}

Update ==
  /\ \A r \in Ranks : Updating(r)
  /\ UpdateState(\A r \in Ranks : pc[Master(r)] = "lock")
  /\ pc' = [x \in RankInfo |->
              IF x[2] # 0 THEN pc[x]
              ELSE CASE pc[x] = "update0" -> "top"
                     [] pc[x] = "update" -> IF Done(x[1]) THEN "finalize" ELSE "top"
                     [] pc[x] = "lock" -> "setup1"]
  /\ UNCHANGED <<stage, phase, called, mode, linkVars, stopped>>

----------------------------------------------------------------------------
(* finalizeLinkConfiguration: what nobody has read is gone. *)
Finalize(x) ==
  /\ pc[x] = "finalize"
  /\ mode' = [mode EXCEPT ![x] = "RUN"]
  /\ inbox' = [ch \in Channels |-> IF ch \in Into(x) THEN <<>> ELSE inbox[ch]]
  /\ Goto(x, "setup0")
  /\ UNCHANGED <<stage, phase, called, msgCount, transit, sent, stopped, sharedVars>>

(* setup() of the components, who may send events of the run. *)
Setup(x) ==
  /\ pc[x] = "setup" /\ mode[x] = "RUN"
  /\ Goto(x, "setup2")
  /\ UNCHANGED <<stage, phase, called, mode, linkVars, stopped, sharedVars>>

(* The run ends in a sync, with the queues between threads and ranks empty, *)
(* or at --stop-at, with what was sent since the last sync still in them.  *)
Run(x) ==
  /\ pc[x] = "run"
  /\ \E S \in SUBSET {ch \in Channels : Home[ch[1]] = x /\ ~IsLocal(ch)} :
       /\ S # {} => stopped
       /\ transit' = [ch \in Channels |-> IF ch \in S THEN <<Data(Late, 0)>>
                                          ELSE transit[ch]]
  /\ stage' = [stage EXCEPT ![x] = "complete"]
  /\ Goto(x, "complete0")
  /\ UNCHANGED <<phase, called, mode, msgCount, inbox, sent, stopped, sharedVars>>

(* untimed_phase = 0 and prepareForComplete *)
Prepare(x) ==
  /\ pc[x] = "prepare"
  /\ phase' = [phase EXCEPT ![x] = 0]
  /\ mode' = [mode EXCEPT ![x] = "COMPLETE"]
  /\ inbox' = [ch \in Channels |-> IF ch \in Into(x) THEN <<>> ELSE inbox[ch]]
  /\ Goto(x, "top")
  /\ UNCHANGED <<stage, called, msgCount, transit, sent, stopped, sharedVars>>

Ended == (failed \/ \A x \in RankInfo : pc[x] = "end") /\ UNCHANGED vars

Step(x) ==
  \/ Share(x) \/ Call(x) \/ Process(x) \/ Decide(x)
  \/ Finalize(x) \/ Setup(x) \/ Run(x) \/ Prepare(x)

Next ==
  \/ /\ ~failed
     /\ \/ \E r \in Ranks : Barrier(r) \/ Reset(r)
        \/ \E x \in RankInfo : Step(x)
        \/ ExchangeRanks \/ Update
  \/ Ended

Spec == Init /\ [][Next]_vars

(* Threads keep running, and components come to an end of what they do. *)
FairSpec == Spec /\ WF_vars(Next)

----------------------------------------------------------------------------
(* Properties.                                                             *)

Calling(x) == pc[x] = "call"

(* All threads of all ranks are in the same round, and leave the loop      *)
(* together (simulation.cc:554, :606).                                     *)
BeyondLoop(y, s) ==
  \/ pc[y] \in {"ended", "end"}
  \/ s = "init" /\ (stage[y] # "init"
                    \/ pc[y] \in {"finalize", "setup0", "lock", "setup1", "setup", "setup2", "run"})
RoundsAgree ==
  \A x, y \in RankInfo : Calling(x) =>
    /\ ~BeyondLoop(y, stage[x])
    /\ Calling(y) => stage[x] = stage[y] /\ phase[x] = phase[y]

RoundInv == TypeOK /\ RoundsAgree

(* What is sent in one round can be read in the next, wherever the sender  *)
(* is, and not before (link.cc:295, :322): when components are called,     *)
(* only data of this round is on its way, and the rest is in front of the  *)
(* receiver, in the order in which it was sent.                            *)
ReadNextRound ==
  \A x \in RankInfo : Calling(x) =>
    \A ch \in Into(x) :
      /\ \A i \in DOMAIN transit[ch] : transit[ch][i].time = phase[x] + 1
      /\ \A i \in DOMAIN inbox[ch] :
           inbox[ch][i].time \in {phase[x]} \cup (IF IsLocal(ch) THEN {phase[x] + 1} ELSE {})
      /\ \A i, j \in DOMAIN inbox[ch] : i < j => inbox[ch][i].nth < inbox[ch][j].nth

(* When the rounds are over nothing is left that nobody has read. *)
NothingLost ==
  \A x \in RankInfo : pc[x] \in {"finalize", "ended", "end"} =>
    \A ch \in Into(x) : transit[ch] = <<>> /\ inbox[ch] = <<>>

(* Every thread gets to the end: the barriers and the collectives match. *)
AllEnd == <>(failed \/ \A x \in RankInfo : pc[x] = "end")

----------------------------------------------------------------------------
(* What the code says of itself.                                           *)

(* link.h:150-152: recvUntimedData returns nullptr if no event is          *)
(* available: what was sent in the last round can be read in this one.     *)
AvailableIsReturned ==
  \A x \in RankInfo : Calling(x) =>
    \A c \in OnThread(x) \ called : \A ch \in To(c) :
      (\E i \in DOMAIN inbox[ch] : inbox[ch][i].time = phase[x])
        => Readable(x, inbox[ch]) # <<>>
=============================================================================
