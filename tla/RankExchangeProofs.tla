------------------------- MODULE RankExchangeProofs -------------------------
(***************************************************************************)
(* For any number of ranks and threads, any links between them, any plan   *)
(* of exchanges and any sizes: an exchange of RankExchange hands over what *)
(* was queued, all of it and once, and no message is longer than the       *)
(* buffer that waits for it.                                               *)
(***************************************************************************)
EXTENDS RankExchange, FiniteSetTheorems, SequenceTheorems, TLAPS

(* How far the data of a connection is in an exchange.  At every moment it *)
(* is in one place: in a queue, in the hands of a thread, or on the wire.  *)
Unsent == {"queued", "serializing", "serialized"}
Stages == Unsent \cup {"none", "sent", "received", "taken", "counted", "deserialized", "done"}

(* hold is an entry of the send map, or one of the receive map that the    *)
(* thread has not, or has, counted down.                                   *)
HoldStage(x) ==
  IF pc[x] = "count" THEN "taken" ELSE IF pc[x] = "deser" THEN "counted" ELSE "serializing"

QueueTypes ==
  /\ serQ \in [Ranks -> Seq(Conns)] /\ sendQ \in [Ranks -> Seq(Conns)]
  /\ desQ \in [Ranks -> Seq(Conns)] /\ linkQ \in [Threads -> Seq(Conns)]
  /\ hold \in [Threads -> SUBSET Conns]
  /\ posted \in [Ranks -> SUBSET Conns] /\ \A r \in Ranks : posted[r] \subseteq RecvMap(r)
  /\ toSend \in [Ranks -> Nat] /\ remaining \in [Ranks -> Nat]
  /\ toDeliver \in [Threads -> Nat]
  /\ \A r \in Ranks : /\ toSend[r] <= Cardinality(SendMap(r))
                      /\ remaining[r] <= Cardinality(RecvMap(r))
  /\ \A x \in Threads : toDeliver[x] <= RecvCount(x)

NetTypes ==
  /\ wire \in [Conns -> Seq(Messages)] /\ wire2 \in [Conns -> Seq(Messages)]
  /\ remoteSize \in [Conns -> Sizes \cup {FirstSize}]
  /\ localSize \in [Conns -> Sizes \cup {FirstSize}]
  /\ rbuf \in [Conns -> Messages]
  /\ delivered \in [Conns -> 0 .. Len(Plan)]

MasterOnly == {"fill", "post", "send", "recv", "reduce", "direct", "collect"}
Sharing == {"ser", "deliver", "count", "deser", "slaveDone", "trap"}

(* Where the slaves of a rank are, as the master goes along. *)
PcInv ==
  /\ pc \in [Threads -> Barriers \cup MasterOnly \cup Sharing]
  /\ syncs \in 0 .. Len(Plan)
  /\ \A r \in Ranks, x \in Threads : x[1] = r /\ x # Master(r) =>
       /\ pc[Master(r)] = "run" => pc[x] = "run"
       /\ pc[Master(r)] \in {"fill", "ready"} => pc[x] = "ready"
       /\ pc[Master(r)] \in {"direct", "collect", "reduce", "allDone"} => pc[x] = "allDone"
       /\ pc[Master(r)] \in {"post", "send", "recv"} \cup Sharing => pc[x] \in Sharing
  /\ \A r \in Ranks : pc[Master(r)] \notin {"run", "allDone"} => syncs < Len(Plan)

(* An entry is in a queue once, and in one of its rank or thread. *)
NoDup(Q) == \A i, j \in 1 .. Len(Q) : Q[i] = Q[j] => i = j
QueueInv ==
  /\ \A r \in Ranks : /\ NoDup(serQ[r]) /\ Range(serQ[r]) \subseteq SendMap(r)
                      /\ NoDup(sendQ[r]) /\ Range(sendQ[r]) \subseteq SendMap(r)
                      /\ NoDup(desQ[r]) /\ Range(desQ[r]) \subseteq RecvMap(r)
  /\ \A x \in Threads : NoDup(linkQ[x]) /\ \A k \in Range(linkQ[x]) : k[2] = x

HoldInv ==
  /\ \A x \in Threads : \A k, l \in hold[x] : k = l
  /\ \A x, y \in Threads : x # y => hold[x] \cap hold[y] = {}
  /\ \A x \in Threads : \A k \in hold[x] :
       IF HoldStage(x) = "serializing" THEN k[1] = x[1] ELSE k[2][1] = x[1]
  /\ \A x \in Threads : /\ pc[x] = "deliver" => hold[x] = {}
                        /\ pc[x] = "count" => hold[x] # {}

(* st is the stage of every connection. *)
PlaceAt(st, k) ==
  /\ k \in Range(serQ[k[1]]) <=> st[k] = "queued"
  /\ \A x \in Threads : k \in hold[x] => st[k] = HoldStage(x)
  /\ st[k] \in {"serializing", "taken", "counted"} => \E x \in Threads : k \in hold[x]
  /\ k \in Range(sendQ[k[1]]) <=> st[k] = "serialized"
  /\ k \in Range(desQ[k[2][1]]) <=> st[k] = "received"
  /\ k \in Range(linkQ[k[2]]) <=> st[k] = "deserialized"
  /\ delivered[k] = IF st[k] = "done" THEN syncs + 1 ELSE syncs

(* What is on the wire is of this exchange, and fits into the buffer that  *)
(* it will find.                                                           *)
WireAt(st, k) ==
  /\ st[k] # "sent" =>
       wire[k] = <<>> /\ wire2[k] = <<>> /\ remoteSize[k] <= localSize[k]
  /\ st[k] = "sent" =>
       /\ Len(wire[k]) = 1 /\ wire[k][1].sync = syncs + 1
       /\ wire[k][1].mode = 0 =>
            /\ wire2[k] = <<>> /\ wire[k][1].size <= remoteSize[k]
            /\ remoteSize[k] <= localSize[k]
       /\ wire[k][1].mode = 1 =>
            wire2[k] = wire[k] /\ wire[k][1].size = remoteSize[k]
  /\ st[k] \in {"received", "taken", "counted", "deserialized"} => rbuf[k].sync = syncs + 1

(* What the master of the sender, and that of the receiver, know. *)
ToSend(st, r) == {k \in SendMap(r) : st[k] \in Unsent}
SendAt(st, r) ==
  /\ pc[Master(r)] \in {"allDone", "run", "fill", "direct"} =>
       \A k \in SendMap(r) : st[k] = "none"
  /\ pc[Master(r)] \in {"ready", "post"} => \A k \in SendMap(r) : st[k] \in Unsent
  /\ pc[Master(r)] = "send" => toSend[r] = Cardinality(ToSend(st, r))

Early == Unsent \cup {"none", "sent"}
Counted == {"counted", "deserialized", "done"}
Remaining(st, r) == {k \in RecvMap(r) : st[k] \notin Counted}
ReceiveAt(st, r) ==
  /\ pc[Master(r)] \in {"allDone", "run", "fill", "ready", "post", "send"} =>
       \A k \in RecvMap(r) : st[k] \in Early
  /\ pc[Master(r)] \in {"ready", "post", "send", "recv"} \cup Sharing =>
       remaining[r] = Cardinality(Remaining(st, r))
  /\ pc[Master(r)] = "reduce" => \A k \in RecvMap(r) : st[k] = "done"

(* What a thread knows of its links. *)
ToDeliver(st, x) == {k \in Conns : k[2] = x /\ st[k] # "done"}
LinkAt(st, x) ==
  /\ pc[x] \in {"run", "fill", "ready", "post", "send", "recv", "ser"} =>
       \A k \in Conns : k[2] = x => st[k] # "done"
  /\ pc[x] \in {"deliver", "count", "deser"} => toDeliver[x] = Cardinality(ToDeliver(st, x))
  /\ pc[x] = "slaveDone" => \A k \in Conns : k[2] = x => st[k] = "done"

PlaceInv(st) == \A k \in Conns : PlaceAt(st, k)
WireInv(st) == \A k \in Conns : WireAt(st, k)
SendInv(st) == \A r \in Ranks : SendAt(st, r)
ReceiveInv(st) == \A r \in Ranks : ReceiveAt(st, r)
LinkInv(st) == \A x \in Threads : LinkAt(st, x)
StageInv(st) ==
  PlaceInv(st) /\ WireInv(st) /\ SendInv(st) /\ ReceiveInv(st) /\ LinkInv(st)

Core == QueueTypes /\ NetTypes /\ PcInv /\ QueueInv /\ HoldInv

IInv == Core /\ \E st \in [Conns -> Stages] : StageInv(st)

----------------------------------------------------------------------------
(* Ranks, threads and connections.                                         *)

LEMMA ThreadFacts ==
  /\ 0 \in Ranks
  /\ \A r \in Ranks : Master(r) \in Threads /\ Master(r)[1] = r
  /\ \A x \in Threads : x[1] \in Ranks
  /\ \A r \in Ranks : \A x \in ThreadsOf(r) : x \in Threads /\ x[1] = r
  <1>1. NumRanks \in Nat \ {0} /\ NumThreads \in Nat \ {0}
    BY ExchangeAssumption
  <1>2. 0 \in 0 .. NumThreads - 1 /\ 0 \in Ranks
    BY <1>1 DEF Ranks
  <1> QED BY <1>2 DEF Threads, Master, ThreadsOf

LEMMA ConnFacts ==
  /\ \A k \in Conns : k[1] \in Ranks /\ k[2] \in Threads /\ k[2][1] \in Ranks
  /\ \A r : SendMap(r) \subseteq Conns /\ RecvMap(r) \subseteq Conns
  /\ \A k \in Conns : k \in SendMap(k[1]) /\ k \in RecvMap(k[2][1])
  /\ \A r : \A k \in SendMap(r) : k[1] = r
  /\ \A r : \A k \in RecvMap(r) : k[2][1] = r
  <1>1. \A l \in Linked : l[1] \in Threads /\ l[2] \in Threads
    BY ExchangeAssumption
  <1>2. \A k \in Conns : k[1] \in Ranks /\ k[2] \in Threads
    BY <1>1, ThreadFacts DEF Conns
  <1> QED BY <1>2, ThreadFacts DEF SendMap, RecvMap

(* A set of connections is finite. *)
LEMMA ConnsFinite ==
  \A S \in SUBSET Conns : IsFiniteSet(S) /\ Cardinality(S) \in Nat
  <1>1. IsFiniteSet(Ranks) /\ IsFiniteSet(0 .. NumThreads - 1)
    BY ExchangeAssumption, FS_Interval DEF Ranks
  <1>2. IsFiniteSet(Threads)
    BY <1>1, FS_Product DEF Threads
  <1>3. IsFiniteSet(Ranks \X Threads)
    BY <1>1, <1>2, FS_Product
  <1>4. Conns \subseteq Ranks \X Threads
    BY ExchangeAssumption, ThreadFacts DEF Conns
  <1>5. IsFiniteSet(Conns)
    BY <1>3, <1>4, FS_Subset
  <1> QED BY <1>5, FS_Subset, FS_CardinalityType

(* Without one of them, there is one less. *)
LEMMA OneLess ==
  ASSUME NEW S \in SUBSET Conns, NEW k \in S
  PROVE  Cardinality(S) \in Nat /\ Cardinality(S \ {k}) = Cardinality(S) - 1
         /\ Cardinality(S) - 1 \in Nat
  <1>1. IsFiniteSet(S) /\ IsFiniteSet(S \ {k}) /\ Cardinality(S) \in Nat /\ Cardinality(S \ {k}) \in Nat
    BY ConnsFinite
  <1>2. Cardinality(S \ {k}) = Cardinality(S) - 1
    BY <1>1, FS_RemoveElement
  <1> QED BY <1>1, <1>2

----------------------------------------------------------------------------
(* Queues without duplicates.                                              *)

LEMMA RangeIs ==
  ASSUME NEW S, NEW Q \in Seq(S)
  PROVE  /\ Len(Q) \in Nat
         /\ \A e : e \in Range(Q) <=> \E i \in 1 .. Len(Q) : Q[i] = e
         /\ Range(Q) \subseteq S
  BY LenProperties, RangeEquality, RangeOfSeq, ElementOfSeq

(* What is taken from the front is in the queue no more. *)
LEMMA QueueTail ==
  ASSUME NEW S, NEW Q \in Seq(S), Q # <<>>, NoDup(Q)
  PROVE  /\ Tail(Q) \in Seq(S) /\ NoDup(Tail(Q)) /\ Head(Q) \in S /\ Head(Q) \in Range(Q)
         /\ Range(Tail(Q)) = Range(Q) \ {Head(Q)}
  <1>1. /\ Tail(Q) \in Seq(S) /\ Head(Q) \in S /\ Len(Tail(Q)) = Len(Q) - 1
        /\ \A i \in 1 .. Len(Q) - 1 : Tail(Q)[i] = Q[i + 1]
    BY HeadTailProperties
  <1>2. Len(Q) \in Nat \ {0} /\ Head(Q) = Q[1]
    BY EmptySeq
  <1>3. NoDup(Tail(Q))
    <2> SUFFICES ASSUME NEW i \in 1 .. Len(Tail(Q)), NEW j \in 1 .. Len(Tail(Q)),
                        Tail(Q)[i] = Tail(Q)[j]
                 PROVE  i = j
      BY DEF NoDup
    <2>1. i + 1 \in 1 .. Len(Q) /\ j + 1 \in 1 .. Len(Q) /\ Q[i + 1] = Q[j + 1]
      BY <1>1, <1>2
    <2>2. i + 1 = j + 1
      BY <2>1 DEF NoDup
    <2> QED BY <2>2
  <1>4. 1 \in 1 .. Len(Q)
    BY <1>2
  <1>5. Head(Q) \in Range(Q)
    BY <1>2, <1>4, RangeIs
  <1>6. ASSUME NEW e, e \in Range(Tail(Q)) PROVE e \in Range(Q) \ {Head(Q)}
    <2>1. PICK i \in 1 .. Len(Tail(Q)) : Tail(Q)[i] = e
      BY <1>1, <1>6, RangeIs
    <2>2. i + 1 \in 1 .. Len(Q) /\ Q[i + 1] = e /\ i + 1 # 1
      BY <1>1, <1>2, <2>1
    <2>3. Q[i + 1] # Q[1]
      BY <1>4, <2>2 DEF NoDup
    <2> QED BY <1>2, <2>2, <2>3, RangeIs
  <1>7. ASSUME NEW e \in Range(Q), e # Head(Q) PROVE e \in Range(Tail(Q))
    <2>1. PICK i \in 1 .. Len(Q) : Q[i] = e
      BY RangeIs
    <2> DEFINE j == i - 1
    <2>2. j \in 1 .. Len(Tail(Q)) /\ Tail(Q)[j] = e
      BY <1>1, <1>2, <1>7, <2>1
    <2> QED BY <1>1, <2>2, RangeIs
  <1> QED BY <1>1, <1>3, <1>5, <1>6, <1>7

(* What is put in has not been in it before. *)
LEMMA QueueConcat ==
  ASSUME NEW S, NEW Q \in Seq(S), NEW P \in Seq(S), NoDup(Q), NoDup(P),
         Range(Q) \cap Range(P) = {}
  PROVE  Q \o P \in Seq(S) /\ NoDup(Q \o P) /\ Range(Q \o P) = Range(Q) \cup Range(P)
  <1>1. /\ Q \o P \in Seq(S) /\ Len(Q \o P) = Len(Q) + Len(P)
        /\ \A i \in 1 .. Len(Q) + Len(P) :
             (Q \o P)[i] = IF i <= Len(Q) THEN Q[i] ELSE P[i - Len(Q)]
    BY ConcatProperties
  <1>2. Len(Q) \in Nat /\ Len(P) \in Nat
    BY LenProperties
  <1>3. NoDup(Q \o P)
    <2> SUFFICES ASSUME NEW i \in 1 .. Len(Q) + Len(P), NEW j \in 1 .. Len(Q) + Len(P),
                        (Q \o P)[i] = (Q \o P)[j]
                 PROVE  i = j
      BY <1>1 DEF NoDup
    <2>1. CASE i <= Len(Q) /\ j <= Len(Q)
      BY <1>1, <1>2, <2>1 DEF NoDup
    <2>2. CASE i > Len(Q) /\ j > Len(Q)
      <3>1. i - Len(Q) \in 1 .. Len(P) /\ j - Len(Q) \in 1 .. Len(P)
            /\ P[i - Len(Q)] = P[j - Len(Q)]
        BY <1>1, <1>2, <2>2
      <3>2. i - Len(Q) = j - Len(Q)
        BY <3>1 DEF NoDup
      <3> QED BY <1>2, <3>2
    <2>3. ASSUME NEW a \in 1 .. Len(Q), NEW b \in 1 .. Len(P) PROVE Q[a] # P[b]
      BY <2>3, RangeIs
    <2>4. CASE i <= Len(Q) /\ j > Len(Q)
      <3>1. i \in 1 .. Len(Q) /\ j - Len(Q) \in 1 .. Len(P)
        BY <1>2, <2>4
      <3> QED BY <1>1, <1>2, <2>3, <2>4, <3>1
    <2>5. CASE i > Len(Q) /\ j <= Len(Q)
      <3>1. j \in 1 .. Len(Q) /\ i - Len(Q) \in 1 .. Len(P)
        BY <1>2, <2>5
      <3> QED BY <1>1, <1>2, <2>3, <2>5, <3>1
    <2> QED BY <1>2, <2>1, <2>2, <2>4, <2>5
  <1> QED BY <1>1, <1>3, RangeConcatenation

LEMMA QueueAppend ==
  ASSUME NEW S, NEW Q \in Seq(S), NEW e \in S, NoDup(Q), e \notin Range(Q)
  PROVE  Append(Q, e) \in Seq(S) /\ NoDup(Append(Q, e)) /\ Range(Append(Q, e)) = Range(Q) \cup {e}
  <1> DEFINE P == <<e>>
  <1>1. P \in Seq(S) /\ NoDup(P) /\ Range(P) = {e}
    BY DEF NoDup, Range
  <1>2. Append(Q, e) = Q \o P
    BY AppendIsConcat
  <1> HIDE DEF P
  <1>3. Range(Q) \cap Range(P) = {}
    BY <1>1
  <1>4. Q \o P \in Seq(S) /\ NoDup(Q \o P) /\ Range(Q \o P) = Range(Q) \cup Range(P)
    BY <1>1, <1>3, QueueConcat
  <1> QED BY <1>1, <1>2, <1>4

(* Listed gives each entry once. *)
LEMMA ListedOnce ==
  ASSUME NEW S \in SUBSET Conns
  PROVE  /\ Listed(S) \in Seq(Conns) /\ NoDup(Listed(S)) /\ Range(Listed(S)) = S
  <1> DEFINE n == Cardinality(S)
             s == Listed(S)
  <1>1. IsFiniteSet(S) /\ n \in Nat
    BY ConnsFinite
  <1>2. s \in [1 .. n -> S] /\ \A k \in S : \E i \in DOMAIN s : s[i] = k
    <2>1. PICK f \in Bijection(1 .. n, S) : TRUE
      BY <1>1, FS_CardinalityType DEF ExistsBijection
    <2>2. f \in [1 .. n -> S] /\ \A k \in S : \E i \in DOMAIN f : f[i] = k
      BY <2>1 DEF Bijection, Surjection
    <2> QED BY <2>2 DEF Listed
  <1> HIDE DEF s
  <1>3. s \in Seq(S) /\ Len(s) = n
    <2>1. s \in Seq(S)
      BY <1>1, <1>2, SeqDef
    <2>2. Len(s) \in Nat /\ 1 .. Len(s) = 1 .. n
      BY <1>2, <2>1, LenProperties
    <2> QED BY <1>1, <2>1, <2>2
  <1>4. NoDup(s)
    <2>1. s \in Surjection(1 .. n, S)
      BY <1>2 DEF Surjection
    <2>2. IsFiniteSet(1 .. n) /\ Cardinality(1 .. n) = n
      BY <1>1, FS_Interval
    <2>3. s \in Injection(1 .. n, S)
      BY <2>1, <2>2, FS_SurjSameCardinalityImpliesInj
    <2> QED BY <1>3, <2>3 DEF Injection, IsInjective, NoDup
  <1>5. Range(s) = S
    BY <1>2 DEF Range
  <1>6. s \in Seq(Conns)
    BY <1>3, SeqMonotonic
  <1> QED BY <1>4, <1>5, <1>6 DEF s

----------------------------------------------------------------------------
(* The slaves of a rank follow its master.                                 *)

(* Steps between two meetings. *)
MasterGoes(a, b) ==
  <<a, b>> \in {<<"fill", "ready">>, <<"post", "send">>, <<"send", "recv">>, <<"recv", "ser">>,
                <<"direct", "collect">>, <<"collect", "reduce">>}

LEMMA PcStep ==
  ASSUME PcInv, syncs' = syncs, NEW x \in Threads, NEW l, pc' = [pc EXCEPT ![x] = l],
         \/ pc[x] \in Sharing /\ l \in Sharing
         \/ x = Master(x[1]) /\ MasterGoes(pc[x], l)
  PROVE  PcInv'
  <1>1. l \in Barriers \cup MasterOnly \cup Sharing
    BY DEF MasterGoes, Barriers, MasterOnly, Sharing
  <1>2. pc' \in [Threads -> Barriers \cup MasterOnly \cup Sharing]
    BY <1>1 DEF PcInv
  <1>3. /\ pc'[x] = l /\ \A y \in Threads : y # x => pc'[y] = pc[y]
        /\ x[1] \in Ranks /\ \A r \in Ranks : Master(r) \in Threads /\ Master(r)[1] = r
    BY ThreadFacts DEF PcInv
  <1>4. ASSUME NEW r \in Ranks, NEW y \in Threads, y[1] = r, y # Master(r)
        PROVE  /\ pc'[Master(r)] = "run" => pc'[y] = "run"
               /\ pc'[Master(r)] \in {"fill", "ready"} => pc'[y] = "ready"
               /\ pc'[Master(r)] \in {"direct", "collect", "reduce", "allDone"}
                    => pc'[y] = "allDone"
               /\ pc'[Master(r)] \in {"post", "send", "recv"} \cup Sharing => pc'[y] \in Sharing
    <2>1. /\ pc[Master(r)] = "run" => pc[y] = "run"
          /\ pc[Master(r)] \in {"fill", "ready"} => pc[y] = "ready"
          /\ pc[Master(r)] \in {"direct", "collect", "reduce", "allDone"} => pc[y] = "allDone"
          /\ pc[Master(r)] \in {"post", "send", "recv"} \cup Sharing => pc[y] \in Sharing
      BY <1>4 DEF PcInv
    <2>2. CASE x = Master(r)
      <3>1. pc'[y] = pc[y] /\ pc'[Master(r)] = l
        BY <1>3, <1>4, <2>2
      <3> QED BY <1>3, <2>1, <2>2, <3>1 DEF MasterGoes, Sharing
    <2>3. CASE x = y
      <3>1. pc'[y] = l /\ pc'[Master(r)] = pc[Master(r)] /\ pc[x] \in Sharing /\ l \in Sharing
        BY <1>3, <1>4, <2>3
      <3> QED BY <2>1, <2>3, <3>1 DEF Sharing
    <2>4. CASE x # Master(r) /\ x # y
      BY <1>3, <1>4, <2>1, <2>4
    <2> QED BY <2>2, <2>3, <2>4
  <1>5. ASSUME NEW r \in Ranks, pc'[Master(r)] \notin {"run", "allDone"}
        PROVE  syncs < Len(Plan)
    BY <1>3, <1>5 DEF PcInv, MasterGoes, Sharing
  <1>6. syncs' \in 0 .. Len(Plan)
    BY DEF PcInv
  <1> HIDE DEF Barriers, MasterOnly, Sharing
  <1> QED BY <1>2, <1>4, <1>5, <1>6 DEF PcInv

(* A meeting of a rank lets all its threads go on. *)
LEMMA PcBarrier ==
  ASSUME PcInv, NEW r \in Ranks, NEW b \in Barriers, Barrier(r, b)
  PROVE  PcInv'
  <1>1. /\ \A x \in Threads : x[1] = r => pc[x] = b /\ pc'[x] = Resume(x, b)
        /\ \A x \in Threads : x[1] # r => pc'[x] = pc[x]
        /\ syncs' = syncs /\ (b = "run" => syncs < Len(Plan))
        /\ pc' = [x \in Threads |-> IF x[1] = r THEN Resume(x, b) ELSE pc[x]]
    BY DEF Barrier, ThreadsOf
  <1>2. \A x \in Threads : x[1] = r =>
          /\ b = "run" => Resume(x, b) \in (IF x = Master(r) THEN {"direct", "fill"}
                                            ELSE {"allDone", "ready"})
          /\ b = "run" /\ Straight => Resume(x, b) = IF x = Master(r) THEN "direct" ELSE "allDone"
          /\ b = "run" /\ ~Straight => Resume(x, b) = IF x = Master(r) THEN "fill" ELSE "ready"
          /\ b = "ready" => Resume(x, b) = IF x = Master(r) THEN "post" ELSE "ser"
          /\ b = "slaveDone" => Resume(x, b) = IF x = Master(r) THEN "reduce" ELSE "allDone"
          /\ b = "allDone" => Resume(x, b) = "run"
    BY DEF Resume
  <1>3. b \in {"run", "ready", "slaveDone", "allDone"}
    BY DEF Barriers
  <1>4. \A x \in Threads : x[1] = r => pc'[x] \in Barriers \cup MasterOnly \cup Sharing
    BY <1>1, <1>2, <1>3 DEF Barriers, MasterOnly, Sharing
  <1>5. pc' \in [Threads -> Barriers \cup MasterOnly \cup Sharing]
    BY <1>1, <1>4 DEF PcInv
  <1>6. \A s \in Ranks : Master(s) \in Threads /\ Master(s)[1] = s
    BY ThreadFacts
  <1>7. ASSUME NEW s \in Ranks, NEW y \in Threads, y[1] = s, y # Master(s)
        PROVE  /\ pc'[Master(s)] = "run" => pc'[y] = "run"
               /\ pc'[Master(s)] \in {"fill", "ready"} => pc'[y] = "ready"
               /\ pc'[Master(s)] \in {"direct", "collect", "reduce", "allDone"}
                    => pc'[y] = "allDone"
               /\ pc'[Master(s)] \in {"post", "send", "recv"} \cup Sharing => pc'[y] \in Sharing
    <2>1. CASE s = r
      <3>1. pc'[Master(s)] = Resume(Master(s), b) /\ pc'[y] = Resume(y, b)
        BY <1>1, <1>6, <1>7, <2>1
      <3> QED BY <1>2, <1>3, <1>6, <1>7, <2>1, <3>1 DEF Sharing
    <2>2. CASE s # r
      BY <1>1, <1>6, <1>7, <2>2 DEF PcInv
    <2> QED BY <2>1, <2>2
  <1>8. ASSUME NEW s \in Ranks, pc'[Master(s)] \notin {"run", "allDone"}
        PROVE  syncs < Len(Plan)
    <2>1. CASE s = r
      <3>1. b \in {"run", "ready", "slaveDone"} /\ pc[Master(s)] = b
        BY <1>1, <1>2, <1>3, <1>6, <1>8, <2>1
      <3> QED BY <1>1, <1>8, <3>1 DEF PcInv
    <2>2. CASE s # r
      BY <1>1, <1>6, <1>8, <2>2 DEF PcInv
    <2> QED BY <2>1, <2>2
  <1> QED BY <1>1, <1>5, <1>7, <1>8 DEF PcInv

----------------------------------------------------------------------------
(* Steps that only move threads.                                           *)

(* Where nothing but threads move, the data stay where they are. *)
LEMMA DataStay ==
  ASSUME Core, NEW st \in [Conns -> Stages], StageInv(st),
         UNCHANGED <<syncs, queueVars, netVars, delivered>>,
         \A x \in Threads : /\ hold[x] # {} => HoldStage(x)' = HoldStage(x) /\ pc'[x] # "deliver"
                            /\ pc'[x] = "count" => pc[x] = "count"
  PROVE  QueueInv' /\ HoldInv' /\ NetTypes' /\ PlaceInv(st)' /\ WireInv(st)'
  <1>0. UNCHANGED <<serQ, sendQ, desQ, linkQ, hold, posted, wire, wire2, remoteSize,
                    localSize, rbuf>>
    BY DEF queueVars, netVars
  <1>1. QueueInv' /\ NetTypes'
    BY <1>0 DEF Core, QueueInv, NetTypes
  <1>2. HoldInv'
    <2>1. ASSUME NEW x \in Threads, NEW k \in hold[x]
          PROVE  IF HoldStage(x)' = "serializing" THEN k[1] = x[1] ELSE k[2][1] = x[1]
      BY DEF Core, HoldInv
    <2> HIDE DEF HoldStage
    <2> QED BY <1>0, <2>1 DEF Core, HoldInv
  <1>3. PlaceInv(st)'
    <2>1. \A x \in Threads : \A k \in hold[x] : HoldStage(x)' = HoldStage(x)
      OBVIOUS
    <2> QED BY <1>0, <2>1 DEF StageInv, PlaceInv, PlaceAt
  <1>4. WireInv(st)'
    BY <1>0 DEF StageInv, WireInv, WireAt
  <1> QED BY <1>1, <1>2, <1>3, <1>4

LEMMA BarrierStep ==
  ASSUME Core, NEW st \in [Conns -> Stages], StageInv(st),
         NEW r \in Ranks, NEW b \in Barriers, Barrier(r, b)
  PROVE  Core' /\ StageInv(st)'
  <1>0. UNCHANGED <<syncs, queueVars, countVars, netVars, delivered>>
    BY DEF Barrier
  <1>1. PcInv'
    BY PcBarrier DEF Core
  <1>2. QueueTypes'
    BY <1>0 DEF Core, QueueTypes, queueVars, countVars, netVars
  <1>3. /\ \A x \in Threads : x[1] = r => pc[x] = b /\ pc'[x] = Resume(x, b)
        /\ \A x \in Threads : x[1] # r => pc'[x] = pc[x]
    BY DEF Barrier, ThreadsOf
  <1>4. \A x \in Threads : x[1] = r =>
          /\ b = "run" => pc'[x] \in {"direct", "fill", "allDone", "ready"}
          /\ b = "ready" => pc'[x] = IF x = Master(r) THEN "post" ELSE "ser"
          /\ b = "slaveDone" => pc'[x] = IF x = Master(r) THEN "reduce" ELSE "allDone"
          /\ b = "allDone" => pc'[x] = "run"
    BY <1>3 DEF Resume
  <1>5. b = "run" => pc'[Master(r)] \in {"direct", "fill"}
    BY <1>3, ThreadFacts DEF Resume
  <1>6. b \in {"run", "ready", "slaveDone", "allDone"}
    BY DEF Barriers
  <1>7. \A s \in Ranks : /\ Master(s) \in Threads /\ Master(s)[1] = s
                         /\ s # r => pc'[Master(s)] = pc[Master(s)]
    BY <1>3, ThreadFacts
  <1>8. QueueInv' /\ HoldInv' /\ NetTypes' /\ PlaceInv(st)' /\ WireInv(st)'
    <2>1. \A x \in Threads : HoldStage(x)' = HoldStage(x)
                             /\ (pc'[x] \in {"deliver", "count"} => pc[x] = pc'[x])
      BY <1>3, <1>4, <1>6 DEF HoldStage
    <2>2. \A x \in Threads : hold[x] # {} => pc[x] # "deliver"
      BY DEF Core, HoldInv
    <2> QED BY <1>0, <2>1, <2>2, DataStay
  <1>9. SendInv(st)'
    <2> SUFFICES ASSUME NEW s \in Ranks PROVE SendAt(st, s)'
      BY DEF SendInv
    <2>1. CASE s = r
      BY <1>3, <1>4, <1>5, <1>6, <1>7, <2>1 DEF StageInv, SendInv, SendAt
    <2>2. CASE s # r
      BY <1>0, <1>7, <2>2 DEF StageInv, SendInv, SendAt, ToSend, countVars
    <2> QED BY <2>1, <2>2
  <1>10. ReceiveInv(st)'
    <2> SUFFICES ASSUME NEW s \in Ranks PROVE ReceiveAt(st, s)'
      BY DEF ReceiveInv
    <2>1. ReceiveAt(st, s) /\ remaining' = remaining /\ Remaining(st, s)' = Remaining(st, s)
      BY <1>0 DEF StageInv, ReceiveInv, countVars, Remaining
    <2>2. CASE s = r
      <3>1. b = "slaveDone" => \A k \in RecvMap(s) : st[k] = "done"
        BY <1>3, <2>2, ConnFacts DEF StageInv, LinkInv, LinkAt
      <3>2. pc[Master(s)] = b
        BY <1>3, <1>7, <2>2
      <3>3. /\ b = "run" => pc'[Master(s)] \in {"direct", "fill"}
            /\ b = "ready" => pc'[Master(s)] = "post"
            /\ b = "slaveDone" => pc'[Master(s)] = "reduce"
            /\ b = "allDone" => pc'[Master(s)] = "run"
        BY <1>4, <1>5, <1>7, <2>2
      <3> QED BY <1>6, <2>1, <3>1, <3>2, <3>3 DEF ReceiveAt, Sharing
    <2>3. CASE s # r
      BY <1>7, <2>1, <2>3 DEF ReceiveAt
    <2> QED BY <2>2, <2>3
  <1>11. LinkInv(st)'
    <2> SUFFICES ASSUME NEW x \in Threads PROVE LinkAt(st, x)'
      BY DEF LinkInv
    <2>1. LinkAt(st, x) /\ toDeliver' = toDeliver /\ ToDeliver(st, x)' = ToDeliver(st, x)
      BY <1>0 DEF StageInv, LinkInv, countVars, ToDeliver
    <2>2. CASE x[1] = r
      <3>1. b = "allDone" => \A k \in Conns : k[2] = x => st[k] # "done"
        <4>1. b = "allDone" => \A k \in RecvMap(r) : st[k] \in Early
          BY <1>3, <1>7 DEF StageInv, ReceiveInv, ReceiveAt
        <4> QED BY <2>2, <4>1, ConnFacts DEF Early, Unsent
      <3> QED BY <1>3, <1>4, <1>6, <2>1, <2>2, <3>1 DEF LinkAt
    <2>3. CASE x[1] # r
      BY <1>3, <2>1, <2>3 DEF LinkAt
    <2> QED BY <2>2, <2>3
  <1> QED BY <1>1, <1>2, <1>8, <1>9, <1>10, <1>11 DEF Core, StageInv

(* The master goes on from one part to the next, ... *)
LEMMA MasterGoesStep ==
  ASSUME Core, NEW st \in [Conns -> Stages], StageInv(st),
         NEW r \in Ranks, SentAll(r) \/ ReceivedAll(r)
  PROVE  Core' /\ StageInv(st)'
  <1> DEFINE m == Master(r)
             l == IF pc[m] = "send" THEN "recv" ELSE "ser"
  <1>0. /\ pc[m] \in {"send", "recv"} /\ pc' = [pc EXCEPT ![m] = l]
        /\ UNCHANGED <<syncs, queueVars, countVars, netVars, delivered>>
    BY DEF SentAll, ReceivedAll, Goto
  <1>1. m \in Threads /\ m[1] = r /\ \A s \in Ranks : Master(s) \in Threads /\ Master(s)[1] = s
    BY ThreadFacts
  <1>2. PcInv'
    BY <1>0, <1>1, PcStep DEF Core, MasterGoes
  <1>3. pc'[m] = l /\ \A x \in Threads : x # m => pc'[x] = pc[x]
    BY <1>0, <1>1 DEF Core, PcInv
  <1>4. QueueTypes'
    BY <1>0 DEF Core, QueueTypes, queueVars, countVars, netVars
  <1>5. QueueInv' /\ HoldInv' /\ NetTypes' /\ PlaceInv(st)' /\ WireInv(st)'
    <2>1. \A x \in Threads : HoldStage(x)' = HoldStage(x)
                             /\ (pc'[x] \in {"deliver", "count"} => pc[x] = pc'[x])
      BY <1>0, <1>3 DEF HoldStage
    <2>2. \A x \in Threads : hold[x] # {} => pc[x] # "deliver"
      BY DEF Core, HoldInv
    <2> QED BY <1>0, <2>1, <2>2, DataStay
  <1>6. SendInv(st)' /\ ReceiveInv(st)'
    <2> SUFFICES ASSUME NEW s \in Ranks PROVE SendAt(st, s)' /\ ReceiveAt(st, s)'
      BY DEF SendInv, ReceiveInv
    <2>1. /\ SendAt(st, s) /\ ReceiveAt(st, s) /\ toSend' = toSend /\ remaining' = remaining
          /\ ToSend(st, s)' = ToSend(st, s) /\ Remaining(st, s)' = Remaining(st, s)
      BY <1>0 DEF StageInv, SendInv, ReceiveInv, countVars, ToSend, Remaining
    <2>2. Master(s) # m => pc'[Master(s)] = pc[Master(s)]
      BY <1>1, <1>3
    <2> QED BY <1>0, <1>3, <2>1, <2>2 DEF SendAt, ReceiveAt, Sharing
  <1>7. LinkInv(st)'
    <2> SUFFICES ASSUME NEW x \in Threads PROVE LinkAt(st, x)'
      BY DEF LinkInv
    <2>1. LinkAt(st, x) /\ toDeliver' = toDeliver /\ ToDeliver(st, x)' = ToDeliver(st, x)
      BY <1>0 DEF StageInv, LinkInv, countVars, ToDeliver
    <2> QED BY <1>0, <1>3, <2>1 DEF LinkAt
  <1> QED BY <1>2, <1>4, <1>5, <1>6, <1>7 DEF Core, StageInv

(* ... and a thread leaves when it has everything. *)
LEMMA DeliveredAllStep ==
  ASSUME Core, NEW st \in [Conns -> Stages], StageInv(st), NEW x \in Threads, DeliveredAll(x)
  PROVE  Core' /\ StageInv(st)'
  <1>0. /\ pc[x] = "deliver" /\ toDeliver[x] = 0 /\ pc' = [pc EXCEPT ![x] = "slaveDone"]
        /\ UNCHANGED <<syncs, queueVars, countVars, netVars, delivered>>
    BY DEF DeliveredAll, Goto
  <1>1. PcInv'
    BY <1>0, PcStep DEF Core, Sharing
  <1>2. pc'[x] = "slaveDone" /\ \A y \in Threads : y # x => pc'[y] = pc[y]
    BY <1>0 DEF Core, PcInv
  <1>3. QueueTypes'
    BY <1>0 DEF Core, QueueTypes, queueVars, countVars, netVars
  <1>4. QueueInv' /\ HoldInv' /\ NetTypes' /\ PlaceInv(st)' /\ WireInv(st)'
    <2>1. \A y \in Threads : HoldStage(y)' = HoldStage(y)
                             /\ (pc'[y] \in {"deliver", "count"} => pc[y] = pc'[y])
      BY <1>0, <1>2 DEF HoldStage
    <2>2. \A y \in Threads : hold[y] # {} => pc[y] # "deliver"
      BY DEF Core, HoldInv
    <2> QED BY <1>0, <2>1, <2>2, DataStay
  <1>5. SendInv(st)' /\ ReceiveInv(st)'
    <2> SUFFICES ASSUME NEW s \in Ranks PROVE SendAt(st, s)' /\ ReceiveAt(st, s)'
      BY DEF SendInv, ReceiveInv
    <2>1. /\ SendAt(st, s) /\ ReceiveAt(st, s) /\ toSend' = toSend /\ remaining' = remaining
          /\ ToSend(st, s)' = ToSend(st, s) /\ Remaining(st, s)' = Remaining(st, s)
      BY <1>0 DEF StageInv, SendInv, ReceiveInv, countVars, ToSend, Remaining
    <2>2. /\ Master(s) # x => pc'[Master(s)] = pc[Master(s)]
          /\ Master(s) = x => pc[Master(s)] = "deliver" /\ pc'[Master(s)] = "slaveDone"
      BY <1>0, <1>2, ThreadFacts
    <2> QED BY <2>1, <2>2 DEF SendAt, ReceiveAt, Sharing
  <1>6. LinkInv(st)'
    <2> SUFFICES ASSUME NEW y \in Threads PROVE LinkAt(st, y)'
      BY DEF LinkInv
    <2>1. LinkAt(st, y) /\ toDeliver' = toDeliver /\ ToDeliver(st, y)' = ToDeliver(st, y)
      BY <1>0 DEF StageInv, LinkInv, countVars, ToDeliver
    <2>2. x = y => ToDeliver(st, y) = {}
      <3>1. ToDeliver(st, y) \in SUBSET Conns
        BY DEF ToDeliver
      <3>2. x = y => Cardinality(ToDeliver(st, y)) = 0
        BY <1>0, <2>1 DEF LinkAt
      <3> QED BY <3>1, <3>2, ConnsFinite, FS_EmptySet
    <2> QED BY <1>0, <1>2, <2>1, <2>2 DEF LinkAt, ToDeliver
  <1> QED BY <1>1, <1>3, <1>4, <1>5, <1>6 DEF Core, StageInv

----------------------------------------------------------------------------
(* Steps that move the data of one connection.                             *)

LEMMA SendMove ==
  ASSUME NEW st \in [Conns -> Stages], SendInv(st),
         NEW k \in Conns, NEW b \in Stages, NEW t, t = [st EXCEPT ![k] = b],
         st[k] # "none", st[k] \in Unsent <=> b \in Unsent,
         \A r \in Ranks : pc'[Master(r)] = pc[Master(r)] \/ pc'[Master(r)] \in Sharing,
         toSend' = toSend
  PROVE  SendInv(t)'
  <1> SUFFICES ASSUME NEW r \in Ranks PROVE SendAt(t, r)'
    BY DEF SendInv
  <1>1. SendAt(st, r)
    BY DEF SendInv
  <1>2. \A c \in Conns : t[c] = IF c = k THEN b ELSE st[c]
    OBVIOUS
  <1>3. SendMap(r) \subseteq Conns
    BY ConnFacts
  <1>4. ToSend(t, r)' = ToSend(st, r)
    BY <1>2, <1>3 DEF ToSend
  <1> QED BY <1>1, <1>2, <1>3, <1>4 DEF SendAt, Sharing

LEMMA ReceiveMove ==
  ASSUME NEW st \in [Conns -> Stages], ReceiveInv(st),
         NEW k \in Conns, NEW b \in Stages, NEW t, t = [st EXCEPT ![k] = b],
         st[k] # "done", st[k] \in Early => b \in Early,
         st[k] \in Counted <=> b \in Counted,
         \A r \in Ranks : \/ pc'[Master(r)] = pc[Master(r)]
                          \/ {pc[Master(r)], pc'[Master(r)]} \subseteq Sharing,
         remaining' = remaining
  PROVE  ReceiveInv(t)'
  <1> SUFFICES ASSUME NEW r \in Ranks PROVE ReceiveAt(t, r)'
    BY DEF ReceiveInv
  <1>1. ReceiveAt(st, r)
    BY DEF ReceiveInv
  <1>2. \A c \in Conns : t[c] = IF c = k THEN b ELSE st[c]
    OBVIOUS
  <1>3. RecvMap(r) \subseteq Conns
    BY ConnFacts
  <1>4. Remaining(t, r)' = Remaining(st, r)
    BY <1>2, <1>3 DEF Remaining
  <1> QED BY <1>1, <1>2, <1>3, <1>4 DEF ReceiveAt, Sharing

LEMMA LinkMove ==
  ASSUME NEW st \in [Conns -> Stages], LinkInv(st),
         NEW k \in Conns, NEW b \in Stages, NEW t, t = [st EXCEPT ![k] = b],
         st[k] # "done", b # "done",
         \A x \in Threads : pc'[x] = pc[x] \/ {pc[x], pc'[x]} \subseteq {"deliver", "count", "deser"},
         toDeliver' = toDeliver
  PROVE  LinkInv(t)'
  <1> SUFFICES ASSUME NEW x \in Threads PROVE LinkAt(t, x)'
    BY DEF LinkInv
  <1>1. LinkAt(st, x)
    BY DEF LinkInv
  <1>2. \A c \in Conns : t[c] = IF c = k THEN b ELSE st[c]
    OBVIOUS
  <1>3. ToDeliver(t, x)' = ToDeliver(st, x)
    BY <1>2 DEF ToDeliver
  <1> QED BY <1>1, <1>2, <1>3 DEF LinkAt

(* What is not on the wire, before and after, does not matter there. *)
LEMMA WireMove ==
  ASSUME NEW st \in [Conns -> Stages], WireInv(st),
         NEW k \in Conns, NEW b \in Stages, NEW t, t = [st EXCEPT ![k] = b],
         st[k] # "sent", b # "sent",
         b \in {"received", "taken", "counted", "deserialized"} =>
           st[k] \in {"received", "taken", "counted", "deserialized"},
         UNCHANGED <<netVars, syncs>>
  PROVE  WireInv(t)'
  <1>1. \A c \in Conns : t[c] = IF c = k THEN b ELSE st[c]
    OBVIOUS
  <1>2. UNCHANGED <<wire, wire2, remoteSize, localSize, rbuf, syncs>>
    BY DEF netVars
  <1> SUFFICES ASSUME NEW c \in Conns PROVE WireAt(t, c)'
    BY DEF WireInv
  <1>3. WireAt(st, c)
    BY DEF WireInv
  <1> QED BY <1>1, <1>2, <1>3 DEF WireAt

(* An entry in a queue is a connection of the rank, in its stage. *)
LEMMA FrontOfQueue ==
  ASSUME Core, NEW st \in [Conns -> Stages], StageInv(st), NEW r \in Ranks
  PROVE  /\ serQ[r] # <<>> => LET k == Head(serQ[r])
                              IN  k \in SendMap(r) /\ k \in Conns /\ st[k] = "queued"
         /\ sendQ[r] # <<>> => LET k == Head(sendQ[r])
                               IN  k \in SendMap(r) /\ k \in Conns /\ st[k] = "serialized"
         /\ desQ[r] # <<>> => LET k == Head(desQ[r])
                              IN  k \in RecvMap(r) /\ k \in Conns /\ st[k] = "received"
  <1>1. /\ serQ[r] \in Seq(Conns) /\ sendQ[r] \in Seq(Conns) /\ desQ[r] \in Seq(Conns)
        /\ NoDup(serQ[r]) /\ NoDup(sendQ[r]) /\ NoDup(desQ[r])
        /\ Range(serQ[r]) \subseteq SendMap(r) /\ Range(sendQ[r]) \subseteq SendMap(r)
        /\ Range(desQ[r]) \subseteq RecvMap(r)
    BY DEF Core, QueueTypes, QueueInv
  <1>2. /\ serQ[r] # <<>> => Head(serQ[r]) \in Range(serQ[r])
        /\ sendQ[r] # <<>> => Head(sendQ[r]) \in Range(sendQ[r])
        /\ desQ[r] # <<>> => Head(desQ[r]) \in Range(desQ[r])
    BY <1>1, QueueTail
  <1>3. \A k \in Conns : PlaceAt(st, k)
    BY DEF StageInv, PlaceInv
  <1> QED BY <1>1, <1>2, <1>3, ConnFacts DEF PlaceAt

(* An entry is taken from the serialize queue, ... *)
LEMMA TakeToSerializeStep ==
  ASSUME Core, NEW st \in [Conns -> Stages], StageInv(st),
         NEW x \in Threads, TakeToSerialize(x)
  PROVE  Core' /\ \E t \in [Conns -> Stages] : StageInv(t)'
  <1>a. PICK r \in Ranks : r = x[1]
    BY ThreadFacts
  <1>b. PICK k : k = Head(serQ[r])
    OBVIOUS
  <1>c. PICK t : t = [st EXCEPT ![k] = "serializing"]
    OBVIOUS
  <1>0. /\ pc[x] \in {"ser", "send"} /\ hold[x] = {} /\ serQ[r] # <<>>
        /\ serQ' = [serQ EXCEPT ![r] = Tail(serQ[r])] /\ hold' = [hold EXCEPT ![x] = {k}]
        /\ UNCHANGED <<pc, syncs, sendQ, desQ, linkQ, countVars, netVars, delivered>>
    BY <1>a, <1>b DEF TakeToSerialize
  <1>1. k \in SendMap(r) /\ k \in Conns /\ st[k] = "queued" /\ k[1] = r
    BY <1>0, <1>b, FrontOfQueue, ConnFacts
  <1>2. /\ Tail(serQ[r]) \in Seq(Conns) /\ NoDup(Tail(serQ[r]))
        /\ Range(Tail(serQ[r])) = Range(serQ[r]) \ {k}
    <2>1. serQ[r] \in Seq(Conns) /\ NoDup(serQ[r])
      BY DEF Core, QueueTypes, QueueInv
    <2> QED BY <1>0, <1>b, <2>1, QueueTail
  <1>3. /\ serQ'[r] = Tail(serQ[r]) /\ \A s \in Ranks : s # r => serQ'[s] = serQ[s]
        /\ hold'[x] = {k} /\ \A y \in Threads : y # x => hold'[y] = hold[y]
        /\ pc' = pc
    BY <1>0, <1>1 DEF Core, QueueTypes
  <1>4. t \in [Conns -> Stages] /\ \A c \in Conns : t[c] = IF c = k THEN "serializing" ELSE st[c]
    BY <1>1, <1>c DEF Stages, Unsent
  <1>5. PcInv' /\ NetTypes'
    BY <1>0 DEF Core, PcInv, NetTypes, netVars
  <1>6. QueueTypes'
    BY <1>0, <1>1, <1>2 DEF Core, QueueTypes, countVars, netVars
  <1>7. QueueInv'
    BY <1>0, <1>2, <1>3 DEF Core, QueueInv
  <1>8. \A y \in Threads : HoldStage(y)' = HoldStage(y)
    BY <1>3 DEF HoldStage
  <1>9. \A y \in Threads : k \notin hold[y]
    BY <1>1 DEF StageInv, PlaceInv, PlaceAt, HoldStage
  <1>10. HoldInv'
    <2>1. ASSUME NEW y \in Threads, NEW c \in hold'[y]
          PROVE  IF HoldStage(y) = "serializing" THEN c[1] = y[1] ELSE c[2][1] = y[1]
      <3>1. CASE y = x
        BY <1>0, <1>1, <1>3, <1>a, <2>1, <3>1 DEF HoldStage
      <3>2. CASE y # x
        BY <1>3, <2>1, <3>2 DEF Core, HoldInv
      <3> QED BY <3>1, <3>2
    <2>2. \A y \in Threads : /\ pc[y] = "deliver" => hold'[y] = {}
                             /\ pc[y] = "count" => hold'[y] # {}
      BY <1>0, <1>3 DEF Core, HoldInv
    <2>3. \A y \in Threads : \A c, d \in hold'[y] : c = d
      BY <1>3 DEF Core, HoldInv
    <2>4. \A y, z \in Threads : y # z => hold'[y] \cap hold'[z] = {}
      BY <1>3, <1>9 DEF Core, HoldInv
    <2> QED BY <1>3, <1>8, <2>1, <2>2, <2>3, <2>4 DEF HoldInv
  <1>11. PlaceInv(t)'
    <2> SUFFICES ASSUME NEW c \in Conns PROVE PlaceAt(t, c)'
      BY DEF PlaceInv
    <2>1. PlaceAt(st, c)
      BY DEF StageInv, PlaceInv
    <2>2. c \in Range(serQ'[c[1]]) <=> c \in Range(serQ[c[1]]) /\ c # k
      <3>1. CASE c[1] = r
        BY <1>2, <1>3, <3>1
      <3>2. CASE c[1] # r
        <4>1. serQ'[c[1]] = serQ[c[1]] /\ c # k
          BY <1>1, <1>3, <3>2, ConnFacts
        <4> QED BY <4>1
      <3> QED BY <3>1, <3>2
    <2>3. \A y \in Threads : c \in hold'[y] <=> c \in hold[y] \/ (c = k /\ y = x)
      BY <1>0, <1>3
    <2>4. HoldStage(x) = "serializing"
      BY <1>0 DEF HoldStage
    <2> QED BY <1>0, <1>1, <1>4, <1>8, <1>9, <2>1, <2>2, <2>3, <2>4 DEF PlaceAt
  <1>12. WireInv(t)' /\ SendInv(t)' /\ ReceiveInv(t)' /\ LinkInv(t)'
    <2>1. /\ UNCHANGED <<netVars, syncs, toSend, remaining, toDeliver>>
          /\ "serializing" \in Stages /\ "serializing" \in Unsent /\ st[k] \in Unsent
          /\ "serializing" \in Early /\ st[k] \notin Counted /\ "serializing" \notin Counted
          /\ st[k] # "done"
      BY <1>0, <1>1 DEF countVars, Stages, Unsent, Early, Counted
    <2>2. WireInv(t)'
      BY <1>1, <2>1, <1>c, WireMove DEF StageInv
    <2>3. SendInv(t)'
      BY <1>1, <1>3, <2>1, <1>c, SendMove DEF StageInv
    <2>4. ReceiveInv(t)'
      BY <1>1, <1>3, <2>1, <1>c, ReceiveMove DEF StageInv
    <2>5. LinkInv(t)'
      BY <1>1, <1>3, <2>1, <1>c, LinkMove DEF StageInv
    <2> QED BY <2>2, <2>3, <2>4, <2>5
  <1>13. StageInv(t)'
    BY <1>11, <1>12 DEF StageInv
  <1> QED BY <1>4, <1>5, <1>6, <1>7, <1>10, <1>13 DEF Core

(* ... and put into the send queue. *)
LEMMA SerializeStep ==
  ASSUME Core, NEW st \in [Conns -> Stages], StageInv(st),
         NEW x \in Threads, Serialize(x)
  PROVE  Core' /\ \E t \in [Conns -> Stages] : StageInv(t)'
  <1>a. PICK r \in Ranks : r = x[1]
    BY ThreadFacts
  <1>b. PICK k \in Conns : k \in hold[x]
    BY DEF Serialize, Core, QueueTypes
  <1>c. PICK t : t = [st EXCEPT ![k] = "serialized"]
    OBVIOUS
  <1>d. PICK P : P = Listed(hold[x])
    OBVIOUS
  <1>0. /\ pc[x] \in {"ser", "send"}
        /\ sendQ' = [sendQ EXCEPT ![r] = sendQ[r] \o P] /\ hold' = [hold EXCEPT ![x] = {}]
        /\ UNCHANGED <<pc, syncs, serQ, desQ, linkQ, countVars, netVars, delivered>>
    BY <1>a, <1>d DEF Serialize
  <1>1. hold[x] = {k} /\ HoldStage(x) = "serializing" /\ st[k] = "serializing" /\ k[1] = r
    <2>1. hold[x] = {k}
      BY <1>b DEF Core, HoldInv
    <2>2. HoldStage(x) = "serializing"
      BY <1>0 DEF HoldStage
    <2> QED BY <1>a, <1>b, <2>1, <2>2 DEF Core, HoldInv, StageInv, PlaceInv, PlaceAt
  <1>2. /\ sendQ[r] \o P \in Seq(Conns) /\ NoDup(sendQ[r] \o P)
        /\ Range(sendQ[r] \o P) = Range(sendQ[r]) \cup {k}
    <2>1. P \in Seq(Conns) /\ NoDup(P) /\ Range(P) = {k}
      BY <1>1, <1>b, <1>d, ListedOnce
    <2>2. sendQ[r] \in Seq(Conns) /\ NoDup(sendQ[r])
      BY DEF Core, QueueTypes, QueueInv
    <2>3. k \notin Range(sendQ[r])
      BY <1>1 DEF StageInv, PlaceInv, PlaceAt
    <2>4. Range(sendQ[r]) \cap Range(P) = {}
      BY <2>1, <2>3
    <2> QED BY <2>1, <2>2, <2>4, QueueConcat
  <1>3. /\ sendQ'[r] = sendQ[r] \o P /\ \A s \in Ranks : s # r => sendQ'[s] = sendQ[s]
        /\ hold'[x] = {} /\ \A y \in Threads : y # x => hold'[y] = hold[y]
        /\ pc' = pc
    BY <1>0 DEF Core, QueueTypes
  <1>4. t \in [Conns -> Stages] /\ \A c \in Conns : t[c] = IF c = k THEN "serialized" ELSE st[c]
    BY <1>c DEF Stages, Unsent
  <1>5. PcInv' /\ NetTypes'
    BY <1>0 DEF Core, PcInv, NetTypes, netVars
  <1>6. QueueTypes'
    BY <1>0, <1>2 DEF Core, QueueTypes, countVars, netVars
  <1>7. QueueInv'
    <2>1. k \in SendMap(r)
      BY <1>1, ConnFacts
    <2> QED BY <1>0, <1>2, <1>3, <2>1 DEF Core, QueueInv
  <1>8. \A y \in Threads : HoldStage(y)' = HoldStage(y)
    BY <1>3 DEF HoldStage
  <1>9. \A y \in Threads : y # x => k \notin hold[y]
    BY <1>1 DEF Core, HoldInv
  <1>10. HoldInv'
    <2>1. \A y \in Threads : hold'[y] \subseteq hold[y]
      BY <1>3
    <2>2. ASSUME NEW y \in Threads, NEW c \in hold'[y]
          PROVE  IF HoldStage(y)' = "serializing" THEN c[1] = y[1] ELSE c[2][1] = y[1]
      BY <1>8, <2>1, <2>2 DEF Core, HoldInv
    <2>3. \A y \in Threads : /\ pc[y] = "deliver" => hold'[y] = {}
                             /\ pc[y] = "count" => hold'[y] # {}
      BY <1>0, <1>3 DEF Core, HoldInv
    <2>4. \A y \in Threads : \A c, d \in hold'[y] : c = d
      BY <2>1 DEF Core, HoldInv
    <2>5. \A y, z \in Threads : y # z => hold'[y] \cap hold'[z] = {}
      BY <2>1 DEF Core, HoldInv
    <2> HIDE DEF HoldStage
    <2> QED BY <1>3, <2>2, <2>3, <2>4, <2>5 DEF HoldInv
  <1>11. PlaceInv(t)'
    <2> SUFFICES ASSUME NEW c \in Conns PROVE PlaceAt(t, c)'
      BY DEF PlaceInv
    <2>1. PlaceAt(st, c)
      BY DEF StageInv, PlaceInv
    <2>2. c \in Range(sendQ'[c[1]]) <=> c \in Range(sendQ[c[1]]) \/ c = k
      <3>1. CASE c[1] = r
        BY <1>2, <1>3, <3>1
      <3>2. CASE c[1] # r
        <4>1. sendQ'[c[1]] = sendQ[c[1]] /\ c # k
          BY <1>1, <1>3, <3>2, ConnFacts
        <4> QED BY <4>1
      <3> QED BY <3>1, <3>2
    <2>3. \A y \in Threads : c \in hold'[y] <=> c \in hold[y] /\ c # k
      BY <1>1, <1>3, <1>9
    <2> QED BY <1>0, <1>1, <1>4, <1>8, <2>1, <2>2, <2>3 DEF PlaceAt
  <1>12. WireInv(t)' /\ SendInv(t)' /\ ReceiveInv(t)' /\ LinkInv(t)'
    <2>1. /\ UNCHANGED <<netVars, syncs, toSend, remaining, toDeliver>>
          /\ "serialized" \in Stages /\ "serialized" \in Unsent /\ st[k] \in Unsent
          /\ "serialized" \in Early /\ st[k] \notin Counted /\ "serialized" \notin Counted
          /\ st[k] # "done"
      BY <1>0, <1>1 DEF countVars, Stages, Unsent, Early, Counted
    <2>2. WireInv(t)'
      BY <1>1, <2>1, <1>c, WireMove DEF StageInv
    <2>3. SendInv(t)'
      BY <1>1, <1>3, <2>1, <1>c, SendMove DEF StageInv
    <2>4. ReceiveInv(t)'
      BY <1>1, <1>3, <2>1, <1>c, ReceiveMove DEF StageInv
    <2>5. LinkInv(t)'
      BY <1>1, <1>3, <2>1, <1>c, LinkMove DEF StageInv
    <2> QED BY <2>2, <2>3, <2>4, <2>5
  <1>13. StageInv(t)'
    BY <1>11, <1>12 DEF StageInv
  <1> QED BY <1>4, <1>5, <1>6, <1>7, <1>10, <1>13 DEF Core

(* The thread turns to its links: none of them has got anything. *)
LEMMA SerializedAllStep ==
  ASSUME Core, NEW st \in [Conns -> Stages], StageInv(st),
         NEW x \in Threads, SerializedAll(x)
  PROVE  Core' /\ StageInv(st)'
  <1> DEFINE l == IF SendMap(x[1]) = {} THEN "trap" ELSE "deliver"
  <1>0. /\ pc[x] = "ser" /\ hold[x] = {} /\ pc' = [pc EXCEPT ![x] = l]
        /\ toDeliver' = [toDeliver EXCEPT ![x] = RecvCount(x)]
        /\ UNCHANGED <<syncs, queueVars, toSend, remaining, netVars, delivered>>
    BY DEF SerializedAll, Goto
  <1>1. PcInv'
    BY <1>0, PcStep DEF Core, Sharing
  <1>2. pc'[x] = l /\ \A y \in Threads : y # x => pc'[y] = pc[y]
    BY <1>0 DEF Core, PcInv
  <1>3. RecvCount(x) \in Nat /\ RecvCount(x) = Cardinality(ToDeliver(st, x))
    <2>1. \A k \in Conns : k[2] = x => st[k] # "done"
      BY <1>0 DEF StageInv, LinkInv, LinkAt
    <2>2. ToDeliver(st, x) = {k \in Conns : k[2] = x}
      BY <2>1 DEF ToDeliver
    <2>3. {k \in Conns : k[2] = x} \in SUBSET Conns
      OBVIOUS
    <2> QED BY <2>2, <2>3, ConnsFinite DEF RecvCount
  <1>4. QueueTypes'
    BY <1>0, <1>3 DEF Core, QueueTypes, queueVars, netVars
  <1>5. QueueInv' /\ HoldInv' /\ NetTypes' /\ PlaceInv(st)' /\ WireInv(st)'
    <2>1. \A y \in Threads : /\ hold[y] # {} => HoldStage(y)' = HoldStage(y) /\ pc'[y] # "deliver"
                             /\ pc'[y] = "count" => pc[y] = "count"
      BY <1>0, <1>2 DEF HoldStage, Core, HoldInv
    <2> QED BY <1>0, <2>1, DataStay
  <1>6. SendInv(st)' /\ ReceiveInv(st)'
    <2> SUFFICES ASSUME NEW s \in Ranks PROVE SendAt(st, s)' /\ ReceiveAt(st, s)'
      BY DEF SendInv, ReceiveInv
    <2>1. /\ SendAt(st, s) /\ ReceiveAt(st, s) /\ toSend' = toSend /\ remaining' = remaining
          /\ ToSend(st, s)' = ToSend(st, s) /\ Remaining(st, s)' = Remaining(st, s)
      BY <1>0 DEF StageInv, SendInv, ReceiveInv, ToSend, Remaining
    <2>2. /\ Master(s) # x => pc'[Master(s)] = pc[Master(s)]
          /\ Master(s) = x => pc[Master(s)] = "ser" /\ pc'[Master(s)] \in {"trap", "deliver"}
      BY <1>0, <1>2, ThreadFacts
    <2> QED BY <2>1, <2>2 DEF SendAt, ReceiveAt, Sharing
  <1>7. LinkInv(st)'
    <2> SUFFICES ASSUME NEW y \in Threads PROVE LinkAt(st, y)'
      BY DEF LinkInv
    <2>1. LinkAt(st, y) /\ ToDeliver(st, y)' = ToDeliver(st, y)
      BY <1>0 DEF StageInv, LinkInv, ToDeliver
    <2>2. toDeliver'[y] = IF y = x THEN Cardinality(ToDeliver(st, x)) ELSE toDeliver[y]
      BY <1>0, <1>3 DEF Core, QueueTypes
    <2> QED BY <1>0, <1>2, <2>1, <2>2 DEF LinkAt
  <1> QED BY <1>1, <1>4, <1>5, <1>6, <1>7 DEF Core, StageInv

(* While threads share the work, an exchange is going on. *)
LEMMA Ongoing ==
  ASSUME Core, NEW x \in Threads, pc[x] \in Sharing \cup MasterOnly, syncs' = syncs
  PROVE  syncs \in Nat /\ syncs < Len(Plan) /\ Len(Plan) \in Nat
  <1> DEFINE m == Master(x[1])
  <1>1. m \in Threads /\ x[1] \in Ranks
    BY ThreadFacts
  <1>2. pc[m] \notin {"run", "allDone"}
    <2>1. CASE x = m
      BY <2>1 DEF Sharing, MasterOnly
    <2>2. CASE x # m
      BY <1>1, <2>2 DEF Core, PcInv, Sharing, MasterOnly
    <2> QED BY <2>1, <2>2
  <1>3. Len(Plan) \in Nat
    BY ExchangeAssumption, LenProperties
  <1> QED BY <1>1, <1>2, <1>3 DEF Core, PcInv

(* What was deserialized for a thread goes on its link. *)
LEMMA DeliverOneStep ==
  ASSUME Core, NEW st \in [Conns -> Stages], StageInv(st),
         NEW x \in Threads, DeliverOne(x)
  PROVE  /\ Core' /\ \E t \in [Conns -> Stages] : StageInv(t)'
         /\ \E k \in Conns : /\ delivered[k] = syncs
                             /\ delivered' = [delivered EXCEPT ![k] = syncs + 1]
  <1>b. PICK k : k = Head(linkQ[x])
    OBVIOUS
  <1>c. PICK t : t = [st EXCEPT ![k] = "done"]
    OBVIOUS
  <1>0. /\ pc[x] = "deliver" /\ linkQ[x] # <<>>
        /\ linkQ' = [linkQ EXCEPT ![x] = Tail(linkQ[x])]
        /\ toDeliver' = [toDeliver EXCEPT ![x] = toDeliver[x] - 1]
        /\ delivered' = [c \in Conns |-> IF c = k THEN rbuf[c].sync ELSE delivered[c]]
        /\ UNCHANGED <<pc, syncs, serQ, sendQ, desQ, hold, toSend, remaining, netVars>>
        /\ UNCHANGED rbuf
    BY <1>b DEF DeliverOne, Deliver, netVars
  <1>1. /\ k \in Conns /\ k[2] = x
        /\ Tail(linkQ[x]) \in Seq(Conns) /\ NoDup(Tail(linkQ[x]))
        /\ k \in Range(linkQ[x]) /\ Range(Tail(linkQ[x])) = Range(linkQ[x]) \ {k}
    <2>1. linkQ[x] \in Seq(Conns) /\ NoDup(linkQ[x])
      BY DEF Core, QueueTypes, QueueInv
    <2> QED BY <1>0, <1>b, <2>1, QueueTail DEF Core, QueueInv
  <1>2. st[k] = "deserialized" /\ rbuf[k].sync = syncs + 1 /\ delivered[k] = syncs
    BY <1>1 DEF StageInv, PlaceInv, PlaceAt, WireInv, WireAt
  <1>3. /\ linkQ'[x] = Tail(linkQ[x]) /\ \A y \in Threads : y # x => linkQ'[y] = linkQ[y]
        /\ pc' = pc /\ hold' = hold
        /\ delivered' = [delivered EXCEPT ![k] = syncs + 1]
    BY <1>0, <1>1, <1>2 DEF Core, QueueTypes, NetTypes
  <1>4. t \in [Conns -> Stages] /\ \A c \in Conns : t[c] = IF c = k THEN "done" ELSE st[c]
    BY <1>1, <1>c DEF Stages
  <1>5. PcInv' /\ HoldInv'
    BY <1>0 DEF Core, PcInv, HoldInv, HoldStage
  <1>6. NetTypes'
    <2>1. syncs + 1 \in 0 .. Len(Plan)
      BY <1>0, Ongoing DEF Sharing
    <2> QED BY <1>0, <1>3, <2>1 DEF Core, NetTypes, netVars
  <1>7. toDeliver[x] = Cardinality(ToDeliver(st, x)) /\ ToDeliver(st, x) \in SUBSET Conns
        /\ k \in ToDeliver(st, x)
    BY <1>0, <1>1, <1>2 DEF StageInv, LinkInv, LinkAt, ToDeliver
  <1>8. /\ Cardinality(ToDeliver(st, x) \ {k}) = toDeliver[x] - 1
        /\ toDeliver[x] - 1 \in Nat
    BY <1>7, OneLess
  <1>9. QueueTypes'
    <2>1. toDeliver'[x] = toDeliver[x] - 1 /\ \A y \in Threads : y # x => toDeliver'[y] = toDeliver[y]
      BY <1>0 DEF Core, QueueTypes
    <2>2. \A y \in Threads : RecvCount(y) \in Nat
      BY ConnsFinite DEF RecvCount
    <2>a. \A y \in Threads : toDeliver[y] \in Nat /\ toDeliver[y] <= RecvCount(y)
      BY DEF Core, QueueTypes
    <2>b. toDeliver[x] - 1 \in Nat
      BY <1>8
    <2>3. \A y \in Threads : toDeliver'[y] \in Nat /\ toDeliver'[y] <= RecvCount(y)
      <3>1. toDeliver'[x] \in Nat /\ toDeliver'[x] <= RecvCount(x)
        BY <2>1, <2>2, <2>a, <2>b
      <3> QED BY <2>1, <2>a, <3>1
    <2>4. toDeliver' \in [Threads -> Nat]
      BY <1>0, <2>3 DEF Core, QueueTypes
    <2>5. linkQ' \in [Threads -> Seq(Conns)]
      BY <1>0, <1>1 DEF Core, QueueTypes
    <2>6. UNCHANGED <<serQ, sendQ, desQ, hold, posted, toSend, remaining>>
      BY <1>0 DEF netVars
    <2> QED BY <2>3, <2>4, <2>5, <2>6 DEF Core, QueueTypes
  <1>10. QueueInv'
    BY <1>0, <1>1, <1>3 DEF Core, QueueInv
  <1>11. PlaceInv(t)'
    <2> SUFFICES ASSUME NEW c \in Conns PROVE PlaceAt(t, c)'
      BY DEF PlaceInv
    <2>1. PlaceAt(st, c)
      BY DEF StageInv, PlaceInv
    <2>2. c \in Range(linkQ'[c[2]]) <=> c \in Range(linkQ[c[2]]) /\ c # k
      BY <1>1, <1>3, ConnFacts
    <2>3. delivered'[c] = IF c = k THEN syncs + 1 ELSE delivered[c]
      BY <1>3 DEF Core, NetTypes
    <2>4. \A y \in Threads : HoldStage(y)' = HoldStage(y) /\ HoldStage(y) # "deserialized"
      BY <1>3 DEF HoldStage
    <2> QED BY <1>0, <1>2, <1>4, <2>1, <2>2, <2>3, <2>4 DEF PlaceAt
  <1>12. LinkInv(t)'
    <2> SUFFICES ASSUME NEW y \in Threads PROVE LinkAt(t, y)'
      BY DEF LinkInv
    <2>1. LinkAt(st, y)
      BY DEF StageInv, LinkInv
    <2>2. CASE y = x
      <3>1. ToDeliver(t, y)' = ToDeliver(st, y) \ {k}
        BY <1>4 DEF ToDeliver
      <3>2. toDeliver'[y] = toDeliver[y] - 1
        BY <1>0, <2>2 DEF Core, QueueTypes
      <3> QED BY <1>0, <1>8, <2>2, <3>1, <3>2 DEF LinkAt
    <2>3. CASE y # x
      <3>1. /\ \A c \in Conns : c[2] = y => t[c] = st[c]
            /\ ToDeliver(t, y)' = ToDeliver(st, y)
        BY <1>1, <1>4, <2>3 DEF ToDeliver
      <3>2. toDeliver'[y] = toDeliver[y]
        BY <1>0, <2>3 DEF Core, QueueTypes
      <3> QED BY <1>3, <2>1, <3>1, <3>2 DEF LinkAt
    <2> QED BY <2>2, <2>3
  <1>13. WireInv(t)' /\ SendInv(t)' /\ ReceiveInv(t)'
    <2>1. /\ UNCHANGED <<netVars, syncs, toSend, remaining>>
          /\ "done" \in Stages /\ "done" \notin Unsent /\ st[k] \notin Unsent
          /\ st[k] \notin Early /\ st[k] \in Counted /\ "done" \in Counted
      BY <1>0, <1>2 DEF Stages, Unsent, Early, Counted
    <2>2. WireInv(t)'
      BY <1>1, <1>2, <2>1, <1>c, WireMove DEF StageInv
    <2>3. SendInv(t)'
      BY <1>1, <1>2, <1>3, <2>1, <1>c, SendMove DEF StageInv
    <2>4. ReceiveInv(t)'
      BY <1>1, <1>2, <1>3, <2>1, <1>c, ReceiveMove DEF StageInv
    <2> QED BY <2>2, <2>3, <2>4
  <1>14. StageInv(t)'
    BY <1>11, <1>12, <1>13 DEF StageInv
  <1> QED BY <1>1, <1>2, <1>3, <1>4, <1>5, <1>6, <1>9, <1>10, <1>14 DEF Core

(* A thread takes an entry that has been received, ... *)
LEMMA TakeToDeserializeStep ==
  ASSUME Core, NEW st \in [Conns -> Stages], StageInv(st),
         NEW x \in Threads, TakeToDeserialize(x)
  PROVE  Core' /\ \E t \in [Conns -> Stages] : StageInv(t)'
  <1>a. PICK r \in Ranks : r = x[1]
    BY ThreadFacts
  <1>b. PICK k : k = Head(desQ[r])
    OBVIOUS
  <1>c. PICK t : t = [st EXCEPT ![k] = "taken"]
    OBVIOUS
  <1>0. /\ pc[x] = "deliver" /\ desQ[r] # <<>> /\ pc' = [pc EXCEPT ![x] = "count"]
        /\ desQ' = [desQ EXCEPT ![r] = Tail(desQ[r])] /\ hold' = [hold EXCEPT ![x] = {k}]
        /\ UNCHANGED <<syncs, serQ, sendQ, linkQ, countVars, netVars, delivered>>
    BY <1>a, <1>b DEF TakeToDeserialize, Goto
  <1>1. k \in RecvMap(r) /\ k \in Conns /\ st[k] = "received" /\ k[2][1] = r
    BY <1>0, <1>b, FrontOfQueue, ConnFacts
  <1>2. /\ Tail(desQ[r]) \in Seq(Conns) /\ NoDup(Tail(desQ[r]))
        /\ Range(Tail(desQ[r])) = Range(desQ[r]) \ {k}
    <2>1. desQ[r] \in Seq(Conns) /\ NoDup(desQ[r])
      BY DEF Core, QueueTypes, QueueInv
    <2> QED BY <1>0, <1>b, <2>1, QueueTail
  <1>3. /\ desQ'[r] = Tail(desQ[r]) /\ \A s \in Ranks : s # r => desQ'[s] = desQ[s]
        /\ hold'[x] = {k} /\ \A y \in Threads : y # x => hold'[y] = hold[y]
        /\ pc'[x] = "count" /\ \A y \in Threads : y # x => pc'[y] = pc[y]
        /\ hold[x] = {}
    BY <1>0, <1>1 DEF Core, QueueTypes, PcInv, HoldInv
  <1>4. t \in [Conns -> Stages] /\ \A c \in Conns : t[c] = IF c = k THEN "taken" ELSE st[c]
    BY <1>1, <1>c DEF Stages, Unsent
  <1>5. PcInv' /\ NetTypes'
    <2>1. PcInv'
      BY <1>0, PcStep DEF Core, Sharing
    <2> QED BY <1>0, <2>1 DEF Core, NetTypes, netVars
  <1>6. QueueTypes'
    BY <1>0, <1>1, <1>2 DEF Core, QueueTypes, countVars, netVars
  <1>7. QueueInv'
    BY <1>0, <1>2, <1>3 DEF Core, QueueInv
  <1>8. /\ \A y \in Threads : y # x => HoldStage(y)' = HoldStage(y)
        /\ HoldStage(x)' = "taken"
    BY <1>3 DEF HoldStage
  <1>9. \A y \in Threads : k \notin hold[y]
    BY <1>1 DEF StageInv, PlaceInv, PlaceAt, HoldStage
  <1>10. HoldInv'
    <2>1. ASSUME NEW y \in Threads, NEW c \in hold'[y]
          PROVE  IF HoldStage(y)' = "serializing" THEN c[1] = y[1] ELSE c[2][1] = y[1]
      <3>1. CASE y = x
        BY <1>1, <1>3, <1>8, <1>a, <2>1, <3>1
      <3>2. CASE y # x
        BY <1>3, <1>8, <2>1, <3>2 DEF Core, HoldInv
      <3> QED BY <3>1, <3>2
    <2>2. \A y \in Threads : /\ pc'[y] = "deliver" => hold'[y] = {}
                             /\ pc'[y] = "count" => hold'[y] # {}
      BY <1>0, <1>3 DEF Core, HoldInv
    <2>3. \A y \in Threads : \A c, d \in hold'[y] : c = d
      BY <1>3 DEF Core, HoldInv
    <2>4. \A y, z \in Threads : y # z => hold'[y] \cap hold'[z] = {}
      BY <1>3, <1>9 DEF Core, HoldInv
    <2> HIDE DEF HoldStage
    <2> QED BY <2>1, <2>2, <2>3, <2>4 DEF HoldInv
  <1>11. PlaceInv(t)'
    <2> SUFFICES ASSUME NEW c \in Conns PROVE PlaceAt(t, c)'
      BY DEF PlaceInv
    <2>1. PlaceAt(st, c)
      BY DEF StageInv, PlaceInv
    <2>2. c \in Range(desQ'[c[2][1]]) <=> c \in Range(desQ[c[2][1]]) /\ c # k
      BY <1>1, <1>2, <1>3, ConnFacts
    <2>3. \A y \in Threads : c \in hold'[y] <=> c \in hold[y] \/ (c = k /\ y = x)
      BY <1>3
    <2>4. c # k => \A y \in Threads : c \in hold[y] => y # x
      BY <1>3
    <2> QED BY <1>0, <1>1, <1>4, <1>8, <1>9, <2>1, <2>2, <2>3, <2>4 DEF PlaceAt
  <1>12. WireInv(t)' /\ SendInv(t)' /\ ReceiveInv(t)' /\ LinkInv(t)'
    <2>1. /\ UNCHANGED <<netVars, syncs, toSend, remaining, toDeliver>>
          /\ "taken" \in Stages /\ "taken" \notin Unsent /\ st[k] \notin Unsent
          /\ st[k] \notin Early /\ st[k] \notin Counted /\ "taken" \notin Counted
          /\ st[k] # "done"
      BY <1>0, <1>1 DEF countVars, Stages, Unsent, Early, Counted
    <2>2. WireInv(t)'
      BY <1>1, <2>1, <1>c, WireMove DEF StageInv
    <2>a. \A y \in Threads : pc'[y] = pc[y] \/ {pc[y], pc'[y]} \subseteq {"deliver", "count", "deser"}
      BY <1>0, <1>3
    <2>b. \A s \in Ranks : \/ pc'[Master(s)] = pc[Master(s)]
                           \/ {pc[Master(s)], pc'[Master(s)]} \subseteq Sharing
      BY <2>a, ThreadFacts DEF Sharing
    <2>3. SendInv(t)'
      BY <1>1, <2>b, <2>1, <1>c, SendMove DEF StageInv
    <2>4. ReceiveInv(t)'
      BY <1>1, <2>b, <2>1, <1>c, ReceiveMove DEF StageInv
    <2>5. LinkInv(t)'
      BY <1>1, <2>a, <2>1, <1>c, LinkMove DEF StageInv
    <2> QED BY <2>2, <2>3, <2>4, <2>5
  <1>13. StageInv(t)'
    BY <1>11, <1>12 DEF StageInv
  <1> QED BY <1>4, <1>5, <1>6, <1>7, <1>10, <1>13 DEF Core

(* ... hands it to the thread that has the link ... *)
LEMMA DeserializeStep ==
  ASSUME Core, NEW st \in [Conns -> Stages], StageInv(st),
         NEW x \in Threads, Deserialize(x)
  PROVE  Core' /\ \E t \in [Conns -> Stages] : StageInv(t)'
  <1>a. PICK k \in hold[x] : linkQ' = [linkQ EXCEPT ![k[2]] = Append(linkQ[k[2]], k)]
    BY DEF Deserialize
  <1>b. k \in Conns
    BY <1>a DEF Core, QueueTypes
  <1>c. PICK t : t = [st EXCEPT ![k] = "deserialized"]
    OBVIOUS
  <1>d. PICK z \in Threads : z = k[2]
    BY <1>b, ConnFacts
  <1>0. /\ pc[x] = "deser" /\ pc' = [pc EXCEPT ![x] = "deliver"]
        /\ linkQ' = [linkQ EXCEPT ![z] = Append(linkQ[z], k)] /\ hold' = [hold EXCEPT ![x] = {}]
        /\ UNCHANGED <<syncs, serQ, sendQ, desQ, countVars, netVars, delivered>>
    BY <1>a, <1>d DEF Deserialize, Goto
  <1>1. hold[x] = {k} /\ HoldStage(x) = "counted" /\ st[k] = "counted"
    <2>1. hold[x] = {k}
      BY <1>a DEF Core, HoldInv
    <2>2. HoldStage(x) = "counted"
      BY <1>0 DEF HoldStage
    <2> QED BY <1>a, <1>b, <2>1, <2>2 DEF StageInv, PlaceInv, PlaceAt
  <1>2. /\ Append(linkQ[z], k) \in Seq(Conns) /\ NoDup(Append(linkQ[z], k))
        /\ Range(Append(linkQ[z], k)) = Range(linkQ[z]) \cup {k}
    <2>1. linkQ[z] \in Seq(Conns) /\ NoDup(linkQ[z])
      BY DEF Core, QueueTypes, QueueInv
    <2>2. k \notin Range(linkQ[z])
      BY <1>1, <1>b, <1>d DEF StageInv, PlaceInv, PlaceAt
    <2> QED BY <1>b, <2>1, <2>2, QueueAppend
  <1>3. /\ linkQ'[z] = Append(linkQ[z], k) /\ \A y \in Threads : y # z => linkQ'[y] = linkQ[y]
        /\ hold'[x] = {} /\ \A y \in Threads : y # x => hold'[y] = hold[y]
        /\ pc'[x] = "deliver" /\ \A y \in Threads : y # x => pc'[y] = pc[y]
    BY <1>0 DEF Core, QueueTypes, PcInv
  <1>4. t \in [Conns -> Stages] /\ \A c \in Conns : t[c] = IF c = k THEN "deserialized" ELSE st[c]
    BY <1>c DEF Stages
  <1>5. PcInv' /\ NetTypes'
    <2>1. PcInv'
      BY <1>0, PcStep DEF Core, Sharing
    <2> QED BY <1>0, <2>1 DEF Core, NetTypes, netVars
  <1>6. QueueTypes'
    BY <1>0, <1>2 DEF Core, QueueTypes, countVars, netVars
  <1>7. QueueInv'
    BY <1>0, <1>2, <1>3, <1>d DEF Core, QueueInv
  <1>8. \A y \in Threads : y # x => HoldStage(y)' = HoldStage(y)
    BY <1>3 DEF HoldStage
  <1>9. \A y \in Threads : y # x => k \notin hold[y]
    BY <1>1 DEF Core, HoldInv
  <1>10. HoldInv'
    <2>1. \A y \in Threads : hold'[y] \subseteq hold[y] /\ (y = x => hold'[y] = {})
      BY <1>3
    <2>2. ASSUME NEW y \in Threads, NEW c \in hold'[y]
          PROVE  IF HoldStage(y)' = "serializing" THEN c[1] = y[1] ELSE c[2][1] = y[1]
      BY <1>8, <2>1, <2>2 DEF Core, HoldInv
    <2>3. \A y \in Threads : /\ pc'[y] = "deliver" => hold'[y] = {}
                             /\ pc'[y] = "count" => hold'[y] # {}
      BY <1>3 DEF Core, HoldInv
    <2>4. \A y \in Threads : \A c, d \in hold'[y] : c = d
      BY <2>1 DEF Core, HoldInv
    <2>5. \A y, w \in Threads : y # w => hold'[y] \cap hold'[w] = {}
      BY <2>1 DEF Core, HoldInv
    <2> HIDE DEF HoldStage
    <2> QED BY <2>2, <2>3, <2>4, <2>5 DEF HoldInv
  <1>11. PlaceInv(t)'
    <2> SUFFICES ASSUME NEW c \in Conns PROVE PlaceAt(t, c)'
      BY DEF PlaceInv
    <2>1. PlaceAt(st, c)
      BY DEF StageInv, PlaceInv
    <2>2. c \in Range(linkQ'[c[2]]) <=> c \in Range(linkQ[c[2]]) \/ c = k
      <3>1. CASE c[2] = z
        BY <1>2, <1>3, <3>1
      <3>2. CASE c[2] # z
        <4>1. linkQ'[c[2]] = linkQ[c[2]] /\ c # k
          BY <1>3, <1>d, <3>2, ConnFacts
        <4> QED BY <4>1
      <3> QED BY <3>1, <3>2
    <2>3. \A y \in Threads : c \in hold'[y] <=> c \in hold[y] /\ c # k
      BY <1>1, <1>3, <1>9
    <2>4. \A y \in Threads : c \in hold'[y] => HoldStage(y)' = HoldStage(y)
      BY <1>3, <1>8
    <2> QED BY <1>0, <1>1, <1>4, <2>1, <2>2, <2>3, <2>4 DEF PlaceAt
  <1>12. WireInv(t)' /\ SendInv(t)' /\ ReceiveInv(t)' /\ LinkInv(t)'
    <2>1. /\ UNCHANGED <<netVars, syncs, toSend, remaining, toDeliver>>
          /\ "deserialized" \in Stages /\ "deserialized" \notin Unsent /\ st[k] \notin Unsent
          /\ st[k] \notin Early /\ st[k] \in Counted /\ "deserialized" \in Counted
          /\ st[k] # "done"
      BY <1>0, <1>1 DEF countVars, Stages, Unsent, Early, Counted
    <2>2. WireInv(t)'
      BY <1>b, <1>1, <2>1, <1>c, WireMove DEF StageInv
    <2>a. \A y \in Threads : pc'[y] = pc[y] \/ {pc[y], pc'[y]} \subseteq {"deliver", "count", "deser"}
      BY <1>0, <1>3
    <2>b. \A s \in Ranks : \/ pc'[Master(s)] = pc[Master(s)]
                           \/ {pc[Master(s)], pc'[Master(s)]} \subseteq Sharing
      BY <2>a, ThreadFacts DEF Sharing
    <2>3. SendInv(t)'
      BY <1>b, <1>1, <2>b, <2>1, <1>c, SendMove DEF StageInv
    <2>4. ReceiveInv(t)'
      BY <1>b, <1>1, <2>b, <2>1, <1>c, ReceiveMove DEF StageInv
    <2>5. LinkInv(t)'
      BY <1>b, <1>1, <2>a, <2>1, <1>c, LinkMove DEF StageInv
    <2> QED BY <2>2, <2>3, <2>4, <2>5
  <1>13. StageInv(t)'
    BY <1>11, <1>12 DEF StageInv
  <1> QED BY <1>4, <1>5, <1>6, <1>7, <1>10, <1>13 DEF Core

(* ... after having counted it down. *)
LEMMA CountDownStep ==
  ASSUME Core, NEW st \in [Conns -> Stages], StageInv(st),
         NEW x \in Threads, CountDown(x)
  PROVE  Core' /\ \E t \in [Conns -> Stages] : StageInv(t)'
  <1>a. PICK r \in Ranks : r = x[1]
    BY ThreadFacts
  <1>0. /\ pc[x] = "count" /\ pc' = [pc EXCEPT ![x] = "deser"]
        /\ remaining' = [remaining EXCEPT ![r] = remaining[r] - 1]
        /\ UNCHANGED <<syncs, queueVars, toSend, toDeliver, netVars, delivered>>
        /\ UNCHANGED <<serQ, sendQ, desQ, linkQ, hold, posted>>
    BY <1>a DEF CountDown, Goto, queueVars, netVars
  <1>b. PICK k : k \in hold[x]
    BY <1>0 DEF Core, HoldInv
  <1>c. PICK t : t = [st EXCEPT ![k] = "counted"]
    OBVIOUS
  <1>1. /\ k \in Conns /\ hold[x] = {k} /\ HoldStage(x) = "taken" /\ st[k] = "taken"
        /\ k[2][1] = r /\ k \in RecvMap(r)
    <2>1. hold[x] = {k} /\ k \in Conns
      BY <1>b DEF Core, HoldInv, QueueTypes
    <2>2. HoldStage(x) = "taken"
      BY <1>0 DEF HoldStage
    <2>3. st[k] = "taken" /\ k[2][1] = x[1]
      BY <1>b, <2>1, <2>2 DEF Core, HoldInv, StageInv, PlaceInv, PlaceAt
    <2> QED BY <1>a, <2>1, <2>2, <2>3, ConnFacts
  <1>3. /\ pc'[x] = "deser" /\ \A y \in Threads : y # x => pc'[y] = pc[y]
        /\ remaining'[r] = remaining[r] - 1
        /\ \A s \in Ranks : s # r => remaining'[s] = remaining[s]
    BY <1>0 DEF Core, QueueTypes, PcInv
  <1>4. t \in [Conns -> Stages] /\ \A c \in Conns : t[c] = IF c = k THEN "counted" ELSE st[c]
    BY <1>c DEF Stages
  <1>5. PcInv' /\ NetTypes' /\ QueueInv'
    <2>1. PcInv'
      BY <1>0, PcStep DEF Core, Sharing
    <2> QED BY <1>0, <2>1 DEF Core, NetTypes, netVars, QueueInv
  <1>6. PICK R : R = Remaining(st, r)
    OBVIOUS
  <1>7. /\ remaining[r] = Cardinality(R) /\ R \in SUBSET Conns /\ k \in R
    <2>1. Master(r) \in Threads /\ Master(r)[1] = r
      BY ThreadFacts
    <2>2. pc[Master(r)] \in {"post", "send", "recv"} \cup Sharing
      <3>1. CASE x = Master(r)
        BY <1>0, <3>1 DEF Sharing
      <3>2. CASE x # Master(r)
        BY <1>0, <1>a, <2>1, <3>2 DEF Core, PcInv, Sharing, Barriers, MasterOnly
      <3> QED BY <3>1, <3>2
    <2>3. remaining[r] = Cardinality(R)
      BY <1>6, <2>2 DEF StageInv, ReceiveInv, ReceiveAt
    <2>4. k \in R /\ R \subseteq Conns
      BY <1>1, <1>6, ConnFacts DEF Remaining, Counted
    <2> QED BY <2>3, <2>4
  <1>8. Cardinality(R \ {k}) = remaining[r] - 1 /\ remaining[r] - 1 \in Nat
    BY <1>7, OneLess
  <1>9. QueueTypes'
    <2>1. \A s \in Ranks : /\ remaining[s] \in Nat /\ remaining[s] <= Cardinality(RecvMap(s))
                           /\ Cardinality(RecvMap(s)) \in Nat
      BY ConnsFinite, ConnFacts DEF Core, QueueTypes
    <2>2. remaining'[r] \in Nat /\ remaining'[r] <= Cardinality(RecvMap(r))
      BY <1>3, <1>8, <2>1
    <2>3. \A s \in Ranks : remaining'[s] \in Nat /\ remaining'[s] <= Cardinality(RecvMap(s))
      BY <1>3, <2>1, <2>2
    <2>4. remaining' \in [Ranks -> Nat]
      BY <1>0, <2>3 DEF Core, QueueTypes
    <2> QED BY <1>0, <2>3, <2>4 DEF Core, QueueTypes
  <1>10. \A y \in Threads : y # x => HoldStage(y)' = HoldStage(y) /\ k \notin hold[y]
    BY <1>1, <1>3 DEF HoldStage, Core, HoldInv
  <1>11. HoldStage(x)' = "counted"
    BY <1>3 DEF HoldStage
  <1>12. HoldInv'
    <2>1. ASSUME NEW y \in Threads, NEW c \in hold[y]
          PROVE  IF HoldStage(y)' = "serializing" THEN c[1] = y[1] ELSE c[2][1] = y[1]
      <3>1. CASE y = x
        BY <1>1, <1>a, <1>11, <2>1, <3>1
      <3>2. CASE y # x
        BY <1>10, <2>1, <3>2 DEF Core, HoldInv
      <3> QED BY <3>1, <3>2
    <2>2. \A y \in Threads : /\ pc'[y] = "deliver" => hold[y] = {}
                             /\ pc'[y] = "count" => hold[y] # {}
      BY <1>3 DEF Core, HoldInv
    <2> HIDE DEF HoldStage
    <2> QED BY <1>0, <2>1, <2>2 DEF Core, HoldInv
  <1>13. PlaceInv(t)'
    <2> SUFFICES ASSUME NEW c \in Conns PROVE PlaceAt(t, c)'
      BY DEF PlaceInv
    <2>1. PlaceAt(st, c)
      BY DEF StageInv, PlaceInv
    <2>2. c # k => \A y \in Threads : c \in hold[y] => HoldStage(y)' = HoldStage(y)
      BY <1>1, <1>10
    <2>3. CASE c # k
      BY <1>0, <1>4, <2>1, <2>2, <2>3 DEF PlaceAt
    <2>4. CASE c = k
      <3>1. \A y \in Threads : c \in hold[y] <=> y = x
        BY <1>1, <1>10, <2>4
      <3> QED BY <1>0, <1>1, <1>4, <1>11, <2>1, <2>4, <3>1 DEF PlaceAt
    <2> QED BY <2>3, <2>4
  <1>14. ReceiveInv(t)'
    <2> SUFFICES ASSUME NEW s \in Ranks PROVE ReceiveAt(t, s)'
      BY DEF ReceiveInv
    <2>1. ReceiveAt(st, s) /\ RecvMap(s) \subseteq Conns
      BY ConnFacts DEF StageInv, ReceiveInv
    <2>2. \/ pc'[Master(s)] = pc[Master(s)]
          \/ pc[Master(s)] = "count" /\ pc'[Master(s)] = "deser"
      BY <1>0, <1>3, ThreadFacts
    <2>3. CASE s = r
      <3>1. Remaining(t, s)' = R \ {k}
        BY <1>4, <1>6, <2>1, <2>3 DEF Remaining, Counted
      <3>2. remaining'[s] = Cardinality(R \ {k})
        BY <1>3, <1>8, <2>3
      <3>3. st[k] \notin Early /\ st[k] # "done"
        BY <1>1 DEF Early, Unsent
      <3> QED BY <1>1, <2>1, <2>2, <2>3, <3>1, <3>2, <3>3 DEF ReceiveAt, Sharing
    <2>4. CASE s # r
      <3>1. \A c \in RecvMap(s) : t[c] = st[c]
        BY <1>1, <1>4, <2>1, <2>4, ConnFacts
      <3>2. Remaining(t, s)' = Remaining(st, s) /\ remaining'[s] = remaining[s]
        BY <1>3, <2>4, <3>1 DEF Remaining
      <3> QED BY <2>1, <2>2, <3>1, <3>2 DEF ReceiveAt, Sharing
    <2> QED BY <2>3, <2>4
  <1>15. WireInv(t)' /\ SendInv(t)' /\ LinkInv(t)'
    <2>1. /\ UNCHANGED <<netVars, syncs, toSend, toDeliver>>
          /\ "counted" \in Stages /\ "counted" \notin Unsent /\ st[k] \notin Unsent
      BY <1>0, <1>1 DEF Stages, Unsent
    <2>2. WireInv(t)'
      BY <1>1, <2>1, <1>c, WireMove DEF StageInv
    <2>a. \A y \in Threads : pc'[y] = pc[y] \/ {pc[y], pc'[y]} \subseteq {"deliver", "count", "deser"}
      BY <1>0, <1>3
    <2>b. \A s \in Ranks : pc'[Master(s)] = pc[Master(s)] \/ pc'[Master(s)] \in Sharing
      BY <1>3, ThreadFacts DEF Sharing
    <2>3. SendInv(t)'
      BY <1>1, <2>b, <2>1, <1>c, SendMove DEF StageInv
    <2>4. LinkInv(t)'
      BY <1>1, <2>a, <2>1, <1>c, LinkMove DEF StageInv
    <2> QED BY <2>2, <2>3, <2>4
  <1>16. StageInv(t)'
    BY <1>13, <1>14, <1>15 DEF StageInv
  <1> QED BY <1>4, <1>5, <1>9, <1>12, <1>16 DEF Core

----------------------------------------------------------------------------
(* Steps of a master that are about all connections of its rank.           *)

(* The serialize queue is filled. *)
LEMMA FillStep ==
  ASSUME Core, NEW st \in [Conns -> Stages], StageInv(st), NEW r \in Ranks, Fill(r)
  PROVE  Core' /\ \E t \in [Conns -> Stages] : StageInv(t)'
  <1>a. PICK m \in Threads : m = Master(r)
    BY ThreadFacts
  <1>b. PICK P : P = Listed(SendMap(r))
    OBVIOUS
  <1>c. PICK t : t = [c \in Conns |-> IF c \in SendMap(r) THEN "queued" ELSE st[c]]
    OBVIOUS
  <1>0. /\ pc[m] = "fill" /\ pc' = [pc EXCEPT ![m] = "ready"]
        /\ serQ' = [serQ EXCEPT ![r] = serQ[r] \o P]
        /\ remaining' = [remaining EXCEPT ![r] = Cardinality(RecvMap(r))]
        /\ UNCHANGED <<syncs, sendQ, desQ, linkQ, hold, toSend, toDeliver, netVars, delivered>>
        /\ UNCHANGED <<posted, wire, wire2, remoteSize, localSize, rbuf>>
    BY <1>a, <1>b DEF Fill, Goto, netVars
  <1>1. /\ SendMap(r) \in SUBSET Conns /\ \A k \in SendMap(r) : st[k] = "none"
        /\ \A k \in RecvMap(r) : st[k] \in Early
    BY <1>0, <1>a, ConnFacts DEF StageInv, SendInv, SendAt, ReceiveInv, ReceiveAt
  <1>2. /\ serQ[r] \o P \in Seq(Conns) /\ NoDup(serQ[r] \o P)
        /\ Range(serQ[r] \o P) = SendMap(r)
    <2>1. serQ[r] \in Seq(Conns) /\ NoDup(serQ[r]) /\ Range(serQ[r]) \subseteq SendMap(r)
      BY DEF Core, QueueTypes, QueueInv
    <2>2. Range(serQ[r]) = {}
      <3>1. \A k \in SendMap(r) : k \in Range(serQ[r]) => st[k] = "queued"
        BY ConnFacts DEF StageInv, PlaceInv, PlaceAt
      <3> QED BY <1>1, <2>1, <3>1
    <2>3. P \in Seq(Conns) /\ NoDup(P) /\ Range(P) = SendMap(r)
      BY <1>1, <1>b, ListedOnce
    <2>4. Range(serQ[r]) \cap Range(P) = {} /\ Range(serQ[r]) \cup Range(P) = SendMap(r)
      BY <2>2, <2>3
    <2>a. PICK Q : Q = serQ[r]
      OBVIOUS
    <2>b. PICK R : R = P
      OBVIOUS
    <2>5. /\ Q \in Seq(Conns) /\ R \in Seq(Conns) /\ NoDup(Q) /\ NoDup(R)
          /\ Range(Q) \cap Range(R) = {} /\ Range(Q) \cup Range(R) = SendMap(r)
      BY <2>1, <2>3, <2>4, <2>a, <2>b
    <2>6. Q \o R \in Seq(Conns) /\ NoDup(Q \o R) /\ Range(Q \o R) = Range(Q) \cup Range(R)
      BY <2>5, QueueConcat
    <2> QED BY <2>5, <2>6, <2>a, <2>b
  <1>3. /\ serQ'[r] = serQ[r] \o P /\ \A s \in Ranks : s # r => serQ'[s] = serQ[s]
        /\ remaining'[r] = Cardinality(RecvMap(r))
        /\ \A s \in Ranks : s # r => remaining'[s] = remaining[s]
        /\ pc'[m] = "ready" /\ \A y \in Threads : y # m => pc'[y] = pc[y]
    BY <1>0 DEF Core, QueueTypes, PcInv
  <1>4. /\ t \in [Conns -> Stages]
        /\ \A c \in Conns : t[c] = IF c \in SendMap(r) THEN "queued" ELSE st[c]
    BY <1>c DEF Stages, Unsent
  <1>5. PcInv' /\ NetTypes'
    <2>1. m = Master(m[1])
      BY <1>a, ThreadFacts
    <2>2. PcInv'
      BY <1>0, <2>1, PcStep DEF Core, MasterGoes
    <2> QED BY <1>0, <2>2 DEF Core, NetTypes
  <1>6. QueueTypes'
    <2>1. Cardinality(RecvMap(r)) \in Nat
      BY ConnFacts, ConnsFinite
    <2>2. remaining' \in [Ranks -> Nat] /\ \A s \in Ranks : remaining'[s] <= Cardinality(RecvMap(s))
      BY <1>0, <1>3, <2>1 DEF Core, QueueTypes
    <2>3. serQ' \in [Ranks -> Seq(Conns)]
      BY <1>0, <1>2 DEF Core, QueueTypes
    <2> QED BY <1>0, <2>2, <2>3 DEF Core, QueueTypes
  <1>7. QueueInv'
    BY <1>0, <1>2, <1>3 DEF Core, QueueInv
  <1>8. \A y \in Threads : HoldStage(y)' = HoldStage(y)
    BY <1>0, <1>3 DEF HoldStage
  <1>9. HoldInv'
    <2>1. ASSUME NEW y \in Threads, NEW c \in hold[y]
          PROVE  IF HoldStage(y)' = "serializing" THEN c[1] = y[1] ELSE c[2][1] = y[1]
      BY <1>8 DEF Core, HoldInv
    <2>2. \A y \in Threads : /\ pc'[y] = "deliver" => hold[y] = {}
                             /\ pc'[y] = "count" => hold[y] # {}
      BY <1>3 DEF Core, HoldInv
    <2> HIDE DEF HoldStage
    <2> QED BY <1>0, <2>1, <2>2 DEF Core, HoldInv
  <1>10. PlaceInv(t)'
    <2> SUFFICES ASSUME NEW c \in Conns PROVE PlaceAt(t, c)'
      BY DEF PlaceInv
    <2>1. PlaceAt(st, c)
      BY DEF StageInv, PlaceInv
    <2>2. CASE c \in SendMap(r)
      <3>1. t[c] = "queued" /\ st[c] = "none" /\ c[1] = r
        BY <1>1, <1>4, <2>2, ConnFacts
      <3>2. c \in Range(serQ'[c[1]])
        BY <1>2, <1>3, <2>2, <3>1
      <3>3. \A y \in Threads : c \notin hold[y]
        BY <2>1, <3>1 DEF PlaceAt, HoldStage
      <3> QED BY <1>0, <2>1, <3>1, <3>2, <3>3 DEF PlaceAt
    <2>3. CASE c \notin SendMap(r)
      <3>1. t[c] = st[c] /\ c[1] # r /\ c[1] \in Ranks
        BY <1>4, <2>3, ConnFacts
      <3>2. serQ'[c[1]] = serQ[c[1]]
        BY <1>3, <3>1
      <3> QED BY <1>0, <1>8, <2>1, <3>1, <3>2 DEF PlaceAt
    <2> QED BY <2>2, <2>3
  <1>11. WireInv(t)'
    <2> SUFFICES ASSUME NEW c \in Conns PROVE WireAt(t, c)'
      BY DEF WireInv
    <2>1. WireAt(st, c)
      BY DEF StageInv, WireInv
    <2> QED BY <1>0, <1>1, <1>4, <2>1 DEF WireAt
  <1>12. \A s \in Ranks : Master(s) \in Threads /\ (s # r => pc'[Master(s)] = pc[Master(s)])
    BY <1>3, <1>a, ThreadFacts
  <1>13. SendInv(t)'
    <2> SUFFICES ASSUME NEW s \in Ranks PROVE SendAt(t, s)'
      BY DEF SendInv
    <2>1. CASE s = r
      BY <1>1, <1>3, <1>4, <1>a, <2>1 DEF SendAt, Unsent
    <2>2. CASE s # r
      <3>1. SendAt(st, s)
        BY DEF StageInv, SendInv
      <3>2. \A c \in SendMap(s) : t[c] = st[c]
        BY <1>4, <2>2, ConnFacts
      <3>3. ToSend(t, s)' = ToSend(st, s)
        BY <3>2 DEF ToSend
      <3> QED BY <1>0, <1>12, <2>2, <3>1, <3>2, <3>3 DEF SendAt
    <2> QED BY <2>1, <2>2
  <1>14. ReceiveInv(t)'
    <2> SUFFICES ASSUME NEW s \in Ranks PROVE ReceiveAt(t, s)'
      BY DEF ReceiveInv
    <2>1. ReceiveAt(st, s) /\ RecvMap(s) \subseteq Conns
      BY ConnFacts DEF StageInv, ReceiveInv
    <2>2. \A c \in RecvMap(s) : /\ st[c] \in Early => t[c] \in Early
                                /\ st[c] = "done" => t[c] = "done"
                                /\ t[c] \in Counted <=> st[c] \in Counted
      BY <1>1, <1>4, <2>1 DEF Early, Unsent, Counted
    <2>3. Remaining(t, s)' = Remaining(st, s)
      BY <2>2 DEF Remaining
    <2>4. CASE s = r
      <3>1. Remaining(st, s) = RecvMap(s)
        BY <1>1, <2>4 DEF Remaining, Early, Unsent, Counted
      <3> QED BY <1>1, <1>3, <1>a, <2>2, <2>3, <2>4, <3>1 DEF ReceiveAt
    <2>5. CASE s # r
      BY <1>3, <1>12, <2>1, <2>2, <2>3, <2>5 DEF ReceiveAt
    <2> QED BY <2>4, <2>5
  <1>15. LinkInv(t)'
    <2> SUFFICES ASSUME NEW y \in Threads PROVE LinkAt(t, y)'
      BY DEF LinkInv
    <2>1. LinkAt(st, y)
      BY DEF StageInv, LinkInv
    <2>2. \A c \in Conns : t[c] = "done" <=> st[c] = "done"
      BY <1>1, <1>4
    <2>3. ToDeliver(t, y)' = ToDeliver(st, y)
      BY <2>2 DEF ToDeliver
    <2> QED BY <1>0, <1>3, <2>1, <2>2, <2>3 DEF LinkAt
  <1>16. StageInv(t)'
    BY <1>10, <1>11, <1>13, <1>14, <1>15 DEF StageInv
  <1> QED BY <1>4, <1>5, <1>6, <1>7, <1>9, <1>16 DEF Core

(* The receives are posted, and what is to be sent is counted. *)
LEMMA PostStep ==
  ASSUME Core, NEW st \in [Conns -> Stages], StageInv(st), NEW r \in Ranks, Post(r)
  PROVE  Core' /\ StageInv(st)'
  <1>a. PICK m \in Threads : m = Master(r)
    BY ThreadFacts
  <1>0. /\ pc[m] = "post" /\ pc' = [pc EXCEPT ![m] = "send"]
        /\ posted' = [posted EXCEPT ![r] = RecvMap(r)]
        /\ toSend' = [toSend EXCEPT ![r] = Cardinality(SendMap(r))]
        /\ UNCHANGED <<syncs, queueVars, remaining, toDeliver, wire, wire2, remoteSize,
                       localSize, rbuf, delivered>>
        /\ UNCHANGED <<serQ, sendQ, desQ, linkQ, hold>>
    BY <1>a DEF Post, Goto, queueVars
  <1>1. /\ pc'[m] = "send" /\ \A y \in Threads : y # m => pc'[y] = pc[y]
        /\ toSend'[r] = Cardinality(SendMap(r)) /\ \A s \in Ranks : s # r => toSend'[s] = toSend[s]
    BY <1>0 DEF Core, QueueTypes, PcInv
  <1>2. PcInv'
    <2>1. m = Master(m[1])
      BY <1>a, ThreadFacts
    <2> QED BY <1>0, <2>1, PcStep DEF Core, MasterGoes
  <1>3. QueueTypes'
    <2>1. Cardinality(SendMap(r)) \in Nat /\ RecvMap(r) \subseteq Conns
      BY ConnFacts, ConnsFinite
    <2>2. toSend' \in [Ranks -> Nat] /\ \A s \in Ranks : toSend'[s] <= Cardinality(SendMap(s))
      BY <1>0, <1>1, <2>1 DEF Core, QueueTypes
    <2>3. posted' \in [Ranks -> SUBSET Conns] /\ \A s \in Ranks : posted'[s] \subseteq RecvMap(s)
      BY <1>0, <2>1 DEF Core, QueueTypes
    <2> QED BY <1>0, <2>2, <2>3 DEF Core, QueueTypes
  <1>4. \A y \in Threads : HoldStage(y)' = HoldStage(y)
    BY <1>0, <1>1 DEF HoldStage
  <1>5. QueueInv' /\ NetTypes' /\ HoldInv'
    <2>1. QueueInv' /\ NetTypes'
      BY <1>0 DEF Core, QueueInv, NetTypes
    <2>2. \A y \in Threads : /\ pc'[y] = "deliver" => hold[y] = {}
                             /\ pc'[y] = "count" => hold[y] # {}
      BY <1>1 DEF Core, HoldInv
    <2>3. HoldInv'
      <3> HIDE DEF HoldStage
      <3> QED BY <1>0, <1>4, <2>2 DEF Core, HoldInv
    <2> QED BY <2>1, <2>3
  <1>6. PlaceInv(st)' /\ WireInv(st)'
    BY <1>0, <1>4 DEF StageInv, PlaceInv, PlaceAt, WireInv, WireAt
  <1>7. \A s \in Ranks : Master(s) \in Threads /\ (s # r => pc'[Master(s)] = pc[Master(s)])
    BY <1>1, <1>a, ThreadFacts
  <1>8. SendInv(st)'
    <2> SUFFICES ASSUME NEW s \in Ranks PROVE SendAt(st, s)'
      BY DEF SendInv
    <2>1. SendAt(st, s)
      BY DEF StageInv, SendInv
    <2>2. CASE s = r
      <3>1. ToSend(st, s)' = SendMap(s)
        BY <1>0, <1>a, <2>1, <2>2 DEF SendAt, ToSend
      <3> QED BY <1>1, <1>a, <2>2, <3>1 DEF SendAt
    <2>3. CASE s # r
      BY <1>1, <1>7, <2>1, <2>3 DEF SendAt, ToSend
    <2> QED BY <2>2, <2>3
  <1>9. ReceiveInv(st)' /\ LinkInv(st)'
    <2>1. ASSUME NEW s \in Ranks PROVE ReceiveAt(st, s)'
      <3>1. ReceiveAt(st, s) /\ Remaining(st, s)' = Remaining(st, s)
        BY DEF StageInv, ReceiveInv, Remaining
      <3> QED BY <1>0, <1>1, <1>7, <1>a, <3>1 DEF ReceiveAt
    <2>2. ASSUME NEW y \in Threads PROVE LinkAt(st, y)'
      <3>1. LinkAt(st, y) /\ ToDeliver(st, y)' = ToDeliver(st, y)
        BY DEF StageInv, LinkInv, ToDeliver
      <3> QED BY <1>0, <1>1, <3>1 DEF LinkAt
    <2> QED BY <2>1, <2>2 DEF ReceiveInv, LinkInv
  <1> QED BY <1>2, <1>3, <1>5, <1>6, <1>8, <1>9 DEF Core, StageInv

----------------------------------------------------------------------------
(* Steps on the wire.                                                      *)

(* Where nothing is on the wire, a batch is sent that will fit. *)
LEMMA SendWire ==
  ASSUME NetTypes, syncs \in Nat, syncs < Len(Plan), Len(Plan) \in Nat,
         NEW S \in SUBSET Conns, NEW s, \A k \in S : s[k] \in Sizes, Send(S, s),
         \A k \in S : wire[k] = <<>> /\ wire2[k] = <<>> /\ remoteSize[k] <= localSize[k]
  PROVE  /\ wire' \in [Conns -> Seq(Messages)] /\ wire2' \in [Conns -> Seq(Messages)]
         /\ remoteSize' \in [Conns -> Sizes \cup {FirstSize}]
         /\ \A k \in Conns \ S :
              wire'[k] = wire[k] /\ wire2'[k] = wire2[k] /\ remoteSize'[k] = remoteSize[k]
         /\ \A k \in S :
              /\ Len(wire'[k]) = 1 /\ wire'[k][1].sync = syncs + 1
              /\ wire'[k][1].mode = 0 =>
                   /\ wire2'[k] = <<>> /\ wire'[k][1].size <= remoteSize'[k]
                   /\ remoteSize'[k] <= localSize[k]
              /\ wire'[k][1].mode = 1 =>
                   wire2'[k] = wire'[k] /\ wire'[k][1].size = remoteSize'[k]
  <1> DEFINE batch(k) == Message(IF Grows(k, s[k]) THEN 1 ELSE 0, s[k], syncs + 1)
             more(k) == k \in S /\ Grows(k, s[k])
  <1>1. /\ wire' = [k \in Conns |-> IF k \in S THEN Append(wire[k], batch(k)) ELSE wire[k]]
        /\ wire2' = [k \in Conns |-> IF more(k) THEN Append(wire2[k], batch(k)) ELSE wire2[k]]
        /\ remoteSize' = [k \in Conns |-> IF more(k) THEN s[k] ELSE remoteSize[k]]
    BY DEF Send
  <1>2. /\ \A k \in S : /\ batch(k).sync = syncs + 1 /\ batch(k).size = s[k]
                        /\ batch(k).mode = IF Grows(k, s[k]) THEN 1 ELSE 0
        /\ \A k \in S : batch(k) \in Messages
    <2>1. syncs + 1 \in 0 .. Len(Plan)
      OBVIOUS
    <2>2. \A k \in S : s[k] \in Sizes \cup {0}
      OBVIOUS
    <2> QED BY <2>1, <2>2 DEF Message, Messages
  <1> HIDE DEF batch
  <1>3. \A k \in S : /\ Append(wire[k], batch(k)) = <<batch(k)>>
                     /\ Append(wire2[k], batch(k)) = <<batch(k)>>
                     /\ <<batch(k)>> \in Seq(Messages) /\ Len(<<batch(k)>>) = 1
                     /\ <<batch(k)>>[1] = batch(k)
    <2>1. \A e \in Messages : /\ Append(<<>>, e) = <<e>> /\ <<e>> \in Seq(Messages)
                              /\ Len(<<e>>) = 1 /\ <<e>>[1] = e
      OBVIOUS
    <2> QED BY <1>2, <2>1
  <1>4. ASSUME NEW k \in S
        PROVE  /\ wire'[k] = <<batch(k)>>
               /\ wire2'[k] = IF Grows(k, s[k]) THEN <<batch(k)>> ELSE <<>>
               /\ remoteSize'[k] = IF Grows(k, s[k]) THEN s[k] ELSE remoteSize[k]
    BY <1>1, <1>3
  <1>5. ASSUME NEW k \in Conns \ S
        PROVE  wire'[k] = wire[k] /\ wire2'[k] = wire2[k] /\ remoteSize'[k] = remoteSize[k]
    BY <1>1
  <1>6. \A k \in Conns : wire'[k] \in Seq(Messages) /\ wire2'[k] \in Seq(Messages)
    <2>1. <<>> \in Seq(Messages)
      OBVIOUS
    <2>2. \A k \in Conns : wire[k] \in Seq(Messages) /\ wire2[k] \in Seq(Messages)
      BY DEF NetTypes
    <2> QED BY <1>3, <1>4, <1>5, <2>1, <2>2
  <1>7. wire' \in [Conns -> Seq(Messages)] /\ wire2' \in [Conns -> Seq(Messages)]
    BY <1>1, <1>6
  <1>8. remoteSize' \in [Conns -> Sizes \cup {FirstSize}]
    BY <1>1 DEF NetTypes
  <1>9. ASSUME NEW k \in S
        PROVE  /\ Len(wire'[k]) = 1 /\ wire'[k][1].sync = syncs + 1
               /\ wire'[k][1].mode = 0 =>
                    /\ wire2'[k] = <<>> /\ wire'[k][1].size <= remoteSize'[k]
                    /\ remoteSize'[k] <= localSize[k]
               /\ wire'[k][1].mode = 1 =>
                    wire2'[k] = wire'[k] /\ wire'[k][1].size = remoteSize'[k]
    <2>1. s[k] \in Nat /\ remoteSize[k] \in Nat
      BY ExchangeAssumption DEF NetTypes
    <2>a. PICK e : e = batch(k)
      OBVIOUS
    <2>b. /\ e.sync = syncs + 1 /\ e.size = s[k] /\ e.mode = IF Grows(k, s[k]) THEN 1 ELSE 0
          /\ wire'[k] = <<e>> /\ Len(wire'[k]) = 1 /\ wire'[k][1] = e
          /\ wire2'[k] = IF Grows(k, s[k]) THEN <<e>> ELSE <<>>
          /\ remoteSize'[k] = IF Grows(k, s[k]) THEN s[k] ELSE remoteSize[k]
      BY <1>2, <1>3, <1>4, <2>a
    <2>2. CASE Grows(k, s[k])
      BY <2>b, <2>2
    <2>3. CASE ~Grows(k, s[k])
      <3>1. s[k] <= remoteSize[k]
        BY <2>1, <2>3 DEF Grows
      <3> QED BY <2>b, <2>3, <3>1
    <2> QED BY <2>2, <2>3
  <1> QED BY <1>5, <1>7, <1>8, <1>9

(* What is received is the batch of this exchange, and then the receiver's *)
(* buffer is as large as the sender believes.                              *)
LEMMA ReceiveWire ==
  ASSUME NetTypes, NEW st \in [Conns -> Stages], WireInv(st),
         NEW S \in SUBSET Conns, Receive(S)
  PROVE  /\ \A k \in S : st[k] = "sent"
         /\ wire' \in [Conns -> Seq(Messages)] /\ wire2' \in [Conns -> Seq(Messages)]
         /\ localSize' \in [Conns -> Sizes \cup {FirstSize}] /\ rbuf' \in [Conns -> Messages]
         /\ \A k \in Conns \ S : /\ wire'[k] = wire[k] /\ wire2'[k] = wire2[k]
                                 /\ localSize'[k] = localSize[k] /\ rbuf'[k] = rbuf[k]
         /\ \A k \in S : /\ wire'[k] = <<>> /\ wire2'[k] = <<>> /\ remoteSize[k] <= localSize'[k]
                         /\ rbuf'[k].sync = syncs + 1
  <1> DEFINE big(k) == k \in S /\ Head(wire[k]).mode = 1
  <1>1. /\ \A k \in S : Arrived(k)
        /\ localSize' = [k \in Conns |->
                           IF big(k) /\ Head(wire[k]).size > localSize[k]
                           THEN Head(wire[k]).size ELSE localSize[k]]
        /\ rbuf' = [k \in Conns |-> IF big(k) THEN Head(wire2[k])
                                    ELSE IF k \in S THEN Head(wire[k]) ELSE rbuf[k]]
        /\ wire' = [k \in Conns |-> IF k \in S THEN Tail(wire[k]) ELSE wire[k]]
        /\ wire2' = [k \in Conns |-> IF big(k) THEN Tail(wire2[k]) ELSE wire2[k]]
    BY DEF Receive
  <1>2. \A k \in S : st[k] = "sent"
    BY <1>1 DEF Arrived, WireInv, WireAt
  <1>3. ASSUME NEW k \in S
        PROVE  \E e \in Messages : /\ Head(wire[k]) = e /\ Tail(wire[k]) = <<>> /\ e.sync = syncs + 1
                                   /\ wire[k][1] = e
    <2>1. wire[k] \in Seq(Messages) /\ Len(wire[k]) = 1 /\ wire[k][1].sync = syncs + 1
      BY <1>2 DEF NetTypes, WireInv, WireAt
    <2>2. wire[k][1] \in Messages /\ Head(wire[k]) = wire[k][1]
      BY <2>1
    <2>3. Tail(wire[k]) \in Seq(Messages) /\ Len(Tail(wire[k])) = 0
      BY <2>1
    <2>4. Tail(wire[k]) = <<>>
      BY <2>3, EmptySeq
    <2> QED BY <2>1, <2>2, <2>4
  <1>4. \A e \in Messages : e.size \in Sizes \cup {0} /\ e.mode \in {0, 1}
    BY DEF Messages
  <1>5. ASSUME NEW k \in S
        PROVE  /\ wire'[k] = <<>> /\ wire2'[k] = <<>> /\ remoteSize[k] <= localSize'[k]
               /\ rbuf'[k].sync = syncs + 1 /\ rbuf'[k] \in Messages
               /\ localSize'[k] \in Sizes \cup {FirstSize}
    <2>1. PICK e \in Messages : /\ Head(wire[k]) = e /\ Tail(wire[k]) = <<>> /\ e.sync = syncs + 1
                                /\ wire[k][1] = e
      BY <1>3
    <2>2. e.size \in Sizes \cup {0} /\ e.mode \in {0, 1}
      BY <1>4
    <2>3. /\ e.mode = 0 => wire2[k] = <<>> /\ remoteSize[k] <= localSize[k]
          /\ e.mode = 1 => wire2[k] = wire[k] /\ e.size = remoteSize[k]
      BY <1>2, <2>1 DEF WireInv, WireAt
    <2>4. localSize[k] \in Sizes \cup {FirstSize} /\ localSize[k] \in Nat
      BY ExchangeAssumption DEF NetTypes
    <2>5. CASE e.mode = 0
      <3>1. ~big(k)
        BY <2>1, <2>5
      <3> QED BY <1>1, <2>1, <2>3, <2>4, <2>5, <3>1
    <2>6. CASE e.mode = 1
      <3>1. big(k)
        BY <2>1, <2>6
      <3>2. /\ wire'[k] = <<>> /\ wire2'[k] = <<>> /\ rbuf'[k] = e
            /\ localSize'[k] = IF e.size > localSize[k] THEN e.size ELSE localSize[k]
        BY <1>1, <2>1, <2>3, <2>6, <3>1
      <3>3. e.size > localSize[k] => e.size \in Sizes
        BY <2>2, <2>4
      <3>4. e.size \in Nat
        <4>1. Sizes \cup {0} \subseteq Nat
          BY ExchangeAssumption
        <4>2. e.size \in Sizes \cup {0}
          BY <2>2
        <4> QED BY <4>1, <4>2
      <3>5. remoteSize[k] <= localSize'[k]
        BY <2>3, <2>4, <2>6, <3>2, <3>4
      <3> QED BY <2>1, <2>4, <3>2, <3>3, <3>5
    <2> QED BY <2>2, <2>5, <2>6
  <1>6. ASSUME NEW k \in Conns \ S
        PROVE  /\ wire'[k] = wire[k] /\ wire2'[k] = wire2[k]
               /\ localSize'[k] = localSize[k] /\ rbuf'[k] = rbuf[k]
    BY <1>1
  <1>7. \A k \in Conns : /\ wire'[k] \in Seq(Messages) /\ wire2'[k] \in Seq(Messages)
                         /\ localSize'[k] \in Sizes \cup {FirstSize} /\ rbuf'[k] \in Messages
    <2>1. <<>> \in Seq(Messages)
      OBVIOUS
    <2>2. \A k \in Conns : /\ wire[k] \in Seq(Messages) /\ wire2[k] \in Seq(Messages)
                           /\ localSize[k] \in Sizes \cup {FirstSize} /\ rbuf[k] \in Messages
      BY DEF NetTypes
    <2> QED BY <1>5, <1>6, <2>1, <2>2
  <1>8. /\ wire' \in [Conns -> Seq(Messages)] /\ wire2' \in [Conns -> Seq(Messages)]
        /\ localSize' \in [Conns -> Sizes \cup {FirstSize}] /\ rbuf' \in [Conns -> Messages]
    BY <1>1, <1>7
  <1> QED BY <1>2, <1>5, <1>6, <1>8

(* One batch is sent. *)
LEMMA SendOneStep ==
  ASSUME Core, NEW st \in [Conns -> Stages], StageInv(st), NEW r \in Ranks, SendOne(r)
  PROVE  Core' /\ \E t \in [Conns -> Stages] : StageInv(t)'
  <1>a. PICK m \in Threads : m = Master(r)
    BY ThreadFacts
  <1>b. PICK k : k = Head(sendQ[r])
    OBVIOUS
  <1>c. PICK t : t = [st EXCEPT ![k] = "sent"]
    OBVIOUS
  <1>d. PICK s \in Sizes : Send({k}, [c \in Conns |-> s])
    BY <1>b DEF SendOne
  <1>0. /\ pc[m] = "send" /\ sendQ[r] # <<>>
        /\ sendQ' = [sendQ EXCEPT ![r] = Tail(sendQ[r])]
        /\ toSend' = [toSend EXCEPT ![r] = toSend[r] - 1]
        /\ UNCHANGED <<pc, syncs, serQ, desQ, linkQ, hold, remaining, toDeliver, posted,
                       localSize, rbuf, delivered>>
    BY <1>a DEF SendOne
  <1>1. k \in SendMap(r) /\ k \in Conns /\ st[k] = "serialized" /\ k[1] = r
    BY <1>0, <1>b, FrontOfQueue, ConnFacts
  <1>2. /\ Tail(sendQ[r]) \in Seq(Conns) /\ NoDup(Tail(sendQ[r]))
        /\ Range(Tail(sendQ[r])) = Range(sendQ[r]) \ {k}
    <2>1. sendQ[r] \in Seq(Conns) /\ NoDup(sendQ[r])
      BY DEF Core, QueueTypes, QueueInv
    <2> QED BY <1>0, <1>b, <2>1, QueueTail
  <1>3. /\ sendQ'[r] = Tail(sendQ[r]) /\ \A q \in Ranks : q # r => sendQ'[q] = sendQ[q]
        /\ toSend'[r] = toSend[r] - 1 /\ \A q \in Ranks : q # r => toSend'[q] = toSend[q]
    BY <1>0 DEF Core, QueueTypes
  <1>4. t \in [Conns -> Stages] /\ \A c \in Conns : t[c] = IF c = k THEN "sent" ELSE st[c]
    BY <1>c DEF Stages
  <1>5. /\ wire' \in [Conns -> Seq(Messages)] /\ wire2' \in [Conns -> Seq(Messages)]
        /\ remoteSize' \in [Conns -> Sizes \cup {FirstSize}]
        /\ \A c \in Conns \ {k} :
             wire'[c] = wire[c] /\ wire2'[c] = wire2[c] /\ remoteSize'[c] = remoteSize[c]
        /\ /\ Len(wire'[k]) = 1 /\ wire'[k][1].sync = syncs + 1
           /\ wire'[k][1].mode = 0 =>
                /\ wire2'[k] = <<>> /\ wire'[k][1].size <= remoteSize'[k]
                /\ remoteSize'[k] <= localSize[k]
           /\ wire'[k][1].mode = 1 =>
                wire2'[k] = wire'[k] /\ wire'[k][1].size = remoteSize'[k]
    <2>1. syncs \in Nat /\ syncs < Len(Plan) /\ Len(Plan) \in Nat
      BY <1>0, Ongoing DEF MasterOnly
    <2>2. wire[k] = <<>> /\ wire2[k] = <<>> /\ remoteSize[k] <= localSize[k]
      BY <1>1 DEF StageInv, WireInv, WireAt
    <2>a. PICK f : f = [d \in Conns |-> s]
      OBVIOUS
    <2>b. PICK S : S = {k}
      OBVIOUS
    <2>3. S \in SUBSET Conns /\ (\A c \in S : f[c] \in Sizes) /\ Send(S, f)
      BY <1>1, <1>d, <2>a, <2>b
    <2>4. \A c \in S : wire[c] = <<>> /\ wire2[c] = <<>> /\ remoteSize[c] <= localSize[c]
      BY <2>2, <2>b
    <2>5. NetTypes
      BY DEF Core
    <2>6. /\ wire' \in [Conns -> Seq(Messages)] /\ wire2' \in [Conns -> Seq(Messages)]
          /\ remoteSize' \in [Conns -> Sizes \cup {FirstSize}]
          /\ \A c \in Conns \ S :
               wire'[c] = wire[c] /\ wire2'[c] = wire2[c] /\ remoteSize'[c] = remoteSize[c]
          /\ \A c \in S :
               /\ Len(wire'[c]) = 1 /\ wire'[c][1].sync = syncs + 1
               /\ wire'[c][1].mode = 0 =>
                    /\ wire2'[c] = <<>> /\ wire'[c][1].size <= remoteSize'[c]
                    /\ remoteSize'[c] <= localSize[c]
               /\ wire'[c][1].mode = 1 =>
                    wire2'[c] = wire'[c] /\ wire'[c][1].size = remoteSize'[c]
      BY <2>1, <2>3, <2>4, <2>5, SendWire
    <2> QED BY <2>6, <2>b
  <1>6. PcInv' /\ NetTypes' /\ HoldInv'
    BY <1>0, <1>5 DEF Core, PcInv, NetTypes, HoldInv, HoldStage
  <1>7. PICK R : R = ToSend(st, r)
    OBVIOUS
  <1>8. toSend[r] = Cardinality(R) /\ R \in SUBSET Conns /\ k \in R
    BY <1>0, <1>1, <1>7, <1>a, ConnFacts DEF StageInv, SendInv, SendAt, ToSend, Unsent
  <1>9. Cardinality(R \ {k}) = toSend[r] - 1 /\ toSend[r] - 1 \in Nat
    BY <1>8, OneLess
  <1>10. QueueTypes'
    <2>1. \A q \in Ranks : /\ toSend[q] \in Nat /\ toSend[q] <= Cardinality(SendMap(q))
                           /\ Cardinality(SendMap(q)) \in Nat
      BY ConnsFinite, ConnFacts DEF Core, QueueTypes
    <2>2. toSend'[r] \in Nat /\ toSend'[r] <= Cardinality(SendMap(r))
      BY <1>3, <1>9, <2>1
    <2>3. \A q \in Ranks : toSend'[q] \in Nat /\ toSend'[q] <= Cardinality(SendMap(q))
      BY <1>3, <2>1, <2>2
    <2>4. toSend' \in [Ranks -> Nat]
      BY <1>0, <2>3 DEF Core, QueueTypes
    <2>5. sendQ' \in [Ranks -> Seq(Conns)]
      BY <1>0, <1>2 DEF Core, QueueTypes
    <2> QED BY <1>0, <2>3, <2>4, <2>5 DEF Core, QueueTypes
  <1>11. QueueInv'
    BY <1>0, <1>2, <1>3 DEF Core, QueueInv
  <1>12. PlaceInv(t)'
    <2> SUFFICES ASSUME NEW c \in Conns PROVE PlaceAt(t, c)'
      BY DEF PlaceInv
    <2>1. PlaceAt(st, c)
      BY DEF StageInv, PlaceInv
    <2>2. c \in Range(sendQ'[c[1]]) <=> c \in Range(sendQ[c[1]]) /\ c # k
      BY <1>1, <1>2, <1>3, ConnFacts
    <2>3. \A y \in Threads : HoldStage(y)' = HoldStage(y) /\ HoldStage(y) # "serialized"
      BY <1>0 DEF HoldStage
    <2> QED BY <1>0, <1>1, <1>4, <2>1, <2>2, <2>3 DEF PlaceAt
  <1>13. WireInv(t)'
    <2> SUFFICES ASSUME NEW c \in Conns PROVE WireAt(t, c)'
      BY DEF WireInv
    <2>1. CASE c = k
      BY <1>0, <1>4, <1>5, <2>1 DEF WireAt
    <2>2. CASE c # k
      <3>1. WireAt(st, c)
        BY DEF StageInv, WireInv
      <3> QED BY <1>0, <1>4, <1>5, <2>2, <3>1 DEF WireAt
    <2> QED BY <2>1, <2>2
  <1>14. SendInv(t)'
    <2> SUFFICES ASSUME NEW q \in Ranks PROVE SendAt(t, q)'
      BY DEF SendInv
    <2>1. CASE q = r
      <3>1. ToSend(t, q)' = R \ {k}
        BY <1>4, <1>7, <2>1, ConnFacts DEF ToSend, Unsent
      <3> QED BY <1>0, <1>3, <1>9, <1>a, <2>1, <3>1 DEF SendAt
    <2>2. CASE q # r
      <3>1. SendAt(st, q) /\ \A c \in SendMap(q) : t[c] = st[c]
        BY <1>1, <1>4, <2>2, ConnFacts DEF StageInv, SendInv
      <3>2. ToSend(t, q)' = ToSend(st, q)
        BY <3>1 DEF ToSend
      <3> QED BY <1>0, <1>3, <2>2, <3>1, <3>2 DEF SendAt
    <2> QED BY <2>1, <2>2
  <1>15. ReceiveInv(t)' /\ LinkInv(t)'
    <2>1. /\ UNCHANGED <<remaining, toDeliver>>
          /\ "sent" \in Stages /\ "sent" \in Early /\ st[k] \notin Counted /\ "sent" \notin Counted
      BY <1>0, <1>1 DEF Stages, Early, Counted
    <2>2. ReceiveInv(t)'
      BY <1>0, <1>1, <2>1, <1>c, ReceiveMove DEF StageInv
    <2>3. LinkInv(t)'
      BY <1>0, <1>1, <2>1, <1>c, LinkMove DEF StageInv
    <2> QED BY <2>2, <2>3
  <1>16. StageInv(t)'
    BY <1>12, <1>13, <1>14, <1>15 DEF StageInv
  <1> QED BY <1>4, <1>6, <1>10, <1>11, <1>16 DEF Core

(* One batch is received. *)
LEMMA ReceiveOneStep ==
  ASSUME Core, NEW st \in [Conns -> Stages], StageInv(st),
         NEW r \in Ranks, NEW k \in Conns, ReceiveOne(r, k)
  PROVE  Core' /\ \E t \in [Conns -> Stages] : StageInv(t)'
  <1>a. PICK m \in Threads : m = Master(r)
    BY ThreadFacts
  <1>c. PICK t : t = [st EXCEPT ![k] = "received"]
    OBVIOUS
  <1>0. /\ pc[m] = "recv" /\ k \in posted[r] /\ Receive({k})
        /\ posted' = [posted EXCEPT ![r] = posted[r] \ {k}]
        /\ desQ' = [desQ EXCEPT ![r] = Append(desQ[r], k)]
        /\ UNCHANGED <<pc, syncs, serQ, sendQ, linkQ, hold, remoteSize, delivered>>
        /\ UNCHANGED <<toSend, remaining, toDeliver>>
    BY <1>a DEF ReceiveOne, countVars
  <1>1. k \in RecvMap(r) /\ k[2][1] = r
    BY <1>0, ConnFacts DEF Core, QueueTypes
  <1>2. /\ st[k] = "sent"
        /\ wire' \in [Conns -> Seq(Messages)] /\ wire2' \in [Conns -> Seq(Messages)]
        /\ localSize' \in [Conns -> Sizes \cup {FirstSize}] /\ rbuf' \in [Conns -> Messages]
        /\ \A c \in Conns \ {k} : /\ wire'[c] = wire[c] /\ wire2'[c] = wire2[c]
                                  /\ localSize'[c] = localSize[c] /\ rbuf'[c] = rbuf[c]
        /\ wire'[k] = <<>> /\ wire2'[k] = <<>> /\ remoteSize[k] <= localSize'[k]
        /\ rbuf'[k].sync = syncs + 1
    <2>1. {k} \in SUBSET Conns /\ NetTypes /\ WireInv(st)
      BY DEF Core, StageInv
    <2> QED BY <1>0, <2>1, ReceiveWire
  <1>3. /\ Append(desQ[r], k) \in Seq(Conns) /\ NoDup(Append(desQ[r], k))
        /\ Range(Append(desQ[r], k)) = Range(desQ[r]) \cup {k}
    <2>1. desQ[r] \in Seq(Conns) /\ NoDup(desQ[r])
      BY DEF Core, QueueTypes, QueueInv
    <2>2. k \notin Range(desQ[r])
      BY <1>1, <1>2 DEF StageInv, PlaceInv, PlaceAt
    <2> QED BY <2>1, <2>2, QueueAppend
  <1>4. t \in [Conns -> Stages] /\ \A c \in Conns : t[c] = IF c = k THEN "received" ELSE st[c]
    BY <1>c DEF Stages
  <1>5. desQ'[r] = Append(desQ[r], k) /\ \A q \in Ranks : q # r => desQ'[q] = desQ[q]
    BY <1>0 DEF Core, QueueTypes
  <1>6. PcInv' /\ NetTypes' /\ HoldInv'
    BY <1>0, <1>2 DEF Core, PcInv, NetTypes, HoldInv, HoldStage
  <1>7. QueueTypes'
    <2>1. desQ' \in [Ranks -> Seq(Conns)]
      BY <1>0, <1>3 DEF Core, QueueTypes
    <2>2. posted' \in [Ranks -> SUBSET Conns] /\ \A q \in Ranks : posted'[q] \subseteq RecvMap(q)
      BY <1>0 DEF Core, QueueTypes
    <2> QED BY <1>0, <2>1, <2>2 DEF Core, QueueTypes
  <1>8. QueueInv'
    BY <1>0, <1>1, <1>3, <1>5 DEF Core, QueueInv
  <1>9. PlaceInv(t)'
    <2> SUFFICES ASSUME NEW c \in Conns PROVE PlaceAt(t, c)'
      BY DEF PlaceInv
    <2>1. PlaceAt(st, c)
      BY DEF StageInv, PlaceInv
    <2>2. c \in Range(desQ'[c[2][1]]) <=> c \in Range(desQ[c[2][1]]) \/ c = k
      <3>1. CASE c[2][1] = r
        BY <1>3, <1>5, <3>1
      <3>2. CASE c[2][1] # r
        <4>1. desQ'[c[2][1]] = desQ[c[2][1]] /\ c # k
          BY <1>1, <1>5, <3>2, ConnFacts
        <4> QED BY <4>1
      <3> QED BY <3>1, <3>2
    <2>3. \A y \in Threads : HoldStage(y)' = HoldStage(y) /\ HoldStage(y) # "sent"
      BY <1>0 DEF HoldStage
    <2> QED BY <1>0, <1>2, <1>4, <2>1, <2>2, <2>3 DEF PlaceAt
  <1>10. WireInv(t)'
    <2> SUFFICES ASSUME NEW c \in Conns PROVE WireAt(t, c)'
      BY DEF WireInv
    <2>1. CASE c = k
      BY <1>0, <1>2, <1>4, <2>1 DEF WireAt
    <2>2. CASE c # k
      <3>1. WireAt(st, c)
        BY DEF StageInv, WireInv
      <3> QED BY <1>0, <1>2, <1>4, <2>2, <3>1 DEF WireAt
    <2> QED BY <2>1, <2>2
  <1>11. ReceiveInv(t)'
    <2> SUFFICES ASSUME NEW q \in Ranks PROVE ReceiveAt(t, q)'
      BY DEF ReceiveInv
    <2>1. ReceiveAt(st, q) /\ RecvMap(q) \subseteq Conns
      BY ConnFacts DEF StageInv, ReceiveInv
    <2>2. Remaining(t, q)' = Remaining(st, q)
      BY <1>2, <1>4, <2>1 DEF Remaining, Counted
    <2>3. CASE q = r
      BY <1>0, <1>a, <2>1, <2>2, <2>3 DEF ReceiveAt, Sharing
    <2>4. CASE q # r
      <3>1. \A c \in RecvMap(q) : t[c] = st[c]
        BY <1>1, <1>4, <2>1, <2>4, ConnFacts
      <3> QED BY <1>0, <2>1, <2>2, <3>1 DEF ReceiveAt
    <2> QED BY <2>3, <2>4
  <1>12. SendInv(t)' /\ LinkInv(t)'
    <2>1. /\ UNCHANGED <<toSend, toDeliver>>
          /\ "received" \in Stages /\ "received" \notin Unsent /\ st[k] \notin Unsent
      BY <1>0, <1>2 DEF Stages, Unsent
    <2>2. SendInv(t)'
      BY <1>0, <1>2, <2>1, <1>c, SendMove DEF StageInv
    <2>3. LinkInv(t)'
      BY <1>0, <1>2, <2>1, <1>c, LinkMove DEF StageInv
    <2> QED BY <2>2, <2>3
  <1>13. StageInv(t)'
    BY <1>9, <1>10, <1>11, <1>12 DEF StageInv
  <1> QED BY <1>4, <1>6, <1>7, <1>8, <1>13 DEF Core

(* The straight exchange: everything is sent, ... *)
LEMMA SendDirectStep ==
  ASSUME Core, NEW st \in [Conns -> Stages], StageInv(st), NEW r \in Ranks, SendDirect(r)
  PROVE  Core' /\ \E t \in [Conns -> Stages] : StageInv(t)'
  <1>a. PICK m \in Threads : m = Master(r)
    BY ThreadFacts
  <1>b. PICK S : S = SendMap(r)
    OBVIOUS
  <1>c. PICK t : t = [c \in Conns |-> IF c \in S THEN "sent" ELSE st[c]]
    OBVIOUS
  <1>d. PICK s \in [S -> Sizes] : Send(S, s)
    BY <1>b DEF SendDirect
  <1>0. /\ pc[m] = "direct" /\ pc' = [pc EXCEPT ![m] = "collect"]
        /\ posted' = [posted EXCEPT ![r] = RecvMap(r)]
        /\ UNCHANGED <<syncs, serQ, sendQ, desQ, linkQ, hold, toSend, remaining, toDeliver,
                       localSize, rbuf, delivered>>
    BY <1>a DEF SendDirect, Goto, queueVars, countVars
  <1>1. S \in SUBSET Conns /\ \A k \in S : st[k] = "none"
    BY <1>0, <1>a, <1>b, ConnFacts DEF StageInv, SendInv, SendAt
  <1>2. pc'[m] = "collect" /\ \A y \in Threads : y # m => pc'[y] = pc[y]
    BY <1>0 DEF Core, PcInv
  <1>3. t \in [Conns -> Stages] /\ \A c \in Conns : t[c] = IF c \in S THEN "sent" ELSE st[c]
    BY <1>c DEF Stages
  <1>4. /\ wire' \in [Conns -> Seq(Messages)] /\ wire2' \in [Conns -> Seq(Messages)]
        /\ remoteSize' \in [Conns -> Sizes \cup {FirstSize}]
        /\ \A c \in Conns \ S :
             wire'[c] = wire[c] /\ wire2'[c] = wire2[c] /\ remoteSize'[c] = remoteSize[c]
        /\ \A k \in S :
             /\ Len(wire'[k]) = 1 /\ wire'[k][1].sync = syncs + 1
             /\ wire'[k][1].mode = 0 =>
                  /\ wire2'[k] = <<>> /\ wire'[k][1].size <= remoteSize'[k]
                  /\ remoteSize'[k] <= localSize[k]
             /\ wire'[k][1].mode = 1 =>
                  wire2'[k] = wire'[k] /\ wire'[k][1].size = remoteSize'[k]
    <2>1. syncs \in Nat /\ syncs < Len(Plan) /\ Len(Plan) \in Nat
      BY <1>0, Ongoing DEF MasterOnly
    <2>2. \A k \in S : wire[k] = <<>> /\ wire2[k] = <<>> /\ remoteSize[k] <= localSize[k]
      BY <1>1 DEF StageInv, WireInv, WireAt
    <2>3. NetTypes /\ \A k \in S : s[k] \in Sizes
      BY DEF Core
    <2> QED BY <1>1, <1>d, <2>1, <2>2, <2>3, SendWire
  <1>5. PcInv' /\ NetTypes' /\ QueueInv'
    <2>1. m = Master(m[1])
      BY <1>a, ThreadFacts
    <2>2. PcInv'
      BY <1>0, <2>1, PcStep DEF Core, MasterGoes
    <2> QED BY <1>0, <1>4, <2>2 DEF Core, NetTypes, QueueInv
  <1>6. QueueTypes'
    <2>1. posted' \in [Ranks -> SUBSET Conns] /\ \A q \in Ranks : posted'[q] \subseteq RecvMap(q)
      BY <1>0, ConnFacts DEF Core, QueueTypes
    <2> QED BY <1>0, <2>1 DEF Core, QueueTypes
  <1>7. \A y \in Threads : HoldStage(y)' = HoldStage(y)
    BY <1>0, <1>2 DEF HoldStage
  <1>8. HoldInv'
    <2>1. \A y \in Threads : /\ pc'[y] = "deliver" => hold[y] = {}
                             /\ pc'[y] = "count" => hold[y] # {}
      BY <1>2 DEF Core, HoldInv
    <2> HIDE DEF HoldStage
    <2> QED BY <1>0, <1>7, <2>1 DEF Core, HoldInv
  <1>9. PlaceInv(t)'
    <2> SUFFICES ASSUME NEW c \in Conns PROVE PlaceAt(t, c)'
      BY DEF PlaceInv
    <2>1. PlaceAt(st, c)
      BY DEF StageInv, PlaceInv
    <2>2. \A y \in Threads : HoldStage(y) # "none"
      BY DEF HoldStage
    <2>3. \A y \in Threads : c \in S => c \notin hold[y]
      BY <1>1, <2>1, <2>2 DEF PlaceAt
    <2> QED BY <1>0, <1>1, <1>3, <1>7, <2>1, <2>3 DEF PlaceAt
  <1>10. WireInv(t)'
    <2> SUFFICES ASSUME NEW c \in Conns PROVE WireAt(t, c)'
      BY DEF WireInv
    <2>1. CASE c \in S
      BY <1>0, <1>3, <1>4, <2>1 DEF WireAt
    <2>2. CASE c \notin S
      <3>1. WireAt(st, c)
        BY DEF StageInv, WireInv
      <3> QED BY <1>0, <1>3, <1>4, <2>2, <3>1 DEF WireAt
    <2> QED BY <2>1, <2>2
  <1>11. \A q \in Ranks : Master(q) \in Threads /\ (q # r => pc'[Master(q)] = pc[Master(q)])
    BY <1>2, <1>a, ThreadFacts
  <1>12. SendInv(t)'
    <2> SUFFICES ASSUME NEW q \in Ranks PROVE SendAt(t, q)'
      BY DEF SendInv
    <2>1. CASE q = r
      BY <1>2, <1>a, <2>1 DEF SendAt
    <2>2. CASE q # r
      <3>1. SendAt(st, q) /\ \A c \in SendMap(q) : t[c] = st[c]
        BY <1>3, <1>b, <2>2, ConnFacts DEF StageInv, SendInv
      <3>2. ToSend(t, q)' = ToSend(st, q)
        BY <3>1 DEF ToSend
      <3> QED BY <1>0, <1>11, <2>2, <3>1, <3>2 DEF SendAt
    <2> QED BY <2>1, <2>2
  <1>13. ReceiveInv(t)'
    <2> SUFFICES ASSUME NEW q \in Ranks PROVE ReceiveAt(t, q)'
      BY DEF ReceiveInv
    <2>1. ReceiveAt(st, q) /\ RecvMap(q) \subseteq Conns
      BY ConnFacts DEF StageInv, ReceiveInv
    <2>2. \A c \in RecvMap(q) : /\ st[c] \in Early => t[c] \in Early
                                /\ st[c] = "done" => t[c] = "done"
                                /\ t[c] \in Counted <=> st[c] \in Counted
      BY <1>1, <1>3, <2>1 DEF Early, Unsent, Counted
    <2>3. Remaining(t, q)' = Remaining(st, q)
      BY <2>2 DEF Remaining
    <2>4. CASE q = r
      BY <1>2, <1>a, <2>4 DEF ReceiveAt, Sharing
    <2>5. CASE q # r
      BY <1>0, <1>11, <2>1, <2>2, <2>3, <2>5 DEF ReceiveAt
    <2> QED BY <2>4, <2>5
  <1>14. LinkInv(t)'
    <2> SUFFICES ASSUME NEW y \in Threads PROVE LinkAt(t, y)'
      BY DEF LinkInv
    <2>1. LinkAt(st, y)
      BY DEF StageInv, LinkInv
    <2>2. \A c \in Conns : t[c] = "done" <=> st[c] = "done"
      BY <1>1, <1>3
    <2>3. ToDeliver(t, y)' = ToDeliver(st, y)
      BY <2>2 DEF ToDeliver
    <2> QED BY <1>0, <1>2, <2>1, <2>2, <2>3 DEF LinkAt
  <1>15. StageInv(t)'
    BY <1>9, <1>10, <1>12, <1>13, <1>14 DEF StageInv
  <1> QED BY <1>3, <1>5, <1>6, <1>8, <1>15 DEF Core

(* ... and everything is received and put on the links. *)
LEMMA CollectStep ==
  ASSUME Core, NEW st \in [Conns -> Stages], StageInv(st), NEW r \in Ranks, Collect(r)
  PROVE  /\ Core' /\ \E t \in [Conns -> Stages] : StageInv(t)'
         /\ \A k \in RecvMap(r) : delivered[k] = syncs
         /\ delivered' = [k \in Conns |-> IF k \in RecvMap(r) THEN syncs + 1 ELSE delivered[k]]
  <1>a. PICK m \in Threads : m = Master(r)
    BY ThreadFacts
  <1>b. PICK S : S = RecvMap(r)
    OBVIOUS
  <1>c. PICK t : t = [c \in Conns |-> IF c \in S THEN "done" ELSE st[c]]
    OBVIOUS
  <1>0. /\ pc[m] = "collect" /\ pc' = [pc EXCEPT ![m] = "reduce"]
        /\ Receive(S) /\ posted' = [posted EXCEPT ![r] = {}]
        /\ delivered' = [k \in Conns |-> IF k \in S THEN rbuf'[k].sync ELSE delivered[k]]
        /\ UNCHANGED <<syncs, serQ, sendQ, desQ, linkQ, hold, toSend, remaining, toDeliver,
                       remoteSize>>
    BY <1>a, <1>b DEF Collect, Deliver, Goto, queueVars, countVars
  <1>1. S \in SUBSET Conns /\ \A c \in S : c[2][1] = r
    BY <1>b, ConnFacts
  <1>2. /\ \A k \in S : st[k] = "sent"
        /\ wire' \in [Conns -> Seq(Messages)] /\ wire2' \in [Conns -> Seq(Messages)]
        /\ localSize' \in [Conns -> Sizes \cup {FirstSize}] /\ rbuf' \in [Conns -> Messages]
        /\ \A k \in Conns \ S : /\ wire'[k] = wire[k] /\ wire2'[k] = wire2[k]
                                /\ localSize'[k] = localSize[k] /\ rbuf'[k] = rbuf[k]
        /\ \A k \in S : /\ wire'[k] = <<>> /\ wire2'[k] = <<>> /\ remoteSize[k] <= localSize'[k]
                        /\ rbuf'[k].sync = syncs + 1
    <2>1. NetTypes /\ WireInv(st)
      BY DEF Core, StageInv
    <2> QED BY <1>0, <1>1, <2>1, ReceiveWire
  <1>3. /\ pc'[m] = "reduce" /\ \A y \in Threads : y # m => pc'[y] = pc[y]
        /\ m[1] = r /\ \A y \in Threads : y[1] = r /\ y # m => pc[y] = "allDone"
    BY <1>0, <1>a, ThreadFacts DEF Core, PcInv
  <1>4. t \in [Conns -> Stages] /\ \A c \in Conns : t[c] = IF c \in S THEN "done" ELSE st[c]
    BY <1>c DEF Stages
  <1>5. /\ \A k \in S : delivered[k] = syncs
        /\ delivered' = [k \in Conns |-> IF k \in S THEN syncs + 1 ELSE delivered[k]]
    <2>1. \A k \in S : delivered[k] = syncs
      BY <1>1, <1>2 DEF StageInv, PlaceInv, PlaceAt
    <2> QED BY <1>0, <1>2, <2>1
  <1>6. PcInv' /\ NetTypes' /\ QueueInv'
    <2>1. m = Master(m[1])
      BY <1>a, ThreadFacts
    <2>2. PcInv'
      BY <1>0, <2>1, PcStep DEF Core, MasterGoes
    <2>3. syncs + 1 \in 0 .. Len(Plan)
      BY <1>0, Ongoing DEF MasterOnly
    <2>4. delivered' \in [Conns -> 0 .. Len(Plan)]
      BY <1>5, <2>3 DEF Core, NetTypes
    <2> QED BY <1>0, <1>2, <2>2, <2>4 DEF Core, NetTypes, QueueInv
  <1>7. QueueTypes'
    <2>1. posted' \in [Ranks -> SUBSET Conns] /\ \A q \in Ranks : posted'[q] \subseteq RecvMap(q)
      BY <1>0 DEF Core, QueueTypes
    <2> QED BY <1>0, <2>1 DEF Core, QueueTypes
  <1>8. \A y \in Threads : HoldStage(y)' = HoldStage(y)
    BY <1>0, <1>3 DEF HoldStage
  <1>9. HoldInv'
    <2>1. \A y \in Threads : /\ pc'[y] = "deliver" => hold[y] = {}
                             /\ pc'[y] = "count" => hold[y] # {}
      BY <1>3 DEF Core, HoldInv
    <2> HIDE DEF HoldStage
    <2> QED BY <1>0, <1>8, <2>1 DEF Core, HoldInv
  <1>10. PlaceInv(t)'
    <2> SUFFICES ASSUME NEW c \in Conns PROVE PlaceAt(t, c)'
      BY DEF PlaceInv
    <2>1. PlaceAt(st, c)
      BY DEF StageInv, PlaceInv
    <2>2. \A y \in Threads : HoldStage(y) # "sent"
      BY DEF HoldStage
    <2>3. \A y \in Threads : c \in S => c \notin hold[y]
      BY <1>2, <2>1, <2>2 DEF PlaceAt
    <2> QED BY <1>0, <1>2, <1>4, <1>5, <1>8, <2>1, <2>3 DEF PlaceAt
  <1>11. WireInv(t)'
    <2> SUFFICES ASSUME NEW c \in Conns PROVE WireAt(t, c)'
      BY DEF WireInv
    <2>1. CASE c \in S
      BY <1>0, <1>2, <1>4, <2>1 DEF WireAt
    <2>2. CASE c \notin S
      <3>1. WireAt(st, c)
        BY DEF StageInv, WireInv
      <3> QED BY <1>0, <1>2, <1>4, <2>2, <3>1 DEF WireAt
    <2> QED BY <2>1, <2>2
  <1>12. \A q \in Ranks : /\ Master(q) \in Threads
                          /\ q # r => pc'[Master(q)] = pc[Master(q)]
                          /\ q = r => pc'[Master(q)] = "reduce"
    BY <1>3, <1>a, ThreadFacts
  <1>13. SendInv(t)'
    <2> SUFFICES ASSUME NEW q \in Ranks PROVE SendAt(t, q)'
      BY DEF SendInv
    <2>1. SendAt(st, q) /\ SendMap(q) \subseteq Conns
      BY ConnFacts DEF StageInv, SendInv
    <2>2. \A c \in SendMap(q) : /\ t[c] \in Unsent <=> st[c] \in Unsent
                                /\ st[c] \in Unsent \cup {"none"} => t[c] = st[c]
      BY <1>2, <1>4, <2>1 DEF Unsent
    <2>3. ToSend(t, q)' = ToSend(st, q)
      BY <2>2 DEF ToSend
    <2> QED BY <1>0, <1>12, <2>1, <2>2, <2>3 DEF SendAt
  <1>14. ReceiveInv(t)'
    <2> SUFFICES ASSUME NEW q \in Ranks PROVE ReceiveAt(t, q)'
      BY DEF ReceiveInv
    <2>1. CASE q = r
      BY <1>1, <1>4, <1>12, <1>b, <2>1 DEF ReceiveAt, Sharing
    <2>2. CASE q # r
      <3>1. ReceiveAt(st, q) /\ \A c \in RecvMap(q) : t[c] = st[c]
        BY <1>1, <1>4, <2>2, ConnFacts DEF StageInv, ReceiveInv
      <3>2. Remaining(t, q)' = Remaining(st, q)
        BY <3>1 DEF Remaining
      <3> QED BY <1>0, <1>12, <2>2, <3>1, <3>2 DEF ReceiveAt
    <2> QED BY <2>1, <2>2
  <1>15. LinkInv(t)'
    <2> SUFFICES ASSUME NEW y \in Threads PROVE LinkAt(t, y)'
      BY DEF LinkInv
    <2>1. CASE y[1] = r
      BY <1>3, <2>1 DEF LinkAt
    <2>2. CASE y[1] # r
      <3>1. LinkAt(st, y) /\ \A c \in Conns : c[2] = y => t[c] = st[c]
        BY <1>1, <1>4, <2>2 DEF StageInv, LinkInv
      <3>2. ToDeliver(t, y)' = ToDeliver(st, y)
        BY <3>1 DEF ToDeliver
      <3> QED BY <1>0, <1>3, <2>2, <3>1, <3>2 DEF LinkAt
    <2> QED BY <2>1, <2>2
  <1>16. StageInv(t)'
    BY <1>10, <1>11, <1>13, <1>14, <1>15 DEF StageInv
  <1> QED BY <1>4, <1>5, <1>6, <1>7, <1>9, <1>16, <1>b DEF Core

(* All ranks together end an exchange. *)
LEMMA ReduceStep ==
  ASSUME Core, NEW st \in [Conns -> Stages], StageInv(st), Reduce
  PROVE  /\ Core' /\ \E t \in [Conns -> Stages] : StageInv(t)'
         /\ \A k \in Conns : delivered[k] = syncs + 1
         /\ syncs' = syncs + 1 /\ delivered' = delivered
  <1>c. PICK t : t = [c \in Conns |-> "none"]
    OBVIOUS
  <1>0. /\ \A r \in Ranks : pc[Master(r)] = "reduce"
        /\ syncs' = syncs + 1
        /\ pc' = [x \in Threads |-> IF x = Master(x[1]) THEN "allDone" ELSE pc[x]]
        /\ UNCHANGED <<serQ, sendQ, desQ, linkQ, hold, toSend, remaining, toDeliver, posted,
                       wire, wire2, remoteSize, localSize, rbuf, delivered>>
    BY DEF Reduce, queueVars, countVars, netVars
  <1>1. \A k \in Conns : st[k] = "done"
    BY <1>0, ConnFacts DEF StageInv, ReceiveInv, ReceiveAt
  <1>2. \A x \in Threads : pc'[x] = "allDone"
    BY <1>0, ThreadFacts DEF Core, PcInv
  <1>3. t \in [Conns -> Stages] /\ \A c \in Conns : t[c] = "none"
    BY <1>c DEF Stages
  <1>4. syncs \in Nat /\ syncs + 1 \in 0 .. Len(Plan)
    <2>1. Master(0) \in Threads /\ pc[Master(0)] = "reduce" /\ 0 \in Ranks
      BY <1>0, ThreadFacts
    <2>2. Len(Plan) \in Nat
      BY ExchangeAssumption, LenProperties
    <2>3. syncs \in Nat /\ syncs < Len(Plan)
      BY <2>1, <2>2 DEF Core, PcInv
    <2> QED BY <2>2, <2>3
  <1>5. PcInv'
    <2>1. pc' \in [Threads -> Barriers \cup MasterOnly \cup Sharing]
      BY <1>0, <1>2 DEF Barriers
    <2>2. \A r \in Ranks : pc'[Master(r)] = "allDone"
      BY <1>2, ThreadFacts
    <2>3. syncs' \in 0 .. Len(Plan)
      BY <1>0, <1>4
    <2>4. "allDone" \notin {"post", "send", "recv"} \cup Sharing
      BY DEF Sharing
    <2> HIDE DEF Barriers, MasterOnly, Sharing
    <2> QED BY <1>2, <2>1, <2>2, <2>3, <2>4 DEF PcInv
  <1>6. QueueTypes' /\ NetTypes' /\ QueueInv'
    BY <1>0 DEF Core, QueueTypes, NetTypes, QueueInv
  <1>7. \A x \in Threads : hold[x] = {}
    <2>1. \A x \in Threads : HoldStage(x) # "done" /\ hold[x] \subseteq Conns
      BY DEF HoldStage, Core, QueueTypes
    <2> QED BY <1>1, <2>1 DEF StageInv, PlaceInv, PlaceAt
  <1>8. HoldInv'
    BY <1>0, <1>2, <1>7 DEF HoldInv
  <1>9. \A k \in Conns : delivered[k] = syncs + 1
    BY <1>1 DEF StageInv, PlaceInv, PlaceAt
  <1>10. PlaceInv(t)' /\ WireInv(t)'
    <2>1. ASSUME NEW c \in Conns PROVE PlaceAt(t, c)' /\ WireAt(t, c)'
      <3>1. PlaceAt(st, c) /\ WireAt(st, c)
        BY DEF StageInv, PlaceInv, WireInv
      <3>2. PlaceAt(t, c)'
        BY <1>0, <1>1, <1>3, <1>7, <1>9, <3>1 DEF PlaceAt
      <3>3. WireAt(t, c)'
        BY <1>0, <1>1, <1>3, <3>1 DEF WireAt
      <3> QED BY <3>2, <3>3
    <2> QED BY <2>1 DEF PlaceInv, WireInv
  <1>11. SendInv(t)' /\ ReceiveInv(t)' /\ LinkInv(t)'
    <2>1. \A r \in Ranks : pc'[Master(r)] = "allDone"
      BY <1>2, ThreadFacts
    <2>2. \A r \in Ranks : SendMap(r) \subseteq Conns /\ RecvMap(r) \subseteq Conns
      BY ConnFacts
    <2> QED BY <1>2, <1>3, <2>1, <2>2
            DEF SendInv, SendAt, ReceiveInv, ReceiveAt, LinkInv, LinkAt, Early, Sharing
  <1>12. StageInv(t)'
    BY <1>10, <1>11 DEF StageInv
  <1> QED BY <1>0, <1>3, <1>5, <1>6, <1>8, <1>9, <1>12 DEF Core

----------------------------------------------------------------------------
(* The invariant.                                                          *)

LEMMA InitHolds == Init => IInv
  <1> SUFFICES ASSUME Init PROVE IInv
    OBVIOUS
  <1>1. PICK st : st = [c \in Conns |-> "none"]
    OBVIOUS
  <1>2. st \in [Conns -> Stages] /\ \A c \in Conns : st[c] = "none"
    BY <1>1 DEF Stages
  <1>3. /\ pc = [x \in Threads |-> "run"] /\ syncs = 0
        /\ serQ = [r \in Ranks |-> <<>>] /\ sendQ = [r \in Ranks |-> <<>>]
        /\ desQ = [r \in Ranks |-> <<>>] /\ linkQ = [x \in Threads |-> <<>>]
        /\ hold = [x \in Threads |-> {}] /\ posted = [r \in Ranks |-> {}]
        /\ toSend = [r \in Ranks |-> 0] /\ remaining = [r \in Ranks |-> 0]
        /\ toDeliver = [x \in Threads |-> 0]
        /\ wire = [k \in Conns |-> <<>>] /\ wire2 = [k \in Conns |-> <<>>]
        /\ remoteSize = [k \in Conns |-> FirstSize] /\ localSize = [k \in Conns |-> FirstSize]
        /\ rbuf = [k \in Conns |-> Message(0, 0, 0)] /\ delivered = [k \in Conns |-> 0]
    BY DEF Init
  <1>4. Len(Plan) \in Nat /\ 0 \in 0 .. Len(Plan) /\ FirstSize \in Nat
    BY ExchangeAssumption, LenProperties
  <1>5. \A S : <<>> \in Seq(S)
    OBVIOUS
  <1>6. \A r \in Ranks : Cardinality(SendMap(r)) \in Nat /\ Cardinality(RecvMap(r)) \in Nat
    BY ConnFacts, ConnsFinite
  <1>7. \A x \in Threads : RecvCount(x) \in Nat
    BY ConnsFinite DEF RecvCount
  <1>8. QueueTypes
    BY <1>3, <1>5, <1>6, <1>7 DEF QueueTypes
  <1>9. NetTypes
    <2>1. Message(0, 0, 0) \in Messages
      BY <1>4 DEF Message, Messages
    <2>2. <<>> \in Seq(Messages)
      BY <1>5
    <2> QED BY <1>3, <1>4, <2>1, <2>2 DEF NetTypes
  <1>10. PcInv
    BY <1>3, <1>4, ThreadFacts DEF PcInv, Barriers, Sharing
  <1>11. Range(<<>>) = {} /\ NoDup(<<>>)
    BY DEF Range, NoDup
  <1>12. QueueInv /\ HoldInv
    BY <1>3, <1>11 DEF QueueInv, HoldInv
  <1>13. PlaceInv(st) /\ WireInv(st)
    <2> SUFFICES ASSUME NEW c \in Conns PROVE PlaceAt(st, c) /\ WireAt(st, c)
      BY DEF PlaceInv, WireInv
    <2>1. PlaceAt(st, c)
      BY <1>2, <1>3, <1>11, ConnFacts DEF PlaceAt
    <2>2. WireAt(st, c)
      BY <1>2, <1>3, <1>4 DEF WireAt
    <2> QED BY <2>1, <2>2
  <1>14. SendInv(st) /\ ReceiveInv(st) /\ LinkInv(st)
    <2>1. \A r \in Ranks : pc[Master(r)] = "run" /\ SendMap(r) \subseteq Conns /\ RecvMap(r) \subseteq Conns
      BY <1>3, ThreadFacts, ConnFacts
    <2> QED BY <1>2, <1>3, <2>1
            DEF SendInv, SendAt, ReceiveInv, ReceiveAt, LinkInv, LinkAt, Early, Sharing
  <1> QED BY <1>2, <1>8, <1>9, <1>10, <1>12, <1>13, <1>14 DEF IInv, Core, StageInv

(* What a step keeps, and what it is to one who sees the exchanges alone.  *)
Kept == IInv' /\ [Abs!Next]_<<delivered, syncs>>

LEMMA MasterKeeps ==
  ASSUME Core, NEW st \in [Conns -> Stages], StageInv(st), NEW r \in Ranks, MasterStep(r)
  PROVE  Kept
  <1>1. CASE Fill(r)
    <2>1. UNCHANGED <<delivered, syncs>>
      BY <1>1 DEF Fill
    <2> QED BY <1>1, <2>1, FillStep DEF IInv, Kept
  <1>2. CASE Post(r)
    <2>1. UNCHANGED <<delivered, syncs>>
      BY <1>2 DEF Post
    <2> QED BY <1>2, <2>1, PostStep DEF IInv, Kept
  <1>3. CASE SendOne(r)
    <2>1. UNCHANGED <<delivered, syncs>>
      BY <1>3 DEF SendOne
    <2> QED BY <1>3, <2>1, SendOneStep DEF IInv, Kept
  <1>4. CASE SentAll(r) \/ ReceivedAll(r)
    <2>1. UNCHANGED <<delivered, syncs>>
      BY <1>4 DEF SentAll, ReceivedAll
    <2> QED BY <1>4, <2>1, MasterGoesStep DEF IInv, Kept
  <1>5. CASE \E k \in Conns : ReceiveOne(r, k)
    <2>1. PICK k \in Conns : ReceiveOne(r, k)
      BY <1>5
    <2>2. UNCHANGED <<delivered, syncs>>
      BY <2>1 DEF ReceiveOne
    <2> QED BY <2>1, <2>2, ReceiveOneStep DEF IInv, Kept
  <1>6. CASE SendDirect(r)
    <2>1. UNCHANGED <<delivered, syncs>>
      BY <1>6 DEF SendDirect
    <2> QED BY <1>6, <2>1, SendDirectStep DEF IInv, Kept
  <1>7. CASE Collect(r)
    <2>1. /\ Core' /\ \E t \in [Conns -> Stages] : StageInv(t)'
          /\ \A k \in RecvMap(r) : delivered[k] = syncs
          /\ delivered' = [k \in Conns |-> IF k \in RecvMap(r) THEN syncs + 1 ELSE delivered[k]]
      BY <1>7, CollectStep
    <2>2. syncs' = syncs
      BY <1>7 DEF Collect
    <2>3. CASE RecvMap(r) = {}
      <3>1. delivered' = delivered
        BY <2>1, <2>3 DEF Core, NetTypes
      <3> QED BY <2>1, <2>2, <3>1 DEF IInv, Kept
    <2>4. CASE RecvMap(r) # {}
      <3>1. RecvMap(r) \in SUBSET Conns
        BY ConnFacts
      <3>2. Abs!Deliver(RecvMap(r))
        BY <2>1, <2>2, <2>4 DEF Abs!Deliver
      <3>3. Abs!Next
        BY <3>1, <3>2 DEF Abs!Next
      <3> QED BY <2>1, <3>3 DEF IInv, Kept
    <2> QED BY <2>3, <2>4
  <1> QED BY <1>1, <1>2, <1>3, <1>4, <1>5, <1>6, <1>7 DEF MasterStep

LEMMA ThreadKeeps ==
  ASSUME Core, NEW st \in [Conns -> Stages], StageInv(st), NEW x \in Threads, ThreadStep(x)
  PROVE  Kept
  <1>1. CASE TakeToSerialize(x)
    <2>1. UNCHANGED <<delivered, syncs>>
      BY <1>1 DEF TakeToSerialize
    <2> QED BY <1>1, <2>1, TakeToSerializeStep DEF IInv, Kept
  <1>2. CASE Serialize(x)
    <2>1. UNCHANGED <<delivered, syncs>>
      BY <1>2 DEF Serialize
    <2> QED BY <1>2, <2>1, SerializeStep DEF IInv, Kept
  <1>3. CASE SerializedAll(x)
    <2>1. UNCHANGED <<delivered, syncs>>
      BY <1>3 DEF SerializedAll
    <2> QED BY <1>3, <2>1, SerializedAllStep DEF IInv, Kept
  <1>4. CASE DeliverOne(x)
    <2>1. /\ Core' /\ \E t \in [Conns -> Stages] : StageInv(t)'
          /\ \E k \in Conns : /\ delivered[k] = syncs
                              /\ delivered' = [delivered EXCEPT ![k] = syncs + 1]
      BY <1>4, DeliverOneStep
    <2>2. syncs' = syncs
      BY <1>4 DEF DeliverOne
    <2>3. PICK k \in Conns : /\ delivered[k] = syncs
                             /\ delivered' = [delivered EXCEPT ![k] = syncs + 1]
      BY <2>1
    <2>4. delivered' = [c \in Conns |-> IF c \in {k} THEN syncs + 1 ELSE delivered[c]]
      BY <2>3 DEF Core, NetTypes
    <2>5. {k} \in SUBSET Conns /\ Abs!Deliver({k})
      BY <2>2, <2>3, <2>4 DEF Abs!Deliver
    <2>6. Abs!Next
      BY <2>5 DEF Abs!Next
    <2> QED BY <2>1, <2>6 DEF IInv, Kept
  <1>5. CASE TakeToDeserialize(x)
    <2>1. UNCHANGED <<delivered, syncs>>
      BY <1>5 DEF TakeToDeserialize
    <2> QED BY <1>5, <2>1, TakeToDeserializeStep DEF IInv, Kept
  <1>6. CASE CountDown(x)
    <2>1. UNCHANGED <<delivered, syncs>>
      BY <1>6 DEF CountDown
    <2> QED BY <1>6, <2>1, CountDownStep DEF IInv, Kept
  <1>7. CASE Deserialize(x)
    <2>1. UNCHANGED <<delivered, syncs>>
      BY <1>7 DEF Deserialize
    <2> QED BY <1>7, <2>1, DeserializeStep DEF IInv, Kept
  <1>8. CASE DeliveredAll(x)
    <2>1. UNCHANGED <<delivered, syncs>>
      BY <1>8 DEF DeliveredAll
    <2> QED BY <1>8, <2>1, DeliveredAllStep DEF IInv, Kept
  <1> QED BY <1>1, <1>2, <1>3, <1>4, <1>5, <1>6, <1>7, <1>8 DEF ThreadStep

LEMMA NothingMoves ==
  ASSUME IInv, UNCHANGED vars
  PROVE  Kept
  <1>1. UNCHANGED <<pc, syncs, serQ, sendQ, desQ, linkQ, hold, toSend, remaining, toDeliver,
                    posted, wire, wire2, remoteSize, localSize, rbuf, delivered>>
    BY DEF vars, queueVars, countVars, netVars
  <1>2. Core'
    BY <1>1 DEF IInv, Core, QueueTypes, NetTypes, PcInv, QueueInv, HoldInv, HoldStage
  <1>3. PICK st \in [Conns -> Stages] : StageInv(st)
    BY DEF IInv
  <1>4. StageInv(st)'
    <2>1. PlaceInv(st)' /\ WireInv(st)'
      BY <1>1, <1>3 DEF StageInv, PlaceInv, PlaceAt, HoldStage, WireInv, WireAt
    <2>2. SendInv(st)' /\ ReceiveInv(st)' /\ LinkInv(st)'
      BY <1>1, <1>3 DEF StageInv, SendInv, SendAt, ToSend, ReceiveInv, ReceiveAt, Remaining,
                        LinkInv, LinkAt, ToDeliver
    <2> QED BY <2>1, <2>2 DEF StageInv
  <1> QED BY <1>1, <1>2, <1>4 DEF IInv, Kept

LEMMA NextKeeps == IInv /\ [Next]_vars => Kept
  <1> SUFFICES ASSUME IInv, [Next]_vars PROVE Kept
    OBVIOUS
  <1>1. PICK st \in [Conns -> Stages] : StageInv(st)
    BY DEF IInv
  <1>2. Core
    BY DEF IInv
  <1>3. ASSUME NEW r \in Ranks, MasterStep(r) PROVE Kept
    BY <1>1, <1>2, <1>3, MasterKeeps
  <1>4. ASSUME NEW x \in Threads, ThreadStep(x) PROVE Kept
    BY <1>1, <1>2, <1>4, ThreadKeeps
  <1>5. CASE Reduce
    <2>1. /\ Core' /\ \E t \in [Conns -> Stages] : StageInv(t)'
          /\ \A k \in Conns : delivered[k] = syncs + 1
          /\ syncs' = syncs + 1 /\ delivered' = delivered
      BY <1>1, <1>2, <1>5, ReduceStep
    <2>2. Abs!Next
      BY <2>1 DEF Abs!Next, Abs!Complete
    <2> QED BY <2>1, <2>2 DEF IInv, Kept
  <1>6. ASSUME NEW r \in Ranks, NEW b \in Barriers, Barrier(r, b) PROVE Kept
    <2>1. UNCHANGED <<delivered, syncs>>
      BY <1>6 DEF Barrier
    <2> QED BY <1>1, <1>2, <1>6, <2>1, BarrierStep DEF IInv, Kept
  <1>7. CASE UNCHANGED vars
    BY <1>7, NothingMoves
  <1>8. ASSUME NEW x \in Threads, Poll(x) PROVE UNCHANGED vars
    BY <1>8 DEF Poll
  <1>9. Finished => UNCHANGED vars
    BY DEF Finished
  <1> QED BY <1>3, <1>4, <1>5, <1>6, <1>7, <1>8, <1>9 DEF Next, Meeting

(* What the invariant says of the variables one by one. *)
LEMMA Narrower ==
  ASSUME NEW S, NEW Q \in Seq(S), NEW T, Range(Q) \subseteq T
  PROVE  Q \in Seq(T)
  <1>1. Len(Q) \in Nat /\ \A i \in 1 .. Len(Q) : Q[i] \in T
    BY RangeIs
  <1>2. Q \in [1 .. Len(Q) -> S]
    BY LenProperties
  <1>3. Q \in [1 .. Len(Q) -> T]
    BY <1>1, <1>2
  <1> QED BY <1>1, <1>3, SeqDef

LEMMA InvType == IInv => TypeOK
  <1> SUFFICES ASSUME Core PROVE TypeOK
    BY DEF IInv
  <1>1. pc \in [Threads -> {"run", "fill", "ready", "post", "send", "recv", "ser", "deliver",
                            "count", "deser", "slaveDone", "reduce", "allDone",
                            "direct", "collect", "trap"}]
    BY DEF Core, PcInv, Barriers, MasterOnly, Sharing
  <1>2. syncs \in 0 .. Len(Plan)
    BY DEF Core, PcInv
  <1>3. \A r \in Ranks : \A Q \in {serQ[r], sendQ[r]} : Q \in Seq(SendMap(r))
    BY Narrower DEF Core, QueueTypes, QueueInv
  <1>4. \A r \in Ranks : desQ[r] \in Seq(RecvMap(r)) /\ posted[r] \subseteq RecvMap(r)
    BY Narrower DEF Core, QueueTypes, QueueInv
  <1>5. ASSUME NEW x \in Threads
        PROVE  /\ linkQ[x] \in Seq({k \in Conns : k[2] = x})
               /\ hold[x] \subseteq Conns /\ Cardinality(hold[x]) <= 1
               /\ toDeliver[x] \in 0 .. RecvCount(x)
    <2>1. linkQ[x] \in Seq({k \in Conns : k[2] = x})
      <3>1. linkQ[x] \in Seq(Conns) /\ \A k \in Range(linkQ[x]) : k[2] = x
        BY DEF Core, QueueTypes, QueueInv
      <3>2. Range(linkQ[x]) \subseteq {k \in Conns : k[2] = x}
        BY <3>1, RangeIs
      <3> QED BY <3>1, <3>2, Narrower
    <2>2. hold[x] \subseteq Conns
      BY DEF Core, QueueTypes
    <2>3. Cardinality(hold[x]) <= 1
      <3>1. CASE hold[x] = {}
        <4>1. Cardinality(hold[x]) = 0
          BY <3>1, FS_EmptySet
        <4> QED BY <4>1
      <3>2. CASE hold[x] # {}
        <4>a. PICK k : k \in hold[x]
          BY <3>2
        <4>1. hold[x] = {k}
          BY <4>a DEF Core, HoldInv
        <4>2. Cardinality(hold[x]) = 1
          BY <4>1, FS_Singleton
        <4> QED BY <4>2
      <3> QED BY <3>1, <3>2
    <2>4. RecvCount(x) \in Nat
      BY ConnsFinite DEF RecvCount
    <2>5. toDeliver[x] \in 0 .. RecvCount(x)
      BY <2>4 DEF Core, QueueTypes
    <2> QED BY <2>1, <2>2, <2>3, <2>5
  <1>6. \A r \in Ranks : /\ toSend[r] \in 0 .. Cardinality(SendMap(r))
                         /\ remaining[r] \in 0 .. Cardinality(RecvMap(r))
    BY ConnFacts, ConnsFinite DEF Core, QueueTypes
  <1>7. /\ \A k \in Conns : wire[k] \in Seq(Messages) /\ wire2[k] \in Seq(Messages)
        /\ remoteSize \in [Conns -> Sizes \cup {FirstSize}]
        /\ localSize \in [Conns -> Sizes \cup {FirstSize}]
        /\ rbuf \in [Conns -> Messages]
        /\ delivered \in [Conns -> 0 .. Len(Plan)]
    BY DEF Core, NetTypes
  <1> QED BY <1>1, <1>2, <1>3, <1>4, <1>5, <1>6, <1>7 DEF TypeOK

LEMMA InvNothingTruncated == IInv => NothingTruncated
  <1> SUFFICES ASSUME IInv, NEW k \in Conns
               PROVE  /\ wire[k] # <<>> /\ Head(wire[k]).mode = 0
                           => Head(wire[k]).size <= localSize[k]
                      /\ wire[k] = <<>> => remoteSize[k] <= localSize[k]
    BY DEF NothingTruncated
  <1>1. PICK st \in [Conns -> Stages] : WireAt(st, k)
    BY DEF IInv, StageInv, WireInv
  <1>2. wire[k] \in Seq(Messages) /\ remoteSize[k] \in Nat /\ localSize[k] \in Nat
    BY ExchangeAssumption DEF IInv, Core, NetTypes
  <1>3. wire[k] # <<>> => /\ st[k] = "sent" /\ Head(wire[k]) = wire[k][1]
                          /\ wire[k][1] \in Messages
    BY <1>1, <1>2 DEF WireAt
  <1>4. wire[k] = <<>> => st[k] # "sent"
    BY <1>1 DEF WireAt
  <1>5. \A e \in Messages : e.size \in Nat
    <2>1. Sizes \cup {0} \subseteq Nat
      BY ExchangeAssumption
    <2>2. \A e \in Messages : e.size \in Sizes \cup {0}
      BY DEF Messages
    <2> QED BY <2>1, <2>2
  <1> QED BY <1>1, <1>2, <1>3, <1>4, <1>5 DEF WireAt

LEMMA Invariance == Spec => []IInv
  <1>1. IInv /\ [Next]_vars => IInv'
    BY NextKeeps DEF Kept
  <1> QED BY <1>1, InitHolds, PTL DEF Spec

(* The queues hold connections of their rank or thread, and the counts are *)
(* within their bounds, whoever of the threads does the work.              *)
THEOREM TypeCorrect == Spec => []TypeOK
  BY Invariance, InvType, PTL

(* A message never exceeds the buffer that waits for it: both sides grow   *)
(* it together, whatever sizes the batches have, in every exchange         *)
(* (rankSyncParallelSkip.cc:278, :325).                                    *)
THEOREM BuffersSuffice == Spec => []NothingTruncated
  BY Invariance, InvNothingTruncated, PTL

(* An exchange hands over what was queued, all of it and once: the threads *)
(* of the ranks together do what ExchangeSpec does                         *)
(* (rankSyncParallelSkip.cc:170-364, rankSyncSerialSkip.cc:122-241).       *)
THEOREM HandsOverAll == Spec => ExchangeRefined
  <1>1. Init => Abs!Init
    BY DEF Init, Abs!Init
  <1>2. IInv /\ [Next]_vars => [Abs!Next]_<<delivered, syncs>>
    BY NextKeeps DEF Kept
  <1> QED BY <1>1, <1>2, Invariance, PTL DEF Spec, ExchangeRefined, Abs!Spec
=============================================================================
