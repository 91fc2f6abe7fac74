---------------------------- MODULE RankExchange ----------------------------
(***************************************************************************)
(* One rank sync from the inside: how the threads of a rank share the work *)
(* of an exchange (RankSyncParallelSkip: serialize, send, receive,         *)
(* deserialize, put on the link) through work queues, and how the buffers  *)
(* of both sides grow together.  The exchange of untimed data before and   *)
(* after the run phase uses the same buffers, and so does the exchange of  *)
(* single-threaded ranks (RankSyncSerialSkip), which goes the same         *)
(* straight way.                                                           *)
(*                                                                         *)
(* A connection <<r, x>> is an entry of two maps: of the comm_send_map of  *)
(* rank r, and of the comm_recv_map of the rank of thread x.  The work     *)
(* queues are queues (BoundedQueue.tla), the barriers meetings             *)
(* (Barrier.tla).                                                          *)
(***************************************************************************)
EXTENDS Integers, Sequences, FiniteSets

CONSTANTS NumRanks, NumThreads,
          Linked,           \* pairs of threads of different ranks with a link
          Plan,             \* the exchanges: "untimed", "timed", in order
          Sizes,            \* buffer_size of what getData() returns
          FirstSize         \* size of the buffers at first (4096)

Ranks == 0 .. NumRanks - 1
Threads == Ranks \X (0 .. NumThreads - 1)
Master(r) == <<r, 0>>
ThreadsOf(r) == {x \in Threads : x[1] = r}

ASSUME ExchangeAssumption ==
  /\ NumRanks \in Nat \ {0} /\ NumThreads \in Nat \ {0}
  /\ Linked \subseteq Threads \X Threads
  /\ \A l \in Linked : l[1][1] # l[2][1] /\ <<l[2], l[1]>> \in Linked
  /\ Plan \in Seq({"untimed", "timed"})
  /\ Sizes \subseteq Nat \ {0} /\ FirstSize \in Nat

(* registerLink() *)
Conns == {<<l[1][1], l[2]>> : l \in Linked}
SendMap(r) == {k \in Conns : k[1] = r}
RecvMap(r) == {k \in Conns : k[2][1] = r}
RecvCount(x) == Cardinality({k \in Conns : k[2] = x})

VARIABLES pc,               \* where a thread is
          syncs,            \* exchanges that are complete
          serQ, sendQ, desQ,    \* work queues of a rank
          linkQ,            \* link_send_queue of a thread
          hold,             \* the entry a thread is working on, in a set
          toSend,           \* my_send_count of a master
          remaining,        \* remaining_deser of a rank
          toDeliver,        \* my_recv_count of a thread
          posted,           \* receives of a rank that are not done
          wire, wire2,      \* messages under the first and the second tag
          remoteSize, localSize,    \* of a connection's two sides
          rbuf,             \* the message in a receive buffer
          delivered         \* the last batch that was put on the links

queueVars == <<serQ, sendQ, desQ, linkQ, hold>>
countVars == <<toSend, remaining, toDeliver>>
netVars == <<posted, wire, wire2, remoteSize, localSize, rbuf>>
vars == <<pc, syncs, queueVars, countVars, netVars, delivered>>

Message(m, s, n) == [mode |-> m, size |-> s, sync |-> n]
Messages == [mode : {0, 1}, size : Sizes \cup {0}, sync : 0 .. Len(Plan)]

TypeOK ==
  /\ pc \in [Threads -> {"run", "fill", "ready", "post", "send", "recv", "ser", "deliver",
                         "count", "deser", "slaveDone", "reduce", "allDone",
                         "direct", "collect", "trap"}]
  /\ syncs \in 0 .. Len(Plan)
  /\ \A r \in Ranks : \A Q \in {serQ[r], sendQ[r]} : Q \in Seq(SendMap(r))
  /\ \A r \in Ranks : desQ[r] \in Seq(RecvMap(r)) /\ posted[r] \subseteq RecvMap(r)
  /\ \A x \in Threads :
       /\ linkQ[x] \in Seq({k \in Conns : k[2] = x})
       /\ hold[x] \subseteq Conns /\ Cardinality(hold[x]) <= 1
       /\ toDeliver[x] \in 0 .. RecvCount(x)
  /\ \A r \in Ranks : /\ toSend[r] \in 0 .. Cardinality(SendMap(r))
                      /\ remaining[r] \in 0 .. Cardinality(RecvMap(r))
  /\ \A k \in Conns : wire[k] \in Seq(Messages) /\ wire2[k] \in Seq(Messages)
  /\ remoteSize \in [Conns -> Sizes \cup {FirstSize}]
  /\ localSize \in [Conns -> Sizes \cup {FirstSize}]
  /\ rbuf \in [Conns -> Messages]
  /\ delivered \in [Conns -> 0 .. Len(Plan)]

Init ==
  /\ pc = [x \in Threads |-> "run"]
  /\ syncs = 0
  /\ serQ = [r \in Ranks |-> <<>>] /\ sendQ = serQ /\ desQ = serQ
  /\ linkQ = [x \in Threads |-> <<>>]
  /\ hold = [x \in Threads |-> {}]
  /\ toSend = [r \in Ranks |-> 0] /\ remaining = [r \in Ranks |-> 0]
  /\ toDeliver = [x \in Threads |-> 0]
  /\ posted = [r \in Ranks |-> {}]
  /\ wire = [k \in Conns |-> <<>>] /\ wire2 = wire
  /\ remoteSize = [k \in Conns |-> FirstSize] /\ localSize = remoteSize
  /\ rbuf = [k \in Conns |-> Message(0, 0, 0)]
  /\ delivered = [k \in Conns |-> 0]

Goto(x, l) == pc' = [pc EXCEPT ![x] = l]
Straight == NumThreads = 1 \/ Plan[syncs + 1] = "untimed"

(* The entries of S in some order: that of a std::map. *)
Listed(S) == CHOOSE s \in [1 .. Cardinality(S) -> S] : \A k \in S : \E i \in DOMAIN s : s[i] = k

(* All threads of rank r are at barrier b: that of the SyncManager before  *)
(* the exchange, serializeReadyBarrier, slaveExchangeDoneBarrier, or that  *)
(* at the end.                                                             *)
Barriers == {"run", "ready", "slaveDone", "allDone"}
Resume(x, b) ==
  LET master == x = Master(x[1])
  IN  CASE b = "run" /\ Straight -> IF master THEN "direct" ELSE "allDone"
        [] b = "run" /\ ~Straight -> IF master THEN "fill" ELSE "ready"
        [] b = "ready" -> IF master THEN "post" ELSE "ser"
        [] b = "slaveDone" -> IF master THEN "reduce" ELSE "allDone"
        [] b = "allDone" -> "run"

Barrier(r, b) ==
  /\ \A x \in ThreadsOf(r) : pc[x] = b
  /\ b = "run" => syncs < Len(Plan)
  /\ pc' = [x \in Threads |-> IF x[1] = r THEN Resume(x, b) ELSE pc[x]]
  /\ UNCHANGED <<syncs, queueVars, countVars, netVars, delivered>>

----------------------------------------------------------------------------
(* The messages of a connection.                                           *)

(* MPI_Isend of a batch of s bytes on each connection of S: where the      *)
(* other side's buffer is too small, a header under the first tag tells it *)
(* to get a larger one for what follows under the second.                  *)
Grows(k, s) == remoteSize[k] < s

(* fault: the other side is not told *)
SendSilently(S, s) ==
  LET batch(k) == Message(0, s[k], syncs + 1)
  IN  /\ wire' = [k \in Conns |-> IF k \in S THEN Append(wire[k], batch(k)) ELSE wire[k]]
      /\ UNCHANGED <<wire2, remoteSize>>

Send(S, s) ==
  LET batch(k) == Message(IF Grows(k, s[k]) THEN 1 ELSE 0, s[k], syncs + 1)
      more(k) == k \in S /\ Grows(k, s[k])
  IN  /\ wire' = [k \in Conns |-> IF k \in S THEN Append(wire[k], batch(k)) ELSE wire[k]]
      /\ wire2' = [k \in Conns |-> IF more(k) THEN Append(wire2[k], batch(k)) ELSE wire2[k]]
      /\ remoteSize' = [k \in Conns |-> IF more(k) THEN s[k] ELSE remoteSize[k]]

(* The receives of S are done: where there is only a header, the buffer    *)
(* grows and MPI_Recv gets the batch under the second tag.                 *)
Arrived(k) == wire[k] # <<>> /\ (Head(wire[k]).mode = 1 => wire2[k] # <<>>)

(* fault: the buffer grows, the size that tells so does not *)
ReceiveForgets(S) ==
  LET big(k) == k \in S /\ Head(wire[k]).mode = 1
  IN  /\ \A k \in S : Arrived(k)
      /\ rbuf' = [k \in Conns |-> IF big(k) THEN Head(wire2[k])
                                  ELSE IF k \in S THEN Head(wire[k]) ELSE rbuf[k]]
      /\ wire' = [k \in Conns |-> IF k \in S THEN Tail(wire[k]) ELSE wire[k]]
      /\ wire2' = [k \in Conns |-> IF big(k) THEN Tail(wire2[k]) ELSE wire2[k]]
      /\ UNCHANGED localSize

Receive(S) ==
  LET big(k) == k \in S /\ Head(wire[k]).mode = 1
  IN  /\ \A k \in S : Arrived(k)
      /\ localSize' = [k \in Conns |->
                         IF big(k) /\ Head(wire[k]).size > localSize[k]
                         THEN Head(wire[k]).size ELSE localSize[k]]
      /\ rbuf' = [k \in Conns |-> IF big(k) THEN Head(wire2[k])
                                  ELSE IF k \in S THEN Head(wire[k]) ELSE rbuf[k]]
      /\ wire' = [k \in Conns |-> IF k \in S THEN Tail(wire[k]) ELSE wire[k]]
      /\ wire2' = [k \in Conns |-> IF big(k) THEN Tail(wire2[k]) ELSE wire2[k]]

(* The events in the receive buffers of S are put on their links.          *)
Deliver(S) ==
  delivered' = [k \in Conns |-> IF k \in S THEN rbuf'[k].sync ELSE delivered[k]]

----------------------------------------------------------------------------
(* exchange_master()                                                       *)

(* The serialize_queue is filled before the slaves are let go. *)
Fill(r) ==
  /\ pc[Master(r)] = "fill"
  /\ serQ' = [serQ EXCEPT ![r] = @ \o Listed(SendMap(r))]
  /\ remaining' = [remaining EXCEPT ![r] = Cardinality(RecvMap(r))]
  /\ Goto(Master(r), "ready")
  /\ UNCHANGED <<syncs, sendQ, desQ, linkQ, hold, toSend, toDeliver, netVars, delivered>>

(* The receives are posted. *)
Post(r) ==
  /\ pc[Master(r)] = "post"
  /\ posted' = [posted EXCEPT ![r] = RecvMap(r)]
  /\ toSend' = [toSend EXCEPT ![r] = Cardinality(SendMap(r))]
  /\ Goto(Master(r), "send")
  /\ UNCHANGED <<syncs, queueVars, remaining, toDeliver, wire, wire2, remoteSize,
                 localSize, rbuf, delivered>>

(* What is serialized is sent. *)
SendOne(r) ==
  /\ pc[Master(r)] = "send" /\ sendQ[r] # <<>>
  /\ hold[Master(r)] = {}
  /\ sendQ' = [sendQ EXCEPT ![r] = Tail(@)]
  /\ toSend' = [toSend EXCEPT ![r] = @ - 1]
  /\ \E s \in Sizes : Send({Head(sendQ[r])}, [k \in Conns |-> s])
  /\ UNCHANGED <<pc, syncs, serQ, desQ, linkQ, hold, remaining, toDeliver, posted,
                 localSize, rbuf, delivered>>

SentAll(r) ==
  /\ pc[Master(r)] = "send" /\ toSend[r] = 0
  /\ Goto(Master(r), "recv")
  /\ UNCHANGED <<syncs, queueVars, countVars, netVars, delivered>>

(* An arrived message goes to the deserialize_queue. *)
ReceiveOne(r, k) ==
  /\ pc[Master(r)] = "recv" /\ k \in posted[r]
  /\ Receive({k})
  /\ posted' = [posted EXCEPT ![r] = @ \ {k}]
  /\ desQ' = [desQ EXCEPT ![r] = Append(@, k)]
  /\ UNCHANGED <<pc, syncs, serQ, sendQ, linkQ, hold, countVars, remoteSize, delivered>>

ReceivedAll(r) ==
  /\ pc[Master(r)] = "recv" /\ posted[r] = {}
  /\ Goto(Master(r), "ser")
  /\ UNCHANGED <<syncs, queueVars, countVars, netVars, delivered>>

----------------------------------------------------------------------------
(* exchange_slave(), which the master calls too when it has sent and       *)
(* received everything; while it waits for something to send, the master   *)
(* helps with the first part.                                              *)

(* An entry is taken from the serialize_queue. *)
TakeToSerialize(x) ==
  LET r == x[1]
  IN  /\ \/ pc[x] = "ser"
         \/ pc[x] = "send" /\ toSend[r] # 0 /\ sendQ[r] = <<>>
      /\ hold[x] = {} /\ serQ[r] # <<>>
      /\ serQ' = [serQ EXCEPT ![r] = Tail(@)]
      /\ hold' = [hold EXCEPT ![x] = {Head(serQ[r])}]
      /\ UNCHANGED <<pc, syncs, sendQ, desQ, linkQ, countVars, netVars, delivered>>

(* It is serialized and put into the send_queue. *)
Serialize(x) ==
  /\ pc[x] \in {"ser", "send"} /\ hold[x] # {}
  /\ sendQ' = [sendQ EXCEPT ![x[1]] = @ \o Listed(hold[x])]
  /\ hold' = [hold EXCEPT ![x] = {}]
  /\ UNCHANGED <<pc, syncs, serQ, desQ, linkQ, countVars, netVars, delivered>>

(* The serialize_queue is empty.  A queue that was initialized for an      *)
(* empty map has no cells: pos % dsize divides by 0.                       *)
SerializedAll(x) ==
  /\ pc[x] = "ser" /\ hold[x] = {} /\ serQ[x[1]] = <<>>
  /\ toDeliver' = [toDeliver EXCEPT ![x] = RecvCount(x)]
  /\ Goto(x, IF SendMap(x[1]) = {} THEN "trap" ELSE "deliver")
  /\ UNCHANGED <<syncs, queueVars, toSend, remaining, netVars, delivered>>

(* What was deserialized for this thread goes on its links. *)
DeliverOne(x) ==
  /\ pc[x] = "deliver" /\ linkQ[x] # <<>>
  /\ linkQ' = [linkQ EXCEPT ![x] = Tail(@)]
  /\ toDeliver' = [toDeliver EXCEPT ![x] = @ - 1]
  /\ UNCHANGED netVars
  /\ Deliver({Head(linkQ[x])})
  /\ UNCHANGED <<pc, syncs, serQ, sendQ, desQ, hold, toSend, remaining>>

(* Otherwise an entry is taken from the deserialize_queue. *)
TakeToDeserialize(x) ==
  LET r == x[1]
  IN  /\ pc[x] = "deliver" /\ linkQ[x] = <<>> /\ desQ[r] # <<>>
      /\ toDeliver[x] # 0 \/ remaining[r] # 0
      /\ desQ' = [desQ EXCEPT ![r] = Tail(@)]
      /\ hold' = [hold EXCEPT ![x] = {Head(desQ[r])}]
      /\ Goto(x, "count")
      /\ UNCHANGED <<syncs, serQ, sendQ, linkQ, countVars, netVars, delivered>>

(* fault: two decrements at a time may count as one *)
CountDownLost(x) ==
  /\ pc[x] = "count"
  /\ \/ remaining' = [remaining EXCEPT ![x[1]] = @ - 1]
     \/ /\ \E y \in ThreadsOf(x[1]) \ {x} : pc[y] = "count"
        /\ UNCHANGED remaining
  /\ Goto(x, "deser")
  /\ UNCHANGED <<syncs, queueVars, toSend, toDeliver, netVars, delivered>>

(* remaining_deser-- *)
CountDown(x) ==
  /\ pc[x] = "count"
  /\ remaining' = [remaining EXCEPT ![x[1]] = @ - 1]
  /\ Goto(x, "deser")
  /\ UNCHANGED <<syncs, queueVars, toSend, toDeliver, netVars, delivered>>

(* fault: the thread that deserializes also delivers *)
DeserializeForMe(x) ==
  /\ pc[x] = "deser"
  /\ linkQ' = [linkQ EXCEPT ![x] = @ \o Listed(hold[x])]
  /\ hold' = [hold EXCEPT ![x] = {}]
  /\ Goto(x, "deliver")
  /\ UNCHANGED <<syncs, serQ, sendQ, desQ, countVars, netVars, delivered>>

(* It is deserialized and handed to the thread that has the links. *)
Deserialize(x) ==
  /\ pc[x] = "deser"
  /\ \E k \in hold[x] : linkQ' = [linkQ EXCEPT ![k[2]] = Append(@, k)]
  /\ hold' = [hold EXCEPT ![x] = {}]
  /\ Goto(x, "deliver")
  /\ UNCHANGED <<syncs, serQ, sendQ, desQ, countVars, netVars, delivered>>

(* fault: a thread leaves when there is nothing left to deserialize *)
DeliveredEarly(x) ==
  /\ pc[x] = "deliver" /\ remaining[x[1]] = 0
  /\ Goto(x, "slaveDone")
  /\ UNCHANGED <<syncs, queueVars, countVars, netVars, delivered>>

DeliveredAll(x) ==
  /\ pc[x] = "deliver" /\ toDeliver[x] = 0 /\ remaining[x[1]] = 0
  /\ Goto(x, "slaveDone")
  /\ UNCHANGED <<syncs, queueVars, countVars, netVars, delivered>>

(* Nothing to do yet: the loops poll. *)
Poll(x) ==
  LET r == x[1]
  IN  /\ \/ pc[x] = "send" /\ toSend[r] # 0 /\ sendQ[r] = <<>> /\ serQ[r] = <<>>
         \/ pc[x] = "recv" /\ posted[r] # {}
         \/ /\ pc[x] = "deliver" /\ linkQ[x] = <<>> /\ desQ[r] = <<>>
            /\ toDeliver[x] # 0 \/ remaining[r] # 0
      /\ UNCHANGED vars

----------------------------------------------------------------------------
(* The straight exchange, by the master alone.                             *)

(* Everything is serialized and sent, and the receives are posted. *)
SendDirect(r) ==
  /\ pc[Master(r)] = "direct"
  /\ \E s \in [SendMap(r) -> Sizes] : Send(SendMap(r), s)
  /\ posted' = [posted EXCEPT ![r] = RecvMap(r)]
  /\ Goto(Master(r), "collect")
  /\ UNCHANGED <<syncs, queueVars, countVars, localSize, rbuf, delivered>>

(* MPI_Waitall, then every message is deserialized and put on the links.   *)
Collect(r) ==
  /\ pc[Master(r)] = "collect"
  /\ Receive(RecvMap(r))
  /\ Deliver(RecvMap(r))
  /\ posted' = [posted EXCEPT ![r] = {}]
  /\ Goto(Master(r), "reduce")
  /\ UNCHANGED <<syncs, queueVars, countVars, remoteSize>>

(* The MPI_Allreduce at the end of every exchange. *)
Reduce ==
  /\ \A r \in Ranks : pc[Master(r)] = "reduce"
  /\ syncs' = syncs + 1
  /\ pc' = [x \in Threads |-> IF x = Master(x[1]) THEN "allDone" ELSE pc[x]]
  /\ UNCHANGED <<queueVars, countVars, netVars, delivered>>

Finished ==
  /\ syncs = Len(Plan) /\ \A x \in Threads : pc[x] = "run"
  /\ UNCHANGED vars

----------------------------------------------------------------------------
MasterStep(r) ==
  \/ Fill(r) \/ Post(r) \/ SendOne(r) \/ SentAll(r) \/ (\E k \in Conns : ReceiveOne(r, k))
  \/ ReceivedAll(r) \/ SendDirect(r) \/ Collect(r)

ThreadStep(x) ==
  \/ TakeToSerialize(x) \/ Serialize(x) \/ SerializedAll(x)
  \/ DeliverOne(x) \/ TakeToDeserialize(x) \/ CountDown(x) \/ Deserialize(x)
  \/ DeliveredAll(x)

Meeting == Reduce \/ \E r \in Ranks, b \in Barriers : Barrier(r, b)

Next ==
  \/ \E r \in Ranks : MasterStep(r)
  \/ \E x \in Threads : ThreadStep(x) \/ Poll(x)
  \/ Meeting \/ Finished

Spec == Init /\ [][Next]_vars

(* Every thread runs, MPI delivers, and who meets goes on.                 *)
FairSpec ==
  /\ Spec
  /\ \A r \in Ranks : WF_vars(MasterStep(r))
  /\ \A x \in Threads : WF_vars(ThreadStep(x))
  /\ WF_vars(Meeting)

----------------------------------------------------------------------------
(* An exchange hands over what was queued before it, all of it and once,   *)
(* whichever threads did the work and in whatever order messages arrive    *)
(* (rankSyncParallelSkip.cc:170-364, rankSyncSerialSkip.cc:122-241).       *)
Abs == INSTANCE ExchangeSpec WITH complete <- syncs
ExchangeRefined == Abs!Spec

(* A message never exceeds the buffer that waits for it: what a sender     *)
(* believes of the other side's buffer is so (rankSyncParallelSkip.cc:278, *)
(* :325).                                                                  *)
NothingTruncated ==
  \A k \in Conns :
    /\ wire[k] # <<>> /\ Head(wire[k]).mode = 0 => Head(wire[k]).size <= localSize[k]
    /\ wire[k] = <<>> => remoteSize[k] <= localSize[k]

(* The exchange comes to its end: nobody waits for work that somebody else *)
(* has done, or for a thread that has left (rankSyncParallelSkip.cc:204).  *)
ExchangesEnd == <>(syncs = Len(Plan))
=============================================================================
