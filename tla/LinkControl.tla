---------------------------- MODULE LinkControl ----------------------------
(***************************************************************************)
(* LinkControl, the endpoint's side of a link.  send() puts a packet into  *)
(* the output queue of its virtual network; a timer event sends one packet *)
(* after another, as far as the router has given credits for its input     *)
(* buffer; recv() takes a packet that has arrived and returns its credits. *)
(* With nothing it may send the timer stops, and waiting says that whoever *)
(* changes that has to start it again.                                     *)
(***************************************************************************)
EXTENDS MerlinLink

VARIABLES outQueue,         \* output_queues[].queue
          room,             \* output_queues[].credits
          routerCredits,    \* router_credits
          currOut,          \* curr_out_vn
          waiting,          \* waiting
          havePackets,      \* have_packets
          timer,            \* output_timing events on their way
          inQueue,          \* input_queues
          sent, received    \* history: packets of each flow

hostVars == <<outQueue, room, routerCredits, currOut, waiting, havePackets,
              timer, inQueue, sent, received>>

HostInit ==
  /\ outQueue = [h \in Ports |-> [v \in VNs |-> <<>>]]
  /\ room = [h \in Ports |-> [v \in VNs |-> HostOutSize]]
  /\ routerCredits = [h \in Ports |-> [v \in VNs |-> PortInSize]]
  /\ currOut = [h \in Ports |-> 0]
  /\ waiting = [h \in Ports |-> TRUE]
  /\ havePackets = [h \in Ports |-> FALSE]
  /\ timer = [h \in Ports |-> 0]
  /\ inQueue = [h \in Ports |-> [v \in VNs |-> <<>>]]
  /\ sent = [f \in Flows |-> 0] /\ received = [f \in Flows |-> 0]

HostTypeOK ==
  /\ \A h \in Ports : \A v \in VNs :
       outQueue[h][v] \in Seq(Packets) /\ inQueue[h][v] \in Seq(Packets)
  /\ room \in [Ports -> [VNs -> 0 .. HostOutSize]]
  /\ routerCredits \in [Ports -> [VNs -> 0 .. PortInSize]]
  /\ currOut \in [Ports -> VNs] /\ timer \in [Ports -> {0, 1}]
  /\ waiting \in [Ports -> BOOLEAN] /\ havePackets \in [Ports -> BOOLEAN]

(* Start the timer if it has stopped. *)
WakeHost(h) ==
  /\ timer' = [timer EXCEPT ![h] = IF waiting[h] THEN @ + 1 ELSE @]
  /\ waiting' = [waiting EXCEPT ![h] = FALSE]

(* LinkControl::send(); it returns false where there is no room.           *)
Send(f) ==
  LET h == f.src
  IN  \E n \in 1 .. MaxFlits :
        /\ \E l \in Loads :
             /\ sent[f] < Len(l[f]) /\ n = l[f][sent[f] + 1]
             /\ \A g \in Flows : sent[g] <= Len(l[g])
        /\ room[h][f.vn] >= n
        /\ room' = [room EXCEPT ![h][f.vn] = @ - n]
        /\ outQueue' = [outQueue EXCEPT ![h][f.vn] =
                          Append(@, [flow |-> f, nth |-> sent[f] + 1, flits |-> n])]
        /\ sent' = [sent EXCEPT ![f] = @ + 1]
        /\ IF havePackets[h] THEN UNCHANGED <<timer, waiting>> ELSE WakeHost(h)
        /\ UNCHANGED <<routerCredits, currOut, havePackets, inQueue, received, linkVars>>

(* The virtual networks whose first packet the router has credits for. *)
Sendable(h) ==
  {v \in VNs : outQueue[h][v] # <<>> /\ Head(outQueue[h][v]).flits <= routerCredits[h][v]}

(* handle_output() with a packet to send. *)
SendNext(h) ==
  LET v == FirstFrom(currOut[h], NumVNs, Sendable(h))
      p == Head(outQueue[h][v])
  IN  /\ timer[h] > 0 /\ Sendable(h) # {}
      /\ outQueue' = [outQueue EXCEPT ![h][v] = Tail(@)]
      /\ room' = [room EXCEPT ![h][v] = @ + p.flits]
      /\ routerCredits' = [routerCredits EXCEPT ![h][v] = @ - p.flits]
      /\ currOut' = [currOut EXCEPT ![h] = (v + 1) % NumVNs]
      /\ havePackets' = [havePackets EXCEPT ![h] = TRUE]
      /\ up' = [up EXCEPT ![h] = Append(@, p)]
      /\ UNCHANGED <<waiting, timer, inQueue, sent, received, upCredit, down, downCredit>>

(* fault: have_packets is not taken back when the queues are empty *)
IdleKeeps(h) ==
  /\ timer[h] > 0 /\ Sendable(h) = {}
  /\ timer' = [timer EXCEPT ![h] = @ - 1]
  /\ waiting' = [waiting EXCEPT ![h] = TRUE]
  /\ UNCHANGED <<outQueue, room, routerCredits, currOut, havePackets, inQueue, sent, received, linkVars>>

(* handle_output() with none: the timer stops. *)
Idle(h) ==
  /\ timer[h] > 0 /\ Sendable(h) = {}
  /\ timer' = [timer EXCEPT ![h] = @ - 1]
  /\ waiting' = [waiting EXCEPT ![h] = TRUE]
  /\ havePackets' = [havePackets EXCEPT ![h] = \E v \in VNs : outQueue[h][v] # <<>>]
  /\ UNCHANGED <<outQueue, room, routerCredits, currOut, inQueue, sent, received, linkVars>>

(* fault: a credit does not start the timer *)
CreditFromRouterAsleep(h) ==
  /\ downCredit[h] # <<>>
  /\ LET e == Head(downCredit[h])
     IN  routerCredits' = [routerCredits EXCEPT ![h][e.vc] = @ + e.flits]
  /\ downCredit' = [downCredit EXCEPT ![h] = Tail(@)]
  /\ UNCHANGED <<outQueue, room, currOut, waiting, havePackets, timer, inQueue,
                 sent, received, up, upCredit, down>>

(* handle_input(): a credit *)
CreditFromRouter(h) ==
  /\ downCredit[h] # <<>>
  /\ LET e == Head(downCredit[h])
     IN  routerCredits' = [routerCredits EXCEPT ![h][e.vc] = @ + e.flits]
  /\ downCredit' = [downCredit EXCEPT ![h] = Tail(@)]
  /\ WakeHost(h)
  /\ UNCHANGED <<outQueue, room, currOut, havePackets, inQueue, sent, received,
                 up, upCredit, down>>

(* handle_input(): a packet *)
PacketFromRouter(h) ==
  /\ down[h] # <<>>
  /\ LET p == Head(down[h])
     IN  inQueue' = [inQueue EXCEPT ![h][p.flow.vn] = Append(@, p)]
  /\ down' = [down EXCEPT ![h] = Tail(@)]
  /\ UNCHANGED <<outQueue, room, routerCredits, currOut, waiting, havePackets,
                 timer, sent, received, up, upCredit, downCredit>>

(* fault: one credit for a packet, whatever its size *)
RecvOneCredit(h, v) ==
  /\ inQueue[h][v] # <<>>
  /\ LET p == Head(inQueue[h][v])
     IN  /\ received' = [received EXCEPT ![p.flow] = @ + 1]
         /\ upCredit' = [upCredit EXCEPT ![h] = Append(@, [vc |-> v, flits |-> 1])]
  /\ inQueue' = [inQueue EXCEPT ![h][v] = Tail(@)]
  /\ UNCHANGED <<outQueue, room, routerCredits, currOut, waiting, havePackets,
                 timer, sent, up, down, downCredit>>

(* LinkControl::recv() *)
Recv(h, v) ==
  /\ inQueue[h][v] # <<>>
  /\ LET p == Head(inQueue[h][v])
     IN  /\ received' = [received EXCEPT ![p.flow] = @ + 1]
         /\ upCredit' = [upCredit EXCEPT ![h] = Append(@, [vc |-> v, flits |-> p.flits])]
  /\ inQueue' = [inQueue EXCEPT ![h][v] = Tail(@)]
  /\ UNCHANGED <<outQueue, room, routerCredits, currOut, waiting, havePackets,
                 timer, sent, up, down, downCredit>>

HostStep ==
  \/ \E f \in Flows : Send(f)
  \/ \E h \in Ports : SendNext(h) \/ Idle(h) \/ CreditFromRouter(h) \/ PacketFromRouter(h)
  \/ \E h \in Ports, v \in VNs : Recv(h, v)
=============================================================================
