------------------------------ MODULE Network ------------------------------
(***************************************************************************)
(* Endpoints and one hr_router: the router's clock moves packets over the  *)
(* crossbar (xbar_arb_rr), and stops while no port has one.  The flows     *)
(* stay inside the router, so that a packet keeps its virtual channel.     *)
(***************************************************************************)
EXTENDS PortControl

vars == <<linkVars, hostVars, portVars, xbarVars>>

Init ==
  /\ LinkInit /\ HostInit /\ PortInit
  /\ rrPort = 0 /\ rrVc = [p \in Ports |-> 0]
  /\ inBusy = [p \in Ports |-> 0] /\ outBusy = [p \in Ports |-> 0]
  /\ notify = FALSE

TypeOK == LinkTypeOK /\ HostTypeOK /\ PortTypeOK

----------------------------------------------------------------------------
(* The packet that channel c of port p has for the crossbar.               *)
HeadOf(p, c) == Head(inBuf[p][c])
NextPort(p, c) == HeadOf(p, c).flow.dest

(* The channels of p that may go on to a port that is not in out.          *)
Movable(p, out) ==
  {c \in VCs : /\ inBuf[p][c] # <<>>
               /\ out[NextPort(p, c)] = 0
               /\ xbarCredits[NextPort(p, c)][c] >= HeadOf(p, c).flits}

(* xbar_arb_rr::arbitrate() for port p, after the ports before it: moves   *)
(* are the channels chosen so far, by port.                                *)
Arbitrate(p, a) ==
  IF a.in[p] > 0 THEN a
  ELSE LET go == Movable(p, a.out)
           c == FirstFrom(a.vc[p], NumVNs * VcsPerVn, go)
           n == HeadOf(p, c).flits
           next == [a EXCEPT !.vc[p] = (@ + 1) % (NumVNs * VcsPerVn)]
       IN  IF go = {} THEN next
           ELSE [next EXCEPT !.moves = @ \cup {<<p, c>>}, !.in[p] = n,
                             !.out[NextPort(p, c)] = n]

Arbitration ==
  LET after[k \in 0 .. NumPorts] ==
        IF k = 0 THEN [moves |-> {}, in |-> inBusy, out |-> outBusy, vc |-> rrVc]
        ELSE Arbitrate((rrPort + k - 1) % NumPorts, after[k - 1])
  IN  after[NumPorts]

VcsWithData == Cardinality({m \in Ports \X VCs : inBuf[m[1]][m[2]] # <<>>})

(* clock_handler() with nothing to do: the clock is turned off. *)
ClockOff ==
  /\ ~notify /\ VcsWithData = 0
  /\ notify' = TRUE
  /\ UNCHANGED <<rrPort, rrVc, inBusy, outBusy, linkVars, hostVars, portVars>>

(* What the moves bring to channel c of port p: at most one packet. *)
Into(p, c, moves) ==
  SetToSeq({HeadOf(q, c) : q \in {q \in Ports : <<q, c>> \in moves /\ NextPort(q, c) = p}})

(* clock_handler(): recv() from the one port returns credits, send() to    *)
(* the other starts its timer.                                             *)
ClockHandler == \E a \in {Arbitration} :
  LET Credit(m) == [vc |-> HeadOf(m[1], m[2]).flow.vn, flits |-> HeadOf(m[1], m[2]).flits]
      Reached(p) == \E c \in VCs : Into(p, c, a.moves) # <<>>
  IN  /\ ~notify /\ VcsWithData # 0
      /\ inBuf' = [p \in Ports |-> [c \in VCs |->
                     IF <<p, c>> \in a.moves THEN Tail(inBuf[p][c]) ELSE inBuf[p][c]]]
      /\ downCredit' = [p \in Ports |->
                          downCredit[p] \o SetToSeq({Credit(m) : m \in {n \in a.moves : n[1] = p}})]
      /\ outBuf' = [p \in Ports |-> [c \in VCs |-> outBuf[p][c] \o Into(p, c, a.moves)]]
      /\ xbarCredits' = [p \in Ports |-> [c \in VCs |->
                           xbarCredits[p][c] - Flits(Into(p, c, a.moves))]]
      /\ portTimer' = [p \in Ports |->
                         IF portWaiting[p] /\ Reached(p) THEN portTimer[p] + 1 ELSE portTimer[p]]
      /\ portWaiting' = [p \in Ports |-> portWaiting[p] /\ ~Reached(p)]
      /\ rrPort' = (rrPort + 1) % NumPorts
      /\ rrVc' = a.vc
      /\ inBusy' = [p \in Ports |-> Minus(a.in[p], 1)]
      /\ outBusy' = [p \in Ports |-> Minus(a.out[p], 1)]
      /\ UNCHANGED <<portCredits, arbVc, notify, hostVars, up, upCredit, down>>

(* Every packet has been sent and read, and nothing moves any more.        *)
Quiet ==
  /\ \A f \in Flows : received[f] = sent[f]
  /\ \A p \in Ports : upCredit[p] = <<>> /\ downCredit[p] = <<>>
  /\ timer = [h \in Ports |-> 0] /\ portTimer = [p \in Ports |-> 0]
  /\ notify
  /\ UNCHANGED vars

RouterStep == ClockOff \/ ClockHandler

Next ==
  \/ HostStep /\ UNCHANGED <<portVars, xbarVars>>
  \/ PortStep
  \/ RouterStep
  \/ Quiet

Spec == Init /\ [][Next]_vars

(* Timer events and what is on a link arrive, the clock ticks, and the     *)
(* endpoints read what has arrived; nobody has to send.  A packet makes    *)
(* only so many steps outside the router, so that one condition for all of *)
(* them is as good as one for each.                                        *)
OutsideStep ==
  \/ \E p \in Ports : SendNext(p) \/ Idle(p) \/ CreditFromRouter(p) \/ PacketFromRouter(p)
  \/ \E p \in Ports, v \in VNs : Recv(p, v)

FairSpec ==
  /\ Spec
  /\ WF_vars(RouterStep)
  /\ WF_vars(PortStep \/ (OutsideStep /\ UNCHANGED <<portVars, xbarVars>>))

----------------------------------------------------------------------------
(* Whoever fills a buffer has as many credits as the buffer has room that  *)
(* nobody has claimed: no flit is lost or counted twice on the way of a    *)
(* packet out and of its credits back, over both hops.                     *)
CreditsConserved ==
  \A p \in Ports, v \in VNs :
    LET c == EntryVC(v)
    IN  /\ room[p][v] + Flits(outQueue[p][v]) = HostOutSize
        /\ routerCredits[p][v] + FlitsOn(up[p], v) + Flits(inBuf[p][c])
             + Credits(downCredit[p], v) = PortInSize
        /\ xbarCredits[p][c] + Flits(outBuf[p][c]) = PortOutSize
        /\ portCredits[p][v] + FlitsOn(down[p], v) + Flits(inQueue[p][v])
             + Credits(upCredit[p], v) = HostInSize

CreditInv == TypeOK /\ CreditsConserved

(* No side sleeps on work: where the timer of a port has stopped it has    *)
(* nothing it may send, and the clock is off only while no port has a      *)
(* packet; and there is never more than one timer.                         *)
RouterAwake ==
  /\ \A p \in Ports : /\ portWaiting[p] => Eligible(p) = {}
                      /\ portTimer[p] = IF portWaiting[p] THEN 0 ELSE 1
  /\ notify => VcsWithData = 0

(* An endpoint whose timer has stopped may hold a packet that it could     *)
(* send: send() does not start the timer while have_packets says that one  *)
(* waits (linkControl.cc:454).  Then one of another virtual network does   *)
(* wait for credits, and those start the timer when they arrive.           *)
HostAwake ==
  \A h \in Ports : waiting[h] /\ Sendable(h) # {} =>
    \E v \in VNs : outQueue[h][v] # <<>> /\ v \notin Sendable(h)

(* linkControl.h:62: "Size of input buffers" is what an endpoint holds.    *)
InputBufferBound ==
  \A h \in Ports, v \in VNs : Flits(inQueue[h][v]) <= HostInSize

(* The numbers of the packets of a flow between send() and recv(), the     *)
(* oldest first.                                                           *)
OnTheWay(f) ==
  LET c == EntryVC(f.vn)
      s == Only(inQueue[f.dest][f.vn] \o down[f.dest] \o outBuf[f.dest][c]
                \o inBuf[f.src][c] \o up[f.src] \o outQueue[f.src][f.vn], f)
  IN  [i \in DOMAIN s |-> s[i].nth]

(* The packets of a flow arrive in the order they were sent, each once.    *)
Abstract == INSTANCE NetworkSpec WITH channel <- [f \in Flows |-> OnTheWay(f)]
InOrder == Abstract!Spec

(* Every packet that was sent is read in the end: no sender waits for ever *)
(* for credits, no timer stays stopped and no port starves the others.     *)
Delivered == []<>(received = sent)
=============================================================================
