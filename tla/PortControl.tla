---------------------------- MODULE PortControl ----------------------------
(***************************************************************************)
(* PortControl, the router's side of a link to an endpoint: the input      *)
(* buffers, whose first packets the crossbar arbitrates over; the output   *)
(* buffers; and the credits for the crossbar to fill the output buffers    *)
(* and for the port to fill the endpoint's input buffers.                  *)
(***************************************************************************)
EXTENDS LinkControl

CONSTANT Skipped            \* bound: cycles the clock may have been off

ASSUME SkippedAssumption == Skipped \subseteq Nat

VARIABLES inBuf,            \* input_buf, and its head in vc_heads
          outBuf,           \* output_buf
          xbarCredits,      \* xbar_in_credits
          portCredits,      \* port_out_credits
          arbVc,            \* single_arb_rr::current
          portWaiting,      \* waiting
          portTimer,        \* output_timing events on their way
          rrPort,           \* xbar_arb_rr::rr_port
          rrVc,             \* xbar_arb_rr::rr_vcs
          inBusy, outBusy,  \* in_port_busy, out_port_busy
          notify            \* requestNotifyOnEvent: the clock is off

portVars == <<inBuf, outBuf, xbarCredits, portCredits, arbVc, portWaiting, portTimer>>
xbarVars == <<rrPort, rrVc, inBusy, outBusy, notify>>

PortInit ==
  /\ inBuf = [p \in Ports |-> [c \in VCs |-> <<>>]]
  /\ outBuf = [p \in Ports |-> [c \in VCs |-> <<>>]]
  /\ xbarCredits = [p \in Ports |-> [c \in VCs |-> PortOutSize]]
  /\ portCredits = [p \in Ports |-> [c \in VCs |-> IF c \in VNs THEN HostInSize ELSE 0]]
  /\ arbVc = [p \in Ports |-> NumVNs * VcsPerVn - 1]
  /\ portWaiting = [p \in Ports |-> TRUE]
  /\ portTimer = [p \in Ports |-> 0]

PortTypeOK ==
  /\ \A p \in Ports : \A c \in VCs :
       inBuf[p][c] \in Seq(Packets) /\ outBuf[p][c] \in Seq(Packets)
  /\ xbarCredits \in [Ports -> [VCs -> 0 .. PortOutSize]]
  /\ portCredits \in [Ports -> [VCs -> 0 .. HostInSize]]
  /\ arbVc \in [Ports -> VCs] /\ portTimer \in [Ports -> {0, 1}]
  /\ portWaiting \in [Ports -> BOOLEAN] /\ notify \in BOOLEAN
  /\ rrPort \in Ports /\ rrVc \in [Ports -> VCs]
  /\ inBusy \in [Ports -> 0 .. MaxFlits] /\ outBusy \in [Ports -> 0 .. MaxFlits]

(* fault: the timer is started whether it has stopped or not *)
WakePortAgain(p) ==
  /\ portTimer' = [portTimer EXCEPT ![p] = @ + 1]
  /\ portWaiting' = [portWaiting EXCEPT ![p] = FALSE]

WakePort(p) ==
  /\ portTimer' = [portTimer EXCEPT ![p] = IF portWaiting[p] THEN @ + 1 ELSE @]
  /\ portWaiting' = [portWaiting EXCEPT ![p] = FALSE]

Minus(n, m) == IF n < m THEN 0 ELSE n - m

(* hr_router::notifyEvent(): the clock goes on, and the crossbar makes up  *)
(* for the cycles it has missed.                                           *)
NotifyEvent ==
  \E n \in Skipped :
    /\ notify' = FALSE
    /\ inBusy' = [p \in Ports |-> Minus(inBusy[p], n)]
    /\ outBusy' = [p \in Ports |-> Minus(outBusy[p], n)]
    /\ rrPort' = (rrPort + n) % NumPorts
    /\ UNCHANGED rrVc

(* fault: a packet overtakes those that are in the buffer *)
PacketFromHostFirst(p) ==
  /\ up[p] # <<>>
  /\ LET e == Head(up[p])
     IN  inBuf' = [inBuf EXCEPT ![p][EntryVC(e.flow.vn)] = <<e>> \o @]
  /\ up' = [up EXCEPT ![p] = Tail(@)]
  /\ IF notify THEN NotifyEvent ELSE UNCHANGED xbarVars
  /\ UNCHANGED <<outBuf, xbarCredits, portCredits, arbVc, portWaiting, portTimer,
                 hostVars, upCredit, down, downCredit>>

(* handle_input_n2r(): a packet *)
PacketFromHost(p) ==
  /\ up[p] # <<>>
  /\ LET e == Head(up[p])
     IN  inBuf' = [inBuf EXCEPT ![p][EntryVC(e.flow.vn)] = Append(@, e)]
  /\ up' = [up EXCEPT ![p] = Tail(@)]
  /\ IF notify THEN NotifyEvent ELSE UNCHANGED xbarVars
  /\ UNCHANGED <<outBuf, xbarCredits, portCredits, arbVc, portWaiting, portTimer,
                 hostVars, upCredit, down, downCredit>>

(* handle_input_n2r(): a credit *)
CreditFromHost(p) ==
  /\ upCredit[p] # <<>>
  /\ LET e == Head(upCredit[p])
     IN  portCredits' = [portCredits EXCEPT ![p][e.vc] = @ + e.flits]
  /\ upCredit' = [upCredit EXCEPT ![p] = Tail(@)]
  /\ WakePort(p)
  /\ UNCHANGED <<inBuf, outBuf, xbarCredits, arbVc, hostVars, xbarVars, up, down,
                 downCredit>>

(* output_arb_basic::arbitrate() of a host port: the credits are those of  *)
(* the packet's virtual network.                                           *)
Eligible(p) ==
  {c \in VCs : /\ outBuf[p][c] # <<>>
               /\ LET e == Head(outBuf[p][c]) IN e.flits <= portCredits[p][e.flow.vn]}

(* handle_output() with a packet to send.  The credits it takes are those  *)
(* of the virtual channel.                                                 *)
Output(p) ==
  LET n == NumVNs * VcsPerVn
      c == FirstFrom((arbVc[p] + 1) % n, n, Eligible(p))
      e == Head(outBuf[p][c])
  IN  /\ portTimer[p] > 0 /\ Eligible(p) # {}
      /\ arbVc' = [arbVc EXCEPT ![p] = c]
      /\ outBuf' = [outBuf EXCEPT ![p][c] = Tail(@)]
      /\ xbarCredits' = [xbarCredits EXCEPT ![p][c] = @ + e.flits]
      /\ portCredits' = [portCredits EXCEPT ![p][c] = @ - e.flits]
      /\ down' = [down EXCEPT ![p] = Append(@, e)]
      /\ UNCHANGED <<inBuf, portWaiting, portTimer, hostVars, xbarVars, up, upCredit,
                     downCredit>>

(* handle_output() with none: the timer stops. *)
PortIdle(p) ==
  /\ portTimer[p] > 0 /\ Eligible(p) = {}
  /\ portTimer' = [portTimer EXCEPT ![p] = @ - 1]
  /\ portWaiting' = [portWaiting EXCEPT ![p] = TRUE]
  /\ UNCHANGED <<inBuf, outBuf, xbarCredits, portCredits, arbVc, hostVars, xbarVars,
                 linkVars>>

PortStep ==
  \E p \in Ports : PacketFromHost(p) \/ CreditFromHost(p) \/ Output(p) \/ PortIdle(p)
=============================================================================
