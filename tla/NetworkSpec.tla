---------------------------- MODULE NetworkSpec ----------------------------
(***************************************************************************)
(* What the network promises: the packets of a flow, that is from one      *)
(* endpoint to another on one virtual network, arrive in the order they    *)
(* were sent, and each once.                                               *)
(***************************************************************************)
EXTENDS Naturals, Sequences

CONSTANT Flows
VARIABLES channel,          \* numbers of the packets of a flow on the way
          sent, received    \* how many packets of a flow

Init ==
  /\ channel = [f \in Flows |-> <<>>]
  /\ sent = [f \in Flows |-> 0] /\ received = [f \in Flows |-> 0]

Send(f) ==
  /\ sent' = [sent EXCEPT ![f] = @ + 1]
  /\ channel' = [channel EXCEPT ![f] = Append(@, sent'[f])]
  /\ UNCHANGED received

Receive(f) ==
  /\ received' = [received EXCEPT ![f] = @ + 1]
  /\ channel[f] # <<>> /\ Head(channel[f]) = received'[f]
  /\ channel' = [channel EXCEPT ![f] = Tail(@)]
  /\ UNCHANGED sent

Next == \E f \in Flows : Send(f) \/ Receive(f)

Spec == Init /\ [][Next]_<<channel, sent, received>>
=============================================================================
