----------------------------- MODULE MerlinLink -----------------------------
(***************************************************************************)
(* Packets of the merlin network, and the links between the endpoints and  *)
(* the ports of one router.  A link hands packets and credits over in the  *)
(* order they were sent; a credit is sent with an extra delay and may be   *)
(* overtaken by a packet, so that a direction of a link is two queues.     *)
(* How long a packet or a credit takes is left open.                       *)
(***************************************************************************)
EXTENDS Naturals, SequencesExt, FiniteSetsExt

CONSTANTS NumPorts,         \* ports of the router, each with an endpoint
          NumVNs,           \* virtual networks
          VcsPerVn,         \* virtual channels the topology has for each
          Flows,            \* who sends to whom on which virtual network
          Loads,            \* bound: the sizes of the packets of the flows
          MaxFlits,         \* bound: flits of a packet
          HostOutSize, HostInSize,      \* buffers of an endpoint, per VN
          PortOutSize, PortInSize       \* buffers of a port, per VC

Ports == 0 .. NumPorts - 1
VNs == 0 .. NumVNs - 1
VCs == 0 .. NumVNs * VcsPerVn - 1

ASSUME MerlinAssumption ==
  /\ {NumPorts, NumVNs, VcsPerVn, MaxFlits} \subseteq Nat \ {0}
  /\ Flows \subseteq [src : Ports, dest : Ports, vn : VNs]
  /\ Loads \subseteq [Flows -> Seq(1 .. MaxFlits)]
  /\ \A n \in {HostOutSize, HostInSize, PortOutSize, PortInSize} :
       n \in Nat /\ n >= MaxFlits

Packets == [flow : Flows, nth : Nat \ {0}, flits : 1 .. MaxFlits]

(* The virtual channel a packet of vn is given when it enters the router.  *)
(* It keeps it where source and destination are at the same router.        *)
EntryVC(vn) == vn * VcsPerVn

(* The sum of the members of s, and all of them as one sequence.           *)
Total(s) ==
  LET upTo[k \in 0 .. Len(s)] == IF k = 0 THEN 0 ELSE upTo[k - 1] + s[k]
  IN  upTo[Len(s)]
Joined(s) ==
  LET upTo[k \in 0 .. Len(s)] == IF k = 0 THEN <<>> ELSE upTo[k - 1] \o s[k]
  IN  upTo[Len(s)]

Flits(s) == Total([i \in DOMAIN s |-> s[i].flits])
FlitsOn(s, v) == Total([i \in DOMAIN s |-> IF s[i].flow.vn = v THEN s[i].flits ELSE 0])
Credits(s, c) == Total([i \in DOMAIN s |-> IF s[i].vc = c THEN s[i].flits ELSE 0])
Only(s, f) == Joined([i \in DOMAIN s |-> IF s[i].flow = f THEN <<s[i]>> ELSE <<>>])

(* The member of S, a set of numbers below n, that going round from start  *)
(* meets first.                                                            *)
FirstFrom(start, n, S) ==
  CHOOSE v \in S : \A w \in S : (v + n - start) % n <= (w + n - start) % n

VARIABLES up, upCredit,     \* from endpoint to port: packets, credits
          down, downCredit  \* from port to endpoint

linkVars == <<up, upCredit, down, downCredit>>

LinkInit ==
  /\ up = [p \in Ports |-> <<>>] /\ upCredit = [p \in Ports |-> <<>>]
  /\ down = [p \in Ports |-> <<>>] /\ downCredit = [p \in Ports |-> <<>>]

LinkTypeOK ==
  /\ \A p \in Ports : up[p] \in Seq(Packets) /\ down[p] \in Seq(Packets)
  /\ \A p \in Ports : \A q \in {upCredit, downCredit} :
       q[p] \in Seq([vc : VNs, flits : Nat])
=============================================================================
