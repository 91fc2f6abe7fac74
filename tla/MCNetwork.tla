----------------------------- MODULE MCNetwork -----------------------------
(* Two endpoints send to a third, one of them on two virtual networks, or  *)
(* one endpoint to another on the second network only.                     *)
EXTENDS Network

Flow(s, d, v) == [src |-> s, dest |-> d, vn |-> v]
ThreeFlows == {Flow(0, 1, 0), Flow(0, 1, 1), Flow(2, 1, 0)}
SecondNetwork == {Flow(0, 1, 1)}

(* The loads of the first network: two packets fill its buffers, and one   *)
(* is sent on the other network while the second waits for credits; or two *)
(* endpoints send one each; or one sends both on one network.              *)
Load(a, b, c) ==
  [f \in Flows |-> IF f.src # 0 THEN c ELSE IF f.vn = 0 THEN a ELSE b]
Crowded ==
  {Load(<<2, 1>>, <<1>>, <<>>), Load(<<>>, <<1, 2>>, <<>>), Load(<<>>, <<>>, <<1, 1>>)}
    \cup {Load(<<m>>, <<>>, <<n>>) : m, n \in 1 .. 2}
    \cup {Load(<<>>, <<m>>, <<n>>) : m, n \in 1 .. 2}
TwoPackets == {[f \in Flows |-> <<2, 2>>]}
=============================================================================
