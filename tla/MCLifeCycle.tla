---------------------------- MODULE MCLifeCycle ----------------------------
(* Two ranks of two threads: a and b on different threads of rank 0, d     *)
(* beside a, and e on the second thread of rank 1.                         *)
EXTENDS LifeCycle, TLC

CONSTANTS a, b, d, e, k1

MCHome == a :> <<0, 0>> @@ d :> <<0, 0>> @@ b :> <<0, 1>> @@ e :> <<1, 1>>
MCComps == {a, b, d, e}
MCOrder == <<a, d, b, e>>
MCChannels == {<<a, d>>, <<a, b>>, <<b, e>>, <<e, a>>}
MCSharers == {a, e}
SomeLate == {{a}, MCSharers}

(* Either many rounds, or many uses of the map in two of them. *)
MCUses == 0 :> 6 @@ 1 :> 6 @@ 2 :> 1 @@ 3 :> 1
NoneEarly == {{}}
NoUses == 0 :> 0 @@ 1 :> 0
=============================================================================
