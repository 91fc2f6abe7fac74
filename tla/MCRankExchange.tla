--------------------------- MODULE MCRankExchange ---------------------------
(* Ranks of two threads with links between some of them.                   *)
EXTENDS RankExchange, TLC

Both(S) == S \cup {<<l[2], l[1]>> : l \in S}

(* Both threads of rank 0 have a link to rank 1, where one thread has none. *)
Uneven == Both({<< <<0, 0>>, <<1, 0>> >>, << <<0, 1>>, <<1, 0>> >>})
Phases == <<"untimed", "timed", "timed">>
=============================================================================
