----------------------------- MODULE MCShardKV -----------------------------
(* ShardKV for TLC: who calls what, and what becomes of the configurations. *)
EXTENDS ShardKV

(* every clerk appends *)
Appends == [c \in Clerk |-> {"APPEND"}]

join(gids) == [Type |-> "JOIN", GIDs |-> gids]
move(shard, g) == [Type |-> "MOVE", Shard |-> shard, GID |-> g]

(* the shard goes to the other group and back *)
ThereAndBack ==
    <<{join({1, 2})}, {move(0, 2)}, {move(0, 1)}>>
=============================================================================
