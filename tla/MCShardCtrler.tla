--------------------------- MODULE MCShardCtrler ---------------------------
(* ShardCtrler for TLC: what clerks ask for. *)
EXTENDS ShardCtrler, TLC

(* groups come; then the latest configuration is asked for, one leaves or a shard is
   moved, perhaps to a group that is not there; then an earlier configuration *)
SomeCommands ==
    <<{[Type |-> "JOIN", GIDs |-> {1, 2}]},
      {[Type |-> "QUERY", Num |-> -1], [Type |-> "LEAVE", GIDs |-> {1}],
       [Type |-> "MOVE", Shard |-> 0, GID |-> 2], [Type |-> "MOVE", Shard |-> 0, GID |-> 3]},
      {[Type |-> "QUERY", Num |-> 1]}>>

(* the servers are not told apart *)
Servers == Permutations(Server)
=============================================================================
