---------------------------- MODULE ShardConfig ----------------------------
(***************************************************************************)
(* The configurations of code/src/shardctrler and how Join, Leave and Move *)
(* make the next one.  ShardCtrler replicates them; the groups of ShardKV  *)
(* follow them.  The servers of a group are left out: Groups is the set of *)
(* the map's keys.                                                         *)
(***************************************************************************)
EXTENDS Integers, Sequences, FiniteSets

CONSTANTS
    NShards,      \* number of shards, 10 in the code
    Gid           \* group ids

(* getMinMaxGroup takes 257 for more than any share *)
ASSUME ShardsAssumption == NShards \in 1 .. 256
ASSUME GidAssumption == Gid \subseteq Nat \ {0} /\ IsFiniteSet(Gid)

Shard == 0 .. NShards - 1
Shards == [Shard -> Gid \cup {0}]
Config == [Num : Nat, Shards : Shards, Groups : SUBSET Gid]

(* what changes the configuration *)
CtrlerOp == [Type : {"JOIN", "LEAVE"}, GIDs : SUBSET Gid]
            \cup [Type : {"MOVE"}, Shard : Shard, GID : Gid]

-----------------------------------------------------------------------------
(* util.go: the assignment of shards *)

(* getSortedKeys(groups)[n] *)
sortedKey(groups, n) ==
    CHOOSE g \in groups : Cardinality({h \in groups : h < g}) = n

(* variant: every shard is dealt out, whoever has it *)
assignAllShards(shards, groups) ==
    IF groups = {} THEN shards
    ELSE [k \in Shard |-> sortedKey(groups, k % Cardinality(groups))]

(* shards of group 0 go to the groups in turn *)
assignVoidShards(shards, groups) ==
    IF groups = {} THEN shards
    ELSE [k \in Shard |->
            IF shards[k] > 0 THEN shards[k]
            ELSE sortedKey(groups, Cardinality({h \in 0 .. k - 1 : shards[h] <= 0})
                                       % Cardinality(groups))]

share(shards, g) == Cardinality({k \in Shard : shards[k] = g})

(* getMinMaxGroup: of several the one with the lowest id *)
minGroup(shards, groups) ==
    CHOOSE g \in groups : \A h \in groups :
        \/ share(shards, g) < share(shards, h)
        \/ share(shards, g) = share(shards, h) /\ g <= h

maxGroup(shards, groups) ==
    CHOOSE g \in groups : \A h \in groups :
        \/ share(shards, g) > share(shards, h)
        \/ share(shards, g) = share(shards, h) /\ g <= h

(* variant: a difference of two is taken for even *)
unevenByThree(shards, groups) ==
    share(shards, maxGroup(shards, groups)) - share(shards, minGroup(shards, groups)) > 2

uneven(shards, groups) ==
    share(shards, maxGroup(shards, groups)) - share(shards, minGroup(shards, groups)) > 1

(* the first shard of the largest group goes to the smallest *)
moveOne(shards, groups) ==
    LET from == maxGroup(shards, groups)
        k == CHOOSE n \in Shard : shards[n] = from /\ \A h \in 0 .. n - 1 : shards[h] # from
    IN [shards EXCEPT ![k] = minGroup(shards, groups)]

(* the loop, from any assignment to the one it ends with *)
redistribution(groups) ==
    LET loop[s \in Shards] == IF uneven(s, groups) THEN loop[moveOne(s, groups)] ELSE s
    IN loop

redistributeShards(shards, groups) ==
    IF Cardinality(groups) > 1 THEN redistribution(groups)[shards] ELSE shards

(* what handleJoin and handleLeave end with *)
rebalance(shards, groups) ==
    redistributeShards(assignVoidShards(shards, groups), groups)

-----------------------------------------------------------------------------
(* applyTicker.go, server.go: from one configuration to the next *)

initialConfig == [Num |-> 0, Shards |-> [k \in Shard |-> 0], Groups |-> {}]

handleJoin(config, gids) ==
    LET groups == config.Groups \cup gids
    IN [Num |-> config.Num + 1, Groups |-> groups,
        Shards |-> rebalance(config.Shards, groups)]

handleLeave(config, gids) ==
    LET groups == config.Groups \ gids
        left == [k \in Shard |-> IF config.Shards[k] \in gids THEN 0 ELSE config.Shards[k]]
    IN [Num |-> config.Num + 1, Groups |-> groups, Shards |-> rebalance(left, groups)]

(* the group need not be there *)
handleMove(config, shard, g) ==
    [Num |-> config.Num + 1, Groups |-> config.Groups,
     Shards |-> [config.Shards EXCEPT ![shard] = g]]

(* the configuration an operation adds, if it adds one *)
nextConfigs(config, op) ==
    CASE op.Type = "JOIN"  -> <<handleJoin(config, op.GIDs)>>
      [] op.Type = "LEAVE" -> <<handleLeave(config, op.GIDs)>>
      [] op.Type = "MOVE"  -> <<handleMove(config, op.Shard, op.GID)>>
      [] op.Type = "QUERY" -> <<>>

-----------------------------------------------------------------------------
(* What is expected of them *)

Balanced(shards, groups) ==
    \A g, h \in groups : share(shards, g) - share(shards, h) <= 1

(* a Join or a Leave of whatever groups next *)
rebalancesWell(old) ==
    LET joined == {handleJoin(old, gids) : gids \in SUBSET (Gid \ old.Groups)}
        left == {handleLeave(old, gids) : gids \in (SUBSET old.Groups) \ {old.Groups}}
    IN \A config \in joined \cup left : config.Groups # {} =>
          /\ Balanced(config.Shards, config.Groups)
          /\ \A k \in Shard :
                \/ config.Shards[k] \in config.Groups
                \/ /\ config.Shards[k] = old.Shards[k]
                   /\ old.Shards[k] \notin old.Groups \cup {0}

joinsMinimally(old) ==
    /\ Balanced(old.Shards, old.Groups)
    /\ \A k \in Shard : old.Shards[k] \in old.Groups
    => \A gids \in SUBSET (Gid \ old.Groups), k \in Shard :
          handleJoin(old, gids).Shards[k] \in {old.Shards[k]} \cup gids
=============================================================================
