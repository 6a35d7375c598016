--------------------------- MODULE ShardKVProofs ---------------------------
(***************************************************************************)
(* Invariants of ShardKV for every number of groups, servers and shards    *)
(* and every bound.  The first part is about types; the second shows that  *)
(* no two groups serve a shard if configurations change only when the      *)
(* groups have settled and snapshots are taken; the third that no request  *)
(* is in a value twice; the fourth, on top of the second, that an append   *)
(* that was acknowledged is never lost.                                    *)
(***************************************************************************)
EXTENDS ShardKV, ShardConfigProofs

USE DEF gid, missing

(* a state starts with the empty configuration *)
Rooted(state) == state.AllConfigs[1] = initialConfig

(* a fetch that was begun has somebody to ask *)
FetchesHaveOwners == \A f \in fetches : owner(f) \in f.target.Groups

(* a group that misses a shard has a second last configuration *)
LaggingHavePrevious ==
    \A s \in Server : kv[s].lagging # {} => Len(kv[s].state.AllConfigs) >= 2

(* a clerk that waits has not come to the end of the servers *)
WaitersHaveServers == \A c \in Clerk : clerk[c].server # Nil => clerk[c].si <= Replicas

(* a server that waits for its snapshot has no state *)
RestartedAreEmpty == \A s \in Server : kv[s].applied < 0 => kv[s].state = makeState

TypeInv ==
    /\ TypeOK
    /\ RestartedAreEmpty
    /\ WaitersHaveServers
    /\ \A s \in Server : Rooted(kv[s].state) /\ Rooted(snap[s])
    /\ FetchesHaveOwners
    /\ LaggingHavePrevious

-----------------------------------------------------------------------------
(* The operators *)

LEMMA ZeroIsNoGroup == 0 \notin Gid
  BY GidAssumption

(* Server is a pair of a group and a number. *)
LEMMA ServerFacts == \A s \in Server : gid(s) \in Gid /\ s[2] \in 1 .. Replicas
  BY DEF Server

LEMMA makeStateOK == makeState \in State /\ Rooted(makeState)
<1>1. <<initialConfig>> \in Seq(Config) \ {<<>>}
  BY initialConfigOK
<1>2. [k \in Shard |-> <<>>] \in [Shard -> Value]
  BY DEF Value
<1> QED
  BY <1>1, <1>2 DEF makeState, State, LastRequests, Rooted

LEMMA LatestConfigOK ==
    ASSUME NEW state \in State
    PROVE  /\ state.AllConfigs \in Seq(Config)
           /\ Len(state.AllConfigs) \in Nat \ {0}
           /\ LatestConfig(state) \in Config
           /\ LatestConfig(state) = state.AllConfigs[Len(state.AllConfigs)]
<1>1. state.AllConfigs \in Seq(Config) /\ state.AllConfigs # <<>>
  BY DEF State
<1> QED
  BY <1>1 DEF LatestConfig

(* What Append does to a list of configurations. *)
LEMMA AppendConfig ==
    ASSUME NEW l \in Seq(Config), NEW c \in Config
    PROVE  /\ Len(l) \in Nat /\ Len(Append(l, c)) = Len(l) + 1
           /\ \A n \in 1 .. Len(l) : Append(l, c)[n] = l[n]
           /\ Append(l, c)[Len(l) + 1] = c
  OBVIOUS

(* An installed configuration is the next one, or nothing happens. *)
LEMMA handleInstallShardConfigOK ==
    ASSUME NEW state \in State, NEW g, NEW config \in Config
    PROVE  LET new == handleInstallShardConfig(state, g, config)
               old == LatestConfig(state)
           IN
           /\ new \in State
           /\ Rooted(state) => Rooted(new)
           /\ config.Num # old.Num + 1 => new = state
           /\ config.Num = old.Num + 1 =>
                 /\ new.AllConfigs = Append(state.AllConfigs, config)
                 /\ \A k \in Shard :
                       new.ShardTimestamp[k] =
                         IF config.Shards[k] = g /\ (config.Num = 1 \/ old.Shards[k] = g)
                         THEN config.Num
                         ELSE IF config.Num = 1 THEN 0 ELSE state.ShardTimestamp[k]
<1> DEFINE new == handleInstallShardConfig(state, g, config)
           old == LatestConfig(state)
           store == IF config.Num = 1 THEN [k \in Shard |-> <<>>] ELSE state.ShardKVStore
           stamps == [k \in Shard |->
                        IF config.Shards[k] = g /\ (config.Num = 1 \/ old.Shards[k] = g)
                        THEN config.Num
                        ELSE IF config.Num = 1 THEN 0 ELSE state.ShardTimestamp[k]]
           all == Append(state.AllConfigs, config)
<1>1. CASE config.Num # old.Num + 1
  BY <1>1 DEF handleInstallShardConfig
<1>2. CASE config.Num = old.Num + 1
  <2>1. new = [state EXCEPT !.AllConfigs = all, !.ShardKVStore = store,
                            !.ShardTimestamp = stamps]
    BY <1>2 DEF handleInstallShardConfig
  <2>2. all \in Seq(Config) \ {<<>>} /\ all[1] = state.AllConfigs[1]
    BY LatestConfigOK
  <2>3. store \in [Shard -> Value]
    BY DEF Value, State
  <2>4. stamps \in [Shard -> Nat]
    BY DEF State, Config
  <2> HIDE DEF new, store, stamps, all
  <2>5. new \in State /\ new.AllConfigs = all /\ new.ShardTimestamp = stamps
    BY <2>1, <2>2, <2>3, <2>4 DEF State
  <2> QED
    BY <1>2, <2>2, <2>5 DEF new, stamps, all, Rooted
<1> QED
  BY <1>1, <1>2

(* A shard that is acquired changes one timestamp, upwards, if any. *)
LEMMA handleAcquireShardOK ==
    ASSUME NEW state \in State, NEW op \in Op, op.Type = "AcquireShard"
    PROVE  LET new == handleAcquireShard(state, op) IN
           /\ new \in State
           /\ new.AllConfigs = state.AllConfigs
           /\ \A k \in Shard :
                 \/ new.ShardTimestamp[k] = state.ShardTimestamp[k]
                 \/ /\ k = op.ShardId /\ new.ShardTimestamp[k] = op.ShardConfigNum
                    /\ op.ShardConfigNum > state.ShardTimestamp[k]
<1> DEFINE requests == mergeLastRequests(state.ClientLastRequest, op.ClientLastRequest)
           merged == [state EXCEPT !.ClientLastRequest = requests]
           new == handleAcquireShard(state, op)
           k0 == op.ShardId
<1>1. /\ k0 \in Shard /\ op.ShardConfigNum \in Nat
      /\ op.ShardData \in Value /\ op.ClientLastRequest \in LastRequests
  BY DEF Op, ClientOp
<1>2. requests \in LastRequests
  BY <1>1 DEF mergeLastRequests, LastRequests, State
<1> HIDE DEF requests
<1>3. /\ merged \in State /\ merged.AllConfigs = state.AllConfigs
      /\ merged.ShardTimestamp = state.ShardTimestamp
      /\ merged.ShardKVStore = state.ShardKVStore
  BY <1>2 DEF State
<1> HIDE DEF merged
<1>4. CASE newer(state, op)
  <2>1. new = [merged EXCEPT !.ShardTimestamp[k0] = op.ShardConfigNum,
                             !.ShardKVStore[k0] = op.ShardData]
    BY <1>4 DEF handleAcquireShard, merged, requests
  <2>2. /\ [merged.ShardTimestamp EXCEPT ![k0] = op.ShardConfigNum] \in [Shard -> Nat]
        /\ [merged.ShardKVStore EXCEPT ![k0] = op.ShardData] \in [Shard -> Value]
    BY <1>1, <1>3 DEF State
  <2>3. /\ new \in State /\ new.AllConfigs = merged.AllConfigs
        /\ new.ShardTimestamp = [merged.ShardTimestamp EXCEPT ![k0] = op.ShardConfigNum]
    <3> HIDE DEF new, k0
    <3> QED
      BY <1>3, <2>1, <2>2 DEF State
  <2>4. state.ShardTimestamp \in [Shard -> Nat]
    BY DEF State
  <2> QED
    BY <1>1, <1>3, <1>4, <2>3, <2>4 DEF newer
<1>5. CASE ~newer(state, op)
  <2>1. new = merged
    BY <1>5 DEF handleAcquireShard, merged, requests
  <2> QED
    BY <1>3, <2>1
<1> QED
  BY <1>4, <1>5

(* A client's operation leaves configurations and timestamps alone. *)
LEMMA handleClientOpOK ==
    ASSUME NEW state \in State, NEW g, NEW op \in ClientOp
    PROVE  LET new == handleClientOp(state, g, op) IN
           /\ new \in State
           /\ new.AllConfigs = state.AllConfigs
           /\ new.ShardTimestamp = state.ShardTimestamp
<1> DEFINE new == handleClientOp(state, g, op)
           value == state.ShardKVStore[op.ShardId]
           result == written(value, op)
<1>1. CASE verdict(state, g, op) # "OK" \/ isDuplicateOp(state, op)
  BY <1>1 DEF handleClientOp
<1>2. CASE ~(verdict(state, g, op) # "OK" \/ isDuplicateOp(state, op))
  <2>1. new = [state EXCEPT !.ClientLastRequest[op.ClientId] = op.RequestIndex,
                            !.ShardKVStore[op.ShardId] = result]
    BY <1>2 DEF handleClientOp
  <2>2. op.ShardId \in Shard /\ op.ClientId \in Clerk /\ op.RequestIndex \in Nat
    BY DEF ClientOp
  <2>3. value \in Value
    BY <2>2 DEF State
  <2>4. token(op) \in Clerk \X Nat
    BY <2>2 DEF token
  <2>5. result \in Value
    <3> DEFINE tk == token(op)
    <3>1. <<tk>> \in Value /\ Append(value, tk) \in Value
      <4> HIDE DEF tk, value
      <4> QED
        BY <2>3, <2>4 DEF Value, tk
    <3>2. op.Type \in {"GET", "PUT", "APPEND"}
      BY DEF ClientOp
    <3> QED
      BY <2>3, <3>1, <3>2 DEF written
  <2>6. [state.ShardKVStore EXCEPT ![op.ShardId] = result] \in [Shard -> Value]
    <3> HIDE DEF result
    <3> QED
      BY <2>2, <2>5 DEF State
  <2>7. [state.ClientLastRequest EXCEPT ![op.ClientId] = op.RequestIndex] \in LastRequests
    BY <2>2 DEF State, LastRequests
  <2> QED
    <3> HIDE DEF new, result, value
    <3>1. /\ new \in State /\ new.AllConfigs = state.AllConfigs
          /\ new.ShardTimestamp = state.ShardTimestamp
      BY <2>1, <2>6, <2>7 DEF State
    <3> QED
      BY <3>1 DEF new
<1> QED
  BY <1>1, <1>2

(* Every operation of the log maps a state to a state. *)
LEMMA applyOpOK ==
    ASSUME NEW state \in State, Rooted(state), NEW g, NEW op \in Op
    PROVE  applyOp(state, g, op) \in State /\ Rooted(applyOp(state, g, op))
<1>1. CASE op.Type = "InstallShardConfig"
  <2>1. op.ShardConfig \in Config
    BY <1>1 DEF Op, ClientOp
  <2> QED
    BY <1>1, <2>1, handleInstallShardConfigOK DEF applyOp
<1>2. CASE op.Type = "AcquireShard"
  BY <1>2, handleAcquireShardOK DEF applyOp, Rooted
<1>3. CASE op.Type \notin {"InstallShardConfig", "AcquireShard"}
  <2>1. op \in ClientOp
    BY <1>3 DEF Op
  <2> QED
    BY <1>3, <2>1, handleClientOpOK DEF applyOp, Rooted
<1> QED
  BY <1>1, <1>2, <1>3

-----------------------------------------------------------------------------
(* Types *)

LEMMA InitTypes == Init => TypeInv
<1> SUFFICES ASSUME Init PROVE TypeInv
  OBVIOUS
<1>1. configs \in Seq(Config) \ {<<>>}
  BY initialConfigOK DEF Init
<1>2. log \in [Server -> Seq(Entry)] /\ \A s \in Server : Len(log[s]) = 0
  BY DEF Init
<1>3. startState(0) \in KVState
  BY makeStateOK DEF startState, KVState
<1>4. kv \in [Server -> KVState]
  BY <1>3 DEF Init
<1>5. \A s \in Server : kv[s] = startState(0) /\ snap[s] = makeState
  BY DEF Init
<1>6. clerk \in [Clerk -> ClerkState]
  <2>1. 1 \in 1 .. Replicas + 1
    BY ReplicasAssumption
  <2> QED
    BY <2>1, initialConfigOK DEF Init, ClerkState
<1>7. snap \in [Server -> State]
  BY makeStateOK DEF Init
<1>8. crashes \in 0 .. MaxCrashes
  BY ShardKVBounds DEF Init
<1>9. TypeOK
  <2>1. \A s \in Server : kv[s].applied \in -1 .. Len(log[s])
    BY <1>2, <1>5 DEF startState
  <2>2. fetches \subseteq Fetch
    BY DEF Init
  <2> QED
    BY <1>1, <1>2, <1>4, <1>6, <1>7, <1>8, <2>1, <2>2 DEF TypeOK
<1>10. WaitersHaveServers
  BY DEF WaitersHaveServers, Init
<1>11. \A s \in Server : Rooted(kv[s].state) /\ Rooted(snap[s])
  BY <1>5, makeStateOK DEF startState
<1>12. FetchesHaveOwners /\ LaggingHavePrevious /\ RestartedAreEmpty
  BY <1>5 DEF FetchesHaveOwners, LaggingHavePrevious, RestartedAreEmpty, Init, startState
<1> QED
  BY <1>9, <1>10, <1>11, <1>12 DEF TypeInv

(* Start changes nothing, or appends an entry to the log of every server of the group. *)
LEMMA StartOK ==
    ASSUME log \in [Server -> Seq(Entry)], NEW s \in Server, NEW op \in Op, NEW accepted,
           Start(s, op, accepted)
    PROVE  LET e == [op |-> op, ServerId |-> s] IN
           /\ log' \in [Server -> Seq(Entry)]
           /\ e \in Entry
           /\ \/ log' = log
              \/ \A t \in Server :
                    log'[t] = IF gid(t) = gid(s) THEN Append(log[t], e) ELSE log[t]
           /\ \A t \in Server : Len(log'[t]) >= Len(log[t])
<1> DEFINE e == [op |-> op, ServerId |-> s]
<1>1. e \in Entry
  BY DEF Entry
<1>2. CASE log' = log
  BY <1>1, <1>2
<1>3. CASE log' = [t \in Server |-> IF gid(t) = gid(s) THEN Append(log[t], e) ELSE log[t]]
  <2> HIDE DEF e
  <2>1. \A t \in Server : /\ log[t] \in Seq(Entry) /\ Append(log[t], e) \in Seq(Entry)
                          /\ Len(Append(log[t], e)) >= Len(log[t])
    BY <1>1
  <2> QED
    BY <1>1, <1>3, <2>1 DEF e
<1> QED
  BY <1>2, <1>3 DEF Start

LEMMA PlannedOK ==
    ASSUME TypeInv, Len(configs) <= Len(Plan), NEW op \in Plan[Len(configs)]
    PROVE  op \in CtrlerOp
<1>1. Len(configs) \in 1 .. Len(Plan)
  <2>1. configs \in Seq(Config) /\ configs # <<>>
    BY DEF TypeInv, TypeOK
  <2>2. Len(configs) \in Nat /\ Len(configs) # 0 /\ Len(Plan) \in Nat
    BY <2>1, PlanAssumption
  <2> QED
    BY <2>2
<1>2. Plan[Len(configs)] \in SUBSET CtrlerOp
  BY <1>1, PlanAssumption
<1> QED
  BY <1>2

LEMMA reconfigureTypes ==
    ASSUME TypeInv, NEW op \in CtrlerOp, reconfigure(op)
    PROVE  /\ TypeInv'
           /\ \E c \in Config : /\ configs' = Append(configs, c)
                                /\ c.Num = configs[Len(configs)].Num + 1
<1>1. configs \in Seq(Config) /\ configs # <<>>
  BY DEF TypeInv, TypeOK
<1>2. configs[Len(configs)] \in Config
  BY <1>1
<1>3. PICK c \in Config : /\ nextConfigs(configs[Len(configs)], op) = <<c>>
                          /\ c.Num = configs[Len(configs)].Num + 1
  BY <1>2, nextConfigsOK
<1>4. configs' = Append(configs, c)
  <2>1. configs' = configs \o <<c>>
    BY <1>3 DEF reconfigure
  <2> QED
    BY <1>1, <2>1
<1>5. configs' \in Seq(Config) \ {<<>>}
  BY <1>1, <1>4
<1>6. UNCHANGED <<log, kv, fetches, clerk, snap, crashes>>
  BY DEF reconfigure
<1>7. TypeInv'
  BY <1>5, <1>6 DEF TypeInv, TypeOK, WaitersHaveServers, FetchesHaveOwners, owner,
                    LaggingHavePrevious, RestartedAreEmpty, Rooted
<1> QED
  BY <1>3, <1>4, <1>7

(* An action that changes kv[s] outside of its state, and perhaps the log. *)
LEMMA tickTypes ==
    ASSUME TypeInv, NEW s \in Server, NEW u \in KVState, kv' = [kv EXCEPT ![s] = u],
           u.state = kv[s].state, u.applied = kv[s].applied,
           u.lagging # {} => Len(u.state.AllConfigs) >= 2,
           log' \in [Server -> Seq(Entry)], \A t \in Server : Len(log'[t]) >= Len(log[t]),
           fetches' \subseteq Fetch, FetchesHaveOwners',
           UNCHANGED <<configs, clerk, snap, crashes>>
    PROVE  TypeInv'
<1>1. kv' \in [Server -> KVState]
  BY DEF TypeInv, TypeOK
<1>2. \A t \in Server : kv'[t] = IF t = s THEN u ELSE kv[t]
  BY DEF TypeInv, TypeOK
<1>3. \A t \in Server : kv'[t].state = kv[t].state /\ kv'[t].applied = kv[t].applied
  BY <1>2
<1>4. \A t \in Server : kv'[t].applied \in -1 .. Len(log'[t])
  <2> TAKE t \in Server
  <2>1. kv[t].applied \in -1 .. Len(log[t]) /\ Len(log[t]) \in Nat /\ Len(log'[t]) \in Nat
    BY DEF TypeInv, TypeOK
  <2> QED
    BY <1>3, <2>1
<1>5. TypeOK'
  BY <1>1, <1>4 DEF TypeInv, TypeOK
<1>6. LaggingHavePrevious'
  BY <1>2, <1>3 DEF TypeInv, LaggingHavePrevious
<1>7. (\A t \in Server : Rooted(kv[t].state) /\ Rooted(snap[t]))'
  BY <1>3 DEF TypeInv, Rooted
<1>8. WaitersHaveServers' /\ RestartedAreEmpty'
  BY <1>3 DEF TypeInv, WaitersHaveServers, RestartedAreEmpty
<1> QED
  BY <1>5, <1>6, <1>7, <1>8 DEF TypeInv

LEMMA QueryOK ==
    ASSUME TypeInv, NEW n \in Int
    PROVE  /\ Query(n) \in Config
           /\ \E m \in 1 .. Len(configs) : Query(n) = configs[m]
<1>1. configs \in Seq(Config) /\ configs # <<>>
  BY DEF TypeInv, TypeOK
<1>2. \A m \in 1 .. Len(configs) : configs[m] \in Config
  BY <1>1
<1>3. Len(configs) \in 1 .. Len(configs)
  BY <1>1
<1>4. CASE n < 0 \/ n >= Len(configs)
  BY <1>2, <1>3, <1>4 DEF Query
<1>5. CASE ~(n < 0 \/ n >= Len(configs))
  <2>1. n + 1 \in 1 .. Len(configs)
    BY <1>3, <1>5
  <2> QED
    BY <1>2, <1>5, <2>1 DEF Query
<1> QED
  BY <1>4, <1>5

LEMMA checkShardsTypes ==
    ASSUME TypeInv, NEW s \in Server, checkShards(s)
    PROVE  TypeInv'
<1> DEFINE u == [kv[s] EXCEPT !.ticking = TRUE]
<1>1. kv[s] \in KVState
  BY DEF TypeInv, TypeOK
<1>2. /\ u \in KVState /\ u.state = kv[s].state /\ u.applied = kv[s].applied
      /\ u.lagging = kv[s].lagging
  BY <1>1 DEF KVState
<1>3. kv' = [kv EXCEPT ![s] = u] /\ UNCHANGED <<configs, log, fetches, clerk, snap, crashes>>
  BY DEF checkShards
<1> HIDE DEF u
<1>4. u.lagging # {} => Len(u.state.AllConfigs) >= 2
  BY <1>2 DEF TypeInv, LaggingHavePrevious
<1>5. /\ log' \in [Server -> Seq(Entry)] /\ \A t \in Server : Len(log'[t]) >= Len(log[t])
      /\ fetches' \subseteq Fetch /\ FetchesHaveOwners'
  BY <1>3 DEF TypeInv, TypeOK, FetchesHaveOwners, owner
<1> QED
  BY <1>2, <1>3, <1>4, <1>5, tickTypes

LEMMA startInstallTypes ==
    ASSUME TypeInv, NEW s \in Server, NEW accepted, startInstall(s, accepted)
    PROVE  TypeInv'
<1> DEFINE u == [kv[s] EXCEPT !.ticking = FALSE]
           num == LatestConfig(kv[s].state).Num + 1
           op == [Type |-> "InstallShardConfig", ShardConfig |-> Query(num)]
<1>1. kv[s] \in KVState /\ log \in [Server -> Seq(Entry)]
  BY DEF TypeInv, TypeOK
<1>2. /\ u \in KVState /\ u.state = kv[s].state /\ u.applied = kv[s].applied
      /\ u.lagging = kv[s].lagging
  BY <1>1 DEF KVState
<1>3. kv' = [kv EXCEPT ![s] = u] /\ UNCHANGED <<configs, fetches, clerk, snap, crashes>>
  BY DEF startInstall
<1>4. num \in Int
  <2>1. LatestConfig(kv[s].state) \in Config
    BY <1>1, LatestConfigOK DEF KVState
  <2> QED
    BY <2>1 DEF Config
<1>5. Query(num) \in Config
  <2> HIDE DEF num
  <2> QED
    BY <1>4, QueryOK
<1>6. op \in Op
  <2> HIDE DEF num
  <2> QED
    BY <1>5 DEF Op
<1>7. log' = log \/ Start(s, op, accepted)
  BY DEF startInstall
<1>8. log' \in [Server -> Seq(Entry)] /\ \A t \in Server : Len(log'[t]) >= Len(log[t])
  <2>1. CASE log' = log
    BY <1>1, <2>1
  <2>2. CASE Start(s, op, accepted)
    <3> HIDE DEF op
    <3> QED
      BY <1>1, <1>6, <2>2, StartOK
  <2> QED
    BY <1>7, <2>1, <2>2
<1> HIDE DEF u
<1>9. u.lagging # {} => Len(u.state.AllConfigs) >= 2
  BY <1>2 DEF TypeInv, LaggingHavePrevious
<1>10. fetches' \subseteq Fetch /\ FetchesHaveOwners'
  BY <1>3 DEF TypeInv, TypeOK, FetchesHaveOwners, owner
<1> QED
  BY <1>2, <1>3, <1>8, <1>9, <1>10, tickTypes

(* A state whose group owns a shard has left the empty configuration. *)
LEMMA OwnersHavePrevious ==
    ASSUME NEW state \in State, Rooted(state), NEW g \in Gid, NEW k \in Shard,
           LatestConfig(state).Shards[k] = g
    PROVE  Len(state.AllConfigs) >= 2
<1>1. Len(state.AllConfigs) = 1 => LatestConfig(state).Shards[k] = 0
  BY LatestConfigOK DEF Rooted, initialConfig
<1>2. Len(state.AllConfigs) # 1
  BY <1>1, ZeroIsNoGroup
<1> DEFINE n == Len(state.AllConfigs)
<1>3. n \in Nat /\ n # 0
  BY LatestConfigOK
<1>4. n # 1
  BY <1>2
<1> HIDE DEF n
<1>5. n >= 2
  BY <1>3, <1>4
<1> QED
  BY <1>5 DEF n

LEMMA findLaggingTypes ==
    ASSUME TypeInv, NEW s \in Server, findLagging(s)
    PROVE  TypeInv'
<1> DEFINE found == laggingShards(kv[s].state, gid(s))
           u == [kv[s] EXCEPT !.lagging = found]
<1>1. kv[s] \in KVState /\ kv[s].state \in State /\ Rooted(kv[s].state)
  BY DEF TypeInv, TypeOK, KVState
<1>2. found \in SUBSET Shard
  BY DEF laggingShards
<1>3. /\ u \in KVState /\ u.state = kv[s].state /\ u.applied = kv[s].applied
      /\ u.lagging = found
  <2> HIDE DEF found
  <2> QED
    BY <1>1, <1>2 DEF KVState
<1>4. kv' = [kv EXCEPT ![s] = u] /\ UNCHANGED <<configs, log, fetches, clerk, snap, crashes>>
  BY DEF findLagging
<1>5. Len(kv[s].state.AllConfigs) >= 2
  <2>1. PICK k \in Shard : LatestConfig(kv[s].state).Shards[k] = gid(s)
    BY DEF findLagging, laggingShards
  <2> QED
    BY <1>1, <2>1, OwnersHavePrevious, ServerFacts
<1>6. /\ log' \in [Server -> Seq(Entry)] /\ \A t \in Server : Len(log'[t]) >= Len(log[t])
      /\ fetches' \subseteq Fetch /\ FetchesHaveOwners'
  BY <1>4 DEF TypeInv, TypeOK, FetchesHaveOwners, owner
<1> HIDE DEF u
<1> QED
  BY <1>3, <1>4, <1>5, <1>6, tickTypes

LEMMA targetConfigOK ==
    ASSUME NEW state \in State, Len(state.AllConfigs) >= 2
    PROVE  targetConfig(state) \in Config
<1>1. state.AllConfigs \in Seq(Config)
  BY LatestConfigOK
<1>2. Len(state.AllConfigs) - 1 \in 1 .. Len(state.AllConfigs)
  BY <1>1
<1> QED
  BY <1>1, <1>2 DEF targetConfig

LEMMA goAcquireShardsTypes ==
    ASSUME TypeInv, NEW s \in Server, goAcquireShards(s)
    PROVE  TypeInv'
<1> DEFINE target0 == targetConfig(kv[s].state)
           found == {k \in kv[s].lagging : servers(target0, target0.Shards[k]) > 0}
           begun == {[server |-> s, sid |-> k, target |-> target0, si |-> 1, reply |-> Nil] :
                        k \in found}
           u == [kv[s] EXCEPT !.lagging = {}]
<1>1. kv[s] \in KVState /\ kv[s].state \in State /\ kv[s].lagging \in SUBSET Shard
  BY DEF TypeInv, TypeOK, KVState
<1>2. target0 \in Config
  <2>1. Len(kv[s].state.AllConfigs) >= 2
    BY DEF TypeInv, LaggingHavePrevious, goAcquireShards
  <2> QED
    BY <1>1, <2>1, targetConfigOK
<1>3. /\ u \in KVState /\ u.state = kv[s].state /\ u.applied = kv[s].applied /\ u.lagging = {}
  BY <1>1 DEF KVState
<1>4. /\ kv' = [kv EXCEPT ![s] = u] /\ fetches' = fetches \cup begun
      /\ UNCHANGED <<configs, log, clerk, snap, crashes>>
  BY DEF goAcquireShards
<1>5. \A f \in begun : f \in Fetch /\ owner(f) \in f.target.Groups
  <2> SUFFICES ASSUME NEW k \in found
               PROVE  LET f == [server |-> s, sid |-> k, target |-> target0, si |-> 1,
                                reply |-> Nil]
                      IN f \in Fetch /\ owner(f) \in f.target.Groups
    OBVIOUS
  <2>1. k \in Shard /\ servers(target0, target0.Shards[k]) > 0
    BY <1>1
  <2>2. target0.Shards[k] \in target0.Groups
    BY <2>1 DEF servers
  <2>3. 1 \in 1 .. Replicas
    BY ReplicasAssumption
  <2> HIDE DEF target0
  <2> QED
    BY <1>2, <2>1, <2>2, <2>3 DEF Fetch, owner
<1> HIDE DEF begun, u
<1>6. fetches' \subseteq Fetch /\ FetchesHaveOwners'
  BY <1>4, <1>5 DEF TypeInv, TypeOK, FetchesHaveOwners, owner
<1>7. log' \in [Server -> Seq(Entry)] /\ \A t \in Server : Len(log'[t]) >= Len(log[t])
  BY <1>4 DEF TypeInv, TypeOK
<1> QED
  BY <1>3, <1>4, <1>6, <1>7, tickTypes

(* An action that changes fetches, the clerks or the log, and no server. *)
LEMMA outsideTypes ==
    ASSUME TypeInv, fetches' \subseteq Fetch, FetchesHaveOwners',
           clerk' \in [Clerk -> ClerkState], WaitersHaveServers',
           log' \in [Server -> Seq(Entry)], \A t \in Server : Len(log'[t]) >= Len(log[t]),
           UNCHANGED <<configs, kv, snap, crashes>>
    PROVE  TypeInv'
<1>1. \A t \in Server : kv'[t].applied \in -1 .. Len(log'[t])
  <2> TAKE t \in Server
  <2>1. kv[t].applied \in -1 .. Len(log[t]) /\ Len(log[t]) \in Nat /\ Len(log'[t]) \in Nat
    BY DEF TypeInv, TypeOK
  <2> QED
    BY <2>1
<1>2. TypeOK'
  BY <1>1 DEF TypeInv, TypeOK
<1>3. LaggingHavePrevious' /\ RestartedAreEmpty'
  BY DEF TypeInv, LaggingHavePrevious, RestartedAreEmpty
<1>4. (\A t \in Server : Rooted(kv[t].state) /\ Rooted(snap[t]))'
  BY DEF TypeInv, Rooted
<1> QED
  BY <1>2, <1>3, <1>4 DEF TypeInv

LEMMA sameFetches ==
    ASSUME TypeInv, UNCHANGED fetches
    PROVE  fetches' \subseteq Fetch /\ FetchesHaveOwners'
  BY DEF TypeInv, TypeOK, FetchesHaveOwners, owner

LEMMA sameClerks ==
    ASSUME TypeInv, UNCHANGED clerk
    PROVE  clerk' \in [Clerk -> ClerkState] /\ WaitersHaveServers'
  BY DEF TypeInv, TypeOK, WaitersHaveServers

LEMMA sameLog ==
    ASSUME TypeInv, UNCHANGED log
    PROVE  log' \in [Server -> Seq(Entry)] /\ \A t \in Server : Len(log'[t]) >= Len(log[t])
<1>1. \A t \in Server : Len(log[t]) \in Nat
  BY DEF TypeInv, TypeOK
<1> QED
  BY <1>1 DEF TypeInv, TypeOK

(* A fetch asks servers. *)
LEMMA fetchOK ==
    ASSUME TypeInv, NEW f \in fetches
    PROVE  /\ f \in Fetch
           /\ owner(f) \in Gid
           /\ <<owner(f), f.si>> \in Server
           /\ servers(f.target, owner(f)) = Replicas
<1>1. f \in Fetch /\ owner(f) \in f.target.Groups
  BY DEF TypeInv, TypeOK, FetchesHaveOwners
<1>2. f.target \in Config /\ f.si \in 1 .. Replicas
  BY <1>1 DEF Fetch
<1>3. owner(f) \in Gid
  BY <1>1, <1>2 DEF Config
<1> QED
  BY <1>1, <1>2, <1>3 DEF Server, servers

LEMMA acquireFailsTypes ==
    ASSUME TypeInv, NEW f \in fetches, acquireFails(f)
    PROVE  TypeInv'
<1> DEFINE next == [f EXCEPT !.si = f.si + 1]
<1>1. /\ fetches' \subseteq fetches \cup {next}
      /\ next \in fetches' => next \in fetches \/ f.si < Replicas
  BY fetchOK DEF acquireFails
<1>2. f.si < Replicas => next \in Fetch /\ next.target = f.target /\ next.sid = f.sid
  <2>1. f \in Fetch /\ f.si \in 1 .. Replicas
    BY fetchOK DEF Fetch
  <2>2. f.si < Replicas => f.si + 1 \in 1 .. Replicas
    BY <2>1, ReplicasAssumption
  <2> QED
    BY <2>1, <2>2 DEF Fetch
<1> HIDE DEF next
<1>3. \A h \in fetches' : h \in Fetch /\ owner(h) \in h.target.Groups
  BY <1>1, <1>2 DEF TypeInv, TypeOK, FetchesHaveOwners, owner
<1>4. fetches' \subseteq Fetch /\ FetchesHaveOwners'
  BY <1>3 DEF FetchesHaveOwners, owner
<1>5. UNCHANGED <<configs, log, kv, clerk, snap, crashes>>
  BY DEF acquireFails
<1> QED
  BY <1>4, <1>5, outsideTypes, sameClerks, sameLog

LEMMA AcquireShardsTypes ==
    ASSUME TypeInv, NEW f \in fetches, AcquireShards(f)
    PROVE  TypeInv'
<1> DEFINE state == kv[<<owner(f), f.si>>].state
           reply == [ConfigNum         |-> LatestConfig(state).Num,
                     ShardData         |-> state.ShardKVStore[f.sid],
                     ClientLastRequest |-> state.ClientLastRequest]
           next == [f EXCEPT !.reply = reply]
<1>1. f \in Fetch /\ f.sid \in Shard
  BY fetchOK DEF Fetch
<1>2. state \in State
  BY fetchOK DEF TypeInv, TypeOK, KVState
<1>3. fetches' = (fetches \ {f}) \cup {next}
  BY DEF AcquireShards
<1>4. reply \in Reply
  <2> HIDE DEF state
  <2>1. LatestConfig(state) \in Config
    BY <1>2, LatestConfigOK
  <2> QED
    BY <1>1, <1>2, <2>1 DEF Reply, State, Config
<1> HIDE DEF reply
<1>5. next \in Fetch /\ next.target = f.target /\ next.sid = f.sid
  BY <1>1, <1>4 DEF Fetch
<1> HIDE DEF next
<1>6. \A h \in fetches' : h \in Fetch /\ owner(h) \in h.target.Groups
  BY <1>3, <1>5 DEF TypeInv, TypeOK, FetchesHaveOwners, owner
<1>7. fetches' \subseteq Fetch /\ FetchesHaveOwners'
  BY <1>6 DEF FetchesHaveOwners, owner
<1>8. UNCHANGED <<configs, log, kv, clerk, snap, crashes>>
  BY DEF AcquireShards
<1> QED
  BY <1>7, <1>8, outsideTypes, sameClerks, sameLog

(* the command that a reply is made into *)
acquireOp(f) ==
    [Type |-> "AcquireShard", ShardId |-> f.sid,
     ShardConfigNum |-> f.reply.ConfigNum, ShardData |-> f.reply.ShardData,
     ClientLastRequest |-> f.reply.ClientLastRequest]

LEMMA acquireOpOK ==
    ASSUME NEW f \in Fetch, f.reply # Nil
    PROVE  acquireOp(f) \in Op
  BY DEF acquireOp, Fetch, Reply, Op

LEMMA handleAcquireShardReplyTypes ==
    ASSUME TypeInv, NEW f \in fetches, NEW accepted, handleAcquireShardReply(f, accepted)
    PROVE  TypeInv'
<1>1. f \in Fetch /\ f.server \in Server /\ acquireOp(f) \in Op
  BY fetchOK, acquireOpOK DEF Fetch, handleAcquireShardReply
<1>2. /\ Start(f.server, acquireOp(f), accepted) /\ fetches' = fetches \ {f}
      /\ UNCHANGED <<configs, kv, clerk, snap, crashes>>
  BY DEF handleAcquireShardReply, acquireOp
<1>3. log \in [Server -> Seq(Entry)]
  BY DEF TypeInv, TypeOK
<1>4. log' \in [Server -> Seq(Entry)] /\ \A t \in Server : Len(log'[t]) >= Len(log[t])
  BY <1>1, <1>2, <1>3, StartOK
<1>5. fetches' \subseteq Fetch /\ FetchesHaveOwners'
  BY <1>2 DEF TypeInv, TypeOK, FetchesHaveOwners, owner
<1> QED
  BY <1>2, <1>4, <1>5, outsideTypes, sameClerks

(* A change of one clerk. *)
LEMMA clerkTypes ==
    ASSUME TypeInv, NEW c \in Clerk, NEW u \in ClerkState, clerk' = [clerk EXCEPT ![c] = u],
           u.server # Nil => u.si <= Replicas
    PROVE  clerk' \in [Clerk -> ClerkState] /\ WaitersHaveServers'
<1>1. clerk \in [Clerk -> ClerkState]
  BY DEF TypeInv, TypeOK
<1>2. clerk' \in [Clerk -> ClerkState]
  BY <1>1
<1>3. \A d \in Clerk : clerk'[d] = IF d = c THEN u ELSE clerk[d]
  BY <1>1
<1> QED
  BY <1>2, <1>3 DEF TypeInv, WaitersHaveServers

(* How a call may end. *)
LEMMA endOfCall ==
    ASSUME TypeInv, NEW c \in Clerk,
           \/ clerk' = goOn(c) /\ clerk[c].si <= Replicas
           \/ clerk' = break(c)
           \/ clerk' = return(c) /\ clerk[c].op \in ClientOp
    PROVE  clerk' \in [Clerk -> ClerkState] /\ WaitersHaveServers'
<1>1. /\ clerk[c] \in ClerkState /\ clerk[c].si \in 1 .. Replicas + 1
      /\ clerk[c].op \in ClientOp \cup {Nil} /\ clerk[c].acked \in SUBSET ClientOp
  BY DEF TypeInv, TypeOK, ClerkState
<1>2. CASE clerk' = goOn(c) /\ clerk[c].si <= Replicas
  <2> DEFINE u == [clerk[c] EXCEPT !.server = Nil, !.si = clerk[c].si + 1]
  <2>1. clerk[c].si + 1 \in 1 .. Replicas + 1
    BY <1>1, <1>2, ReplicasAssumption
  <2>2. u \in ClerkState /\ u.server = Nil
    BY <1>1, <2>1 DEF ClerkState
  <2>3. clerk' = [clerk EXCEPT ![c] = u]
    BY <1>2 DEF goOn
  <2> HIDE DEF u
  <2> QED
    BY <2>2, <2>3, clerkTypes
<1>3. CASE clerk' = break(c)
  <2> DEFINE u == [clerk[c] EXCEPT !.server = Nil, !.si = Replicas + 1]
  <2>1. Replicas + 1 \in 1 .. Replicas + 1
    BY ReplicasAssumption
  <2>2. u \in ClerkState /\ u.server = Nil
    BY <1>1, <2>1 DEF ClerkState
  <2>3. clerk' = [clerk EXCEPT ![c] = u]
    BY <1>3 DEF break
  <2> HIDE DEF u
  <2> QED
    BY <2>2, <2>3, clerkTypes
<1>4. CASE clerk' = return(c) /\ clerk[c].op \in ClientOp
  <2> DEFINE acked == IF clerk[c].op.Type = "GET" THEN clerk[c].acked
                      ELSE clerk[c].acked \cup {clerk[c].op}
             u == [clerk[c] EXCEPT !.server = Nil, !.op = Nil, !.acked = acked]
  <2>1. acked \in SUBSET ClientOp
    BY <1>1, <1>4
  <2>3. clerk' = [clerk EXCEPT ![c] = u]
    BY <1>4 DEF return
  <2> HIDE DEF acked
  <2>2. u \in ClerkState /\ u.server = Nil
    BY <1>1, <2>1 DEF ClerkState
  <2> HIDE DEF u
  <2> QED
    BY <2>2, <2>3, clerkTypes
<1> QED
  BY <1>2, <1>3, <1>4

(* A clerk that is about to call has a server to call and an operation. *)
LEMMA triesOK ==
    ASSUME TypeInv, NEW c \in Clerk, tries(c)
    PROVE  /\ clerk[c].si \in 1 .. Replicas
           /\ clerk[c].op \in ClientOp
           /\ target(c) \in Server
<1>1. /\ clerk[c] \in ClerkState /\ clerk[c].config \in Config
      /\ clerk[c].si \in 1 .. Replicas + 1 /\ clerk[c].op \in ClientOp \cup {Nil}
  BY DEF TypeInv, TypeOK, ClerkState
<1>2. targetGroup(c) \in clerk[c].config.Groups /\ clerk[c].si <= Replicas
  BY <1>1, ReplicasAssumption DEF tries, servers
<1>3. clerk[c].si \in 1 .. Replicas
  BY <1>1, <1>2, ReplicasAssumption
<1>4. targetGroup(c) \in Gid
  BY <1>1, <1>2 DEF Config
<1> QED
  BY <1>1, <1>3, <1>4 DEF target, Server, tries

LEMMA beginTypes ==
    ASSUME TypeInv, NEW c \in Clerk, NEW type \in Calls[c], NEW k \in Shard, begin(c, type, k)
    PROVE  TypeInv'
<1> DEFINE op == [Type |-> type, ShardId |-> k, ClientId |-> c,
                  RequestIndex |-> clerk[c].requestIndex]
           n == clerk[c].requestIndex + 1
           u == [clerk[c] EXCEPT !.op = op, !.requestIndex = n, !.si = 1]
<1>1. clerk[c] \in ClerkState /\ clerk[c].requestIndex \in Nat
  BY DEF TypeInv, TypeOK, ClerkState
<1>2. type \in {"GET", "PUT", "APPEND"}
  BY CallsAssumption
<1>3. op \in ClientOp /\ n \in Nat /\ 1 \in 1 .. Replicas + 1 /\ 1 <= Replicas
  BY <1>1, <1>2, ReplicasAssumption DEF ClientOp
<1>4. clerk' = [clerk EXCEPT ![c] = u]
  BY DEF begin
<1>5. UNCHANGED <<configs, log, kv, fetches, snap, crashes>>
  BY DEF begin
<1> HIDE DEF op, n
<1>6. u \in ClerkState /\ u.si = 1
  BY <1>1, <1>3 DEF ClerkState
<1> HIDE DEF u
<1> QED
  BY <1>3, <1>4, <1>5, <1>6, clerkTypes, outsideTypes, sameFetches, sameLog

LEMMA refreshTypes ==
    ASSUME TypeInv, NEW c \in Clerk, refresh(c)
    PROVE  TypeInv'
<1> DEFINE config == Query(-1)
           u == [clerk[c] EXCEPT !.config = config, !.si = 1]
<1>1. clerk[c] \in ClerkState
  BY DEF TypeInv, TypeOK
<1>2. config \in Config /\ 1 \in 1 .. Replicas + 1 /\ 1 <= Replicas
  BY QueryOK, ReplicasAssumption
<1>3. clerk' = [clerk EXCEPT ![c] = u]
  BY DEF refresh
<1>4. UNCHANGED <<configs, log, kv, fetches, snap, crashes>>
  BY DEF refresh
<1> HIDE DEF config
<1>5. u \in ClerkState /\ u.si = 1
  BY <1>1, <1>2 DEF ClerkState
<1> HIDE DEF u
<1> QED
  BY <1>2, <1>3, <1>4, <1>5, clerkTypes, outsideTypes, sameFetches, sameLog

LEMMA callFailsTypes ==
    ASSUME TypeInv, NEW c \in Clerk, callFails(c)
    PROVE  TypeInv'
<1>1. clerk[c].si <= Replicas
  BY triesOK, ReplicasAssumption DEF callFails, TypeInv, WaitersHaveServers
<1>2. clerk' = goOn(c) /\ UNCHANGED <<configs, log, kv, fetches, snap, crashes>>
  BY DEF callFails
<1> QED
  BY <1>1, <1>2, endOfCall, outsideTypes, sameFetches, sameLog

LEMMA refuseTypes ==
    ASSUME TypeInv, NEW c \in Clerk, refuse(c)
    PROVE  TypeInv'
<1>1. clerk' = break(c) /\ UNCHANGED <<configs, log, kv, fetches, snap, crashes>>
  BY DEF refuse
<1> QED
  BY <1>1, endOfCall, outsideTypes, sameFetches, sameLog

LEMMA acceptTypes ==
    ASSUME TypeInv, NEW c \in Clerk, accept(c)
    PROVE  TypeInv'
<1> DEFINE s == target(c)
           u == [clerk[c] EXCEPT !.server = s]
<1>1. /\ clerk[c].si \in 1 .. Replicas /\ clerk[c].op \in ClientOp /\ s \in Server
  BY triesOK DEF accept
<1>2. /\ clerk' = [clerk EXCEPT ![c] = u] /\ Start(s, clerk[c].op, TRUE)
      /\ UNCHANGED <<configs, kv, fetches, snap, crashes>>
  BY DEF accept
<1> HIDE DEF s
<1>3. u \in ClerkState /\ u.si = clerk[c].si
  BY <1>1 DEF TypeInv, TypeOK, ClerkState
<1>4. clerk[c].op \in Op /\ log \in [Server -> Seq(Entry)]
  BY <1>1 DEF Op, TypeInv, TypeOK
<1>5. log' \in [Server -> Seq(Entry)] /\ \A t \in Server : Len(log'[t]) >= Len(log[t])
  BY <1>1, <1>2, <1>4, StartOK
<1>6. u.si <= Replicas
  BY <1>1, <1>3, ReplicasAssumption
<1> HIDE DEF u
<1> QED
  BY <1>2, <1>3, <1>5, <1>6, clerkTypes, outsideTypes, sameFetches

(* What applying the next entry does to the server, its log and its snapshot. *)
LEMMA applyFacts ==
    ASSUME TypeInv, NEW s \in Server, NEW answered, handleCommandApply(s, answered)
    PROVE  LET index == kv[s].applied + 1
               op == log[s][index].op
               state == applyOp(kv[s].state, gid(s), op)
           IN
           /\ index \in 1 .. Len(log[s]) /\ kv[s].applied \in Nat
           /\ log[s][index] \in Entry /\ op \in Op
           /\ state \in State /\ Rooted(state)
           /\ \A t \in Server : kv'[t].state = IF t = s THEN state ELSE kv[t].state
           /\ \A t \in Server : kv'[t].lagging = kv[t].lagging
           /\ \A t \in Server : t # s => kv'[t] = kv[t] /\ snap'[t] = snap[t] /\ log'[t] = log[t]
           /\ kv' \in [Server -> KVState]
           /\ \/ /\ takesSnapshot(s, op) /\ snap'[s] = state /\ kv'[s].applied = 0
                 /\ log'[s] = SubSeq(log[s], index + 1, Len(log[s]))
                 /\ snap' \in [Server -> State] /\ log' \in [Server -> Seq(Entry)]
              \/ /\ ~takesSnapshot(s, op) /\ kv'[s].applied = index
                 /\ UNCHANGED <<snap, log>>
<1> DEFINE index == kv[s].applied + 1
           op == log[s][index].op
           state == applyOp(kv[s].state, gid(s), op)
           n == IF takesSnapshot(s, op) THEN 0 ELSE index
           u == [kv[s] EXCEPT !.state = state, !.applied = n]
           rest == SubSeq(log[s], index + 1, Len(log[s]))
<1>1. /\ kv \in [Server -> KVState] /\ kv[s] \in KVState /\ kv[s].state \in State
      /\ log \in [Server -> Seq(Entry)] /\ log[s] \in Seq(Entry) /\ Len(log[s]) \in Nat
      /\ snap \in [Server -> State] /\ kv[s].applied \in -1 .. Len(log[s])
      /\ Rooted(kv[s].state)
  BY DEF TypeInv, TypeOK, KVState
<1>2. index \in 1 .. Len(log[s]) /\ kv[s].applied \in Nat
  <2>1. index \in 1 .. Len(log[s])
    BY DEF handleCommandApply
  <2> QED
    BY <1>1, <2>1
<1>3. log[s][index] \in Entry /\ op \in Op
  <2>1. log[s][index] \in Entry
    <3> HIDE DEF index
    <3> QED
      BY <1>1, <1>2
  <2> QED
    BY <2>1 DEF Entry
<1>4. state \in State /\ Rooted(state)
  <2> HIDE DEF op
  <2> QED
    BY <1>1, <1>3, applyOpOK
<1>5. kv' = [kv EXCEPT ![s] = u]
  BY DEF handleCommandApply
<1>6. n \in Int
  BY <1>2
<1>7. \/ /\ takesSnapshot(s, op) /\ snap' = [snap EXCEPT ![s] = state]
         /\ log' = [log EXCEPT ![s] = rest]
      \/ ~takesSnapshot(s, op) /\ UNCHANGED <<snap, log>>
  BY DEF handleCommandApply
<1>8. rest \in Seq(Entry)
  <2>1. \A i \in index + 1 .. Len(log[s]) : log[s][i] \in Entry
    BY <1>1, <1>2
  <2> QED
    BY <1>1, <1>2, <2>1
<1>9. index \in Nat /\ n = (IF takesSnapshot(s, op) THEN 0 ELSE index)
  BY <1>2
<1> HIDE DEF state, n, rest, index, op
<1>10. /\ u \in KVState /\ u.state = state /\ u.applied = n /\ u.lagging = kv[s].lagging
  BY <1>1, <1>4, <1>6 DEF KVState
<1> HIDE DEF u
<1>11. kv' \in [Server -> KVState] /\ \A t \in Server : kv'[t] = IF t = s THEN u ELSE kv[t]
  BY <1>1, <1>5, <1>10
<1>12. \/ /\ takesSnapshot(s, op) /\ snap'[s] = state /\ kv'[s].applied = 0
          /\ log'[s] = rest
          /\ snap' \in [Server -> State] /\ log' \in [Server -> Seq(Entry)]
          /\ \A t \in Server : t # s => snap'[t] = snap[t] /\ log'[t] = log[t]
       \/ /\ ~takesSnapshot(s, op) /\ kv'[s].applied = index
          /\ UNCHANGED <<snap, log>>
  BY <1>1, <1>4, <1>7, <1>8, <1>9, <1>10, <1>11
<1>13. /\ \A t \in Server : kv'[t].state = IF t = s THEN state ELSE kv[t].state
       /\ \A t \in Server : kv'[t].lagging = kv[t].lagging
       /\ \A t \in Server : t # s => kv'[t] = kv[t] /\ snap'[t] = snap[t] /\ log'[t] = log[t]
  BY <1>10, <1>11, <1>12
<1> QED
  BY <1>2, <1>3, <1>4, <1>11, <1>12, <1>13 DEF state, rest, index, op

(* No operation shortens the list of configurations. *)
LEMMA applyOpExtends ==
    ASSUME NEW state \in State, NEW g, NEW op \in Op
    PROVE  Len(applyOp(state, g, op).AllConfigs) >= Len(state.AllConfigs)
<1>0. state.AllConfigs \in Seq(Config) /\ Len(state.AllConfigs) \in Nat
  BY LatestConfigOK
<1>1. CASE op.Type = "InstallShardConfig"
  <2>1. op.ShardConfig \in Config
    BY <1>1 DEF Op, ClientOp
  <2> DEFINE new == handleInstallShardConfig(state, g, op.ShardConfig)
  <2>2. new = state \/ new.AllConfigs = Append(state.AllConfigs, op.ShardConfig)
    BY <2>1, handleInstallShardConfigOK
  <2>3. applyOp(state, g, op) = new
    BY <1>1 DEF applyOp
  <2> HIDE DEF new
  <2> QED
    BY <1>0, <2>1, <2>2, <2>3
<1>2. CASE op.Type = "AcquireShard"
  BY <1>0, <1>2, handleAcquireShardOK DEF applyOp
<1>3. CASE op.Type \notin {"InstallShardConfig", "AcquireShard"}
  <2>1. op \in ClientOp
    BY <1>3 DEF Op
  <2> QED
    BY <1>0, <1>3, <2>1, handleClientOpOK DEF applyOp
<1> QED
  BY <1>1, <1>2, <1>3

LEMMA handleCommandApplyTypes ==
    ASSUME TypeInv, NEW s \in Server, NEW answered, handleCommandApply(s, answered)
    PROVE  TypeInv'
<1> DEFINE index == kv[s].applied + 1
           op == log[s][index].op
           state == applyOp(kv[s].state, gid(s), op)
<1>1. /\ index \in 1 .. Len(log[s]) /\ log[s][index] \in Entry /\ op \in Op
      /\ state \in State /\ Rooted(state)
      /\ \A t \in Server : kv'[t].state = IF t = s THEN state ELSE kv[t].state
      /\ \A t \in Server : kv'[t].lagging = kv[t].lagging
      /\ \A t \in Server : t # s => kv'[t] = kv[t] /\ snap'[t] = snap[t] /\ log'[t] = log[t]
      /\ kv' \in [Server -> KVState]
      /\ \/ /\ snap'[s] = state /\ kv'[s].applied = 0
            /\ snap' \in [Server -> State] /\ log' \in [Server -> Seq(Entry)]
         \/ kv'[s].applied = index /\ UNCHANGED <<snap, log>>
  BY applyFacts
<1>2. kv[s].state \in State
  BY DEF TypeInv, TypeOK, KVState
<1>3. Len(state.AllConfigs) >= Len(kv[s].state.AllConfigs)
  BY <1>1, <1>2, applyOpExtends
<1>4. /\ Len(state.AllConfigs) \in Nat
      /\ Len(kv[s].state.AllConfigs) \in Nat
  BY <1>1, <1>2, LatestConfigOK
<1>5. clerk' \in [Clerk -> ClerkState] /\ WaitersHaveServers'
  <2> DEFINE entry == log[s][index]
             c == entry.op.ClientId
  <2>1. CASE opChannelMatch(s, entry) /\ clerk' = signalStartCh(s, entry.op, answered)
    <3>1. entry.op \in ClientOp /\ c \in Clerk /\ clerk[c].server = s /\ clerk[c].op = entry.op
      BY <1>1, <2>1 DEF opChannelMatch, NeedSendBackCh, Entry, Op, ClientOp
    <3>2. clerk[c].si <= Replicas
      BY <3>1, NilAssumption DEF TypeInv, WaitersHaveServers
    <3>3. clerk' = goOn(c) \/ clerk' = break(c) \/ clerk' = return(c)
      BY <2>1 DEF signalStartCh
    <3> QED
      BY <3>1, <3>2, <3>3, endOfCall
  <2>2. CASE UNCHANGED clerk
    BY <2>2, sameClerks
  <2> QED
    BY <2>1, <2>2 DEF handleCommandApply
<1>6. UNCHANGED <<configs, fetches, crashes>>
  BY DEF handleCommandApply
<1> HIDE DEF state, index, op
<1>7. snap' \in [Server -> State] /\ log' \in [Server -> Seq(Entry)]
  BY <1>1 DEF TypeInv, TypeOK
<1>8. \A t \in Server : kv'[t].applied \in -1 .. Len(log'[t])
  <2> TAKE t \in Server
  <2>1. Len(log'[t]) \in Nat /\ Len(log[s]) \in Nat
    BY <1>7 DEF TypeInv, TypeOK
  <2>2. CASE t = s
    BY <1>1, <2>1, <2>2
  <2>3. CASE t # s
    BY <1>1, <2>3 DEF TypeInv, TypeOK
  <2> QED
    BY <2>2, <2>3
<1>9. TypeOK'
  BY <1>1, <1>5, <1>6, <1>7, <1>8 DEF TypeInv, TypeOK
<1>10. (\A t \in Server : Rooted(kv[t].state) /\ Rooted(snap[t]))'
  BY <1>1 DEF TypeInv, Rooted
<1>11. LaggingHavePrevious'
  BY <1>1, <1>3, <1>4 DEF TypeInv, LaggingHavePrevious
<1>12. FetchesHaveOwners'
  BY <1>6, sameFetches
<1>13. RestartedAreEmpty'
  <2>1. kv'[s].applied >= 0
    BY <1>1 DEF TypeInv, TypeOK
  <2> QED
    BY <1>1, <1>8, <2>1 DEF TypeInv, RestartedAreEmpty
<1> QED
  BY <1>5, <1>9, <1>10, <1>11, <1>12, <1>13 DEF TypeInv

LEMMA installSnapshotTypes ==
    ASSUME TypeInv, NEW s \in Server, installSnapshot(s)
    PROVE  /\ TypeInv'
           /\ \A t \in Server : kv'[t].state = IF t = s THEN snap[s] ELSE kv[t].state
           /\ \A t \in Server : kv'[t].applied = IF t = s THEN 0 ELSE kv[t].applied
           /\ \A t \in Server : kv'[t].lagging = kv[t].lagging
<1> DEFINE saved == snap[s]
           u == [kv[s] EXCEPT !.state = saved, !.applied = 0]
<1>1. /\ kv \in [Server -> KVState] /\ kv[s] \in KVState /\ snap[s] \in State
      /\ log \in [Server -> Seq(Entry)]
  BY DEF TypeInv, TypeOK
<1>2. u \in KVState /\ u.state = saved /\ u.applied = 0 /\ u.lagging = kv[s].lagging
  <2>1. saved \in State /\ 0 \in Int
    BY <1>1
  <2> HIDE DEF saved
  <2> QED
    BY <1>1, <2>1 DEF KVState
<1>3. kv' = [kv EXCEPT ![s] = u] /\ UNCHANGED <<configs, log, fetches, clerk, snap, crashes>>
  BY DEF installSnapshot
<1> HIDE DEF u
<1>4. kv' \in [Server -> KVState] /\ \A t \in Server : kv'[t] = IF t = s THEN u ELSE kv[t]
  BY <1>1, <1>2, <1>3
<1>5. \A t \in Server : kv'[t].applied \in -1 .. Len(log'[t])
  <2> TAKE t \in Server
  <2>1. Len(log'[t]) \in Nat /\ log' = log
    BY <1>1, <1>3
  <2>2. CASE t = s
    BY <1>2, <1>4, <2>1, <2>2
  <2>3. CASE t # s
    BY <1>4, <2>1, <2>3 DEF TypeInv, TypeOK
  <2> QED
    BY <2>2, <2>3
<1>6. TypeOK'
  BY <1>3, <1>4, <1>5 DEF TypeInv, TypeOK
<1>7. /\ \A t \in Server : kv'[t].state = IF t = s THEN snap[s] ELSE kv[t].state
      /\ \A t \in Server : kv'[t].applied = IF t = s THEN 0 ELSE kv[t].applied
      /\ \A t \in Server : kv'[t].lagging = kv[t].lagging
  BY <1>2, <1>4
<1>8. (\A t \in Server : Rooted(kv[t].state) /\ Rooted(snap[t]))'
  BY <1>3, <1>7 DEF TypeInv, Rooted
<1>9. kv[s].lagging = {}
  <2>1. kv[s].state = makeState
    BY DEF TypeInv, RestartedAreEmpty, installSnapshot
  <2>2. ~(Len(kv[s].state.AllConfigs) >= 2)
    BY <2>1 DEF makeState
  <2> QED
    BY <2>2 DEF TypeInv, LaggingHavePrevious
<1>10. LaggingHavePrevious' /\ RestartedAreEmpty'
  BY <1>7, <1>9 DEF TypeInv, LaggingHavePrevious, RestartedAreEmpty
<1> QED
  BY <1>3, <1>6, <1>7, <1>8, <1>10, sameFetches, sameClerks DEF TypeInv

LEMMA StartServerTypes ==
    ASSUME TypeInv, NEW s \in Server, StartServer(s)
    PROVE  /\ TypeInv'
           /\ \A t \in Server : kv'[t] = IF t = s THEN startState(-1) ELSE kv[t]
<1>1. /\ kv \in [Server -> KVState] /\ log \in [Server -> Seq(Entry)]
      /\ clerk \in [Clerk -> ClerkState]
  BY DEF TypeInv, TypeOK
<1>2. startState(-1) \in KVState
  BY makeStateOK DEF startState, KVState
<1>3. /\ kv' = [kv EXCEPT ![s] = startState(-1)] /\ fetches' \subseteq fetches
      /\ crashes < MaxCrashes /\ crashes' = crashes + 1
      /\ UNCHANGED <<configs, log, snap>>
  BY DEF StartServer
<1>4. kv' \in [Server -> KVState]
      /\ \A t \in Server : kv'[t] = IF t = s THEN startState(-1) ELSE kv[t]
  BY <1>1, <1>2, <1>3
<1>5. \A t \in Server : kv'[t].applied \in -1 .. Len(log'[t])
  <2> TAKE t \in Server
  <2>1. Len(log'[t]) \in Nat /\ log' = log
    BY <1>1, <1>3
  <2>2. CASE t = s
    BY <1>4, <2>1, <2>2 DEF startState
  <2>3. CASE t # s
    BY <1>4, <2>1, <2>3 DEF TypeInv, TypeOK
  <2> QED
    BY <2>2, <2>3
<1>6. crashes' \in 0 .. MaxCrashes
  BY <1>3, ShardKVBounds DEF TypeInv, TypeOK
<1>7. clerk' \in [Clerk -> ClerkState] /\ WaitersHaveServers'
  <2>1. \A c \in Clerk : /\ clerk'[c] \in ClerkState
                         /\ clerk'[c].server # Nil => clerk'[c].si <= Replicas
    <3> TAKE c \in Clerk
    <3>1. clerk'[c] = IF clerk[c].server = s THEN goOn(c)[c] ELSE clerk[c]
      BY DEF StartServer
    <3>2. CASE clerk[c].server = s
      <4> DEFINE u == [clerk[c] EXCEPT !.server = Nil, !.si = clerk[c].si + 1]
      <4>1. clerk'[c] = u
        BY <1>1, <3>1, <3>2 DEF goOn
      <4>2. clerk[c].si + 1 \in 1 .. Replicas + 1
        <5>1. clerk[c].si \in 1 .. Replicas + 1
          BY <1>1 DEF ClerkState
        <5>2. clerk[c].si <= Replicas
          BY <3>2, NilAssumption DEF TypeInv, WaitersHaveServers
        <5> QED
          BY <5>1, <5>2, ReplicasAssumption
      <4>3. u \in ClerkState /\ u.server = Nil
        BY <1>1, <4>2 DEF ClerkState
      <4> QED
        BY <4>1, <4>3
    <3>3. CASE clerk[c].server # s
      BY <1>1, <3>1, <3>3 DEF TypeInv, WaitersHaveServers
    <3> QED
      BY <3>2, <3>3
  <2>2. clerk' = [c \in Clerk |-> clerk'[c]]
    BY DEF StartServer
  <2> QED
    BY <2>1, <2>2 DEF WaitersHaveServers
<1>8. fetches' \subseteq Fetch /\ FetchesHaveOwners'
  BY <1>3 DEF TypeInv, TypeOK, FetchesHaveOwners, owner
<1>9. TypeOK'
  BY <1>3, <1>4, <1>5, <1>6, <1>7, <1>8 DEF TypeInv, TypeOK
<1>10. (\A t \in Server : Rooted(kv[t].state) /\ Rooted(snap[t]))'
  BY <1>3, <1>4, makeStateOK DEF TypeInv, Rooted, startState
<1>11. LaggingHavePrevious' /\ RestartedAreEmpty'
  BY <1>4 DEF TypeInv, LaggingHavePrevious, RestartedAreEmpty, startState
<1> QED
  BY <1>4, <1>7, <1>8, <1>9, <1>10, <1>11 DEF TypeInv

LEMMA NextTypes == TypeInv /\ [Next]_vars => TypeInv'
<1> SUFFICES ASSUME TypeInv, [Next]_vars PROVE TypeInv'
  OBVIOUS
<1>1. CASE UNCHANGED vars
  BY <1>1 DEF vars, TypeInv, TypeOK, WaitersHaveServers, RestartedAreEmpty, FetchesHaveOwners,
              LaggingHavePrevious, Rooted, owner
<1>2. ASSUME Len(configs) <= Len(Plan), NEW op \in Plan[Len(configs)], reconfigure(op)
      PROVE  TypeInv'
  <2>1. op \in CtrlerOp
    BY <1>2, PlannedOK
  <2> QED
    BY <1>2, <2>1, reconfigureTypes
<1>3. ASSUME NEW s \in Server,
             \/ checkShards(s) \/ findLagging(s) \/ goAcquireShards(s)
             \/ installSnapshot(s) \/ StartServer(s)
             \/ \E accepted \in BOOLEAN : startInstall(s, accepted)
             \/ \E answered \in BOOLEAN : handleCommandApply(s, answered)
      PROVE  TypeInv'
  BY <1>3, checkShardsTypes, findLaggingTypes, goAcquireShardsTypes, installSnapshotTypes,
     StartServerTypes, startInstallTypes, handleCommandApplyTypes
<1>4. ASSUME NEW f \in fetches,
             \/ acquireFails(f) \/ AcquireShards(f)
             \/ \E accepted \in BOOLEAN : handleAcquireShardReply(f, accepted)
      PROVE  TypeInv'
  BY <1>4, acquireFailsTypes, AcquireShardsTypes, handleAcquireShardReplyTypes
<1>5. ASSUME NEW c \in Clerk,
             \/ \E type \in Calls[c], k \in Shard : begin(c, type, k)
             \/ refresh(c) \/ callFails(c) \/ refuse(c) \/ accept(c)
      PROVE  TypeInv'
  BY <1>5, beginTypes, refreshTypes, callFailsTypes, refuseTypes, acceptTypes
<1> QED
  BY <1>1, <1>2, <1>3, <1>4, <1>5 DEF Next

LEMMA TypesAndMore == Spec => []TypeInv
  BY InitTypes, NextTypes, PTL DEF Spec

(* TypeOK of ShardKV holds of every server, log, fetch and clerk, for every instance:
   numbers of servers tried stay among the servers, a fetch has a configuration to ask
   with, and what was applied is in the log. *)
THEOREM Types == Spec => []TypeOK
<1>1. TypeInv => TypeOK
  BY DEF TypeInv
<1> QED
  BY <1>1, TypesAndMore, PTL

-----------------------------------------------------------------------------
(* One group serves a shard.  With Settled, every server is in the last configuration  *)
(* or in the one before; with snapshots, a restart does not take it further back.      *)

latest == Len(configs) - 1

Follows(state) ==
    \A n \in 1 .. Len(state.AllConfigs) : n <= Len(configs) /\ state.AllConfigs[n] = configs[n]

(* s is in the last configuration, or its log takes it there *)
Reached(s) ==
    \/ Len(snap[s].AllConfigs) = Len(configs)
    \/ \E i \in 1 .. Len(log[s]) : /\ log[s][i].op.Type = "InstallShardConfig"
                                   /\ log[s][i].op.ShardConfig.Num = latest

Released(g) == \A s \in Server : gid(s) = g => Reached(s)

previousOwner(k) == configs[Len(configs) - 1].Shards[k]

(* g may have the last number for shard k *)
Entitled(g, k) ==
    Len(configs) = 1 \/ previousOwner(k) = g \/ Released(previousOwner(k))

NumbersOK ==
    /\ \A n \in 1 .. Len(configs) : configs[n].Num = n - 1
    /\ configs[1] = initialConfig
    /\ \A s \in Server : \A i \in 1 .. Len(log[s]) :
          log[s][i].op.Type = "InstallShardConfig" =>
             \E n \in 1 .. Len(configs) : log[s][i].op.ShardConfig = configs[n]

ServerOK(s) ==
    /\ Follows(snap[s])
    /\ Len(snap[s].AllConfigs) >= Len(configs) - 1
    /\ kv[s].applied >= 0 => /\ kv[s].state.AllConfigs = snap[s].AllConfigs
                             /\ kv[s].state.ShardTimestamp = snap[s].ShardTimestamp
    /\ \A i \in 1 .. kv[s].applied : NeedSendBackCh(log[s][i].op)
    /\ Len(snap[s].AllConfigs) # Len(configs) => allShardsUpToDate(snap[s], gid(s))
    /\ kv[s].lagging # {} => /\ kv[s].applied >= 0
                             /\ Len(snap[s].AllConfigs) = Len(configs)

FetchOK(f) ==
    /\ Len(configs) >= 2
    /\ f.target = configs[Len(configs) - 1]
    /\ f.reply # Nil => /\ f.reply.ConfigNum <= latest
                        /\ f.reply.ConfigNum = latest => Released(owner(f))

GroupsOK == \A s, t \in Server : gid(s) = gid(t) /\ Reached(s) => Reached(t)

StampOK(s, k, n) == n <= latest /\ (n = latest => Entitled(gid(s), k))

StampsOK ==
    /\ \A s \in Server, k \in Shard : StampOK(s, k, snap[s].ShardTimestamp[k])
    /\ \A s \in Server : \A i \in 1 .. Len(log[s]) :
          log[s][i].op.Type = "AcquireShard" =>
             StampOK(s, log[s][i].op.ShardId, log[s][i].op.ShardConfigNum)

Inv ==
    /\ TypeInv
    /\ NumbersOK
    /\ \A s \in Server : ServerOK(s)
    /\ \A f \in fetches : FetchOK(f)
    /\ GroupsOK
    /\ StampsOK

LEMMA sizes ==
    ASSUME TypeInv
    PROVE  /\ configs \in Seq(Config) /\ Len(configs) \in Nat \ {0} /\ latest \in Nat
           /\ \A s \in Server :
                 /\ snap[s] \in State /\ snap[s].AllConfigs \in Seq(Config)
                 /\ Len(snap[s].AllConfigs) \in Nat \ {0}
                 /\ snap[s].ShardTimestamp \in [Shard -> Nat]
                 /\ kv[s].state \in State /\ kv[s].state.AllConfigs \in Seq(Config)
                 /\ Len(kv[s].state.AllConfigs) \in Nat \ {0}
                 /\ log[s] \in Seq(Entry) /\ Len(log[s]) \in Nat
                 /\ kv[s].applied \in -1 .. Len(log[s])
<1>1. configs \in Seq(Config) /\ configs # <<>>
  BY DEF TypeInv, TypeOK
<1>2. Len(configs) \in Nat \ {0} /\ latest \in Nat
  BY <1>1 DEF latest
<1>3. \A s \in Server : snap[s] \in State /\ kv[s].state \in State
  BY DEF TypeInv, TypeOK, KVState
<1>4. \A s \in Server : snap[s].ShardTimestamp \in [Shard -> Nat]
  BY <1>3 DEF State
<1>5. \A s \in Server : /\ log[s] \in Seq(Entry) /\ Len(log[s]) \in Nat
                        /\ kv[s].applied \in -1 .. Len(log[s])
  BY DEF TypeInv, TypeOK
<1> QED
  BY <1>1, <1>2, <1>3, <1>4, <1>5, LatestConfigOK

(* With the same configurations, logs and snapshots, groups and numbers stay. *)
LEMMA quiet ==
    ASSUME Inv, TypeInv', UNCHANGED <<configs, log, snap>>,
           \A t \in Server : ServerOK(t)', \A f \in fetches' : FetchOK(f)'
    PROVE  Inv'
<1>1. NumbersOK'
  BY DEF Inv, NumbersOK
<1>2. \A t \in Server : Reached(t)' = Reached(t)
  BY DEF Reached, latest
<1>3. GroupsOK'
  BY <1>2 DEF Inv, GroupsOK
<1>4. StampsOK'
  BY <1>2 DEF Inv, StampsOK, StampOK, Entitled, Released, previousOwner, latest
<1> QED
  BY <1>1, <1>3, <1>4 DEF Inv

LEMMA quietServer ==
    ASSUME Inv, UNCHANGED <<configs, log, snap>>, NEW t \in Server,
           kv'[t].state = kv[t].state, kv'[t].applied = kv[t].applied,
           kv'[t].lagging = kv[t].lagging \/ kv'[t].lagging = {}
    PROVE  ServerOK(t)'
  BY DEF Inv, ServerOK, Follows

LEMMA quietFetch ==
    ASSUME Inv, UNCHANGED <<configs, log, snap>>, NEW f \in fetches
    PROVE  FetchOK(f)'
<1>1. \A t \in Server : Reached(t)' = Reached(t)
  BY DEF Reached, latest
<1> QED
  BY <1>1 DEF Inv, FetchOK, Released, latest, owner

(* the entries of a log after Start *)
LEMMA StartEntries ==
    ASSUME log \in [Server -> Seq(Entry)], NEW s \in Server, NEW op \in Op, NEW accepted,
           Start(s, op, accepted), NEW t \in Server
    PROVE  /\ \A i \in 1 .. Len(log[t]) : i \in 1 .. Len(log'[t]) /\ log'[t][i] = log[t][i]
           /\ \A i \in 1 .. Len(log'[t]) :
                 i \in 1 .. Len(log[t]) \/ (gid(t) = gid(s) /\ log'[t][i].op = op)
           /\ \/ log' = log
              \/ gid(t) = gid(s) => \E i \in 1 .. Len(log'[t]) : log'[t][i].op = op
<1> DEFINE e == [op |-> op, ServerId |-> s]
<1>1. \/ log' = log
      \/ \A u \in Server : log'[u] = IF gid(u) = gid(s) THEN Append(log[u], e) ELSE log[u]
  BY StartOK
<1>2. e \in Entry /\ e.op = op
  BY StartOK
<1>3. log[t] \in Seq(Entry)
  OBVIOUS
<1> HIDE DEF e
<1>4. CASE log'[t] = log[t] /\ (log' = log \/ gid(t) # gid(s))
  BY <1>3, <1>4
<1>5. CASE log'[t] = Append(log[t], e) /\ gid(t) = gid(s)
  <2>1. /\ Len(log'[t]) = Len(log[t]) + 1 /\ Len(log[t]) \in Nat
        /\ \A i \in 1 .. Len(log[t]) : log'[t][i] = log[t][i]
        /\ log'[t][Len(log[t]) + 1] = e
    BY <1>2, <1>3, <1>5
  <2> QED
    BY <1>2, <1>5, <2>1
<1> QED
  BY <1>1, <1>4, <1>5

(* An entry that Start adds to the logs of a group disturbs nothing if its number is
   in order. *)
LEMMA startKeeps ==
    ASSUME Inv, TypeInv', NEW s \in Server, NEW op \in Op, NEW accepted, Start(s, op, accepted),
           UNCHANGED <<configs, snap>>,
           \A t \in Server : /\ kv'[t].state = kv[t].state /\ kv'[t].applied = kv[t].applied
                             /\ kv'[t].lagging = kv[t].lagging,
           fetches' \subseteq fetches,
           op.Type = "InstallShardConfig" =>
              \E n \in 1 .. Len(configs) : op.ShardConfig = configs[n],
           op.Type = "AcquireShard" => StampOK(s, op.ShardId, op.ShardConfigNum)
    PROVE  Inv'
<1>0. log \in [Server -> Seq(Entry)]
  BY DEF Inv, TypeInv, TypeOK
<1>1. \A t \in Server :
        /\ \A i \in 1 .. Len(log[t]) : i \in 1 .. Len(log'[t]) /\ log'[t][i] = log[t][i]
        /\ \A i \in 1 .. Len(log'[t]) :
              i \in 1 .. Len(log[t]) \/ (gid(t) = gid(s) /\ log'[t][i].op = op)
        /\ \/ log' = log
           \/ gid(t) = gid(s) => \E i \in 1 .. Len(log'[t]) : log'[t][i].op = op
  BY <1>0, StartEntries
<1> DEFINE brings == op.Type = "InstallShardConfig" /\ op.ShardConfig.Num = latest
<1>2. \A t \in Server : Reached(t) => Reached(t)'
  BY <1>1 DEF Reached, latest
<1>3. \A t \in Server : Reached(t)' => Reached(t) \/ (gid(t) = gid(s) /\ brings)
  BY <1>1 DEF Reached, latest
<1>4. GroupsOK'
  <2> SUFFICES ASSUME NEW t \in Server, NEW u \in Server, gid(t) = gid(u), Reached(t)'
               PROVE  Reached(u)'
    BY DEF GroupsOK
  <2>1. CASE Reached(t)
    BY <1>2, <2>1 DEF Inv, GroupsOK
  <2>2. CASE ~Reached(t)
    <3>1. gid(u) = gid(s) /\ brings /\ log' # log
      <4>1. log' # log
        BY <2>2 DEF Reached, latest
      <4> QED
        BY <1>3, <2>2, <4>1
    <3>2. \E i \in 1 .. Len(log'[u]) : log'[u][i].op = op
      BY <1>1, <3>1
    <3> QED
      BY <3>1, <3>2 DEF Reached, latest
  <2> QED
    BY <2>1, <2>2
<1>5. NumbersOK'
  <2>1. ASSUME NEW t \in Server, NEW i \in 1 .. Len(log'[t]),
               log'[t][i].op.Type = "InstallShardConfig"
        PROVE  \E n \in 1 .. Len(configs) : log'[t][i].op.ShardConfig = configs[n]
    <3>1. CASE i \in 1 .. Len(log[t])
      <4>1. log'[t][i] = log[t][i]
        BY <1>1, <3>1
      <4> QED
        BY <2>1, <3>1, <4>1 DEF Inv, NumbersOK
    <3>2. CASE log'[t][i].op = op
      BY <2>1, <3>2
    <3> QED
      BY <1>1, <3>1, <3>2
  <2> QED
    BY <2>1 DEF Inv, NumbersOK
<1>6. \A g, k : Entitled(g, k) => Entitled(g, k)'
  BY <1>2 DEF Entitled, Released, previousOwner
<1>7. \A t \in Server : \A k, n : StampOK(t, k, n) => StampOK(t, k, n)'
  BY <1>6 DEF StampOK, latest
<1>8. \A t \in Server : \A k, n : gid(t) = gid(s) /\ StampOK(s, k, n) => StampOK(t, k, n)
  BY DEF StampOK
<1>9. StampsOK'
  <2>1. \A t \in Server, k \in Shard : StampOK(t, k, snap[t].ShardTimestamp[k])'
    BY <1>7 DEF Inv, StampsOK
  <2>2. ASSUME NEW t \in Server, NEW i \in 1 .. Len(log'[t]),
               log'[t][i].op.Type = "AcquireShard"
        PROVE  StampOK(t, log[t][i].op.ShardId, log[t][i].op.ShardConfigNum)'
    <3>1. CASE i \in 1 .. Len(log[t])
      BY <1>1, <1>7, <2>2, <3>1 DEF Inv, StampsOK
    <3>2. CASE gid(t) = gid(s) /\ log'[t][i].op = op
      BY <1>7, <1>8, <2>2, <3>2
    <3> QED
      BY <1>1, <3>1, <3>2
  <2> QED
    BY <2>1, <2>2 DEF StampsOK
<1>10. \A t \in Server : ServerOK(t)'
  <2> TAKE t \in Server
  <2>1. \A i \in 1 .. kv'[t].applied : NeedSendBackCh(log'[t][i].op)
    <3>1. kv'[t].applied = kv[t].applied /\ kv[t].applied \in -1 .. Len(log[t])
      BY sizes DEF Inv
    <3>2. \A i \in 1 .. kv[t].applied : i \in 1 .. Len(log[t])
      BY <3>1, sizes DEF Inv
    <3> QED
      BY <1>1, <3>1, <3>2 DEF Inv, ServerOK
  <2> QED
    BY <2>1 DEF Inv, ServerOK, Follows
<1>11. \A f \in fetches' : FetchOK(f)'
  BY <1>2 DEF Inv, FetchOK, Released, latest, owner
<1> QED
  BY <1>4, <1>5, <1>9, <1>10, <1>11 DEF Inv

-----------------------------------------------------------------------------
(* The same argument, action by action *)

LEMMA InitInv == Init => Inv
<1> SUFFICES ASSUME Init PROVE Inv
  OBVIOUS
<1>1. /\ configs = <<initialConfig>> /\ Len(configs) = 1 /\ fetches = {}
      /\ \A s \in Server : /\ log[s] = <<>> /\ Len(log[s]) = 0 /\ snap[s] = makeState
                           /\ kv[s] = startState(0)
  BY DEF Init
<1>2. /\ makeState.AllConfigs = <<initialConfig>> /\ Len(makeState.AllConfigs) = 1
      /\ \A k \in Shard : makeState.ShardTimestamp[k] = 0
  BY DEF makeState
<1>3. /\ startState(0).state = makeState /\ startState(0).applied = 0
      /\ startState(0).lagging = {}
  BY DEF startState
<1>4. NumbersOK
  BY <1>1 DEF NumbersOK, initialConfig
<1>5. \A s \in Server : ServerOK(s)
  <2> TAKE s \in Server
  <2>1. /\ snap[s] = makeState /\ kv[s].state = makeState /\ kv[s].applied = 0
        /\ kv[s].lagging = {}
    BY <1>1, <1>3
  <2>2. Follows(makeState)
    BY <1>1, <1>2 DEF Follows
  <2>3. \A i \in 1 .. 0 : NeedSendBackCh(log[s][i].op)
    OBVIOUS
  <2>4. Len(makeState.AllConfigs) = Len(configs) /\ Len(makeState.AllConfigs) >= Len(configs) - 1
    BY <1>1, <1>2
  <2> QED
    BY <2>1, <2>2, <2>3, <2>4 DEF ServerOK
<1>6. GroupsOK
  BY <1>1, <1>2 DEF GroupsOK, Reached
<1>7. StampsOK
  BY <1>1, <1>2 DEF StampsOK, StampOK, Entitled, latest
<1> QED
  BY <1>1, <1>4, <1>5, <1>6, <1>7, InitTypes DEF Inv

LEMMA checkShardsInv == ASSUME Inv, NEW s \in Server, checkShards(s) PROVE Inv'
<1>1. TypeInv' /\ UNCHANGED <<configs, log, fetches, snap>>
  BY checkShardsTypes DEF Inv, checkShards
<1>2. \A t \in Server : /\ kv'[t].state = kv[t].state /\ kv'[t].applied = kv[t].applied
                        /\ kv'[t].lagging = kv[t].lagging
  BY DEF checkShards, Inv, TypeInv, TypeOK, KVState
<1> QED
  BY <1>1, <1>2, quiet, quietServer, quietFetch

LEMMA startInstallInv ==
    ASSUME Inv, NEW s \in Server, NEW accepted, startInstall(s, accepted) PROVE Inv'
<1> DEFINE num == LatestConfig(kv[s].state).Num + 1
           op == [Type |-> "InstallShardConfig", ShardConfig |-> Query(num)]
<1>1. TypeInv' /\ UNCHANGED <<configs, fetches, snap>>
  BY startInstallTypes DEF Inv, startInstall
<1>2. \A t \in Server : /\ kv'[t].state = kv[t].state /\ kv'[t].applied = kv[t].applied
                        /\ kv'[t].lagging = kv[t].lagging
  BY DEF startInstall, Inv, TypeInv, TypeOK, KVState
<1>3. num \in Int
  <2>1. LatestConfig(kv[s].state) \in Config
    BY sizes, LatestConfigOK DEF Inv
  <2> QED
    BY <2>1 DEF Config
<1>4. Query(num) \in Config /\ \E n \in 1 .. Len(configs) : Query(num) = configs[n]
  <2> HIDE DEF num
  <2> QED
    BY <1>3, QueryOK DEF Inv
<1>5. op \in Op /\ op.Type = "InstallShardConfig" /\ op.ShardConfig = Query(num)
  <2> HIDE DEF num
  <2> QED
    BY <1>4 DEF Op
<1>6. UNCHANGED log \/ Start(s, op, accepted)
  BY DEF startInstall
<1> HIDE DEF op, num
<1>7. CASE UNCHANGED log
  BY <1>1, <1>2, <1>7, quiet, quietServer, quietFetch
<1>8. CASE Start(s, op, accepted)
  BY <1>1, <1>2, <1>4, <1>5, <1>8, startKeeps
<1> QED
  BY <1>6, <1>7, <1>8

LEMMA findLaggingInv == ASSUME Inv, NEW s \in Server, findLagging(s) PROVE Inv'
<1>1. TypeInv' /\ UNCHANGED <<configs, log, fetches, snap>>
  BY findLaggingTypes DEF Inv, findLagging
<1>2. \A t \in Server : /\ kv'[t].state = kv[t].state /\ kv'[t].applied = kv[t].applied
                        /\ t # s => kv'[t].lagging = kv[t].lagging
  BY DEF findLagging, Inv, TypeInv, TypeOK, KVState
<1>3. kv[s].applied >= 0
  <2> SUFFICES ASSUME ~(kv[s].applied >= 0) PROVE FALSE
    OBVIOUS
  <2>1. kv[s].applied < 0
    BY sizes DEF Inv
  <2>2. kv[s].state = makeState
    BY <2>1 DEF Inv, TypeInv, RestartedAreEmpty
  <2>3. PICK k \in Shard : LatestConfig(kv[s].state).Shards[k] = gid(s)
    BY DEF findLagging, laggingShards
  <2>4. Len(makeState.AllConfigs) >= 2
    BY <2>2, <2>3, makeStateOK, OwnersHavePrevious, ServerFacts
  <2> QED
    BY <2>4 DEF makeState
<1>4. Len(snap[s].AllConfigs) = Len(configs)
  <2>1. /\ kv[s].state.AllConfigs = snap[s].AllConfigs
        /\ kv[s].state.ShardTimestamp = snap[s].ShardTimestamp
    BY <1>3 DEF Inv, ServerOK
  <2>2. laggingShards(snap[s], gid(s)) # {}
    BY <2>1 DEF findLagging, laggingShards, LatestConfig
  <2> QED
    BY <2>2 DEF Inv, ServerOK, allShardsUpToDate
<1>5. ServerOK(s)'
  BY <1>1, <1>2, <1>3, <1>4 DEF Inv, ServerOK, Follows
<1>6. \A t \in Server : ServerOK(t)'
  BY <1>1, <1>2, <1>5, quietServer
<1> QED
  BY <1>1, <1>6, quiet, quietFetch

LEMMA goAcquireShardsInv == ASSUME Inv, NEW s \in Server, goAcquireShards(s) PROVE Inv'
<1> DEFINE target0 == targetConfig(kv[s].state)
<1>1. TypeInv' /\ UNCHANGED <<configs, log, snap>>
  BY goAcquireShardsTypes DEF Inv, goAcquireShards
<1>2. \A t \in Server : /\ kv'[t].state = kv[t].state /\ kv'[t].applied = kv[t].applied
                        /\ kv'[t].lagging = kv[t].lagging \/ kv'[t].lagging = {}
  BY DEF goAcquireShards, Inv, TypeInv, TypeOK, KVState
<1>3. /\ kv[s].state.AllConfigs = snap[s].AllConfigs
      /\ Len(snap[s].AllConfigs) = Len(configs) /\ Len(configs) >= 2
  <2>1. kv[s].lagging # {}
    BY DEF goAcquireShards
  <2> QED
    BY <2>1 DEF Inv, ServerOK, TypeInv, LaggingHavePrevious
<1>4. target0 = configs[Len(configs) - 1]
  <2>1. Len(configs) - 1 \in 1 .. Len(snap[s].AllConfigs)
    BY <1>3, sizes DEF Inv
  <2> QED
    BY <1>3, <2>1 DEF targetConfig, Inv, ServerOK, Follows
<1>5. \A f \in fetches' : f \in fetches \/ (f.target = target0 /\ f.reply = Nil)
  BY DEF goAcquireShards
<1> HIDE DEF target0
<1>6. \A f \in fetches' : FetchOK(f)'
  <2> TAKE f \in fetches'
  <2>1. CASE f \in fetches
    BY <1>1, <2>1, quietFetch
  <2>2. CASE f.target = target0 /\ f.reply = Nil
    BY <1>1, <1>3, <1>4, <2>2 DEF FetchOK
  <2> QED
    BY <1>5, <2>1, <2>2
<1> QED
  BY <1>1, <1>2, <1>6, quiet, quietServer

LEMMA acquireFailsInv == ASSUME Inv, NEW f \in fetches, acquireFails(f) PROVE Inv'
<1> DEFINE next == [f EXCEPT !.si = f.si + 1]
<1>1. TypeInv' /\ UNCHANGED <<configs, log, kv, snap>>
  BY acquireFailsTypes DEF Inv, acquireFails
<1>2. fetches' \subseteq fetches \cup {next} /\ f.reply = Nil
  BY DEF acquireFails
<1>3. next.target = f.target /\ next.reply = f.reply
  BY fetchOK DEF Fetch, Inv
<1> HIDE DEF next
<1>4. \A h \in fetches' : FetchOK(h)'
  <2> TAKE h \in fetches'
  <2>1. CASE h \in fetches
    BY <1>1, <2>1, quietFetch
  <2>2. CASE h = next
    BY <1>1, <1>2, <1>3, <2>2 DEF Inv, FetchOK
  <2> QED
    BY <1>2, <2>1, <2>2
<1> QED
  BY <1>1, <1>4, quiet, quietServer

(* A server of the previous owner that answers with the last number has released the
   shard, and so has its group. *)
LEMMA AcquireShardsInv == ASSUME Inv, NEW f \in fetches, AcquireShards(f) PROVE Inv'
<1> DEFINE s == <<owner(f), f.si>>
           num == LatestConfig(kv[s].state).Num
           reply == [ConfigNum         |-> num,
                     ShardData         |-> kv[s].state.ShardKVStore[f.sid],
                     ClientLastRequest |-> kv[s].state.ClientLastRequest]
           next == [f EXCEPT !.reply = reply]
<1>1. TypeInv' /\ UNCHANGED <<configs, log, kv, snap>>
  BY AcquireShardsTypes DEF Inv, AcquireShards
<1>2. fetches' = (fetches \ {f}) \cup {next} /\ num # 0
  BY DEF AcquireShards
<1>3. /\ next.target = f.target /\ next.sid = f.sid /\ next.reply = reply
      /\ reply.ConfigNum = num /\ s \in Server /\ gid(s) = owner(f)
  <2>1. f \in Fetch /\ s \in Server
    BY fetchOK DEF Inv
  <2> QED
    BY <2>1 DEF Fetch
<1> HIDE DEF s, reply
<1>4. kv[s].applied >= 0
  <2> SUFFICES ASSUME ~(kv[s].applied >= 0) PROVE FALSE
    OBVIOUS
  <2>1. kv[s].applied < 0
    BY <1>3, sizes DEF Inv
  <2>2. kv[s].state = makeState
    BY <1>3, <2>1 DEF Inv, TypeInv, RestartedAreEmpty
  <2>3. num = 0
    BY <2>2 DEF makeState, LatestConfig, initialConfig
  <2> QED
    BY <1>2, <2>3
<1>5. num = Len(snap[s].AllConfigs) - 1 /\ Len(snap[s].AllConfigs) <= Len(configs)
  <2> DEFINE m == Len(snap[s].AllConfigs)
  <2>1. kv[s].state.AllConfigs = snap[s].AllConfigs
    BY <1>3, <1>4 DEF Inv, ServerOK
  <2>2. m \in Nat \ {0} /\ m \in 1 .. m
    BY <1>3, sizes DEF Inv
  <2>3. m <= Len(configs) /\ snap[s].AllConfigs[m] = configs[m]
    BY <1>3, <2>2 DEF Inv, ServerOK, Follows
  <2>4. m \in 1 .. Len(configs)
    BY <2>2, <2>3, sizes DEF Inv
  <2>5. configs[m].Num = m - 1
    BY <2>4 DEF Inv, NumbersOK
  <2> QED
    BY <2>1, <2>3, <2>5 DEF LatestConfig
<1>6. num <= latest /\ (num = latest => Released(owner(f)))
  <2>1. num <= latest /\ (num = latest => Len(snap[s].AllConfigs) = Len(configs))
    <3> HIDE DEF num
    <3> QED
      BY <1>3, <1>5, sizes DEF Inv, latest
  <2>2. Len(snap[s].AllConfigs) = Len(configs) => Reached(s)
    BY DEF Reached
  <2>3. Reached(s) => Released(owner(f))
    BY <1>3 DEF Inv, GroupsOK, Released
  <2> QED
    BY <2>1, <2>2, <2>3
<1>7. owner(next) = owner(f)
  BY <1>3 DEF owner
<1> HIDE DEF next, num
<1>8. \A t \in Server : Reached(t)' = Reached(t)
  BY <1>1 DEF Reached, latest
<1>9. ASSUME NEW h, h = next PROVE FetchOK(h)'
  <2>1. h.target = f.target /\ h.sid = f.sid /\ h.reply.ConfigNum = num
    BY <1>3, <1>9
  <2>2. FetchOK(f) /\ latest' = latest /\ Len(configs') = Len(configs)
    BY <1>1 DEF Inv, latest
  <2>3. owner(h) = owner(f)
    BY <2>1 DEF owner
  <2>4. Released(owner(f)) => Released(owner(h))'
    BY <1>8, <2>3 DEF Released, owner
  <2> QED
    BY <1>1, <1>6, <2>1, <2>2, <2>4 DEF FetchOK
<1>10. \A h \in fetches' : FetchOK(h)'
  BY <1>1, <1>2, <1>9, quietFetch
<1> QED
  BY <1>1, <1>10, quiet, quietServer

LEMMA handleAcquireShardReplyInv ==
    ASSUME Inv, NEW f \in fetches, NEW accepted, handleAcquireShardReply(f, accepted)
    PROVE  Inv'
<1> DEFINE op == acquireOp(f)
<1>1. TypeInv' /\ UNCHANGED <<configs, kv, snap>> /\ fetches' \subseteq fetches
  BY handleAcquireShardReplyTypes DEF Inv, handleAcquireShardReply
<1>2. /\ f \in Fetch /\ f.server \in Server /\ f.reply # Nil /\ op \in Op
      /\ op.Type = "AcquireShard" /\ op.ShardId = f.sid /\ op.ShardConfigNum = f.reply.ConfigNum
  BY fetchOK, acquireOpOK DEF Fetch, handleAcquireShardReply, acquireOp, Inv
<1>3. Start(f.server, op, accepted)
  BY DEF handleAcquireShardReply, acquireOp
<1>4. StampOK(f.server, op.ShardId, op.ShardConfigNum)
  <2>1. FetchOK(f)
    BY DEF Inv
  <2>2. owner(f) = previousOwner(f.sid)
    BY <2>1 DEF FetchOK, owner, previousOwner
  <2> HIDE DEF op
  <2> QED
    BY <1>2, <2>1, <2>2 DEF FetchOK, StampOK, Entitled
<1> HIDE DEF op
<1> QED
  BY <1>1, <1>2, <1>3, <1>4, startKeeps

LEMMA clerkInv ==
    ASSUME Inv, NEW c \in Clerk,
           \/ \E type \in Calls[c], k \in Shard : begin(c, type, k)
           \/ refresh(c) \/ callFails(c) \/ refuse(c) \/ accept(c)
    PROVE  Inv'
<1>1. TypeInv' /\ UNCHANGED <<configs, kv, fetches, snap>>
  BY beginTypes, refreshTypes, callFailsTypes, refuseTypes, acceptTypes
     DEF Inv, begin, refresh, callFails, refuse, accept
<1>2. CASE UNCHANGED log
  BY <1>1, <1>2, quiet, quietServer, quietFetch
<1>3. CASE accept(c)
  <2> DEFINE op == clerk[c].op
             s == target(c)
  <2>1. Start(s, op, TRUE) /\ s \in Server /\ op \in ClientOp
    BY <1>3, triesOK DEF accept, Inv
  <2>2. op \in Op /\ op.Type # "InstallShardConfig" /\ op.Type # "AcquireShard"
    BY <2>1 DEF Op, ClientOp
  <2> HIDE DEF op, s
  <2> QED
    BY <1>1, <2>1, <2>2, startKeeps
<1> QED
  BY <1>2, <1>3 DEF begin, refresh, callFails, refuse

LEMMA installSnapshotInv == ASSUME Inv, NEW s \in Server, installSnapshot(s) PROVE Inv'
<1>1. /\ TypeInv'
      /\ \A t \in Server : kv'[t].state = IF t = s THEN snap[s] ELSE kv[t].state
      /\ \A t \in Server : kv'[t].applied = IF t = s THEN 0 ELSE kv[t].applied
      /\ \A t \in Server : kv'[t].lagging = kv[t].lagging
  BY installSnapshotTypes DEF Inv
<1>2. UNCHANGED <<configs, log, fetches, snap>> /\ kv[s].applied < 0
  BY DEF installSnapshot
<1>3. ServerOK(s)'
  <2>1. ServerOK(s)
    BY DEF Inv
  <2>2. kv[s].lagging = {}
    BY <1>2, <2>1, sizes DEF Inv, ServerOK
  <2> QED
    BY <1>1, <1>2, <2>1, <2>2 DEF ServerOK, Follows
<1>4. \A t \in Server : ServerOK(t)'
  BY <1>1, <1>2, <1>3, quietServer
<1> QED
  BY <1>1, <1>2, <1>4, quiet, quietFetch

LEMMA StartServerInv == ASSUME Inv, NEW s \in Server, StartServer(s) PROVE Inv'
<1>1. /\ TypeInv'
      /\ \A t \in Server : kv'[t] = IF t = s THEN startState(-1) ELSE kv[t]
  BY StartServerTypes DEF Inv
<1>2. UNCHANGED <<configs, log, snap>> /\ fetches' \subseteq fetches
  BY DEF StartServer
<1>3. ServerOK(s)'
  BY <1>1, <1>2 DEF Inv, ServerOK, Follows, startState
<1>4. \A t \in Server : ServerOK(t)'
  BY <1>1, <1>2, <1>3, quietServer
<1> QED
  BY <1>1, <1>2, <1>4, quiet, quietFetch

(* What the next entry of the log makes of a server: it is in the last configuration
   if it was, or if the entry is the one that installs it. *)
LEMMA applyStates ==
    ASSUME Inv, NEW s \in Server, kv[s].applied >= 0, NEW i \in 1 .. Len(log[s]),
           NEW op, op = log[s][i].op, NEW state, state = applyOp(kv[s].state, gid(s), op)
    PROVE  /\ Follows(state)
           /\ Len(state.AllConfigs) >= Len(configs) - 1
           /\ Len(state.AllConfigs) # Len(configs) => allShardsUpToDate(state, gid(s))
           /\ \A k \in Shard : StampOK(s, k, state.ShardTimestamp[k])
           /\ Len(state.AllConfigs) = Len(configs) <=>
                 \/ Len(snap[s].AllConfigs) = Len(configs)
                 \/ op.Type = "InstallShardConfig" /\ op.ShardConfig.Num = latest
           /\ NeedSendBackCh(op) => /\ state.AllConfigs = snap[s].AllConfigs
                                    /\ state.ShardTimestamp = snap[s].ShardTimestamp
<1> DEFINE own == kv[s].state
           m == Len(snap[s].AllConfigs)
           all == Len(configs)
<1>1. /\ own \in State /\ snap[s] \in State /\ snap[s].AllConfigs \in Seq(Config)
      /\ m \in Nat \ {0} /\ all \in Nat \ {0} /\ configs \in Seq(Config)
      /\ own.AllConfigs = snap[s].AllConfigs /\ own.ShardTimestamp = snap[s].ShardTimestamp
      /\ own.ShardTimestamp \in [Shard -> Nat]
  BY sizes DEF Inv, ServerOK
<1>2. /\ Follows(snap[s]) /\ m >= all - 1
      /\ m # all => allShardsUpToDate(snap[s], gid(s))
      /\ \A k \in Shard : StampOK(s, k, snap[s].ShardTimestamp[k])
  BY DEF Inv, ServerOK, StampsOK
<1>3. op \in Op
  <2>1. log[s][i] \in Entry
    BY sizes DEF Inv
  <2> QED
    BY <2>1 DEF Entry
<1>4. m <= all /\ LatestConfig(own) = configs[m] /\ configs[m].Num = m - 1
  <2>1. m \in 1 .. m
    BY <1>1
  <2>2. m <= all /\ snap[s].AllConfigs[m] = configs[m]
    BY <1>2, <2>1 DEF Follows
  <2>3. m \in 1 .. all
    BY <1>1, <2>2
  <2> QED
    BY <1>1, <2>2, <2>3 DEF LatestConfig, Inv, NumbersOK
<1>5. allShardsUpToDate(snap[s], gid(s)) = allShardsUpToDate(own, gid(s))
  BY <1>1 DEF allShardsUpToDate, laggingShards, LatestConfig
<1>6. CASE op.Type = "InstallShardConfig"
  <2> DEFINE config == op.ShardConfig
  <2>1. config \in Config /\ state = handleInstallShardConfig(own, gid(s), config)
    BY <1>3, <1>6 DEF Op, ClientOp, applyOp
  <2>2. PICK n \in 1 .. all : config = configs[n]
    BY <1>6 DEF Inv, NumbersOK
  <2>3. config.Num = n - 1 /\ n \in Nat
    BY <1>1, <2>2 DEF Inv, NumbersOK
  <2>4. latest = all - 1
    BY DEF latest
  <2>5. ~NeedSendBackCh(op)
    BY <1>6 DEF NeedSendBackCh
  <2>6. CASE config.Num # LatestConfig(own).Num + 1
    <3>1. state = own
      BY <1>1, <2>1, <2>6, handleInstallShardConfigOK
    <3>2. config.Num = latest => m = all
      <4> HIDE DEF m, all, config
      <4> QED
        BY <1>1, <1>2, <1>4, <2>2, <2>3, <2>4, <2>6
    <3> HIDE DEF own
    <3> QED
      BY <1>1, <1>2, <1>5, <1>6, <2>4, <2>5, <3>1, <3>2 DEF Follows
  <2>7. CASE config.Num = LatestConfig(own).Num + 1
    <3>1. n = m + 1 /\ m = all - 1 /\ n = all /\ config.Num = latest
      <4> HIDE DEF m, all, config
      <4> QED
        BY <1>1, <1>2, <1>4, <2>2, <2>3, <2>4, <2>7
    <3>2. /\ state.AllConfigs = Append(own.AllConfigs, config)
          /\ \A k \in Shard :
                state.ShardTimestamp[k] =
                  IF config.Shards[k] = gid(s) /\ (config.Num = 1 \/ LatestConfig(own).Shards[k] = gid(s))
                  THEN config.Num
                  ELSE IF config.Num = 1 THEN 0 ELSE own.ShardTimestamp[k]
      <4> HIDE DEF own, config
      <4> QED
        BY <1>1, <2>1, <2>7, handleInstallShardConfigOK
    <3>3. /\ Len(state.AllConfigs) = all /\ state.AllConfigs[m + 1] = config
          /\ \A j \in 1 .. m : state.AllConfigs[j] = snap[s].AllConfigs[j]
      <4>1. state.AllConfigs = Append(snap[s].AllConfigs, config)
        BY <1>1, <3>2
      <4> HIDE DEF all, config
      <4> QED
        BY <1>1, <2>1, <3>1, <4>1, AppendConfig
    <3>4. Follows(state)
      <4> SUFFICES ASSUME NEW j \in 1 .. all
                   PROVE  j <= all /\ state.AllConfigs[j] = configs[j]
        BY <3>3 DEF Follows
      <4>1. CASE j \in 1 .. m
        <5>1. state.AllConfigs[j] = snap[s].AllConfigs[j]
          BY <3>3, <4>1
        <5> QED
          BY <1>2, <4>1, <5>1 DEF Follows
      <4>2. CASE j = m + 1
        <5>1. state.AllConfigs[j] = config
          BY <3>3, <4>2
        <5> QED
          BY <1>1, <2>2, <3>1, <4>2, <5>1
      <4>3. j \in 1 .. m \/ j = m + 1
        <5> HIDE DEF m, all
        <5> QED
          BY <1>1, <3>1
      <4> QED
        BY <1>1, <4>1, <4>2, <4>3
    <3>5. ASSUME NEW k \in Shard PROVE StampOK(s, k, state.ShardTimestamp[k])
      <4>0. latest \in Nat
        BY <1>1, <2>4
      <4>1. CASE config.Shards[k] = gid(s) /\ config.Num = 1
        <5>1. state.ShardTimestamp[k] = latest
          BY <3>1, <3>2, <4>1
        <5>2. all - 1 = 1 /\ configs[1] = initialConfig
          BY <2>4, <3>1, <4>1 DEF Inv, NumbersOK
        <5>3. previousOwner(k) = initialConfig.Shards[k] /\ initialConfig.Shards[k] = 0
          BY <5>2 DEF previousOwner, initialConfig
        <5>4. Released(previousOwner(k))
          BY <5>3, ServerFacts, ZeroIsNoGroup DEF Released
        <5> QED
          BY <4>0, <5>1, <5>4 DEF StampOK, Entitled
      <4>2. CASE config.Shards[k] = gid(s) /\ LatestConfig(own).Shards[k] = gid(s)
        <5>1. state.ShardTimestamp[k] = latest
          BY <3>1, <3>2, <4>2
        <5>2. previousOwner(k) = gid(s)
          BY <1>4, <3>1, <4>2 DEF previousOwner
        <5> QED
          BY <4>0, <5>1, <5>2 DEF StampOK, Entitled
      <4>3. CASE ~(config.Shards[k] = gid(s) /\ (config.Num = 1 \/ LatestConfig(own).Shards[k] = gid(s)))
        <5>1. \/ state.ShardTimestamp[k] = 0 /\ latest = 1
              \/ state.ShardTimestamp[k] = snap[s].ShardTimestamp[k]
          BY <1>1, <3>1, <3>2, <4>3
        <5>2. StampOK(s, k, snap[s].ShardTimestamp[k])
          BY <1>2
        <5> QED
          BY <5>1, <5>2 DEF StampOK
      <4> QED
        BY <4>1, <4>2, <4>3
    <3>6. /\ Len(state.AllConfigs) = Len(configs)
          /\ Len(state.AllConfigs) >= Len(configs) - 1
      BY <1>1, <3>3
    <3> QED
      BY <1>6, <2>5, <3>1, <3>4, <3>5, <3>6
  <2> QED
    BY <2>6, <2>7
<1>7. CASE op.Type = "AcquireShard"
  <2>1. /\ state.AllConfigs = own.AllConfigs
        /\ \A k \in Shard :
              \/ state.ShardTimestamp[k] = own.ShardTimestamp[k]
              \/ /\ k = op.ShardId /\ state.ShardTimestamp[k] = op.ShardConfigNum
                 /\ op.ShardConfigNum > own.ShardTimestamp[k]
    BY <1>1, <1>3, <1>7, handleAcquireShardOK DEF applyOp
  <2>2. StampOK(s, op.ShardId, op.ShardConfigNum)
    BY <1>7 DEF Inv, StampsOK
  <2>3. op.ShardConfigNum \in Nat /\ ~NeedSendBackCh(op)
    BY <1>3, <1>7 DEF Op, ClientOp, NeedSendBackCh
  <2> HIDE DEF own
  <2>4. \A k \in Shard : StampOK(s, k, state.ShardTimestamp[k])
    BY <1>1, <1>2, <2>1, <2>2
  <2>5. allShardsUpToDate(own, gid(s)) => allShardsUpToDate(state, gid(s))
    <3>1. LatestConfig(own) = LatestConfig(state)
      BY <2>1 DEF LatestConfig
    <3>2. LatestConfig(own).Num \in Nat
      BY <1>1, LatestConfigOK DEF Config
    <3>3. \A k \in Shard : state.ShardTimestamp[k] >= own.ShardTimestamp[k]
                           /\ state.ShardTimestamp[k] \in Nat /\ own.ShardTimestamp[k] \in Nat
      BY <1>1, <2>1, <2>3
    <3> DEFINE num == LatestConfig(own).Num
    <3>4. \A k \in Shard : state.ShardTimestamp[k] < num => own.ShardTimestamp[k] < num
      <4> HIDE DEF num
      <4>1. num \in Nat
        BY <3>2 DEF num
      <4> QED
        BY <3>3, <4>1
    <3> QED
      BY <3>1, <3>4 DEF allShardsUpToDate, laggingShards
  <2> QED
    BY <1>1, <1>2, <1>5, <1>7, <2>1, <2>3, <2>4, <2>5 DEF Follows
<1>8. CASE op.Type \notin {"InstallShardConfig", "AcquireShard"}
  <2>1. op \in ClientOp
    BY <1>3, <1>8 DEF Op
  <2>2. state = handleClientOp(own, gid(s), op)
    BY <1>8 DEF applyOp
  <2>3. state.AllConfigs = own.AllConfigs /\ state.ShardTimestamp = own.ShardTimestamp
    BY <1>1, <2>1, <2>2, handleClientOpOK
  <2> HIDE DEF own
  <2>4. allShardsUpToDate(own, gid(s)) = allShardsUpToDate(state, gid(s))
    BY <2>3 DEF allShardsUpToDate, laggingShards, LatestConfig
  <2> QED
    BY <1>1, <1>2, <1>5, <1>8, <2>3, <2>4 DEF Follows
<1> QED
  BY <1>6, <1>7, <1>8

(* Here snapshots are needed: an entry that changes configuration or shards is in the
   snapshot as soon as it is applied. *)
LEMMA handleCommandApplyInv ==
    ASSUME Inv, maxraftstate # -1, NEW s \in Server, NEW answered, handleCommandApply(s, answered)
    PROVE  Inv'
<1> DEFINE index == kv[s].applied + 1
           op == log[s][index].op
           state == applyOp(kv[s].state, gid(s), op)
<1>1. /\ index \in 1 .. Len(log[s]) /\ kv[s].applied \in Nat
      /\ \A t \in Server : kv'[t].state = IF t = s THEN state ELSE kv[t].state
      /\ \A t \in Server : kv'[t].lagging = kv[t].lagging
      /\ \A t \in Server : t # s => kv'[t] = kv[t] /\ snap'[t] = snap[t] /\ log'[t] = log[t]
      /\ \/ /\ takesSnapshot(s, op) /\ snap'[s] = state /\ kv'[s].applied = 0
            /\ log'[s] = SubSeq(log[s], index + 1, Len(log[s]))
         \/ /\ ~takesSnapshot(s, op) /\ kv'[s].applied = index
            /\ UNCHANGED <<snap, log>>
  BY applyFacts DEF Inv
<1>2. TypeInv' /\ UNCHANGED <<configs, fetches>>
  BY handleCommandApplyTypes DEF Inv, handleCommandApply
<1>3. /\ Follows(state)
      /\ Len(state.AllConfigs) >= Len(configs) - 1
      /\ Len(state.AllConfigs) # Len(configs) => allShardsUpToDate(state, gid(s))
      /\ \A k \in Shard : StampOK(s, k, state.ShardTimestamp[k])
      /\ Len(state.AllConfigs) = Len(configs) <=>
            \/ Len(snap[s].AllConfigs) = Len(configs)
            \/ op.Type = "InstallShardConfig" /\ op.ShardConfig.Num = latest
      /\ NeedSendBackCh(op) => /\ state.AllConfigs = snap[s].AllConfigs
                               /\ state.ShardTimestamp = snap[s].ShardTimestamp
  <2>1. kv[s].applied >= 0 /\ index \in 1 .. Len(log[s])
    BY <1>1
  <2> HIDE DEF index
  <2>2. ASSUME NEW o, o = op, NEW st, st = applyOp(kv[s].state, gid(s), o)
        PROVE  /\ Follows(st)
               /\ Len(st.AllConfigs) >= Len(configs) - 1
               /\ Len(st.AllConfigs) # Len(configs) => allShardsUpToDate(st, gid(s))
               /\ \A k \in Shard : StampOK(s, k, st.ShardTimestamp[k])
               /\ Len(st.AllConfigs) = Len(configs) <=>
                     \/ Len(snap[s].AllConfigs) = Len(configs)
                     \/ o.Type = "InstallShardConfig" /\ o.ShardConfig.Num = latest
               /\ NeedSendBackCh(o) => /\ st.AllConfigs = snap[s].AllConfigs
                                       /\ st.ShardTimestamp = snap[s].ShardTimestamp
    BY <2>1, <2>2, applyStates
  <2> QED
    BY <2>2
<1>4. ~takesSnapshot(s, op) => NeedSendBackCh(op)
  BY DEF takesSnapshot
<1>5. ServerOK(s) /\ log[s] \in Seq(Entry) /\ Len(log[s]) \in Nat
  BY sizes DEF Inv
<1>6. \A i \in 1 .. index : i \in 1 .. Len(log[s]) /\ (i = index \/ NeedSendBackCh(log[s][i].op))
  <2>1. \A i \in 1 .. index : i \in 1 .. Len(log[s]) /\ (i = index \/ i \in 1 .. kv[s].applied)
    BY <1>1, <1>5
  <2> QED
    BY <1>5, <2>1 DEF ServerOK
<1> HIDE DEF state
(* the entries that are left *)
<1>7. \A i \in 1 .. Len(log'[s]) : \E j \in 1 .. Len(log[s]) : log'[s][i] = log[s][j]
  <2>1. CASE log'[s] = SubSeq(log[s], index + 1, Len(log[s]))
    <3>1. /\ Len(log'[s]) = Len(log[s]) - index
          /\ \A i \in 1 .. Len(log[s]) - index :
                log'[s][i] = log[s][index + i] /\ index + i \in 1 .. Len(log[s])
      <4> DEFINE len == Len(log[s])
      <4>1. len \in Nat /\ index \in 1 .. len
        BY <1>1, <1>5
      <4> HIDE DEF len, index
      <4> DEFINE l == log[s]
                 m == log'[s]
      <4>2. l \in Seq(Entry) /\ len = Len(l) /\ m = SubSeq(l, index + 1, len)
        BY <1>5, <2>1 DEF len
      <4> HIDE DEF l, m
      <4>3. /\ Len(m) = len - index
            /\ \A i \in 1 .. len - index : m[i] = l[index + i] /\ index + i \in 1 .. len
        BY <4>1, <4>2
      <4> QED
        BY <4>3 DEF len, l, m
    <3> QED
      BY <3>1
  <2>2. CASE log' = log
    BY <2>2
  <2> QED
    BY <1>1, <2>1, <2>2
<1>7a. \A t \in Server : \A i \in 1 .. Len(log'[t]) :
         \E j \in 1 .. Len(log[t]) : log'[t][i] = log[t][j]
  <2> TAKE t \in Server
  <2>1. CASE t = s
    BY <1>7, <2>1
  <2>2. CASE t # s
    <3>1. log'[t] = log[t]
      BY <1>1, <2>2
    <3> QED
      BY <3>1
  <2> QED
    BY <2>1, <2>2
<1>8. \A j \in 1 .. Len(log[s]) : \/ j \in 1 .. index
                                  \/ \E i \in 1 .. Len(log'[s]) : log'[s][i] = log[s][j]
  <2>1. CASE log'[s] = SubSeq(log[s], index + 1, Len(log[s]))
    <3> DEFINE len == Len(log[s])
    <3>1. len \in Nat /\ index \in 1 .. len
      BY <1>1, <1>5
    <3> TAKE j \in 1 .. len
    <3>2. CASE j > index
      <4> HIDE DEF len, index
      <4>1. j - index \in 1 .. len - index
        BY <3>1, <3>2
      <4>2. Len(log'[s]) = len - index /\ log'[s][j - index] = log[s][j]
        BY <1>5, <2>1, <3>1, <3>2, <4>1 DEF len
      <4> QED
        BY <4>1, <4>2
    <3>3. ~(j > index) => j \in 1 .. index
      <4> HIDE DEF len, index
      <4> QED
        BY <3>1
    <3> QED
      BY <3>2, <3>3
  <2>2. CASE log' = log
    BY <2>2
  <2> QED
    BY <1>1, <2>1, <2>2
<1>9. \A t \in Server : Reached(t)' = Reached(t)
  <2> TAKE t \in Server
  <2>1. CASE t # s
    BY <1>1, <1>2, <2>1 DEF Reached, latest
  <2>2. CASE UNCHANGED <<snap, log>>
    BY <1>2, <2>2 DEF Reached, latest
  <2>3. CASE t = s /\ snap'[s] = state
    <3> DEFINE brings(e) == e.op.Type = "InstallShardConfig" /\ e.op.ShardConfig.Num = latest
    <3>1. Reached(s) = \/ Len(snap[s].AllConfigs) = Len(configs)
                       \/ \E i \in 1 .. Len(log[s]) : brings(log[s][i])
      BY DEF Reached
    <3>2. Reached(s)' = \/ Len(snap'[s].AllConfigs) = Len(configs)
                        \/ \E i \in 1 .. Len(log'[s]) : brings(log'[s][i])
      BY <1>2 DEF Reached, latest
    <3>3. \A i \in 1 .. index : i \in 1 .. Len(log[s]) /\ (brings(log[s][i]) => i = index)
      BY <1>6 DEF NeedSendBackCh
    <3>4. Len(state.AllConfigs) = Len(configs) <=>
             Len(snap[s].AllConfigs) = Len(configs) \/ brings(log[s][index])
      BY <1>3
    <3>5. index \in 1 .. Len(log[s])
      BY <1>1
    <3> HIDE DEF brings, index
    <3> QED
      BY <1>7, <1>8, <2>3, <3>1, <3>2, <3>3, <3>4, <3>5
  <2> QED
    BY <1>1, <2>1, <2>2, <2>3
<1>10. GroupsOK'
  BY <1>9 DEF Inv, GroupsOK
<1>11. NumbersOK'
  <2>1. ASSUME NEW t \in Server, NEW i \in 1 .. Len(log'[t])
        PROVE  log'[t][i].op.Type = "InstallShardConfig" =>
                 \E n \in 1 .. Len(configs) : log'[t][i].op.ShardConfig = configs[n]
    <3>1. PICK j \in 1 .. Len(log[t]) : log'[t][i] = log[t][j]
      BY <1>7a
    <3> QED
      BY <3>1 DEF Inv, NumbersOK
  <2> QED
    BY <1>2, <2>1 DEF Inv, NumbersOK
<1>12. \A t \in Server : \A k, n : StampOK(t, k, n)' = StampOK(t, k, n)
  BY <1>2, <1>9 DEF StampOK, Entitled, Released, previousOwner, latest
<1>13. StampsOK'
  <2>1. ASSUME NEW t \in Server, NEW k \in Shard
        PROVE  StampOK(t, k, snap'[t].ShardTimestamp[k])
    <3>1. CASE snap'[t] = snap[t]
      BY <3>1 DEF Inv, StampsOK
    <3>2. CASE t = s /\ snap'[s] = state
      BY <1>3, <3>2
    <3> QED
      BY <1>1, <3>1, <3>2
  <2>2. ASSUME NEW t \in Server, NEW i \in 1 .. Len(log'[t]), log'[t][i].op.Type = "AcquireShard"
        PROVE  StampOK(t, log'[t][i].op.ShardId, log'[t][i].op.ShardConfigNum)
    <3>1. PICK j \in 1 .. Len(log[t]) : log'[t][i] = log[t][j]
      BY <1>7a
    <3> QED
      BY <2>2, <3>1 DEF Inv, StampsOK
  <2>3. ASSUME NEW t \in Server, NEW k \in Shard
        PROVE  StampOK(t, k, snap[t].ShardTimestamp[k])'
    BY <1>2, <1>9, <2>1 DEF StampOK, Entitled, Released, previousOwner, latest
  <2>4. ASSUME NEW t \in Server, NEW i \in 1 .. Len(log'[t]), log'[t][i].op.Type = "AcquireShard"
        PROVE  StampOK(t, log[t][i].op.ShardId, log[t][i].op.ShardConfigNum)'
    BY <1>2, <1>9, <2>2, <2>4 DEF StampOK, Entitled, Released, previousOwner, latest
  <2> QED
    BY <2>3, <2>4 DEF StampsOK
<1>14. \A f \in fetches' : FetchOK(f)'
  BY <1>2, <1>9 DEF Inv, FetchOK, Released, latest, owner
<1>15. ServerOK(s)'
  <2>1. CASE takesSnapshot(s, op) /\ snap'[s] = state /\ kv'[s].applied = 0
    <3>1. kv'[s].state = snap'[s] /\ (\A i \in 1 .. 0 : NeedSendBackCh(log'[s][i].op))
      BY <1>1, <2>1
    <3>2. kv'[s].lagging # {} => Len(snap'[s].AllConfigs) = Len(configs)
      BY <1>1, <1>3, <1>5, <2>1 DEF ServerOK
    <3> QED
      BY <1>2, <1>3, <2>1, <3>1, <3>2 DEF ServerOK, Follows
  <2>2. CASE /\ ~takesSnapshot(s, op) /\ kv'[s].applied = index
             /\ UNCHANGED <<snap, log>>
    <3>1. kv'[s].state = state /\ NeedSendBackCh(op)
      BY <1>1, <1>4, <2>2
    <3>2. \A i \in 1 .. index : NeedSendBackCh(log[s][i].op)
      BY <1>6, <3>1
    <3>3. index >= 0 /\ kv'[s].lagging = kv[s].lagging
      BY <1>1
    <3> HIDE DEF index, op
    <3> QED
      BY <1>2, <1>3, <1>5, <2>2, <3>1, <3>2, <3>3 DEF ServerOK, Follows
  <2> QED
    BY <1>1, <2>1, <2>2
<1>16. \A t \in Server : ServerOK(t)'
  <2> TAKE t \in Server
  <2>1. CASE t # s
    <3>1. kv'[t] = kv[t] /\ snap'[t] = snap[t] /\ log'[t] = log[t] /\ ServerOK(t)
      BY <1>1, <2>1 DEF Inv
    <3> QED
      BY <1>2, <3>1 DEF ServerOK, Follows
  <2> QED
    BY <1>15, <2>1
<1> QED
  BY <1>2, <1>10, <1>11, <1>13, <1>14, <1>16 DEF Inv

(* Here the waiting is needed: when the controller moves on, no log brings anybody to
   the last configuration and no number is the new one. *)
LEMMA reconfigureInv ==
    ASSUME Inv, Settled, NEW ctrlerOp \in CtrlerOp, reconfigure(ctrlerOp)
    PROVE  Inv'
<1>1. TypeInv'
  BY reconfigureTypes DEF Inv
<1>2. PICK c \in Config : configs' = Append(configs, c) /\ c.Num = configs[Len(configs)].Num + 1
  BY reconfigureTypes DEF Inv
<1>3. UNCHANGED <<log, kv, fetches, snap>> /\ settled
  BY DEF reconfigure
<1> DEFINE all == Len(configs)
<1>4. /\ configs \in Seq(Config) /\ all \in Nat \ {0}
      /\ Len(configs') = all + 1 /\ configs'[all + 1] = c
      /\ \A n \in 1 .. all : configs'[n] = configs[n]
  BY <1>2, sizes DEF Inv
<1>5. fetches' = {}
  BY <1>3 DEF settled
<1>6. ASSUME NEW s \in Server
      PROVE  /\ kv[s].applied = Len(log[s]) /\ kv[s].lagging = {} /\ Len(log[s]) \in Nat
             /\ kv[s].state.AllConfigs = snap[s].AllConfigs
             /\ kv[s].state.ShardTimestamp = snap[s].ShardTimestamp
             /\ Len(snap[s].AllConfigs) = all
             /\ allShardsUpToDate(snap[s], gid(s))
             /\ \A i \in 1 .. Len(log[s]) : NeedSendBackCh(log[s][i].op)
  <2>1. /\ kv[s].applied = Len(log[s]) /\ kv[s].lagging = {}
        /\ LatestConfig(kv[s].state).Num = all - 1 /\ allShardsUpToDate(kv[s].state, gid(s))
    BY <1>3 DEF settled, migrated, current
  <2>2. Len(log[s]) \in Nat /\ ServerOK(s)
    BY sizes DEF Inv
  <2>3. /\ kv[s].state.AllConfigs = snap[s].AllConfigs
        /\ kv[s].state.ShardTimestamp = snap[s].ShardTimestamp
    BY <2>1, <2>2 DEF ServerOK
  <2>4. allShardsUpToDate(snap[s], gid(s))
    BY <2>1, <2>3 DEF allShardsUpToDate, laggingShards, LatestConfig
  <2>5. Len(snap[s].AllConfigs) = all
    <3> DEFINE m == Len(snap[s].AllConfigs)
    <3>1. m \in Nat \ {0} /\ m \in 1 .. m
      BY sizes DEF Inv
    <3>2. m <= all /\ snap[s].AllConfigs[m] = configs[m]
      BY <2>2, <3>1 DEF ServerOK, Follows
    <3>3. m \in 1 .. all
      BY <1>4, <3>1, <3>2
    <3>4. configs[m].Num = m - 1
      BY <3>3 DEF Inv, NumbersOK
    <3>5. m - 1 = all - 1
      BY <2>1, <2>3, <3>2, <3>4 DEF LatestConfig
    <3> HIDE DEF m, all
    <3> QED
      BY <1>4, <3>1, <3>5 DEF m
  <2> QED
    BY <2>1, <2>2, <2>3, <2>4, <2>5 DEF ServerOK
<1>7. ASSUME NEW s \in Server, NEW i \in 1 .. Len(log[s])
      PROVE  log[s][i].op.Type \notin {"InstallShardConfig", "AcquireShard"}
  BY <1>6 DEF NeedSendBackCh
<1>8. NumbersOK'
  <2>1. \A n \in 1 .. all + 1 : configs'[n].Num = n - 1
    <3> TAKE n \in 1 .. all + 1
    <3>1. CASE n \in 1 .. all
      BY <1>4, <3>1 DEF Inv, NumbersOK
    <3>2. CASE n = all + 1
      <4>1. all \in 1 .. all
        BY <1>4
      <4>2. configs[all].Num = all - 1
        BY <4>1 DEF Inv, NumbersOK
      <4>3. c.Num = all
        <5> HIDE DEF all
        <5> QED
          BY <1>2, <1>4, <4>2 DEF all
      <4> QED
        BY <1>4, <3>2, <4>3
    <3> QED
      BY <1>4, <3>1, <3>2
  <2>2. configs'[1] = initialConfig
    BY <1>4 DEF Inv, NumbersOK
  <2> QED
    BY <1>3, <1>4, <1>7, <2>1, <2>2 DEF NumbersOK
<1>9. \A s \in Server : ServerOK(s)'
  <2> TAKE s \in Server
  <2>1. Follows(snap[s])'
    <3>1. \A n \in 1 .. all : n <= all + 1 /\ snap[s].AllConfigs[n] = configs'[n]
      BY <1>4, <1>6 DEF Inv, ServerOK, Follows
    <3> QED
      BY <1>3, <1>4, <1>6, <3>1 DEF Follows
  <2>2. Len(snap[s].AllConfigs) >= Len(configs') - 1
    BY <1>4, <1>6
  <2> QED
    BY <1>3, <1>6, <2>1, <2>2 DEF ServerOK
<1>10. \A s \in Server : ~Reached(s)'
  BY <1>3, <1>4, <1>6, <1>7 DEF Reached
<1>11. GroupsOK'
  BY <1>10 DEF GroupsOK
<1>12. StampsOK'
  <2>1. \A s \in Server, k \in Shard : StampOK(s, k, snap[s].ShardTimestamp[k])'
    <3> TAKE s \in Server, k \in Shard
    <3> DEFINE n == snap[s].ShardTimestamp[k]
    <3>1. n \in Nat /\ n <= all - 1
      BY sizes DEF Inv, StampsOK, StampOK, latest
    <3>2. n' = n
      BY <1>3
    <3>3. latest' = all
      BY <1>4 DEF latest
    <3> HIDE DEF n, all
    <3>4. n' <= latest' /\ n' # latest'
      BY <1>4, <3>1, <3>2, <3>3
    <3> QED
      BY <3>4 DEF StampOK, n
  <2> QED
    BY <1>3, <1>7, <2>1 DEF StampsOK
<1> QED
  BY <1>1, <1>5, <1>8, <1>9, <1>11, <1>12 DEF Inv

LEMMA NextInv ==
    ASSUME Inv, Settled, maxraftstate # -1, [Next]_vars
    PROVE  Inv'
<1>1. CASE UNCHANGED vars
  <2>1. TypeInv'
    BY NextTypes DEF Inv
  <2> QED
    BY <1>1, <2>1, quiet, quietServer, quietFetch DEF vars
<1>2. ASSUME Len(configs) <= Len(Plan), NEW op \in Plan[Len(configs)], reconfigure(op)
      PROVE  Inv'
  <2>1. op \in CtrlerOp
    BY <1>2, PlannedOK DEF Inv
  <2> QED
    BY <1>2, <2>1, reconfigureInv
<1>3. ASSUME NEW s \in Server,
             \/ checkShards(s) \/ findLagging(s) \/ goAcquireShards(s)
             \/ installSnapshot(s) \/ StartServer(s)
             \/ \E accepted \in BOOLEAN : startInstall(s, accepted)
             \/ \E answered \in BOOLEAN : handleCommandApply(s, answered)
      PROVE  Inv'
  BY <1>3, checkShardsInv, findLaggingInv, goAcquireShardsInv, installSnapshotInv,
     StartServerInv, startInstallInv, handleCommandApplyInv
<1>4. ASSUME NEW f \in fetches,
             \/ acquireFails(f) \/ AcquireShards(f)
             \/ \E accepted \in BOOLEAN : handleAcquireShardReply(f, accepted)
      PROVE  Inv'
  BY <1>4, acquireFailsInv, AcquireShardsInv, handleAcquireShardReplyInv
<1>5. ASSUME NEW c \in Clerk,
             \/ \E type \in Calls[c], k \in Shard : begin(c, type, k)
             \/ refresh(c) \/ callFails(c) \/ refuse(c) \/ accept(c)
      PROVE  Inv'
  BY <1>5, clerkInv
<1> QED
  BY <1>1, <1>2, <1>3, <1>4, <1>5 DEF Next

(* Of two servers that have applied their logs, the one that is in the last
   configuration and has the shard from its previous owner shows that the other has
   gone on, or will before it serves again. *)
LEMMA servesOnce ==
    ASSUME Inv, NEW s \in Server, NEW t \in Server, NEW k \in Shard,
           current(s), current(t), serves(s, k), serves(t, k)
    PROVE  gid(s) = gid(t)
<1> DEFINE len(u) == Len(snap[u].AllConfigs)
           all == Len(configs)
<1>1. ASSUME NEW u \in Server, current(u), serves(u, k)
      PROVE  /\ len(u) \in Nat \ {0} /\ (len(u) = all \/ len(u) = all - 1)
             /\ configs[len(u)].Shards[k] = gid(u)
             /\ len(u) = all => snap[u].ShardTimestamp[k] = latest
             /\ len(u) # all => ~Reached(u)
  <2>1. /\ kv[u].applied = Len(log[u]) /\ Len(log[u]) \in Nat /\ ServerOK(u)
        /\ len(u) \in Nat \ {0} /\ all \in Nat \ {0}
        /\ snap[u].ShardTimestamp \in [Shard -> Nat]
    BY <1>1, sizes DEF current, Inv
  <2>2. /\ kv[u].state.AllConfigs = snap[u].AllConfigs
        /\ kv[u].state.ShardTimestamp = snap[u].ShardTimestamp
        /\ \A i \in 1 .. Len(log[u]) : NeedSendBackCh(log[u][i].op)
        /\ len(u) >= all - 1 /\ Follows(snap[u])
    BY <2>1 DEF ServerOK
  <2>3. len(u) <= all /\ snap[u].AllConfigs[len(u)] = configs[len(u)]
    <3>1. len(u) \in 1 .. len(u)
      BY <2>1
    <3> QED
      BY <2>2, <3>1 DEF Follows
  <2>4. LatestConfig(kv[u].state) = configs[len(u)]
    BY <2>2, <2>3 DEF LatestConfig
  <2>5. configs[len(u)].Num = len(u) - 1
    <3>1. len(u) \in 1 .. all
      BY <2>1, <2>3
    <3> QED
      BY <3>1 DEF Inv, NumbersOK
  <2>6. configs[len(u)].Shards[k] = gid(u) /\ ~(snap[u].ShardTimestamp[k] < len(u) - 1)
    BY <1>1, <2>2, <2>4, <2>5 DEF serves, allShardsUpToDate, laggingShards
  <2>7. snap[u].ShardTimestamp[k] <= latest
    BY DEF Inv, StampsOK, StampOK
  <2>8. len(u) # all => ~Reached(u)
    BY <2>2 DEF Reached, NeedSendBackCh
  <2>9. (len(u) = all \/ len(u) = all - 1) /\ (len(u) = all => snap[u].ShardTimestamp[k] = latest)
    <3> DEFINE m == len(u)
               n == snap[u].ShardTimestamp[k]
    <3>1. /\ m \in Nat \ {0} /\ all \in Nat \ {0} /\ n \in Nat
          /\ m >= all - 1 /\ m <= all /\ ~(n < m - 1) /\ n <= all - 1 /\ latest = all - 1
      BY <2>1, <2>2, <2>3, <2>6, <2>7 DEF latest
    <3> HIDE DEF m, n, all
    <3>2. (m = all \/ m = all - 1) /\ (m = all => n = latest)
      BY <3>1
    <3> QED
      BY <3>2 DEF m, n
  <2> QED
    BY <2>1, <2>6, <2>8, <2>9
<1>2. ASSUME NEW u \in Server, NEW v \in Server, current(u), serves(u, k), current(v), serves(v, k),
             len(u) = all, len(v) # all
      PROVE  gid(u) = gid(v)
  <2>1. /\ snap[u].ShardTimestamp[k] = latest
        /\ len(v) = all - 1 /\ len(v) \in Nat \ {0} /\ configs[all - 1].Shards[k] = gid(v)
        /\ ~Reached(v)
    BY <1>1, <1>2
  <2>2. previousOwner(k) = gid(v)
    BY <2>1 DEF previousOwner
  <2>3. Entitled(gid(u), k)
    BY <2>1 DEF Inv, StampsOK, StampOK
  <2>4. all # 1
    <3>1. all \in Nat \ {0}
      BY sizes DEF Inv
    <3> HIDE DEF all, len
    <3> QED
      BY <2>1, <3>1
  <2> QED
    BY <2>1, <2>2, <2>3, <2>4 DEF Entitled, Released
<1>3. CASE len(s) = len(t)
  BY <1>1, <1>3
<1>4. CASE len(s) # len(t)
  <2>1. (len(s) = all /\ len(t) # all) \/ (len(t) = all /\ len(s) # all)
    BY <1>1, <1>4
  <2> QED
    BY <1>2, <2>1
<1> QED
  BY <1>3, <1>4

(* OneGroupServes of ShardKV for every number of groups, servers, shards and clerks and
   every list of changes: if whoever changes the configuration waits until the groups
   have settled, and the servers take snapshots, no two groups serve a shard at the same
   time, through crashes, lost calls and late replies. *)
THEOREM Exclusive == Settled /\ maxraftstate # -1 => (Spec => []OneGroupServes)
<1> SUFFICES ASSUME Settled, maxraftstate # -1 PROVE Spec => []OneGroupServes
  OBVIOUS
<1>1. Init => Inv
  BY InitInv
<1>2. Inv /\ [Next]_vars => Inv'
  BY NextInv
<1>3. Inv => OneGroupServes
  BY servesOnce DEF OneGroupServes
<1> QED
  BY <1>1, <1>2, <1>3, PTL DEF Spec

-----------------------------------------------------------------------------
(* What the operations of the log do to the values and to ClientLastRequest *)

LEMMA installEffect ==
    ASSUME NEW state \in State, NEW g, NEW config \in Config
    PROVE  LET new == handleInstallShardConfig(state, g, config) IN
           /\ new.ClientLastRequest = state.ClientLastRequest
           /\ \A k \in Shard : \/ new.ShardKVStore[k] = state.ShardKVStore[k]
                               \/ config.Num = 1 /\ new.ShardKVStore[k] = <<>>
<1> DEFINE new == handleInstallShardConfig(state, g, config)
           old == LatestConfig(state)
           store == IF config.Num = 1 THEN [k \in Shard |-> <<>>] ELSE state.ShardKVStore
           stamps == [k \in Shard |->
                        IF config.Shards[k] = g /\ (config.Num = 1 \/ old.Shards[k] = g)
                        THEN config.Num
                        ELSE IF config.Num = 1 THEN 0 ELSE state.ShardTimestamp[k]]
           all == Append(state.AllConfigs, config)
<1>1. CASE config.Num # old.Num + 1
  BY <1>1 DEF handleInstallShardConfig
<1>2. CASE config.Num = old.Num + 1
  <2>1. new = [state EXCEPT !.AllConfigs = all, !.ShardKVStore = store,
                            !.ShardTimestamp = stamps]
    BY <1>2 DEF handleInstallShardConfig
  <2> HIDE DEF new, store, stamps, all
  <2>2. /\ new.ClientLastRequest = state.ClientLastRequest
        /\ new.ShardKVStore = store
    BY <2>1 DEF State
  <2>3. \A k \in Shard : \/ store[k] = state.ShardKVStore[k]
                         \/ config.Num = 1 /\ store[k] = <<>>
    BY DEF store
  <2> QED
    BY <2>2, <2>3 DEF new
<1> QED
  BY <1>1, <1>2

LEMMA acquireEffect ==
    ASSUME NEW state \in State, NEW op \in Op, op.Type = "AcquireShard"
    PROVE  LET new == handleAcquireShard(state, op) IN
           /\ new.ClientLastRequest =
                 mergeLastRequests(state.ClientLastRequest, op.ClientLastRequest)
           /\ \A k \in Shard :
                 new.ShardKVStore[k] = IF k = op.ShardId /\ newer(state, op) THEN op.ShardData
                                       ELSE state.ShardKVStore[k]
           /\ \A k \in Shard :
                 new.ShardTimestamp[k] =
                    IF k = op.ShardId /\ newer(state, op) THEN op.ShardConfigNum
                    ELSE state.ShardTimestamp[k]
<1> DEFINE requests == mergeLastRequests(state.ClientLastRequest, op.ClientLastRequest)
           merged == [state EXCEPT !.ClientLastRequest = requests]
           new == handleAcquireShard(state, op)
           k0 == op.ShardId
<1>1. k0 \in Shard
  BY DEF Op, ClientOp
<1> HIDE DEF requests
<1>2. /\ merged.ShardKVStore = state.ShardKVStore /\ merged.ClientLastRequest = requests
      /\ merged.ShardTimestamp = state.ShardTimestamp
      /\ merged = [AllConfigs |-> state.AllConfigs, ShardKVStore |-> state.ShardKVStore,
                   ShardTimestamp |-> state.ShardTimestamp, ClientLastRequest |-> requests]
  BY DEF State
<1> HIDE DEF merged
<1>3. state.ShardKVStore \in [Shard -> Value] /\ state.ShardTimestamp \in [Shard -> Nat]
  BY DEF State
<1>4. CASE newer(state, op)
  <2>1. new = [merged EXCEPT !.ShardTimestamp[k0] = op.ShardConfigNum,
                             !.ShardKVStore[k0] = op.ShardData]
    BY <1>4 DEF handleAcquireShard, merged, requests
  <2> HIDE DEF new, k0
  <2>2. /\ new.ClientLastRequest = requests
        /\ new.ShardKVStore = [merged.ShardKVStore EXCEPT ![k0] = op.ShardData]
        /\ new.ShardTimestamp = [merged.ShardTimestamp EXCEPT ![k0] = op.ShardConfigNum]
    BY <1>2, <2>1
  <2>3. \A k \in Shard : /\ new.ShardKVStore[k] = IF k = k0 THEN op.ShardData
                                                  ELSE state.ShardKVStore[k]
                         /\ new.ShardTimestamp[k] = IF k = k0 THEN op.ShardConfigNum
                                                  ELSE state.ShardTimestamp[k]
    BY <1>1, <1>2, <1>3, <2>2
  <2> QED
    BY <1>4, <2>2, <2>3 DEF new, requests, k0
<1>5. CASE ~newer(state, op)
  <2>1. new = merged
    BY <1>5 DEF handleAcquireShard, merged, requests
  <2> QED
    BY <1>2, <1>5, <2>1 DEF requests
<1> QED
  BY <1>4, <1>5

LEMMA clientEffect ==
    ASSUME NEW state \in State, NEW g, NEW op \in ClientOp
    PROVE  LET new == handleClientOp(state, g, op)
               does == verdict(state, g, op) = "OK" /\ ~isDuplicateOp(state, op)
           IN
           /\ ~does => new = state
           /\ does =>
                /\ \A c \in Clerk : new.ClientLastRequest[c] =
                      IF c = op.ClientId THEN op.RequestIndex ELSE state.ClientLastRequest[c]
                /\ \A k \in Shard : new.ShardKVStore[k] =
                      IF k = op.ShardId THEN written(state.ShardKVStore[k], op)
                      ELSE state.ShardKVStore[k]
<1> DEFINE new == handleClientOp(state, g, op)
           result == written(state.ShardKVStore[op.ShardId], op)
<1>1. CASE verdict(state, g, op) # "OK" \/ isDuplicateOp(state, op)
  BY <1>1 DEF handleClientOp
<1>2. CASE ~(verdict(state, g, op) # "OK" \/ isDuplicateOp(state, op))
  <2>1. new = [state EXCEPT !.ClientLastRequest[op.ClientId] = op.RequestIndex,
                            !.ShardKVStore[op.ShardId] = result]
    BY <1>2 DEF handleClientOp
  <2>2. op.ShardId \in Shard /\ op.ClientId \in Clerk
    BY DEF ClientOp
  <2>3. state.ShardKVStore \in [Shard -> Value]
        /\ state.ClientLastRequest \in [Clerk -> Nat \cup {missing}]
    BY DEF State, LastRequests
  <2> HIDE DEF new, result
  <2>4. /\ new.ClientLastRequest = [state.ClientLastRequest EXCEPT ![op.ClientId] = op.RequestIndex]
        /\ new.ShardKVStore = [state.ShardKVStore EXCEPT ![op.ShardId] = result]
    BY <2>1 DEF State
  <2>5. /\ \A c \in Clerk : new.ClientLastRequest[c] =
              IF c = op.ClientId THEN op.RequestIndex ELSE state.ClientLastRequest[c]
        /\ \A k \in Shard : new.ShardKVStore[k] =
              IF k = op.ShardId THEN result ELSE state.ShardKVStore[k]
    BY <2>2, <2>3, <2>4
  <2> QED
    BY <1>2, <2>5 DEF new, result
<1> QED
  BY <1>1, <1>2

-----------------------------------------------------------------------------
(* Every request is written once.  A value goes with a table that knows its requests. *)

Once(value) ==
    \A m, n \in 1 .. Len(value) : value[m] = value[n] /\ value[n][2] > 0 => m = n

Known(value, table) ==
    \A n \in 1 .. Len(value) : value[n][2] > 0 => value[n][2] <= table[value[n][1]]

Sound(value, table) == Once(value) /\ Known(value, table)

SoundState(state) == \A k \in Shard : Sound(state.ShardKVStore[k], state.ClientLastRequest)

SoundOp(op) == op.Type = "AcquireShard" => Sound(op.ShardData, op.ClientLastRequest)

OnceInv ==
    /\ TypeInv
    /\ \A s \in Server : SoundState(kv[s].state) /\ SoundState(snap[s])
    /\ \A s \in Server : \A i \in 1 .. Len(log[s]) : SoundOp(log[s][i].op)
    /\ \A f \in fetches : f.reply # Nil => Sound(f.reply.ShardData, f.reply.ClientLastRequest)

LEMMA EmptyIsSound == \A table : Sound(<<>>, table)
<1>1. Len(<<>>) = 0
  OBVIOUS
<1> QED
  BY <1>1 DEF Sound, Once, Known

LEMMA makeStateSound == SoundState(makeState)
<1>1. \A k \in Shard : makeState.ShardKVStore[k] = <<>>
  BY DEF makeState
<1> QED
  BY <1>1, EmptyIsSound DEF SoundState

(* A table that knows more will do. *)
LEMMA KnownMore ==
    ASSUME NEW value \in Value, NEW old \in LastRequests, NEW new \in LastRequests,
           Sound(value, old), \A c \in Clerk : old[c] > 0 => old[c] <= new[c]
    PROVE  Sound(value, new)
<1> SUFFICES ASSUME NEW n \in 1 .. Len(value), value[n][2] > 0
             PROVE  value[n][2] <= new[value[n][1]]
  BY DEF Sound, Known
<1>1. value[n][1] \in Clerk /\ value[n][2] \in Nat
  BY DEF Value
<1>2. value[n][2] <= old[value[n][1]]
  BY DEF Sound, Known
<1>3. old[value[n][1]] \in Int /\ new[value[n][1]] \in Int
  BY <1>1 DEF LastRequests
<1> QED
  BY <1>1, <1>2, <1>3

(* What mergeLastRequests keeps. *)
LEMMA mergeKeeps ==
    ASSUME NEW own \in LastRequests, NEW theirs \in LastRequests
    PROVE  LET both == mergeLastRequests(own, theirs) IN
           /\ both \in LastRequests
           /\ \A c \in Clerk : /\ own[c] <= both[c]
                               /\ theirs[c] > 0 => theirs[c] <= both[c]
                               /\ both[c] = own[c] \/ both[c] = theirs[c]
<1> SUFFICES ASSUME NEW c \in Clerk
             PROVE  LET both == mergeLastRequests(own, theirs) IN
                    /\ both[c] \in Nat \cup {missing}
                    /\ own[c] <= both[c]
                    /\ theirs[c] > 0 => theirs[c] <= both[c]
                    /\ both[c] = own[c] \/ both[c] = theirs[c]
  <2>1. mergeLastRequests(own, theirs) =
          [c \in Clerk |-> mergeLastRequests(own, theirs)[c]]
    BY DEF mergeLastRequests
  <2> QED
    BY <2>1 DEF LastRequests
<1>1. own[c] \in Nat \cup {-1} /\ theirs[c] \in Nat \cup {-1}
  BY DEF LastRequests
<1>2. mergeLastRequests(own, theirs)[c] =
        IF (IF own[c] = missing THEN 0 ELSE own[c]) < theirs[c] THEN theirs[c] ELSE own[c]
  BY DEF mergeLastRequests
<1> QED
  BY <1>1, <1>2

(* A request that the table does not know is new to the value. *)
LEMMA writtenSound ==
    ASSUME NEW value \in Value, NEW old \in LastRequests, NEW op \in ClientOp,
           NEW new \in LastRequests, Sound(value, old), op.RequestIndex > old[op.ClientId],
           \A c \in Clerk : new[c] = IF c = op.ClientId THEN op.RequestIndex ELSE old[c]
    PROVE  Sound(written(value, op), new)
<1> DEFINE tk == token(op)
<1>1. /\ op.ClientId \in Clerk /\ op.RequestIndex \in Nat
      /\ op.Type \in {"GET", "PUT", "APPEND"}
  BY DEF ClientOp
<1>2. tk[1] = op.ClientId /\ tk[2] = op.RequestIndex /\ tk \in Clerk \X Nat
  BY <1>1 DEF token
<1>3. \A c \in Clerk : old[c] \in Int /\ old[c] <= new[c]
  <2> TAKE c \in Clerk
  <2>1. old[c] \in Int
    BY DEF LastRequests
  <2> QED
    BY <1>1, <2>1
<1>4. Sound(value, new)
  BY <1>3, KnownMore
<1>5. ASSUME NEW n \in 1 .. Len(value), value[n] = tk, value[n][2] > 0 PROVE FALSE
  <2>1. value[n][2] <= old[value[n][1]]
    BY <1>5 DEF Sound, Known
  <2> QED
    BY <1>1, <1>2, <1>3, <1>5, <2>1
<1>6. new[tk[1]] = op.RequestIndex
  BY <1>1, <1>2
<1> HIDE DEF tk
<1>7. CASE op.Type = "APPEND"
  <2> DEFINE w == Append(value, tk)
  <2>1. /\ Len(w) = Len(value) + 1 /\ Len(value) \in Nat
        /\ \A n \in 1 .. Len(value) : w[n] = value[n]
        /\ w[Len(value) + 1] = tk
    BY <1>2 DEF Value
  <2>2. written(value, op) = w
    BY <1>7 DEF written, tk
  <2> HIDE DEF w
  <2>3. Known(w, new)
    <3> SUFFICES ASSUME NEW n \in 1 .. Len(w), w[n][2] > 0 PROVE w[n][2] <= new[w[n][1]]
      BY DEF Known
    <3>1. CASE n \in 1 .. Len(value)
      BY <1>4, <2>1, <3>1 DEF Sound, Known
    <3>2. CASE n = Len(value) + 1
      BY <1>1, <1>2, <1>6, <2>1, <3>2
    <3> QED
      BY <2>1, <3>1, <3>2
  <2>4. Once(w)
    <3> SUFFICES ASSUME NEW m \in 1 .. Len(w), NEW n \in 1 .. Len(w), w[m] = w[n], w[n][2] > 0
                 PROVE  m = n
      BY DEF Once
    <3>1. CASE m \in 1 .. Len(value) /\ n \in 1 .. Len(value)
      BY <1>4, <2>1, <3>1 DEF Sound, Once
    <3>2. CASE m \in 1 .. Len(value) /\ n = Len(value) + 1
      BY <1>5, <2>1, <3>2
    <3>3. CASE m = Len(value) + 1 /\ n \in 1 .. Len(value)
      BY <1>5, <2>1, <3>3
    <3>4. CASE m = Len(value) + 1 /\ n = Len(value) + 1
      BY <3>4
    <3> QED
      BY <2>1, <3>1, <3>2, <3>3, <3>4
  <2> QED
    BY <2>2, <2>3, <2>4 DEF Sound
<1>8. CASE op.Type = "PUT"
  <2>1. /\ Len(<<tk>>) = 1 /\ <<tk>>[1] = tk /\ written(value, op) = <<tk>>
    BY <1>8 DEF written, tk
  <2>2. Sound(<<tk>>, new)
    BY <1>1, <1>2, <1>6, <2>1 DEF Sound, Once, Known
  <2> QED
    BY <2>1, <2>2
<1>9. CASE op.Type = "GET"
  BY <1>4, <1>9 DEF written
<1> QED
  BY <1>1, <1>7, <1>8, <1>9

(* Every operation of the log keeps the values sound. *)
LEMMA applyOpSound ==
    ASSUME NEW state \in State, Rooted(state), NEW g, NEW op \in Op, SoundState(state), SoundOp(op)
    PROVE  SoundState(applyOp(state, g, op))
<1> DEFINE new == applyOp(state, g, op)
<1>0. /\ state.ClientLastRequest \in LastRequests
      /\ \A k \in Shard : state.ShardKVStore[k] \in Value
      /\ new \in State
  BY applyOpOK DEF State
<1>1. new.ClientLastRequest \in LastRequests
  <2> HIDE DEF new
  <2> QED
    BY <1>0 DEF State
<1>2. CASE op.Type = "InstallShardConfig"
  <2>1. op.ShardConfig \in Config
    BY <1>2 DEF Op, ClientOp
  <2>2. new = handleInstallShardConfig(state, g, op.ShardConfig)
    BY <1>2 DEF applyOp
  <2> HIDE DEF new
  <2>3. /\ new.ClientLastRequest = state.ClientLastRequest
        /\ \A k \in Shard : \/ new.ShardKVStore[k] = state.ShardKVStore[k]
                            \/ new.ShardKVStore[k] = <<>>
    BY <2>1, <2>2, installEffect
  <2>4. SoundState(new)
    BY <2>3, EmptyIsSound DEF SoundState
  <2> QED
    BY <2>4 DEF new
<1>3. CASE op.Type = "AcquireShard"
  <2>1. op.ShardData \in Value /\ op.ClientLastRequest \in LastRequests
    BY <1>3 DEF Op, ClientOp
  <2>2. new = handleAcquireShard(state, op)
    BY <1>3 DEF applyOp
  <2> DEFINE both == mergeLastRequests(state.ClientLastRequest, op.ClientLastRequest)
  <2> HIDE DEF new
  <2>3. /\ new.ClientLastRequest = both
        /\ \A k \in Shard : \/ new.ShardKVStore[k] = op.ShardData
                            \/ new.ShardKVStore[k] = state.ShardKVStore[k]
    BY <1>3, <2>2, acquireEffect
  <2>4. /\ both \in LastRequests
        /\ \A c \in Clerk : /\ state.ClientLastRequest[c] <= both[c]
                            /\ op.ClientLastRequest[c] > 0 => op.ClientLastRequest[c] <= both[c]
    BY <1>0, <2>1, mergeKeeps
  <2> HIDE DEF both
  <2>5. Sound(op.ShardData, both)
    BY <1>3, <2>1, <2>4, KnownMore DEF SoundOp
  <2>6. \A k \in Shard : Sound(state.ShardKVStore[k], both)
    BY <1>0, <2>4, KnownMore DEF SoundState
  <2>7. SoundState(new)
    BY <2>3, <2>5, <2>6 DEF SoundState
  <2> QED
    BY <2>7 DEF new
<1>4. CASE op.Type \notin {"InstallShardConfig", "AcquireShard"}
  <2>1. op \in ClientOp
    BY <1>4 DEF Op
  <2>2. new = handleClientOp(state, g, op)
    BY <1>4 DEF applyOp
  <2> HIDE DEF new
  <2>3. CASE ~(verdict(state, g, op) = "OK" /\ ~isDuplicateOp(state, op))
    BY <2>1, <2>2, <2>3, clientEffect DEF new
  <2>4. CASE verdict(state, g, op) = "OK" /\ ~isDuplicateOp(state, op)
    <3>1. /\ \A c \in Clerk : new.ClientLastRequest[c] =
                IF c = op.ClientId THEN op.RequestIndex ELSE state.ClientLastRequest[c]
          /\ \A k \in Shard : new.ShardKVStore[k] =
                IF k = op.ShardId THEN written(state.ShardKVStore[k], op)
                ELSE state.ShardKVStore[k]
      BY <2>1, <2>2, <2>4, clientEffect
    <3>2. /\ op.ClientId \in Clerk /\ op.RequestIndex \in Nat
          /\ state.ClientLastRequest[op.ClientId] \in Int
      BY <1>0, <2>1 DEF ClientOp, LastRequests
    <3>3. op.RequestIndex > state.ClientLastRequest[op.ClientId]
      BY <2>4, <3>2 DEF isDuplicateOp
    <3>4. \A k \in Shard : Sound(written(state.ShardKVStore[k], op), new.ClientLastRequest)
      BY <1>0, <1>1, <2>1, <3>1, <3>3, writtenSound DEF SoundState
    <3>5. \A c \in Clerk : state.ClientLastRequest[c] <= new.ClientLastRequest[c]
      <4> TAKE c \in Clerk
      <4>1. state.ClientLastRequest[c] \in Int
        BY <1>0 DEF LastRequests
      <4> QED
        BY <3>1, <3>2, <3>3, <4>1
    <3>6. \A k \in Shard : Sound(state.ShardKVStore[k], new.ClientLastRequest)
      BY <1>0, <1>1, <3>5, KnownMore DEF SoundState
    <3>7. SoundState(new)
      BY <3>1, <3>4, <3>6 DEF SoundState
    <3> QED
      BY <3>7 DEF new
  <2> QED
    BY <2>3, <2>4
<1> QED
  BY <1>2, <1>3, <1>4

(* An action that changes no state, may add a sound command to the logs of a group, and
   leaves the replies of the fetches sound. *)
LEMMA onceKeeps ==
    ASSUME OnceInv, TypeInv', UNCHANGED snap, \A t \in Server : kv'[t].state = kv[t].state,
           \/ UNCHANGED log
           \/ \E s \in Server, op \in Op, accepted \in BOOLEAN :
                 Start(s, op, accepted) /\ SoundOp(op),
           \A f \in fetches' : f.reply # Nil => \/ f \in fetches
                                                \/ Sound(f.reply.ShardData, f.reply.ClientLastRequest)
    PROVE  OnceInv'
<1>1. \A s \in Server : SoundState(kv'[s].state) /\ SoundState(snap'[s])
  BY DEF OnceInv
<1>2. ASSUME NEW t \in Server, NEW i \in 1 .. Len(log'[t]) PROVE SoundOp(log'[t][i].op)
  <2>1. CASE UNCHANGED log
    BY <2>1 DEF OnceInv
  <2>2. ASSUME NEW s \in Server, NEW op \in Op, NEW accepted \in BOOLEAN,
               Start(s, op, accepted), SoundOp(op)
        PROVE  SoundOp(log'[t][i].op)
    <3>1. log \in [Server -> Seq(Entry)]
      BY DEF OnceInv, TypeInv, TypeOK
    <3>2. /\ \A j \in 1 .. Len(log[t]) : j \in 1 .. Len(log'[t]) /\ log'[t][j] = log[t][j]
          /\ \A j \in 1 .. Len(log'[t]) :
                j \in 1 .. Len(log[t]) \/ (gid(t) = gid(s) /\ log'[t][j].op = op)
      <4> HIDE DEF gid
      <4> QED
        BY ONLY <2>2, <3>1, s \in Server, t \in Server, op \in Op, StartEntries
    <3> QED
      BY <2>2, <3>2 DEF OnceInv
  <2> QED
    BY <2>1, <2>2
<1>3. \A f \in fetches' : f.reply # Nil => Sound(f.reply.ShardData, f.reply.ClientLastRequest)
  BY DEF OnceInv
<1> QED
  BY <1>1, <1>2, <1>3 DEF OnceInv, SoundState, SoundOp, Sound, Once, Known

LEMMA InitOnce == Init => OnceInv
<1> SUFFICES ASSUME Init PROVE OnceInv
  OBVIOUS
<1>1. \A s \in Server : /\ kv[s].state = makeState /\ snap[s] = makeState
                        /\ log[s] = <<>> /\ Len(log[s]) = 0
  BY DEF Init, startState
<1>2. fetches = {}
  BY DEF Init
<1> QED
  BY <1>1, <1>2, InitTypes, makeStateSound DEF OnceInv

LEMMA handleCommandApplyOnce ==
    ASSUME OnceInv, NEW s \in Server, NEW answered, handleCommandApply(s, answered)
    PROVE  OnceInv'
<1> DEFINE index == kv[s].applied + 1
           op == log[s][index].op
           state == applyOp(kv[s].state, gid(s), op)
           rest == SubSeq(log[s], index + 1, Len(log[s]))
<1>0. TypeInv
  BY DEF OnceInv
<1>1. /\ index \in 1 .. Len(log[s]) /\ op \in Op
      /\ state \in State
      /\ \A t \in Server : kv'[t].state = IF t = s THEN state ELSE kv[t].state
      /\ \A t \in Server : t # s => snap'[t] = snap[t] /\ log'[t] = log[t]
      /\ \/ snap'[s] = state /\ log'[s] = rest
         \/ UNCHANGED <<snap, log>>
  BY <1>0, applyFacts
<1>2. TypeInv' /\ UNCHANGED fetches
  BY <1>0, handleCommandApplyTypes DEF handleCommandApply
<1>3. SoundState(state)
  <2>1. kv[s].state \in State /\ Rooted(kv[s].state)
    BY <1>0 DEF TypeInv, TypeOK, KVState
  <2>2. SoundOp(op) /\ SoundState(kv[s].state)
    BY <1>1 DEF OnceInv
  <2> HIDE DEF op
  <2> QED
    BY <1>1, <2>1, <2>2, applyOpSound
<1>4. log[s] \in Seq(Entry) /\ Len(log[s]) \in Nat
  BY <1>0 DEF TypeInv, TypeOK
<1>5. ASSUME NEW i \in 1 .. Len(rest) PROVE SoundOp(rest[i].op)
  <2>1. index \in Nat /\ index + 1 \in Int /\ index <= Len(log[s])
    BY <1>1, <1>4
  <2> HIDE DEF index
  <2>2. Len(rest) = Len(log[s]) - index
    BY <1>4, <2>1
  <2>3. /\ index + i \in 1 .. Len(log[s]) /\ rest[i] = log[s][index + i]
    BY <1>4, <2>1, <2>2
  <2> QED
    BY <2>3 DEF OnceInv
<1> HIDE DEF state, rest, index, op
<1>6. \A t \in Server : SoundState(kv'[t].state) /\ SoundState(snap'[t])
  BY <1>1, <1>3 DEF OnceInv
<1>7. \A t \in Server : \A i \in 1 .. Len(log'[t]) : SoundOp(log'[t][i].op)
  BY <1>1, <1>5 DEF OnceInv
<1> QED
  BY <1>2, <1>6, <1>7 DEF OnceInv, SoundState, SoundOp, Sound, Once, Known

LEMMA AcquireShardsOnce ==
    ASSUME OnceInv, NEW f \in fetches, AcquireShards(f)
    PROVE  OnceInv'
<1> DEFINE state == kv[<<owner(f), f.si>>].state
           reply == [ConfigNum         |-> LatestConfig(state).Num,
                     ShardData         |-> state.ShardKVStore[f.sid],
                     ClientLastRequest |-> state.ClientLastRequest]
           next == [f EXCEPT !.reply = reply]
<1>1. TypeInv /\ TypeInv' /\ UNCHANGED <<kv, log, snap>>
  BY AcquireShardsTypes DEF OnceInv, AcquireShards
<1>2. f \in Fetch /\ f.sid \in Shard /\ <<owner(f), f.si>> \in Server
  BY <1>1, fetchOK DEF Fetch
<1>3. fetches' = (fetches \ {f}) \cup {next}
  BY DEF AcquireShards
<1>4. next.reply = reply
  <2> HIDE DEF reply
  <2> QED
    BY <1>2 DEF Fetch
<1>5. Sound(reply.ShardData, reply.ClientLastRequest)
  BY <1>2 DEF OnceInv, SoundState
<1> HIDE DEF next, reply
<1> QED
  BY <1>1, <1>3, <1>4, <1>5, onceKeeps

LEMMA NextOnce == OnceInv /\ [Next]_vars => OnceInv'
<1> SUFFICES ASSUME OnceInv, [Next]_vars PROVE OnceInv'
  OBVIOUS
<1>0. TypeInv /\ TypeInv'
  BY NextTypes DEF OnceInv
<1>1. CASE UNCHANGED vars
  BY <1>0, <1>1, onceKeeps DEF vars
<1>2. ASSUME NEW op, reconfigure(op) PROVE OnceInv'
  BY <1>0, <1>2, onceKeeps DEF reconfigure
<1>3. ASSUME NEW s \in Server,
             \/ checkShards(s) \/ findLagging(s) \/ goAcquireShards(s)
             \/ \E accepted \in BOOLEAN : startInstall(s, accepted)
      PROVE  OnceInv'
  <2>1. \A t \in Server : kv'[t].state = kv[t].state
    <3>1. kv \in [Server -> KVState]
      BY <1>0 DEF TypeInv, TypeOK
    <3>2. CASE checkShards(s)
      BY <3>1, <3>2 DEF checkShards, KVState
    <3>3. CASE findLagging(s)
      BY <3>1, <3>3 DEF findLagging, KVState
    <3>4. CASE goAcquireShards(s)
      BY <3>1, <3>4 DEF goAcquireShards, KVState
    <3>5. CASE \E accepted \in BOOLEAN : startInstall(s, accepted)
      BY <3>1, <3>5 DEF startInstall, KVState
    <3> QED
      BY <1>3, <3>2, <3>3, <3>4, <3>5
  <2>2. UNCHANGED snap
    BY <1>3 DEF checkShards, findLagging, goAcquireShards, startInstall
  <2>3. \A f \in fetches' : f.reply # Nil => f \in fetches
    BY <1>3 DEF checkShards, findLagging, goAcquireShards, startInstall
  <2>4. CASE UNCHANGED log
    BY <1>0, <2>1, <2>2, <2>3, <2>4, onceKeeps
  <2>5. CASE ~UNCHANGED log
    <3> DEFINE num == LatestConfig(kv[s].state).Num + 1
               op == [Type |-> "InstallShardConfig", ShardConfig |-> Query(num)]
    <3>1. \E accepted \in BOOLEAN : Start(s, op, accepted)
      BY <1>3, <2>5 DEF checkShards, findLagging, goAcquireShards, startInstall
    <3>2. op \in Op /\ op.Type = "InstallShardConfig"
      <4>1. num \in Int
        <5>1. LatestConfig(kv[s].state) \in Config
          BY <1>0, sizes, LatestConfigOK
        <5> QED
          BY <5>1 DEF Config
      <4> HIDE DEF num
      <4>2. Query(num) \in Config
        BY <1>0, <4>1, QueryOK
      <4> QED
        BY <4>2 DEF Op
    <3> HIDE DEF op
    <3>3. SoundOp(op)
      BY <3>2 DEF SoundOp
    <3> QED
      BY <1>0, <2>1, <2>2, <2>3, <3>1, <3>2, <3>3, onceKeeps
  <2> QED
    BY <2>4, <2>5
<1>4. ASSUME NEW s \in Server, installSnapshot(s) PROVE OnceInv'
  <2>1. \A t \in Server : kv'[t].state = IF t = s THEN snap[s] ELSE kv[t].state
    BY <1>0, <1>4, installSnapshotTypes
  <2>2. UNCHANGED <<log, snap, fetches>>
    BY <1>4 DEF installSnapshot
  <2>3. \A t \in Server : SoundState(kv'[t].state) /\ SoundState(snap'[t])
    BY <2>1, <2>2 DEF OnceInv
  <2>4. /\ \A t \in Server : \A i \in 1 .. Len(log'[t]) : SoundOp(log'[t][i].op)
        /\ \A f \in fetches' : f.reply # Nil => Sound(f.reply.ShardData, f.reply.ClientLastRequest)
    BY <2>2 DEF OnceInv
  <2> QED
    BY <1>0, <2>3, <2>4 DEF OnceInv, SoundState, SoundOp, Sound, Once, Known
<1>5. ASSUME NEW s \in Server, StartServer(s) PROVE OnceInv'
  <2>1. \A t \in Server : kv'[t].state = IF t = s THEN makeState ELSE kv[t].state
    BY <1>0, <1>5, StartServerTypes DEF startState
  <2>2. UNCHANGED <<log, snap>> /\ fetches' \subseteq fetches
    BY <1>5 DEF StartServer
  <2>3. \A t \in Server : SoundState(kv'[t].state) /\ SoundState(snap'[t])
    BY <2>1, <2>2, makeStateSound DEF OnceInv
  <2> QED
    <3>1. /\ \A t \in Server : \A i \in 1 .. Len(log'[t]) : SoundOp(log'[t][i].op)
          /\ \A f \in fetches' : f.reply # Nil => Sound(f.reply.ShardData, f.reply.ClientLastRequest)
      BY <2>2 DEF OnceInv
    <3> QED
      BY <1>0, <2>3, <3>1 DEF OnceInv, SoundState, SoundOp, Sound, Once, Known
<1>6. ASSUME NEW s \in Server, NEW answered \in BOOLEAN, handleCommandApply(s, answered)
      PROVE  OnceInv'
  BY <1>6, handleCommandApplyOnce
<1>7. ASSUME NEW f \in fetches, acquireFails(f) PROVE OnceInv'
  <2> DEFINE next == [f EXCEPT !.si = f.si + 1]
  <2>1. UNCHANGED <<kv, log, snap>> /\ f.reply = Nil /\ fetches' \subseteq fetches \cup {next}
    BY <1>7 DEF acquireFails
  <2>2. next.reply = f.reply
    BY <1>0, fetchOK DEF Fetch
  <2> HIDE DEF next
  <2> QED
    BY <1>0, <2>1, <2>2, onceKeeps
<1>8. ASSUME NEW f \in fetches, NEW accepted \in BOOLEAN, handleAcquireShardReply(f, accepted)
      PROVE  OnceInv'
  <2> DEFINE op == acquireOp(f)
  <2>1. UNCHANGED <<kv, snap>> /\ fetches' \subseteq fetches /\ f.reply # Nil
    BY <1>8 DEF handleAcquireShardReply
  <2>2. /\ f \in Fetch /\ f.server \in Server /\ op \in Op
        /\ op.ShardData = f.reply.ShardData
        /\ op.ClientLastRequest = f.reply.ClientLastRequest
    BY <1>0, <2>1, fetchOK, acquireOpOK DEF Fetch, acquireOp
  <2>3. Start(f.server, op, accepted)
    BY <1>8 DEF handleAcquireShardReply, acquireOp
  <2> HIDE DEF op
  <2>4. SoundOp(op)
    BY <2>1, <2>2 DEF OnceInv, SoundOp
  <2> QED
    BY <1>0, <2>1, <2>2, <2>3, <2>4, onceKeeps
<1>9. ASSUME NEW c \in Clerk,
             \/ \E type \in Calls[c], k \in Shard : begin(c, type, k)
             \/ refresh(c) \/ callFails(c) \/ refuse(c) \/ accept(c)
      PROVE  OnceInv'
  <2>1. UNCHANGED <<kv, fetches, snap>>
    BY <1>9 DEF begin, refresh, callFails, refuse, accept
  <2>2. CASE UNCHANGED log
    BY <1>0, <2>1, <2>2, onceKeeps
  <2>3. CASE accept(c)
    <3> DEFINE op == clerk[c].op
               s == target(c)
    <3>1. Start(s, op, TRUE) /\ s \in Server /\ op \in ClientOp
      BY <1>0, <2>3, triesOK DEF accept
    <3>2. op \in Op /\ op.Type # "AcquireShard"
      BY <3>1 DEF Op, ClientOp
    <3> HIDE DEF op, s
    <3>3. SoundOp(op)
      BY <3>2 DEF SoundOp
    <3> QED
      BY <1>0, <2>1, <3>1, <3>2, <3>3, onceKeeps
  <2> QED
    BY <1>9, <2>2, <2>3 DEF begin, refresh, callFails, refuse
<1>10. ASSUME NEW f \in fetches, AcquireShards(f) PROVE OnceInv'
  BY <1>10, AcquireShardsOnce
<1> QED
  BY <1>1, <1>2, <1>3, <1>4, <1>5, <1>6, <1>7, <1>8, <1>9, <1>10 DEF Next

(* No request with a number above 0 is in a value twice: the table that travels with a shard
   knows every request of the value, and handleClientOp writes only what it does not know.
   This holds for every order of configurations, with or without snapshots and restarts. *)
THEOREM AtMostOnce == Spec => []WrittenOnce
<1>1. OnceInv => WrittenOnce
  <2> SUFFICES ASSUME OnceInv PROVE WrittenOnce
    OBVIOUS
  <2>1. \A s \in Server, k \in Shard : kv[s].state.ShardKVStore[k] \in Seq(Clerk \X Nat)
    BY DEF OnceInv, TypeInv, TypeOK, KVState, State, Value
  <2>2. \A s \in Server, k \in Shard :
           DOMAIN kv[s].state.ShardKVStore[k] = 1 .. Len(kv[s].state.ShardKVStore[k])
    BY <2>1
  <2> QED
    BY <2>2 DEF OnceInv, SoundState, Sound, Once, WrittenOnce
<1> QED
  BY <1>1, InitOnce, NextOnce, PTL DEF Spec

-----------------------------------------------------------------------------
(* No write is lost.  Hist is about a list of configurations, the state F[g] that the    *)
(* whole log of each group g leads to, and the set D of the clients' operations that     *)
(* were carried out, or had been before, where they entered a log.                       *)

lastNum(cs) == Len(cs) - 1
Now(cs, k) == cs[Len(cs)].Shards[k]
Before(cs, k) == cs[Len(cs) - 1].Shards[k]

(* the state has installed all of the configurations *)
AtLast(cs, state) == Len(state.AllConfigs) = Len(cs)

(* group g has shard k in the last configuration, and its data has come *)
Held(cs, F, g, k) ==
    AtLast(cs, F[g]) /\ Now(cs, k) = g /\ F[g].ShardTimestamp[k] = lastNum(cs)

Has(value, op) == \E n \in 1 .. Len(value) : value[n] = token(op)

(* the requests in a table were carried out *)
Justified(table, D) ==
    \A c \in Clerk : table[c] # missing =>
       \E o \in D : o.ClientId = c /\ o.RequestIndex = table[c]

(* the configurations and the numbers of a group *)
GroupNumbers(cs, F, g) ==
    /\ \A n \in 1 .. Len(F[g].AllConfigs) : n <= Len(cs) /\ F[g].AllConfigs[n] = cs[n]
    /\ Len(F[g].AllConfigs) >= Len(cs) - 1
    /\ \A k \in Shard : F[g].ShardTimestamp[k] <= Len(F[g].AllConfigs) - 1

(* what stays in a group is up to date; what a group has, the group before has let go *)
GroupHolds(cs, F, g) ==
    \A k \in Shard :
       /\ AtLast(cs, F[g]) /\ Len(cs) >= 2 /\ Before(cs, k) = g /\ Now(cs, k) = g =>
             F[g].ShardTimestamp[k] = lastNum(cs)
       /\ Held(cs, F, g, k) /\ Len(cs) >= 3 =>
             Before(cs, k) \in Gid /\ AtLast(cs, F[Before(cs, k)])

(* where an append is *)
Kept(cs, F, o) ==
    /\ \A g \in Gid : Held(cs, F, g, o.ShardId) => Has(F[g].ShardKVStore[o.ShardId], o)
    /\ (\A g \in Gid : ~Held(cs, F, g, o.ShardId)) /\ Len(cs) >= 2 /\ Before(cs, o.ShardId) \in Gid
          => Has(F[Before(cs, o.ShardId)].ShardKVStore[o.ShardId], o)

Hist(cs, F, D) ==
    /\ F \in [Gid -> State] /\ D \subseteq ClientOp
    /\ \A g \in Gid : /\ GroupNumbers(cs, F, g) /\ GroupHolds(cs, F, g)
                      /\ Justified(F[g].ClientLastRequest, D)
    /\ \A o \in D : /\ o.Type # "PUT" /\ Len(cs) >= 2
                    /\ Len(cs) = 2 => \E g \in Gid : Held(cs, F, g, o.ShardId)
                    /\ o.Type = "APPEND" => Kept(cs, F, o)

(* the states that log l leads to, one entry after the other; a shard that the group does
   not have in the last configuration stays as it is *)
Run(cs, F, D, g, state, l, h) ==
    /\ h[0] = state /\ h[Len(l)] = F[g]
    /\ \A i \in 1 .. Len(l) :
          /\ h[i] = applyOp(h[i - 1], g, l[i].op)
          /\ NeedSendBackCh(l[i].op) /\ verdict(h[i - 1], g, l[i].op) = "OK" => l[i].op \in D
    /\ \A i \in 0 .. Len(l) :
          /\ h[i] \in State /\ Justified(h[i].ClientLastRequest, D)
          /\ Len(h[i].AllConfigs) <= Len(cs)
          /\ AtLast(cs, h[i]) =>
                /\ AtLast(cs, F[g])
                /\ \A k \in Shard : Now(cs, k) # g => h[i].ShardKVStore[k] = F[g].ShardKVStore[k]

(* the log of server s, and where s is in it *)
Runs(F, D, s) ==
    \E h : /\ Run(configs, F, D, gid(s), snap[s], log[s], h)
           /\ kv[s].applied >= 0 => kv[s].state = h[kv[s].applied]

(* what a fetch has got is what the group before has, for good *)
Brings(F, D, f) ==
    /\ AtLast(configs, F[gid(f.server)]) /\ Now(configs, f.sid) = gid(f.server)
    /\ f.reply # Nil =>
          /\ Justified(f.reply.ClientLastRequest, D)
          /\ f.reply.ConfigNum = lastNum(configs) /\ owner(f) # gid(f.server) =>
                /\ AtLast(configs, F[owner(f)])
                /\ f.reply.ShardData = F[owner(f)].ShardKVStore[f.sid]

LaggingOK(s) == \A k \in kv[s].lagging : Now(configs, k) = gid(s)

(* a request of D is an old one of its clerk, or the one the clerk is in *)
ClerkOK(D, c) ==
    /\ clerk[c].op # Nil => /\ clerk[c].op.ClientId = c /\ clerk[c].op.Type # "PUT"
                            /\ clerk[c].op.RequestIndex = clerk[c].requestIndex - 1
    /\ \A o \in D : o.ClientId = c =>
          /\ o.RequestIndex < clerk[c].requestIndex
          /\ clerk[c].op # Nil /\ o.RequestIndex = clerk[c].requestIndex - 1 => o = clerk[c].op
    /\ \A o \in clerk[c].acked : o \in D /\ o.Type = "APPEND"

Story(F, D) ==
    /\ Hist(configs, F, D)
    /\ \A s \in Server : Runs(F, D, s)
    /\ \A f \in fetches : Brings(F, D, f)
    /\ \A s \in Server : LaggingOK(s)
    /\ \A c \in Clerk : ClerkOK(D, c)

HistInv == Inv /\ \E F, D : Story(F, D)

ConfigsOK(cs) ==
    /\ cs \in Seq(Config) /\ Len(cs) \in Nat \ {0} /\ cs[1] = initialConfig
    /\ \A n \in 1 .. Len(cs) : cs[n].Num = n - 1

(* The configuration a group is in is the last one or the one before. *)
LEMMA groupConfig ==
    ASSUME NEW cs, ConfigsOK(cs), NEW F \in [Gid -> State], NEW g \in Gid, GroupNumbers(cs, F, g)
    PROVE  LET m == Len(F[g].AllConfigs) IN
           /\ m \in 1 .. Len(cs) /\ m >= Len(cs) - 1
           /\ LatestConfig(F[g]) = cs[m] /\ cs[m] \in Config /\ cs[m].Num = m - 1
<1> DEFINE m == Len(F[g].AllConfigs)
<1>1. F[g] \in State /\ m \in Nat \ {0} /\ LatestConfig(F[g]) = F[g].AllConfigs[m]
  BY LatestConfigOK
<1>2. m \in 1 .. m
  BY <1>1
<1> HIDE DEF m
<1>3. m <= Len(cs) /\ F[g].AllConfigs[m] = cs[m] /\ m >= Len(cs) - 1
  BY <1>2 DEF GroupNumbers, m
<1>4. m \in 1 .. Len(cs)
  BY <1>1, <1>3 DEF ConfigsOK
<1>5. cs[m] \in Config /\ cs[m].Num = m - 1
  BY <1>4 DEF ConfigsOK
<1> QED
  BY <1>1, <1>3, <1>4, <1>5 DEF m

(* Group 0 had everything at first. *)
LEMMA firstConfig ==
    ASSUME NEW cs, ConfigsOK(cs), NEW k \in Shard
    PROVE  cs[1].Shards[k] = 0 /\ cs[1].Shards[k] \notin Gid
  BY ZeroIsNoGroup DEF ConfigsOK, initialConfig

(* A group that serves a shard holds it, or held it in the configuration before and nobody
   holds it now. *)
LEMMA served ==
    ASSUME NEW cs, ConfigsOK(cs), NEW F, NEW D, Hist(cs, F, D), NEW g \in Gid,
           NEW k \in Shard, LatestConfig(F[g]).Shards[k] = g, allShardsUpToDate(F[g], g)
    PROVE  /\ Len(cs) >= 2
           /\ \/ Held(cs, F, g, k)
              \/ /\ Len(cs) >= 3 /\ Before(cs, k) = g /\ ~AtLast(cs, F[g])
                 /\ \A q \in Gid : ~Held(cs, F, q, k)
<1> DEFINE m == Len(F[g].AllConfigs)
<1>0. F \in [Gid -> State] /\ GroupNumbers(cs, F, g) /\ Len(cs) \in Nat \ {0}
  BY DEF Hist, ConfigsOK
<1>1. /\ m \in 1 .. Len(cs) /\ m >= Len(cs) - 1 /\ LatestConfig(F[g]) = cs[m]
      /\ cs[m].Num = m - 1
  BY <1>0, groupConfig
<1>2. m # 1
  BY <1>1, firstConfig
<1>3. F[g].ShardTimestamp[k] = m - 1
  <2>1. F[g].ShardTimestamp[k] \in Nat /\ F[g].ShardTimestamp[k] <= m - 1
    BY <1>0 DEF State, GroupNumbers
  <2>2. ~(F[g].ShardTimestamp[k] < m - 1)
    BY <1>1 DEF allShardsUpToDate, laggingShards
  <2> HIDE DEF m
  <2> QED
    BY <1>1, <2>1, <2>2
<1> HIDE DEF m
<1>4. CASE m = Len(cs)
  <2>1. Len(cs) >= 2
    BY <1>0, <1>2, <1>4
  <2>2. Held(cs, F, g, k)
    BY <1>1, <1>3, <1>4 DEF Held, AtLast, Now, lastNum, m
  <2> QED
    BY <2>1, <2>2
<1>5. CASE m # Len(cs)
  <2>1. m = Len(cs) - 1 /\ Len(cs) >= 3
    BY <1>0, <1>1, <1>2, <1>5
  <2>2. Before(cs, k) = g /\ ~AtLast(cs, F[g])
    BY <1>1, <1>5, <2>1 DEF Before, AtLast, m
  <2>3. \A q \in Gid : ~Held(cs, F, q, k)
    BY <2>1, <2>2 DEF Hist, GroupHolds
  <2> QED
    BY <1>0, <2>1, <2>2, <2>3
<1> QED
  BY <1>4, <1>5

(* group g comes to the state *)
Moves(F, G, g, state) ==
    G \in [Gid -> State] /\ \A q \in Gid : G[q] = IF q = g THEN state ELSE F[q]

(* the state keeps the writes of g and its numbers, and E has what was carried out *)
Writes(cs, F, D, g, state, E) ==
    /\ state.AllConfigs = F[g].AllConfigs /\ state.ShardTimestamp = F[g].ShardTimestamp
    /\ D \subseteq E /\ E \subseteq ClientOp /\ Justified(state.ClientLastRequest, E)
    /\ \A o \in D : Has(F[g].ShardKVStore[o.ShardId], o) => Has(state.ShardKVStore[o.ShardId], o)
    /\ \A o \in E \ D :
          /\ o.Type # "PUT" /\ Len(cs) >= 2
          /\ o.Type = "APPEND" => Has(state.ShardKVStore[o.ShardId], o)
          /\ \/ Held(cs, F, g, o.ShardId)
             \/ /\ Len(cs) >= 3 /\ Before(cs, o.ShardId) = g
                /\ \A q \in Gid : ~Held(cs, F, q, o.ShardId)

LEMMA histWrites ==
    ASSUME NEW cs, ConfigsOK(cs), NEW F, NEW D, Hist(cs, F, D), NEW g \in Gid,
           NEW state, NEW G, Moves(F, G, g, state), NEW E, Writes(cs, F, D, g, state, E)
    PROVE  Hist(cs, G, E)
<1>0. F \in [Gid -> State] /\ Len(cs) \in Nat
  BY DEF Hist, ConfigsOK
<1>1. G \in [Gid -> State] /\ \A q \in Gid : G[q] = IF q = g THEN state ELSE F[q]
  BY DEF Moves
<1>2. \A q \in Gid : G[q].AllConfigs = F[q].AllConfigs /\ G[q].ShardTimestamp = F[q].ShardTimestamp
  BY <1>1 DEF Writes
<1>3. \A q \in Gid : AtLast(cs, G[q]) = AtLast(cs, F[q])
  BY <1>2 DEF AtLast
<1>4. \A q \in Gid : \A k : Held(cs, G, q, k) = Held(cs, F, q, k)
  BY <1>2, <1>3 DEF Held
<1>5. ASSUME NEW q \in Gid
      PROVE  /\ GroupNumbers(cs, G, q) /\ GroupHolds(cs, G, q)
             /\ Justified(G[q].ClientLastRequest, E)
  <2>1. GroupNumbers(cs, G, q)
    BY <1>2 DEF Hist, GroupNumbers
  <2>2. GroupHolds(cs, G, q)
    BY <1>2, <1>3, <1>4 DEF Hist, GroupHolds
  <2>3. Justified(G[q].ClientLastRequest, E)
    <3>1. CASE q = g
      BY <1>1, <3>1 DEF Writes
    <3>2. CASE q # g
      BY <1>1, <3>2 DEF Hist, Justified, Writes
    <3> QED
      BY <3>1, <3>2
  <2> QED
    BY <2>1, <2>2, <2>3
<1>6. ASSUME NEW o \in E
      PROVE  /\ o.Type # "PUT" /\ Len(cs) >= 2
             /\ Len(cs) = 2 => \E q \in Gid : Held(cs, G, q, o.ShardId)
             /\ o.Type = "APPEND" => Kept(cs, G, o)
  <2>1. CASE o \in D
    <3>1. /\ o.Type # "PUT" /\ Len(cs) >= 2
          /\ Len(cs) = 2 => \E q \in Gid : Held(cs, F, q, o.ShardId)
          /\ o.Type = "APPEND" => Kept(cs, F, o)
      BY <2>1 DEF Hist
    <3>2. \A q \in Gid : Has(F[q].ShardKVStore[o.ShardId], o) => Has(G[q].ShardKVStore[o.ShardId], o)
      BY <1>1, <2>1 DEF Writes
    <3>3. o.Type = "APPEND" => Kept(cs, G, o)
      BY <1>4, <3>1, <3>2 DEF Kept
    <3> QED
      BY <1>4, <3>1, <3>3
  <2>2. CASE o \notin D
    <3>1. /\ o.Type # "PUT" /\ Len(cs) >= 2
          /\ o.Type = "APPEND" => Has(G[g].ShardKVStore[o.ShardId], o)
          /\ \/ Held(cs, F, g, o.ShardId)
             \/ /\ Len(cs) >= 3 /\ Before(cs, o.ShardId) = g
                /\ \A q \in Gid : ~Held(cs, F, q, o.ShardId)
      BY <1>1, <2>2 DEF Writes
    <3>2. \A q \in Gid : Held(cs, F, q, o.ShardId) /\ Held(cs, F, g, o.ShardId) => q = g
      BY DEF Held
    <3>3. o.Type = "APPEND" => Kept(cs, G, o)
      BY <1>4, <3>1, <3>2 DEF Kept
    <3>4. Len(cs) = 2 => Held(cs, F, g, o.ShardId)
      BY <3>1
    <3> QED
      BY <1>4, <3>1, <3>3, <3>4
  <2> QED
    BY <2>1, <2>2
<1> QED
  BY <1>1, <1>5, <1>6 DEF Hist, Writes

(* An append has the old writes and the new one. *)
LEMMA writtenHas ==
    ASSUME NEW value \in Value, NEW op \in ClientOp, op.Type # "PUT"
    PROVE  /\ \A o : Has(value, o) => Has(written(value, op), o)
           /\ op.Type = "APPEND" => Has(written(value, op), op)
<1>1. op.Type = "GET" \/ op.Type = "APPEND"
  BY DEF ClientOp
<1>2. CASE op.Type = "GET"
  BY <1>2 DEF written
<1>3. CASE op.Type = "APPEND"
  <2> DEFINE tk == token(op)
             w == Append(value, tk)
  <2>1. tk \in Clerk \X Nat
    BY DEF token, ClientOp
  <2> HIDE DEF tk
  <2>2. /\ Len(w) = Len(value) + 1 /\ Len(value) \in Nat
        /\ \A n \in 1 .. Len(value) : w[n] = value[n]
        /\ w[Len(value) + 1] = tk
    BY <2>1 DEF Value
  <2>3. written(value, op) = w
    BY <1>3 DEF written, tk
  <2> HIDE DEF w
  <2> QED
    BY <2>2, <2>3 DEF Has, tk
<1> QED
  BY <1>1, <1>2, <1>3

(* A client's operation, where it enters the log of group g. *)
LEMMA histClient ==
    ASSUME NEW cs, ConfigsOK(cs), NEW F, NEW D, Hist(cs, F, D), NEW g \in Gid,
           NEW op \in ClientOp, op.Type # "PUT",
           isDuplicateOp(F[g], op) => op \in D,
           NEW E, E = IF verdict(F[g], g, op) = "OK" THEN D \cup {op} ELSE D
    PROVE  LET state == applyOp(F[g], g, op) IN
           /\ Hist(cs, [F EXCEPT ![g] = state], E)
           /\ state \in State
           /\ state.AllConfigs = F[g].AllConfigs
           /\ \A k \in Shard : AtLast(cs, F[g]) /\ Now(cs, k) # g =>
                 state.ShardKVStore[k] = F[g].ShardKVStore[k]
<1> DEFINE state == applyOp(F[g], g, op)
<1>0. F \in [Gid -> State] /\ F[g] \in State /\ D \subseteq ClientOp
  BY DEF Hist
<1>1. state = handleClientOp(F[g], g, op)
  BY DEF applyOp, ClientOp
<1> HIDE DEF state
<1>2. /\ state \in State /\ state.AllConfigs = F[g].AllConfigs
      /\ state.ShardTimestamp = F[g].ShardTimestamp
  BY <1>0, <1>1, handleClientOpOK
<1>3. CASE ~(verdict(F[g], g, op) = "OK" /\ ~isDuplicateOp(F[g], op))
  <2>1. state = F[g]
    BY <1>0, <1>1, <1>3, clientEffect
  <2>2. [F EXCEPT ![g] = state] = F
    BY <1>0, <2>1
  <2>3. E = D
    BY <1>3
  <2> QED
    BY <1>2, <2>1, <2>2, <2>3 DEF state
<1>4. CASE verdict(F[g], g, op) = "OK" /\ ~isDuplicateOp(F[g], op)
  <2>1. /\ \A c \in Clerk : state.ClientLastRequest[c] =
              IF c = op.ClientId THEN op.RequestIndex ELSE F[g].ClientLastRequest[c]
        /\ \A k \in Shard : state.ShardKVStore[k] =
              IF k = op.ShardId THEN written(F[g].ShardKVStore[k], op)
              ELSE F[g].ShardKVStore[k]
    BY <1>0, <1>1, <1>4, clientEffect
  <2>2. op.ShardId \in Shard /\ E = D \cup {op} /\ \A o \in ClientOp : o.ShardId \in Shard
    BY <1>4 DEF ClientOp
  <2>3. LatestConfig(F[g]).Shards[op.ShardId] = g /\ allShardsUpToDate(F[g], g)
    BY <1>4 DEF verdict
  <2>4. /\ Len(cs) >= 2
        /\ \/ Held(cs, F, g, op.ShardId)
           \/ /\ Len(cs) >= 3 /\ Before(cs, op.ShardId) = g /\ ~AtLast(cs, F[g])
              /\ \A q \in Gid : ~Held(cs, F, q, op.ShardId)
    BY <2>2, <2>3, served
  <2>5. Justified(state.ClientLastRequest, E)
    <3>1. Justified(F[g].ClientLastRequest, D)
      BY DEF Hist
    <3> QED
      BY <2>1, <2>2, <3>1 DEF Justified
  <2>6. \A k \in Shard : F[g].ShardKVStore[k] \in Value
    BY <1>0 DEF State
  <2>7. \A o \in D : Has(F[g].ShardKVStore[o.ShardId], o) => Has(state.ShardKVStore[o.ShardId], o)
    BY <1>0, <2>1, <2>2, <2>6, writtenHas
  <2>8. op.Type = "APPEND" => Has(state.ShardKVStore[op.ShardId], op)
    BY <2>1, <2>2, <2>6, writtenHas
  <2>9. Hist(cs, [F EXCEPT ![g] = state], E)
    <3>1. \A o \in E \ D :
             /\ o.Type # "PUT" /\ Len(cs) >= 2
             /\ o.Type = "APPEND" => Has(state.ShardKVStore[o.ShardId], o)
             /\ \/ Held(cs, F, g, o.ShardId)
                \/ /\ Len(cs) >= 3 /\ Before(cs, o.ShardId) = g
                   /\ \A q \in Gid : ~Held(cs, F, q, o.ShardId)
      BY <2>2, <2>4, <2>8
    <3>2. D \subseteq E /\ E \subseteq ClientOp
      BY <1>0, <2>2
    <3> DEFINE G == [F EXCEPT ![g] = state]
    <3> HIDE DEF G
    <3>3. Moves(F, G, g, state)
      BY <1>0, <1>2 DEF G, Moves
    <3>4. Writes(cs, F, D, g, state, E)
      BY <1>2, <2>5, <2>7, <3>1, <3>2 DEF Writes
    <3>5. Hist(cs, G, E)
      BY <3>3, <3>4, histWrites
    <3> QED
      BY <3>5 DEF G
  <2>10. \A k \in Shard : AtLast(cs, F[g]) /\ Now(cs, k) # g =>
            state.ShardKVStore[k] = F[g].ShardKVStore[k]
    BY <2>1, <2>4 DEF Held
  <2> QED
    BY <1>2, <2>9, <2>10 DEF state
<1> QED
  BY <1>3, <1>4

(* what an AcquireShard of group g may bring *)
Brought(cs, F, D, g, op) ==
    LET k == op.ShardId IN
    /\ op \in Op /\ op.Type = "AcquireShard" /\ Len(cs) >= 2
    /\ AtLast(cs, F[g]) /\ Now(cs, k) = g /\ Before(cs, k) \in Gid
    /\ op.ShardConfigNum <= lastNum(cs) /\ Justified(op.ClientLastRequest, D)
    /\ op.ShardConfigNum = lastNum(cs) /\ Before(cs, k) # g =>
          AtLast(cs, F[Before(cs, k)]) /\ op.ShardData = F[Before(cs, k)].ShardKVStore[k]

(* A shard that arrives in the log of group g. *)
LEMMA histAcquire ==
    ASSUME NEW cs, ConfigsOK(cs), NEW F, NEW D, Hist(cs, F, D), NEW g \in Gid,
           NEW op, Brought(cs, F, D, g, op), NEW G, Moves(F, G, g, applyOp(F[g], g, op))
    PROVE  LET state == applyOp(F[g], g, op) IN
           /\ Hist(cs, G, D)
           /\ state.AllConfigs = F[g].AllConfigs
           /\ \A k \in Shard : AtLast(cs, F[g]) /\ Now(cs, k) # g =>
                 state.ShardKVStore[k] = F[g].ShardKVStore[k]
<1> DEFINE state == applyOp(F[g], g, op)
           k0 == op.ShardId
           p == Before(cs, k0)
<1>0. /\ F \in [Gid -> State] /\ F[g] \in State /\ D \subseteq ClientOp
      /\ \A o \in D : o.ShardId \in Shard
  BY DEF Hist, ClientOp
<1>1. op \in Op /\ op.Type = "AcquireShard" /\ k0 \in Shard /\ op.ShardConfigNum \in Nat
      /\ op.ClientLastRequest \in LastRequests
  BY DEF Brought, Op, ClientOp
<1>2. state = handleAcquireShard(F[g], op)
  BY <1>1 DEF applyOp
<1>3. Moves(F, G, g, state)
  OBVIOUS
<1> HIDE DEF state
<1>4. /\ state.AllConfigs = F[g].AllConfigs
      /\ state.ClientLastRequest = mergeLastRequests(F[g].ClientLastRequest, op.ClientLastRequest)
      /\ \A k \in Shard :
            state.ShardKVStore[k] = IF k = k0 /\ newer(F[g], op) THEN op.ShardData
                                    ELSE F[g].ShardKVStore[k]
      /\ \A k \in Shard :
            state.ShardTimestamp[k] = IF k = k0 /\ newer(F[g], op) THEN op.ShardConfigNum
                                      ELSE F[g].ShardTimestamp[k]
  BY <1>0, <1>1, <1>2, handleAcquireShardOK, acquireEffect
<1>5. state \in State /\ G \in [Gid -> State] /\ \A q \in Gid : G[q] = IF q = g THEN state ELSE F[q]
  BY <1>0, <1>1, <1>2, <1>3, handleAcquireShardOK DEF Moves
<1>6. /\ p \in Gid /\ AtLast(cs, F[g]) /\ Now(cs, k0) = g /\ op.ShardConfigNum <= lastNum(cs)
      /\ op.ShardConfigNum = lastNum(cs) /\ p # g =>
            AtLast(cs, F[p]) /\ op.ShardData = F[p].ShardKVStore[k0]
  BY DEF Brought
<1>7. \A k \in Shard : AtLast(cs, F[g]) /\ Now(cs, k) # g =>
         state.ShardKVStore[k] = F[g].ShardKVStore[k]
  BY <1>4, <1>6
<1>8. Justified(state.ClientLastRequest, D)
  <2>1. Justified(F[g].ClientLastRequest, D) /\ Justified(op.ClientLastRequest, D)
    BY DEF Hist, Brought
  <2>2. F[g].ClientLastRequest \in LastRequests
    BY <1>0 DEF State
  <2>3. \A c \in Clerk : \/ state.ClientLastRequest[c] = F[g].ClientLastRequest[c]
                         \/ state.ClientLastRequest[c] = op.ClientLastRequest[c]
    BY <1>1, <1>4, <2>2, mergeKeeps
  <2> QED
    BY <2>1, <2>3 DEF Justified
<1>9. Len(cs) >= 3 /\ lastNum(cs) \in Nat /\ Len(cs) \in Nat
  <2>1. Len(cs) >= 2 /\ Len(cs) \in Nat
    BY DEF Brought, ConfigsOK
  <2>2. Len(cs) # 2
    <3> SUFFICES ASSUME Len(cs) = 2 PROVE FALSE
      OBVIOUS
    <3>1. p = cs[1].Shards[k0]
      BY DEF Before
    <3> QED
      BY <1>1, <1>6, <3>1, firstConfig
  <2>3. \A n \in Nat : n >= 2 /\ n # 2 => n >= 3 /\ n - 1 \in Nat
    OBVIOUS
  <2> QED
    BY <2>1, <2>2, <2>3 DEF lastNum
<1>10. CASE ~newer(F[g], op)
  <2>1. \A k \in Shard : state.ShardKVStore[k] = F[g].ShardKVStore[k]
    BY <1>4, <1>10
  <2>2. state.ShardTimestamp = F[g].ShardTimestamp
    <3>1. \A k \in Shard : state.ShardTimestamp[k] = F[g].ShardTimestamp[k]
      BY <1>4, <1>10
    <3>2. state.ShardTimestamp \in [Shard -> Nat] /\ F[g].ShardTimestamp \in [Shard -> Nat]
      BY <1>0, <1>5 DEF State
    <3> QED
      BY <3>1, <3>2
  <2>3. Writes(cs, F, D, g, state, D)
    BY <1>0, <1>4, <1>8, <2>1, <2>2 DEF Writes
  <2>4. Hist(cs, G, D)
    BY <1>3, <2>3, histWrites
  <2> QED
    BY <1>4, <1>7, <2>4 DEF state
<1>11. CASE newer(F[g], op)
  <2> HIDE DEF k0, p
  <2>1. F[g].ShardTimestamp[k0] < op.ShardConfigNum /\ F[g].ShardTimestamp[k0] \in Nat
    BY <1>0, <1>1, <1>11 DEF newer, State, k0
  <2>2. F[g].ShardTimestamp[k0] # lastNum(cs)
    BY <1>1, <1>6, <1>9, <2>1
  <2>3. p # g
    BY <1>1, <1>6, <1>9, <2>2 DEF Hist, GroupHolds, p
  <2>4. \A q \in Gid : ~Held(cs, F, q, k0)
    BY <1>6, <2>2 DEF Held
  <2>5. \A q \in Gid : AtLast(cs, G[q]) = AtLast(cs, F[q]) /\ G[q].AllConfigs = F[q].AllConfigs
    BY <1>4, <1>5 DEF AtLast
  <2>6. \A q \in Gid, k \in Shard : q # g \/ k # k0 =>
           /\ G[q].ShardTimestamp[k] = F[q].ShardTimestamp[k]
           /\ G[q].ShardKVStore[k] = F[q].ShardKVStore[k]
    BY <1>4, <1>5
  <2>7. /\ G[g].ShardTimestamp[k0] = op.ShardConfigNum
        /\ G[g].ShardKVStore[k0] = op.ShardData
    BY <1>1, <1>4, <1>5, <1>11
  <2>8. \A q \in Gid, k \in Shard : q # g \/ k # k0 => Held(cs, G, q, k) = Held(cs, F, q, k)
    BY <2>5, <2>6 DEF Held
  <2>9. Held(cs, G, g, k0) = (op.ShardConfigNum = lastNum(cs))
    BY <1>6, <2>5, <2>7 DEF Held
  <2>10. ASSUME NEW q \in Gid
         PROVE  /\ GroupNumbers(cs, G, q) /\ GroupHolds(cs, G, q)
                /\ Justified(G[q].ClientLastRequest, D)
    <3>1. \A k \in Shard : G[q].ShardTimestamp[k] <= Len(G[q].AllConfigs) - 1
      <4> TAKE k \in Shard
      <4>1. CASE q # g \/ k # k0
        <5>1. F[q].ShardTimestamp[k] <= Len(F[q].AllConfigs) - 1
          BY DEF Hist, GroupNumbers
        <5> QED
          BY <2>5, <2>6, <4>1, <5>1
      <4>2. CASE q = g /\ k = k0
        BY <1>6, <2>5, <2>7, <4>2 DEF AtLast, lastNum
      <4> QED
        BY <4>1, <4>2
    <3>2. GroupNumbers(cs, G, q)
      BY <2>5, <3>1 DEF Hist, GroupNumbers
    <3>3. GroupHolds(cs, G, q)
      <4> SUFFICES ASSUME NEW k \in Shard
                   PROVE  /\ AtLast(cs, G[q]) /\ Len(cs) >= 2 /\ Before(cs, k) = q /\ Now(cs, k) = q =>
                                G[q].ShardTimestamp[k] = lastNum(cs)
                          /\ Held(cs, G, q, k) /\ Len(cs) >= 3 =>
                                Before(cs, k) \in Gid /\ AtLast(cs, G[Before(cs, k)])
        BY DEF GroupHolds
      <4>1. CASE q # g \/ k # k0
        <5>1. /\ AtLast(cs, F[q]) /\ Len(cs) >= 2 /\ Before(cs, k) = q /\ Now(cs, k) = q =>
                    F[q].ShardTimestamp[k] = lastNum(cs)
              /\ Held(cs, F, q, k) /\ Len(cs) >= 3 =>
                    Before(cs, k) \in Gid /\ AtLast(cs, F[Before(cs, k)])
          BY DEF Hist, GroupHolds
        <5> QED
          BY <2>5, <2>6, <2>8, <4>1, <5>1
      <4>2. CASE q = g /\ k = k0
        BY <1>6, <2>3, <2>5, <2>9, <4>2 DEF p
      <4> QED
        BY <4>1, <4>2
    <3>4. Justified(G[q].ClientLastRequest, D)
      BY <1>5, <1>8 DEF Hist
    <3> QED
      BY <3>2, <3>3, <3>4
  <2>11. ASSUME NEW o \in D
         PROVE  /\ o.Type # "PUT" /\ Len(cs) >= 2 /\ Len(cs) # 2
                /\ o.Type = "APPEND" => Kept(cs, G, o)
    <3>1. o.Type # "PUT" /\ (o.Type = "APPEND" => Kept(cs, F, o)) /\ o.ShardId \in Shard
      BY <1>0 DEF Hist
    <3>2. Len(cs) >= 2 /\ Len(cs) # 2
      <4>1. \A n \in Nat : n >= 3 => n >= 2 /\ n # 2
        OBVIOUS
      <4> QED
        BY ONLY <1>9, <4>1
    <3>3. ASSUME o.Type = "APPEND" PROVE Kept(cs, G, o)
      <4>1. CASE o.ShardId # k0
        BY <2>6, <2>8, <3>1, <3>3, <4>1 DEF Kept
      <4>2. CASE o.ShardId = k0
        <5>1. Has(F[p].ShardKVStore[k0], o)
          BY <1>6, <2>4, <3>1, <3>2, <3>3, <4>2 DEF Kept, p
        <5>2. \A q \in Gid : Held(cs, G, q, k0) => q = g
          BY <1>6 DEF Held
        <5>3. Held(cs, G, g, k0) => Has(G[g].ShardKVStore[k0], o)
          BY <1>6, <2>3, <2>7, <2>9, <5>1
        <5>4. Has(G[p].ShardKVStore[k0], o)
          BY <1>1, <1>6, <2>3, <2>6, <5>1 DEF k0
        <5> QED
          BY <4>2, <5>2, <5>3, <5>4 DEF Kept, p
      <4> QED
        BY <4>1, <4>2
    <3> QED
      BY <3>1, <3>2, <3>3
  <2>12. Hist(cs, G, D)
    BY <1>0, <1>5, <2>10, <2>11 DEF Hist
  <2> QED
    BY <1>4, <1>7, <2>12 DEF state
<1> QED
  BY <1>10, <1>11

(* A configuration in the log of group g: the last one, or nothing happens. *)
LEMMA histInstall ==
    ASSUME NEW cs, ConfigsOK(cs), NEW F, NEW D, Hist(cs, F, D), NEW g \in Gid,
           NEW n \in 1 .. Len(cs), NEW state,
           state = handleInstallShardConfig(F[g], g, cs[n]),
           NEW G, Moves(F, G, g, state)
    PROVE  /\ Hist(cs, G, D)
           /\ state = F[g] \/ ~AtLast(cs, F[g])
<1> DEFINE m == Len(F[g].AllConfigs)
           old == LatestConfig(F[g])
<1>0. /\ F \in [Gid -> State] /\ F[g] \in State /\ D \subseteq ClientOp
      /\ \A o \in D : o.ShardId \in Shard
  BY DEF Hist, ClientOp
<1>1. G \in [Gid -> State] /\ \A q \in Gid : G[q] = IF q = g THEN state ELSE F[q]
  BY DEF Moves
<1>2. /\ Len(cs) \in Nat \ {0} /\ n \in Nat /\ cs[n] \in Config /\ cs[n].Num = n - 1
  BY DEF ConfigsOK
<1>3. /\ m \in 1 .. Len(cs) /\ m >= Len(cs) - 1 /\ old = cs[m] /\ old.Num = m - 1
  BY <1>0, groupConfig DEF Hist
<1>4. CASE cs[n].Num # old.Num + 1
  <2>1. state = F[g]
    BY <1>0, <1>2, <1>4, handleInstallShardConfigOK
  <2>2. \A q \in Gid : G[q] = F[q]
    BY <1>1, <2>1
  <2>3. G = F
    BY <1>0, <1>1, <2>2
  <2> QED
    BY <2>1, <2>3
<1>5. CASE cs[n].Num = old.Num + 1
  <2>1. n = m + 1 /\ n = Len(cs) /\ m = Len(cs) - 1 /\ Len(cs) >= 2
    BY <1>2, <1>3, <1>5
  <2>2. /\ state.AllConfigs = Append(F[g].AllConfigs, cs[n])
        /\ \A k \in Shard :
              state.ShardTimestamp[k] =
                IF cs[n].Shards[k] = g /\ (cs[n].Num = 1 \/ old.Shards[k] = g)
                THEN cs[n].Num
                ELSE IF cs[n].Num = 1 THEN 0 ELSE F[g].ShardTimestamp[k]
    BY <1>0, <1>2, <1>5, handleInstallShardConfigOK
  <2>3. /\ state.ClientLastRequest = F[g].ClientLastRequest
        /\ \A k \in Shard : \/ state.ShardKVStore[k] = F[g].ShardKVStore[k]
                            \/ cs[n].Num = 1
    BY <1>0, <1>2, installEffect
  <2>4. F[g].AllConfigs \in Seq(Config) /\ m \in Nat
    BY <1>0, LatestConfigOK
  <2>5. /\ Len(state.AllConfigs) = Len(cs)
        /\ \A i \in 1 .. m : state.AllConfigs[i] = F[g].AllConfigs[i]
        /\ state.AllConfigs[Len(cs)] = cs[Len(cs)]
    <3>1. PICK a \in Seq(Config) : a = F[g].AllConfigs /\ Len(a) = m
      BY <2>4
    <3>2. state.AllConfigs = Append(a, cs[n]) /\ cs[n] \in Config
      BY <1>2, <2>2, <3>1
    <3>3. /\ Len(Append(a, cs[n])) = Len(a) + 1 /\ Append(a, cs[n])[Len(a) + 1] = cs[n]
          /\ \A i \in 1 .. Len(a) : Append(a, cs[n])[i] = a[i]
      BY ONLY <3>2, a \in Seq(Config)
    <3> HIDE DEF m
    <3> QED
      BY <2>1, <3>1, <3>2, <3>3
  <2>6. AtLast(cs, state) /\ ~AtLast(cs, F[g])
    BY <1>2, <2>1, <2>5 DEF AtLast
  <2>7. \A k \in Shard :
           /\ F[g].ShardTimestamp[k] \in Nat /\ F[g].ShardTimestamp[k] <= m - 1
    BY <1>0 DEF Hist, GroupNumbers, State
  <2>8. \A k \in Shard :
           /\ state.ShardTimestamp[k] <= lastNum(cs)
           /\ state.ShardTimestamp[k] = lastNum(cs) =>
                 Now(cs, k) = g /\ (Len(cs) = 2 \/ Before(cs, k) = g)
           /\ Now(cs, k) = g /\ (Len(cs) = 2 \/ Before(cs, k) = g) =>
                 state.ShardTimestamp[k] = lastNum(cs)
    <3> TAKE k \in Shard
    <3>1. /\ cs[n].Shards[k] = Now(cs, k) /\ old.Shards[k] = Before(cs, k)
          /\ cs[n].Num = lastNum(cs) /\ (cs[n].Num = 1) = (Len(cs) = 2)
          /\ lastNum(cs) \in Nat \ {0} /\ m = lastNum(cs)
      BY <1>2, <1>3, <2>1 DEF Now, Before, lastNum
    <3> HIDE DEF m, old
    <3> QED
      BY <2>2, <2>7, <3>1
  <2> HIDE DEF m, old
  <2>9. \A q \in Gid : AtLast(cs, F[q]) => AtLast(cs, G[q])
    BY <1>1, <2>6
  <2>10. \A q \in Gid : \A k : q # g => Held(cs, G, q, k) = Held(cs, F, q, k)
    BY <1>1 DEF Held
  <2>11. \A k : ~Held(cs, F, g, k)
    BY <2>6 DEF Held
  <2>12. \A k \in Shard :
            Held(cs, G, g, k) = (Now(cs, k) = g /\ (Len(cs) = 2 \/ Before(cs, k) = g))
    BY <1>1, <2>6, <2>8 DEF Held
  <2>13. ASSUME NEW q \in Gid
         PROVE  /\ GroupNumbers(cs, G, q) /\ GroupHolds(cs, G, q)
                /\ Justified(G[q].ClientLastRequest, D)
    <3>1. CASE q # g
      <4>1. G[q] = F[q] /\ GroupNumbers(cs, F, q) /\ GroupHolds(cs, F, q)
            /\ Justified(F[q].ClientLastRequest, D)
        BY <1>1, <3>1 DEF Hist
      <4>2. GroupNumbers(cs, G, q) /\ Justified(G[q].ClientLastRequest, D)
        BY <4>1 DEF GroupNumbers
      <4>3. GroupHolds(cs, G, q)
        BY <2>9, <2>10, <3>1, <4>1 DEF GroupHolds
      <4> QED
        BY <4>2, <4>3
    <3>2. CASE q = g
      <4>1. G[q] = state
        BY <1>1, <3>2
      <4>2. \A i \in 1 .. Len(cs) : state.AllConfigs[i] = cs[i]
        <5> TAKE i \in 1 .. Len(cs)
        <5>1. CASE i \in 1 .. m
          BY <2>5, <5>1 DEF Hist, GroupNumbers, m
        <5>2. CASE i = Len(cs)
          BY <2>5, <5>2
        <5> QED
          BY <1>2, <2>1, <5>1, <5>2
      <4>3. GroupNumbers(cs, G, q)
        <5>1. \A i \in 1 .. Len(state.AllConfigs) : i <= Len(cs) /\ state.AllConfigs[i] = cs[i]
          BY <1>2, <2>5, <4>2
        <5>2. Len(state.AllConfigs) >= Len(cs) - 1
          BY <1>2, <2>5
        <5>3. \A k \in Shard : state.ShardTimestamp[k] <= Len(state.AllConfigs) - 1
          BY <2>5, <2>8 DEF lastNum
        <5> QED
          BY <4>1, <5>1, <5>2, <5>3 DEF GroupNumbers
      <4>4. GroupHolds(cs, G, q)
        <5> SUFFICES ASSUME NEW k \in Shard
                     PROVE  /\ Before(cs, k) = q /\ Now(cs, k) = q =>
                                  G[q].ShardTimestamp[k] = lastNum(cs)
                            /\ Held(cs, G, q, k) /\ Len(cs) >= 3 =>
                                  Before(cs, k) \in Gid /\ AtLast(cs, G[Before(cs, k)])
          BY DEF GroupHolds
        <5>1. Before(cs, k) = q /\ Now(cs, k) = q => G[q].ShardTimestamp[k] = lastNum(cs)
          BY <2>8, <3>2, <4>1
        <5>2. ASSUME Held(cs, G, q, k), Len(cs) >= 3
              PROVE  Before(cs, k) \in Gid /\ AtLast(cs, G[Before(cs, k)])
          <6>1. Len(cs) # 2
            <7>1. \A i \in Nat : i >= 3 => i # 2
              OBVIOUS
            <7> QED
              BY ONLY <1>2, <5>2, <7>1
          <6>2. Before(cs, k) = g
            BY <2>12, <3>2, <5>2, <6>1
          <6> QED
            BY <2>6, <3>2, <4>1, <6>2
        <5> QED
          BY <5>1, <5>2
      <4>5. Justified(G[q].ClientLastRequest, D)
        BY <2>3, <4>1 DEF Hist
      <4> QED
        BY <4>3, <4>4, <4>5
    <3> QED
      BY <3>1, <3>2
  <2>14. ASSUME NEW o \in D
         PROVE  /\ o.Type # "PUT" /\ Len(cs) >= 2
                /\ Len(cs) = 2 => \E q \in Gid : Held(cs, G, q, o.ShardId)
                /\ o.Type = "APPEND" => Kept(cs, G, o)
    <3>1. /\ o.Type # "PUT" /\ o.ShardId \in Shard
          /\ Len(cs) = 2 => \E q \in Gid : Held(cs, F, q, o.ShardId)
          /\ o.Type = "APPEND" => Kept(cs, F, o)
      BY <1>0 DEF Hist
    <3>2. CASE Len(cs) = 2
      <4>1. PICK q \in Gid : Held(cs, F, q, o.ShardId)
        BY <3>1, <3>2
      <4>2. q # g /\ Held(cs, G, q, o.ShardId) /\ G[q] = F[q]
        BY <1>1, <2>10, <2>11, <4>1
      <4>3. \A r \in Gid : Held(cs, G, r, o.ShardId) => r = q
        BY <4>2 DEF Held
      <4>4. o.Type = "APPEND" => Kept(cs, G, o)
        BY <3>1, <4>1, <4>2, <4>3 DEF Kept
      <4> QED
        BY <2>1, <3>1, <4>2, <4>4
    <3>3. CASE Len(cs) # 2
      <4>1. cs[n].Num # 1
        BY <1>2, <2>1, <3>3
      <4>2. \A q \in Gid : G[q].ShardKVStore[o.ShardId] = F[q].ShardKVStore[o.ShardId]
        BY <1>1, <2>3, <3>1, <4>1
      <4>3. ASSUME o.Type = "APPEND" PROVE Kept(cs, G, o)
        <5>1. ASSUME NEW q \in Gid, Held(cs, G, q, o.ShardId)
              PROVE  Has(G[q].ShardKVStore[o.ShardId], o)
          <6>1. CASE q # g
            BY <2>10, <3>1, <4>2, <4>3, <5>1, <6>1 DEF Kept
          <6>2. CASE q = g
            <7>1. Before(cs, o.ShardId) = g /\ Now(cs, o.ShardId) = g
              BY <2>12, <3>1, <3>3, <5>1, <6>2
            <7>2. \A r \in Gid : ~Held(cs, F, r, o.ShardId)
              BY <2>11, <7>1 DEF Held
            <7> QED
              BY <2>1, <3>1, <4>2, <4>3, <6>2, <7>1, <7>2 DEF Kept
          <6> QED
            BY <6>1, <6>2
        <5>2. ASSUME \A q \in Gid : ~Held(cs, G, q, o.ShardId), Before(cs, o.ShardId) \in Gid
              PROVE  Has(G[Before(cs, o.ShardId)].ShardKVStore[o.ShardId], o)
          <6>1. \A q \in Gid : ~Held(cs, F, q, o.ShardId)
            BY <2>10, <2>11, <5>2
          <6> QED
            BY <2>1, <3>1, <4>2, <4>3, <5>2, <6>1 DEF Kept
        <5> QED
          BY <5>1, <5>2 DEF Kept
      <4> QED
        BY <2>1, <3>1, <3>3, <4>3
    <3> QED
      BY <3>2, <3>3
  <2>15. Hist(cs, G, D)
    BY <1>0, <1>1, <2>13, <2>14 DEF Hist
  <2> QED
    BY <2>6, <2>15
<1> QED
  BY <1>4, <1>5

(* A new configuration, after all groups have settled in the last one. *)
LEMMA histReconfigure ==
    ASSUME NEW cs, ConfigsOK(cs), NEW F, NEW D, Hist(cs, F, D), NEW ds,
           Len(ds) = Len(cs) + 1, \A n \in 1 .. Len(cs) : ds[n] = cs[n],
           \A g \in Gid : AtLast(cs, F[g]) /\ allShardsUpToDate(F[g], g)
    PROVE  Hist(ds, F, D)
<1>0. /\ F \in [Gid -> State] /\ D \subseteq ClientOp /\ Len(cs) \in Nat \ {0}
      /\ \A o \in D : o.ShardId \in Shard
  BY DEF Hist, ClientOp, ConfigsOK
<1>1. \A g \in Gid : ~AtLast(ds, F[g]) /\ Len(F[g].AllConfigs) = Len(cs)
  BY <1>0 DEF AtLast
<1>2. \A g \in Gid : \A k : ~Held(ds, F, g, k)
  BY <1>1 DEF Held
<1>3. ASSUME NEW g \in Gid
      PROVE  /\ GroupNumbers(ds, F, g) /\ GroupHolds(ds, F, g)
             /\ Justified(F[g].ClientLastRequest, D)
  <2>1. GroupNumbers(cs, F, g) /\ Justified(F[g].ClientLastRequest, D)
    BY DEF Hist
  <2>2. GroupNumbers(ds, F, g)
    BY <1>0, <1>1, <2>1 DEF GroupNumbers
  <2>3. GroupHolds(ds, F, g)
    BY <1>1, <1>2 DEF GroupHolds
  <2> QED
    BY <2>1, <2>2, <2>3
<1>4. ASSUME NEW o \in D
      PROVE  /\ o.Type # "PUT" /\ Len(ds) >= 2 /\ Len(ds) # 2
             /\ o.Type = "APPEND" => Kept(ds, F, o)
  <2>1. /\ o.Type # "PUT" /\ o.ShardId \in Shard /\ Len(cs) >= 2
        /\ o.Type = "APPEND" => Kept(cs, F, o)
    BY <1>0 DEF Hist
  <2>2. Len(ds) >= 2 /\ Len(ds) # 2
    BY <1>0, <2>1
  <2>3. ASSUME o.Type = "APPEND", Before(ds, o.ShardId) \in Gid
        PROVE  Has(F[Before(ds, o.ShardId)].ShardKVStore[o.ShardId], o)
    <3> DEFINE p == Before(ds, o.ShardId)
    <3>1. Len(ds) - 1 = Len(cs) /\ Len(cs) \in 1 .. Len(cs)
      BY <1>0
    <3>2. p = cs[Len(cs)].Shards[o.ShardId]
      BY <3>1 DEF Before
    <3>3. LatestConfig(F[p]) = cs[Len(cs)]
      <4>1. GroupNumbers(cs, F, p) /\ AtLast(cs, F[p])
        BY <2>3 DEF Hist
      <4> QED
        BY <1>0, <2>3, <4>1, groupConfig DEF AtLast
    <3>4. LatestConfig(F[p]).Shards[o.ShardId] = p /\ allShardsUpToDate(F[p], p)
          /\ AtLast(cs, F[p]) /\ p \in Gid
      BY <2>3, <3>2, <3>3
    <3> HIDE DEF p
    <3>5. Held(cs, F, p, o.ShardId)
      BY <2>1, <3>4, served
    <3>6. Has(F[p].ShardKVStore[o.ShardId], o)
      BY <2>1, <2>3, <3>4, <3>5 DEF Kept
    <3> QED
      BY <3>6 DEF p
  <2>4. o.Type = "APPEND" => Kept(ds, F, o)
    BY <1>2, <2>3 DEF Kept
  <2> QED
    BY <2>1, <2>2, <2>4
<1> QED
  BY <1>0, <1>3, <1>4 DEF Hist

LEMMA histInit ==
    ASSUME NEW cs, cs = <<initialConfig>>, NEW F, F = [g \in Gid |-> makeState]
    PROVE  ConfigsOK(cs) /\ Hist(cs, F, {})
<1>1. Len(cs) = 1 /\ cs[1] = initialConfig /\ cs \in Seq(Config)
  BY initialConfigOK
<1>2. ConfigsOK(cs)
  BY <1>1 DEF ConfigsOK, initialConfig
<1>3. F \in [Gid -> State] /\ \A g \in Gid : F[g] = makeState
  BY makeStateOK
<1>4. /\ makeState.AllConfigs = <<initialConfig>> /\ Len(makeState.AllConfigs) = 1
      /\ makeState.AllConfigs[1] = initialConfig
      /\ \A k \in Shard : makeState.ShardTimestamp[k] = 0
      /\ \A c \in Clerk : makeState.ClientLastRequest[c] = missing
  BY DEF makeState
<1>5. ASSUME NEW g \in Gid
      PROVE  /\ GroupNumbers(cs, F, g) /\ GroupHolds(cs, F, g)
             /\ Justified(F[g].ClientLastRequest, {})
  <2>1. GroupNumbers(cs, F, g)
    <3>1. \A n \in 1 .. 1 : n <= 1 /\ makeState.AllConfigs[n] = cs[n]
      BY <1>1, <1>4
    <3>2. \A k \in Shard : makeState.ShardTimestamp[k] <= 1 - 1
      BY <1>4
    <3>3. Len(makeState.AllConfigs) = 1 /\ Len(cs) = 1 /\ F[g] = makeState /\ 1 >= 1 - 1
      BY <1>1, <1>3, <1>4
    <3> QED
      BY ONLY <3>1, <3>2, <3>3 DEF GroupNumbers
  <2>2. GroupHolds(cs, F, g)
    BY <1>1 DEF GroupHolds
  <2>3. Justified(F[g].ClientLastRequest, {})
    BY <1>3, <1>4 DEF Justified
  <2> QED
    BY <2>1, <2>2, <2>3
<1> QED
  BY <1>2, <1>3, <1>5 DEF Hist

(* one step of group g: G and E are what op makes of F and D *)
Step(cs, F, D, g, op, G, E) ==
    /\ Hist(cs, G, E) /\ Moves(F, G, g, applyOp(F[g], g, op)) /\ D \subseteq E
    /\ NeedSendBackCh(op) /\ verdict(F[g], g, op) = "OK" => op \in E
    /\ AtLast(cs, F[g]) =>
          /\ AtLast(cs, G[g])
          /\ \A k \in Shard : Now(cs, k) # g => G[g].ShardKVStore[k] = F[g].ShardKVStore[k]

LEMMA JustifiedMore ==
    ASSUME NEW table, NEW D, NEW E, Justified(table, D), D \subseteq E
    PROVE  Justified(table, E)
  BY DEF Justified

(* The log of a server of the group, with the new entry. *)
GoesOn(cs, G, E, g, state, l, e, h) ==
    \E j : Run(cs, G, E, g, state, Append(l, e), j) /\ \A i \in 0 .. Len(l) : j[i] = h[i]

LEMMA runAppend ==
    ASSUME NEW cs, ConfigsOK(cs), NEW F, NEW D, NEW g \in Gid, NEW state, NEW l \in Seq(Entry),
           NEW h, Run(cs, F, D, g, state, l, h), NEW e \in Entry,
           NEW G, NEW E, Step(cs, F, D, g, e.op, G, E)
    PROVE  GoesOn(cs, G, E, g, state, l, e, h)
<1> DEFINE n == Len(l)
           l2 == Append(l, e)
           j == [i \in 0 .. n + 1 |-> IF i = n + 1 THEN G[g] ELSE h[i]]
<1>1. /\ n \in Nat /\ Len(l2) = n + 1 /\ l2[n + 1] = e
      /\ \A i \in 1 .. n : l2[i] = l[i]
  OBVIOUS
<1> HIDE DEF l2, n
<1>2. j[n + 1] = G[g] /\ \A i \in 0 .. n : j[i] = h[i]
  BY <1>1
<1> HIDE DEF j
<1>3. G[g] = applyOp(F[g], g, e.op) /\ h[0] = state /\ h[n] = F[g]
  BY DEF Step, Moves, Run, n
<1>4. G \in [Gid -> State] /\ G[g] \in State /\ Justified(G[g].ClientLastRequest, E)
      /\ Len(G[g].AllConfigs) <= Len(cs)
  <2>1. G \in [Gid -> State] /\ GroupNumbers(cs, G, g) /\ Justified(G[g].ClientLastRequest, E)
    BY DEF Step, Hist
  <2>2. Len(G[g].AllConfigs) \in 1 .. Len(cs)
    BY <2>1, groupConfig
  <2> QED
    BY <2>1, <2>2 DEF ConfigsOK
<1>5. ASSUME NEW i \in 1 .. n + 1
      PROVE  /\ j[i] = applyOp(j[i - 1], g, l2[i].op)
             /\ NeedSendBackCh(l2[i].op) /\ verdict(j[i - 1], g, l2[i].op) = "OK" => l2[i].op \in E
  <2>1. CASE i = n + 1
    <3>1. j[i - 1] = F[g]
      BY <1>1, <1>2, <1>3, <2>1
    <3> QED
      BY <1>1, <1>2, <1>3, <2>1, <3>1 DEF Step
  <2>2. CASE i \in 1 .. n
    <3>1. j[i - 1] = h[i - 1] /\ j[i] = h[i] /\ l2[i] = l[i]
      <4>1. i - 1 \in 0 .. n /\ i \in 0 .. n
        BY <1>1, <2>2
      <4> QED
        BY <1>1, <1>2, <2>2, <4>1
    <3>2. /\ h[i] = applyOp(h[i - 1], g, l[i].op)
          /\ NeedSendBackCh(l[i].op) /\ verdict(h[i - 1], g, l[i].op) = "OK" => l[i].op \in D
      BY <2>2 DEF Run, n
    <3> QED
      BY <3>1, <3>2 DEF Step
  <2> QED
    BY <1>1, <2>1, <2>2
<1>6. ASSUME NEW i \in 0 .. n + 1
      PROVE  /\ j[i] \in State /\ Justified(j[i].ClientLastRequest, E)
             /\ Len(j[i].AllConfigs) <= Len(cs)
             /\ AtLast(cs, j[i]) =>
                   /\ AtLast(cs, G[g])
                   /\ \A k \in Shard : Now(cs, k) # g => j[i].ShardKVStore[k] = G[g].ShardKVStore[k]
  <2>1. CASE i = n + 1
    BY <1>2, <1>4, <2>1
  <2>2. CASE i \in 0 .. n
    <3>1. j[i] = h[i]
      BY <1>2, <2>2
    <3>2. /\ h[i] \in State /\ Justified(h[i].ClientLastRequest, D)
          /\ Len(h[i].AllConfigs) <= Len(cs)
          /\ AtLast(cs, h[i]) =>
                /\ AtLast(cs, F[g])
                /\ \A k \in Shard : Now(cs, k) # g => h[i].ShardKVStore[k] = F[g].ShardKVStore[k]
      BY <2>2 DEF Run, n
    <3>3. Justified(h[i].ClientLastRequest, E)
      BY <3>2, JustifiedMore DEF Step
    <3>4. AtLast(cs, h[i]) =>
             /\ AtLast(cs, G[g])
             /\ \A k \in Shard : Now(cs, k) # g => h[i].ShardKVStore[k] = G[g].ShardKVStore[k]
      BY <3>2 DEF Step
    <3> QED
      BY <3>1, <3>2, <3>3, <3>4
  <2> QED
    BY <1>1, <2>1, <2>2
<1>7. j[0] = state
  BY <1>1, <1>2, <1>3
<1>8. Run(cs, G, E, g, state, l2, j)
  BY <1>1, <1>2, <1>5, <1>6, <1>7 DEF Run
<1> QED
  BY <1>2, <1>8 DEF GoesOn, l2, n

(* The log of a server of another group. *)
LEMMA runOther ==
    ASSUME NEW cs, NEW F, NEW D, NEW g \in Gid, NEW q \in Gid, q # g, NEW state, NEW l,
           NEW h, Run(cs, F, D, q, state, l, h), NEW op,
           NEW G, NEW E, Step(cs, F, D, g, op, G, E)
    PROVE  Run(cs, G, E, q, state, l, h)
<1>1. G[q] = F[q] /\ D \subseteq E
  BY DEF Step, Moves
<1>2. \A i \in 0 .. Len(l) : Justified(h[i].ClientLastRequest, E)
  BY <1>1, JustifiedMore DEF Run
<1> QED
  BY <1>1, <1>2 DEF Run

LEMMA RestOf ==
    ASSUME NEW l \in Seq(Entry), NEW n \in Nat, n <= Len(l)
    PROVE  LET rest == SubSeq(l, n + 1, Len(l)) IN
           /\ Len(rest) = Len(l) - n
           /\ \A i \in 1 .. Len(l) - n : rest[i] = l[i + n] /\ i + n \in 1 .. Len(l)
<1> DEFINE rest == SubSeq(l, n + 1, Len(l))
<1>1. Len(l) \in Nat /\ n + 1 \in Int
  OBVIOUS
<1>2. Len(rest) = Len(l) - n
  BY <1>1
<1>3. \A i \in 1 .. Len(l) - n : rest[i] = l[n + i]
  BY <1>1, <1>2
<1>4. \A i \in 1 .. Len(l) - n : i + n \in 1 .. Len(l) /\ i + n = n + i
  BY <1>1
<1> QED
  BY <1>2, <1>3, <1>4

(* What is left of the log after a snapshot. *)
LEMMA runRest ==
    ASSUME NEW cs, NEW F, NEW D, NEW g, NEW state, NEW l \in Seq(Entry), NEW h,
           Run(cs, F, D, g, state, l, h), NEW n \in 1 .. Len(l)
    PROVE  \E j : j[0] = h[n] /\ Run(cs, F, D, g, h[n], SubSeq(l, n + 1, Len(l)), j)
<1> DEFINE rest == SubSeq(l, n + 1, Len(l))
           m == Len(l) - n
           j == [i \in 0 .. m |-> h[i + n]]
<1>1. Len(l) \in Nat /\ n \in Nat /\ m \in Nat /\ n + m = Len(l)
  OBVIOUS
<1>2. Len(rest) = m /\ \A i \in 1 .. m : rest[i] = l[i + n] /\ i + n \in 1 .. Len(l)
  <2>1. n <= Len(l) /\ n \in Nat
    BY <1>1
  <2> QED
    BY ONLY l \in Seq(Entry), <2>1, RestOf
<1> HIDE DEF rest, m
<1>3. \A i \in 0 .. m : j[i] = h[i + n] /\ i + n \in 0 .. Len(l)
  BY <1>1
<1> HIDE DEF j
<1>4. j[0] = h[n] /\ j[m] = F[g]
  <2>1. 0 \in 0 .. m /\ m \in 0 .. m /\ 0 + n = n /\ m + n = Len(l)
    BY <1>1
  <2> QED
    BY <1>3, <2>1 DEF Run
<1>5. ASSUME NEW i \in 1 .. m
      PROVE  /\ j[i] = applyOp(j[i - 1], g, rest[i].op)
             /\ NeedSendBackCh(rest[i].op) /\ verdict(j[i - 1], g, rest[i].op) = "OK" =>
                   rest[i].op \in D
  <2>1. i \in 0 .. m /\ i - 1 \in 0 .. m /\ (i - 1) + n = (i + n) - 1
    BY <1>1
  <2>2. j[i] = h[i + n] /\ j[i - 1] = h[(i + n) - 1] /\ rest[i] = l[i + n]
    BY <1>2, <1>3, <2>1
  <2>3. i + n \in 1 .. Len(l)
    BY <1>2
  <2> QED
    BY <2>2, <2>3 DEF Run
<1>6. \A i \in 0 .. m :
         /\ j[i] \in State /\ Justified(j[i].ClientLastRequest, D)
         /\ Len(j[i].AllConfigs) <= Len(cs)
         /\ AtLast(cs, j[i]) =>
               /\ AtLast(cs, F[g])
               /\ \A k \in Shard : Now(cs, k) # g => j[i].ShardKVStore[k] = F[g].ShardKVStore[k]
  BY <1>3 DEF Run
<1>7. Run(cs, F, D, g, h[n], rest, j)
  BY <1>2, <1>4, <1>5, <1>6 DEF Run
<1> QED
  BY <1>4, <1>7 DEF rest

(* With a new configuration nobody is in the last one. *)
LEMMA runReconfigure ==
    ASSUME NEW cs, ConfigsOK(cs), NEW ds, Len(ds) = Len(cs) + 1, NEW F, NEW D, NEW g, NEW state,
           NEW l, NEW h, Run(cs, F, D, g, state, l, h)
    PROVE  Run(ds, F, D, g, state, l, h)
<1>1. ASSUME NEW i \in 0 .. Len(l)
      PROVE  /\ h[i] \in State /\ Justified(h[i].ClientLastRequest, D)
             /\ Len(h[i].AllConfigs) <= Len(ds) /\ ~AtLast(ds, h[i])
  <2>1. h[i] \in State /\ Justified(h[i].ClientLastRequest, D) /\ Len(h[i].AllConfigs) <= Len(cs)
    BY DEF Run
  <2>2. Len(h[i].AllConfigs) \in Nat /\ Len(cs) \in Nat
    BY <2>1, LatestConfigOK DEF ConfigsOK
  <2> QED
    BY <2>1, <2>2 DEF AtLast
<1> QED
  BY <1>1 DEF Run

-----------------------------------------------------------------------------
(* The actions *)

LEMMA configsOK == Inv => ConfigsOK(configs)
  BY sizes DEF Inv, NumbersOK, ConfigsOK

(* An action that leaves configurations, logs, snapshots and states alone. *)
LEMMA storyQuiet ==
    ASSUME NEW F, NEW D, Story(F, D), UNCHANGED <<configs, log, snap>>,
           \A s \in Server : kv'[s].state = kv[s].state /\ kv'[s].applied = kv[s].applied,
           \A f \in fetches' : Brings(F, D, f)',
           \A s \in Server : LaggingOK(s)',
           \A c \in Clerk : ClerkOK(D, c)'
    PROVE  Story(F, D)'
<1>1. ASSUME NEW s \in Server PROVE Runs(F, D, s)'
  <2>1. PICK h : /\ Run(configs, F, D, gid(s), snap[s], log[s], h)
                 /\ kv[s].applied >= 0 => kv[s].state = h[kv[s].applied]
    BY DEF Story, Runs
  <2>2. /\ Run(configs', F, D, gid(s), snap'[s], log'[s], h)
        /\ kv'[s].applied >= 0 => kv'[s].state = h[kv'[s].applied]
    BY <2>1
  <2> QED
    BY <2>2 DEF Runs
<1>2. Hist(configs', F, D)
  BY DEF Story
<1> QED
  BY <1>1, <1>2 DEF Story

(* What is fetched stays what it is while groups go on. *)
LEMMA stepBrings ==
    ASSUME TypeInv, NEW F, NEW D, Story(F, D), NEW g \in Gid, NEW op, NEW G, NEW E,
           Step(configs, F, D, g, op, G, E), UNCHANGED configs, NEW f \in fetches
    PROVE  Brings(G, E, f)'
<1> DEFINE q == gid(f.server)
<1>0. f \in Fetch /\ f.sid \in Shard /\ q \in Gid /\ owner(f) \in Gid
  BY fetchOK, ServerFacts DEF Fetch
<1>1. Brings(F, D, f)
  BY DEF Story
<1>2. \A r \in Gid : AtLast(configs, F[r]) => AtLast(configs, G[r])
  BY DEF Step, Moves
<1>3. \A r \in Gid : AtLast(configs, F[r]) /\ Now(configs, f.sid) # r =>
         G[r].ShardKVStore[f.sid] = F[r].ShardKVStore[f.sid]
  BY <1>0 DEF Step, Moves
<1>4. f.reply # Nil => Justified(f.reply.ClientLastRequest, E)
  BY <1>1, JustifiedMore DEF Brings, Step
<1>5. Brings(G, E, f)
  <2> HIDE DEF q
  <2>1. AtLast(configs, G[q]) /\ Now(configs, f.sid) = q
    BY <1>0, <1>1, <1>2 DEF Brings, q
  <2>2. ASSUME f.reply # Nil, f.reply.ConfigNum = lastNum(configs), owner(f) # q
        PROVE  /\ AtLast(configs, G[owner(f)])
               /\ f.reply.ShardData = G[owner(f)].ShardKVStore[f.sid]
    <3>1. /\ AtLast(configs, F[owner(f)])
          /\ f.reply.ShardData = F[owner(f)].ShardKVStore[f.sid]
      BY <1>1, <2>2 DEF Brings, q
    <3> QED
      BY <1>0, <1>2, <1>3, <2>1, <2>2, <3>1
  <2> QED
    BY <1>4, <2>1, <2>2 DEF Brings, q
<1> QED
  BY <1>5 DEF Brings, owner

(* An entry that Start adds to the logs of a group. *)
LEMMA storyStart ==
    ASSUME Inv, NEW F, NEW D, Story(F, D), NEW s \in Server, NEW op \in Op, NEW G, NEW E,
           Step(configs, F, D, gid(s), op, G, E),
           log' = [t \in Server |-> IF gid(t) = gid(s)
                                    THEN Append(log[t], [op |-> op, ServerId |-> s])
                                    ELSE log[t]],
           UNCHANGED <<configs, snap>>, fetches' \subseteq fetches,
           \A t \in Server : /\ kv'[t].state = kv[t].state /\ kv'[t].applied = kv[t].applied
                             /\ kv'[t].lagging = kv[t].lagging,
           \A c \in Clerk : ClerkOK(E, c)'
    PROVE  Story(G, E)'
<1> DEFINE e == [op |-> op, ServerId |-> s]
<1>0. gid(s) \in Gid /\ TypeInv /\ ConfigsOK(configs)
  BY ServerFacts, configsOK DEF Inv
<1>1. e \in Entry /\ e.op = op
  BY DEF Entry
<1>2. \A t \in Server : log'[t] = IF gid(t) = gid(s) THEN Append(log[t], e) ELSE log[t]
  OBVIOUS
<1> HIDE DEF e
<1>3. ASSUME NEW t \in Server PROVE Runs(G, E, t)'
  <2>1. PICK h : /\ Run(configs, F, D, gid(t), snap[t], log[t], h)
                 /\ kv[t].applied >= 0 => kv[t].state = h[kv[t].applied]
    BY DEF Story, Runs
  <2>2. /\ log[t] \in Seq(Entry) /\ Len(log[t]) \in Nat /\ kv[t].applied \in -1 .. Len(log[t])
        /\ gid(t) \in Gid
    BY <1>0, sizes, ServerFacts
  <2>3. CASE gid(t) = gid(s)
    <3>1. GoesOn(configs, G, E, gid(s), snap[t], log[t], e, h)
      <4>1. /\ Step(configs, F, D, gid(s), e.op, G, E)
            /\ Run(configs, F, D, gid(s), snap[t], log[t], h)
        BY <1>1, <2>1, <2>3
      <4> QED
        BY ONLY <1>0, <1>1, <2>2, <4>1, runAppend
    <3>2. PICK j : /\ Run(configs, G, E, gid(s), snap[t], Append(log[t], e), j)
                   /\ \A i \in 0 .. Len(log[t]) : j[i] = h[i]
      BY <3>1 DEF GoesOn
    <3>3. kv'[t].applied >= 0 => kv'[t].state = j[kv'[t].applied]
      BY <2>1, <2>2, <3>2
    <3>4. Run(configs', G, E, gid(t), snap'[t], log'[t], j)
      BY <1>2, <2>3, <3>2
    <3> QED
      BY <3>3, <3>4 DEF Runs
  <2>4. CASE gid(t) # gid(s)
    <3>1. Run(configs, G, E, gid(t), snap[t], log[t], h)
      BY <1>0, <2>1, <2>2, <2>4, runOther
    <3>2. /\ Run(configs', G, E, gid(t), snap'[t], log'[t], h)
          /\ kv'[t].applied >= 0 => kv'[t].state = h[kv'[t].applied]
      BY <1>2, <2>1, <2>4, <3>1
    <3> QED
      BY <3>2 DEF Runs
  <2> QED
    BY <2>3, <2>4
<1>4. Hist(configs', G, E)
  BY DEF Step
<1>5. \A f \in fetches' : Brings(G, E, f)'
  BY <1>0, stepBrings
<1>6. \A t \in Server : LaggingOK(t)'
  BY DEF Story, LaggingOK
<1> QED
  BY <1>3, <1>4, <1>5, <1>6 DEF Story

(* The configuration of a server that has its state. *)
LEMMA serverConfig ==
    ASSUME Inv, NEW s \in Server, kv[s].applied >= 0
    PROVE  LET m == Len(kv[s].state.AllConfigs) IN
           /\ m \in 1 .. Len(configs) /\ m = Len(snap[s].AllConfigs)
           /\ LatestConfig(kv[s].state) = configs[m] /\ configs[m].Num = m - 1
<1> DEFINE m == Len(snap[s].AllConfigs)
<1>1. kv[s].state.AllConfigs = snap[s].AllConfigs
  BY DEF Inv, ServerOK
<1>2. m \in Nat \ {0} /\ m \in 1 .. m /\ Len(configs) \in Nat
  BY sizes DEF Inv
<1>3. m <= Len(configs) /\ snap[s].AllConfigs[m] = configs[m]
  BY <1>2 DEF Inv, ServerOK, Follows
<1>4. m \in 1 .. Len(configs)
  BY <1>2, <1>3
<1>5. configs[m].Num = m - 1
  BY <1>4 DEF Inv, NumbersOK
<1> QED
  BY <1>1, <1>3, <1>4, <1>5 DEF LatestConfig

(* A server that waits for its snapshot is in no configuration. *)
LEMMA restartedConfig ==
    ASSUME Inv, NEW s \in Server, ~(kv[s].applied >= 0)
    PROVE  /\ LatestConfig(kv[s].state).Num = 0
           /\ \A k \in Shard : LatestConfig(kv[s].state).Shards[k] # gid(s)
<1>1. kv[s].applied < 0
  BY sizes DEF Inv
<1>2. kv[s].state = makeState
  BY <1>1 DEF Inv, TypeInv, RestartedAreEmpty
<1>3. LatestConfig(kv[s].state) = initialConfig
  BY <1>2 DEF makeState, LatestConfig
<1> QED
  BY <1>3, ServerFacts, ZeroIsNoGroup DEF initialConfig

(* A clerk whose calls stay the same. *)
LEMMA sameClerk ==
    ASSUME NEW D, NEW c, ClerkOK(D, c),
           \/ clerk'[c] = clerk[c]
           \/ /\ clerk'[c].op = clerk[c].op /\ clerk'[c].requestIndex = clerk[c].requestIndex
              /\ clerk'[c].acked = clerk[c].acked
    PROVE  ClerkOK(D, c)'
<1>1. /\ clerk'[c].op = clerk[c].op /\ clerk'[c].requestIndex = clerk[c].requestIndex
      /\ clerk'[c].acked = clerk[c].acked
  OBVIOUS
<1> QED
  BY <1>1 DEF ClerkOK

LEMMA checkShardsStory ==
    ASSUME Inv, NEW F, NEW D, Story(F, D), NEW s \in Server, checkShards(s)
    PROVE  Story(F, D)'
<1>1. UNCHANGED <<configs, log, fetches, clerk, snap>>
  BY DEF checkShards
<1>2. \A t \in Server : /\ kv'[t].state = kv[t].state /\ kv'[t].applied = kv[t].applied
                        /\ kv'[t].lagging = kv[t].lagging
  BY DEF checkShards, Inv, TypeInv, TypeOK, KVState
<1>3. \A f \in fetches' : Brings(F, D, f)'
  BY <1>1 DEF Story, Brings, owner
<1>4. \A t \in Server : LaggingOK(t)'
  BY <1>1, <1>2 DEF Story, LaggingOK
<1>5. \A c \in Clerk : ClerkOK(D, c)'
  BY <1>1, sameClerk DEF Story
<1> QED
  BY <1>1, <1>2, <1>3, <1>4, <1>5, storyQuiet

LEMMA findLaggingStory ==
    ASSUME Inv, NEW F, NEW D, Story(F, D), NEW s \in Server, findLagging(s)
    PROVE  Story(F, D)'
<1>1. UNCHANGED <<configs, log, fetches, clerk, snap>>
  BY DEF findLagging
<1>2. \A t \in Server : /\ kv'[t].state = kv[t].state /\ kv'[t].applied = kv[t].applied
                        /\ t # s => kv'[t].lagging = kv[t].lagging
  BY DEF findLagging, Inv, TypeInv, TypeOK, KVState
<1>3. kv'[s].lagging = laggingShards(kv[s].state, gid(s)) /\ kv'[s].lagging # {}
  <2>1. kv \in [Server -> KVState]
    BY DEF Inv, TypeInv, TypeOK
  <2> QED
    BY <2>1 DEF findLagging, KVState
<1>4. \A f \in fetches' : Brings(F, D, f)'
  BY <1>1 DEF Story, Brings, owner
<1>5. \A k \in kv'[s].lagging : k \in Shard /\ LatestConfig(kv[s].state).Shards[k] = gid(s)
  BY <1>3 DEF laggingShards
<1>6. kv[s].applied >= 0
  BY <1>3, <1>5, restartedConfig
<1>7. Len(snap[s].AllConfigs) = Len(configs)
  <2>1. findLagging(s) => Len(snap[s].AllConfigs) = Len(configs)
    <3>1. Inv'
      BY findLaggingInv
    <3> QED
      BY <1>1, <1>3, <3>1 DEF Inv, ServerOK
  <2> QED
    BY <2>1
<1>8. LaggingOK(s)'
  BY <1>1, <1>5, <1>6, <1>7, serverConfig DEF LaggingOK, Now
<1>9. \A t \in Server : LaggingOK(t)'
  <2> TAKE t \in Server
  <2>1. CASE t # s
    BY <1>1, <1>2, <2>1 DEF Story, LaggingOK
  <2> QED
    BY <1>8, <2>1
<1>10. \A c \in Clerk : ClerkOK(D, c)'
  BY <1>1, sameClerk DEF Story
<1> QED
  BY <1>1, <1>2, <1>4, <1>9, <1>10, storyQuiet

(* A fetch that begins: the group is in the last configuration and has the shard there. *)
LEMMA goAcquireShardsStory ==
    ASSUME Inv, NEW F, NEW D, Story(F, D), NEW s \in Server, goAcquireShards(s)
    PROVE  Story(F, D)'
<1>1. UNCHANGED <<configs, log, clerk, snap>> /\ kv[s].lagging # {}
  BY DEF goAcquireShards
<1>2. \A t \in Server : /\ kv'[t].state = kv[t].state /\ kv'[t].applied = kv[t].applied
                        /\ kv'[t].lagging = kv[t].lagging \/ kv'[t].lagging = {}
  BY DEF goAcquireShards, Inv, TypeInv, TypeOK, KVState
<1>3. \A f \in fetches' : \/ f \in fetches
                          \/ f.server = s /\ f.sid \in kv[s].lagging /\ f.reply = Nil
  BY DEF goAcquireShards
<1>4. AtLast(configs, F[gid(s)])
  <2>1. PICK h : Run(configs, F, D, gid(s), snap[s], log[s], h)
    BY DEF Story, Runs
  <2>2. Len(snap[s].AllConfigs) = Len(configs)
    BY <1>1 DEF Inv, ServerOK
  <2>3. 0 \in 0 .. Len(log[s])
    BY sizes DEF Inv
  <2> QED
    BY <2>1, <2>2, <2>3 DEF Run, AtLast
<1>5. \A k \in kv[s].lagging : Now(configs, k) = gid(s)
  BY DEF Story, LaggingOK
<1>6. ASSUME NEW f \in fetches' PROVE Brings(F, D, f)'
  <2>1. CASE f \in fetches
    BY <1>1, <2>1 DEF Story, Brings, owner
  <2>2. CASE f.server = s /\ f.sid \in kv[s].lagging /\ f.reply = Nil
    BY <1>1, <1>4, <1>5, <2>2 DEF Brings
  <2> QED
    BY <1>3, <2>1, <2>2
<1>7. \A t \in Server : LaggingOK(t)'
  BY <1>1, <1>2 DEF Story, LaggingOK
<1>8. \A c \in Clerk : ClerkOK(D, c)'
  BY <1>1, sameClerk DEF Story
<1> QED
  BY <1>1, <1>2, <1>6, <1>7, <1>8, storyQuiet

LEMMA acquireFailsStory ==
    ASSUME Inv, NEW F, NEW D, Story(F, D), NEW f \in fetches, acquireFails(f)
    PROVE  Story(F, D)'
<1>1. UNCHANGED <<configs, log, kv, clerk, snap>> /\ f.reply = Nil
  BY DEF acquireFails
<1> DEFINE next == [f EXCEPT !.si = f.si + 1]
<1>2. fetches' \subseteq fetches \cup {next}
  BY DEF acquireFails
<1>3. next.server = f.server /\ next.sid = f.sid /\ next.reply = Nil
  BY <1>1, fetchOK DEF Fetch, Inv
<1> HIDE DEF next
<1>4. ASSUME NEW e \in fetches' PROVE Brings(F, D, e)'
  <2>1. CASE e \in fetches
    BY <1>1, <2>1 DEF Story, Brings, owner
  <2>2. CASE e = next
    BY <1>1, <1>3, <2>2 DEF Story, Brings
  <2> QED
    BY <1>2, <2>1, <2>2
<1>5. \A t \in Server : LaggingOK(t)'
  BY <1>1 DEF Story, LaggingOK
<1>6. \A c \in Clerk : ClerkOK(D, c)'
  BY <1>1, sameClerk DEF Story
<1> QED
  BY <1>1, <1>4, <1>5, <1>6, storyQuiet

(* A server of the group before that is in the last configuration has what its group has,
   for good, of a shard that the group does not have any more. *)
LEMMA AcquireShardsStory ==
    ASSUME Inv, NEW F, NEW D, Story(F, D), NEW f \in fetches, AcquireShards(f)
    PROVE  Story(F, D)'
<1> DEFINE s == <<owner(f), f.si>>
           state == kv[s].state
           num == LatestConfig(state).Num
           reply == [ConfigNum         |-> num,
                     ShardData         |-> state.ShardKVStore[f.sid],
                     ClientLastRequest |-> state.ClientLastRequest]
           next == [f EXCEPT !.reply = reply]
<1>1. UNCHANGED <<configs, log, kv, clerk, snap>> /\ num # 0
  BY DEF AcquireShards
<1>2. fetches' = (fetches \ {f}) \cup {next}
  BY DEF AcquireShards
<1>3. f \in Fetch /\ s \in Server /\ gid(s) = owner(f) /\ f.sid \in Shard
  BY fetchOK DEF Inv, Fetch
<1>4. /\ next.server = f.server /\ next.sid = f.sid /\ next.reply = reply
      /\ next.target = f.target
  <2> HIDE DEF reply
  <2> QED
    BY <1>3 DEF Fetch
<1>5. /\ reply.ConfigNum = num /\ reply.ShardData = state.ShardKVStore[f.sid]
      /\ reply.ClientLastRequest = state.ClientLastRequest
  OBVIOUS
<1> HIDE DEF s, reply, next
<1>6. kv[s].applied >= 0
  BY <1>1, <1>3, restartedConfig
<1>7. num = lastNum(configs) => AtLast(configs, state)
  <2>1. num = Len(state.AllConfigs) - 1 /\ Len(state.AllConfigs) \in Nat /\ Len(configs) \in Nat
    BY <1>3, <1>6, serverConfig, sizes DEF Inv
  <2> HIDE DEF num, state
  <2> QED
    BY <2>1 DEF lastNum, AtLast
<1>8. PICK h : /\ Run(configs, F, D, gid(s), snap[s], log[s], h)
               /\ state = h[kv[s].applied]
  BY <1>3, <1>6 DEF Story, Runs
<1>9. kv[s].applied \in 0 .. Len(log[s])
  BY <1>3, <1>6, sizes DEF Inv
<1>10. /\ Justified(state.ClientLastRequest, D)
       /\ AtLast(configs, state) =>
             /\ AtLast(configs, F[owner(f)])
             /\ \A k \in Shard : Now(configs, k) # owner(f) =>
                   state.ShardKVStore[k] = F[owner(f)].ShardKVStore[k]
  BY <1>3, <1>8, <1>9 DEF Run
<1> HIDE DEF num, state
<1>11. owner(next) = owner(f)
  BY <1>4 DEF owner
<1>12. Brings(F, D, next)
  <2>1. AtLast(configs, F[gid(f.server)]) /\ Now(configs, f.sid) = gid(f.server)
    BY DEF Story, Brings
  <2>2. num = lastNum(configs) /\ owner(f) # gid(f.server) =>
           AtLast(configs, F[owner(f)]) /\ state.ShardKVStore[f.sid] = F[owner(f)].ShardKVStore[f.sid]
    BY <1>3, <1>7, <1>10, <2>1
  <2> QED
    BY <1>4, <1>5, <1>10, <1>11, <2>1, <2>2 DEF Brings
<1>13. \A e \in fetches' : Brings(F, D, e)
  BY <1>2, <1>12 DEF Story
<1>14. \A e \in fetches' : Brings(F, D, e)'
  BY <1>1, <1>13 DEF Brings, owner
<1>15. \A t \in Server : LaggingOK(t)'
  BY <1>1 DEF Story, LaggingOK
<1>16. \A c \in Clerk : ClerkOK(D, c)'
  BY <1>1, sameClerk DEF Story
<1> QED
  BY <1>1, <1>14, <1>15, <1>16, storyQuiet

(* The calls of a clerk that goes on or breaks off stay the same. *)
LEMMA callGoesOn ==
    ASSUME TypeInv, NEW c \in Clerk, clerk' = goOn(c) \/ clerk' = break(c), NEW d \in Clerk
    PROVE  /\ clerk'[d].op = clerk[d].op /\ clerk'[d].requestIndex = clerk[d].requestIndex
           /\ clerk'[d].acked = clerk[d].acked
<1>1. clerk \in [Clerk -> ClerkState]
  BY DEF TypeInv, TypeOK
<1>2. CASE clerk' = goOn(c)
  BY <1>1, <1>2 DEF goOn, ClerkState
<1>3. CASE clerk' = break(c)
  BY <1>1, <1>3 DEF break, ClerkState
<1> QED
  BY <1>2, <1>3

(* An action of a clerk that touches nothing else. *)
LEMMA clerkQuiet ==
    ASSUME NEW F, NEW D, Story(F, D), UNCHANGED <<configs, log, kv, fetches, snap>>,
           \A c \in Clerk : ClerkOK(D, c)'
    PROVE  Story(F, D)'
<1>1. \A f \in fetches' : Brings(F, D, f)'
  BY DEF Story, Brings, owner
<1>2. \A t \in Server : LaggingOK(t)'
  BY DEF Story, LaggingOK
<1> QED
  BY <1>1, <1>2, storyQuiet

LEMMA beginStory ==
    ASSUME Inv, NEW F, NEW D, Story(F, D), NEW c \in Clerk, NEW type \in Calls[c], type # "PUT",
           NEW k \in Shard, begin(c, type, k)
    PROVE  Story(F, D)'
<1> DEFINE op == [Type |-> type, ShardId |-> k, ClientId |-> c,
                  RequestIndex |-> clerk[c].requestIndex]
<1>1. UNCHANGED <<configs, log, kv, fetches, snap>> /\ clerk[c].op = Nil
  BY DEF begin
<1>2. clerk \in [Clerk -> ClerkState] /\ clerk[c].requestIndex \in Nat /\ D \subseteq ClientOp
  BY DEF Inv, TypeInv, TypeOK, ClerkState, Story, Hist
<1>3. /\ clerk'[c].op = op /\ clerk'[c].requestIndex = clerk[c].requestIndex + 1
      /\ clerk'[c].acked = clerk[c].acked
      /\ \A d \in Clerk : d # c => clerk'[d] = clerk[d]
  BY <1>2 DEF begin, ClerkState
<1>4. op.ClientId = c /\ op.Type # "PUT" /\ op.RequestIndex = clerk[c].requestIndex
  OBVIOUS
<1> HIDE DEF op
<1>5. ClerkOK(D, c)'
  <2>1. /\ clerk'[c].op.ClientId = c /\ clerk'[c].op.Type # "PUT"
        /\ clerk'[c].op.RequestIndex = clerk'[c].requestIndex - 1
    BY <1>2, <1>3, <1>4
  <2>2. ASSUME NEW o \in D, o.ClientId = c
        PROVE  o.RequestIndex < clerk'[c].requestIndex /\ o.RequestIndex # clerk'[c].requestIndex - 1
    <3>1. o.RequestIndex \in Nat /\ o.RequestIndex < clerk[c].requestIndex
      BY <1>2, <2>2 DEF Story, ClerkOK, ClientOp
    <3> QED
      BY <1>2, <1>3, <3>1
  <2>3. \A o \in clerk'[c].acked : o \in D /\ o.Type = "APPEND"
    BY <1>3 DEF Story, ClerkOK
  <2> QED
    BY <2>1, <2>2, <2>3 DEF ClerkOK
<1>6. \A d \in Clerk : ClerkOK(D, d)'
  <2> TAKE d \in Clerk
  <2>1. CASE d # c
    BY <1>3, <2>1, sameClerk DEF Story
  <2> QED
    BY <1>5, <2>1
<1> QED
  BY <1>1, <1>6, clerkQuiet

LEMMA clerkStory ==
    ASSUME Inv, NEW F, NEW D, Story(F, D), NEW c \in Clerk, refresh(c) \/ callFails(c) \/ refuse(c)
    PROVE  Story(F, D)'
<1>1. UNCHANGED <<configs, log, kv, fetches, snap>>
  BY DEF refresh, callFails, refuse
<1>2. \A d \in Clerk : /\ clerk'[d].op = clerk[d].op
                       /\ clerk'[d].requestIndex = clerk[d].requestIndex
                       /\ clerk'[d].acked = clerk[d].acked
  <2>1. CASE refresh(c)
    <3>1. clerk \in [Clerk -> ClerkState]
      BY DEF Inv, TypeInv, TypeOK
    <3> QED
      BY <2>1, <3>1 DEF refresh, ClerkState
  <2>2. CASE callFails(c) \/ refuse(c)
    BY <2>2, callGoesOn DEF callFails, refuse, Inv
  <2> QED
    BY <2>1, <2>2
<1>3. \A d \in Clerk : ClerkOK(D, d)'
  BY <1>2, sameClerk DEF Story
<1> QED
  BY <1>1, <1>3, clerkQuiet

(* A request that the group knows already was carried out. *)
LEMMA duplicates ==
    ASSUME TypeInv, NEW F, NEW D, Story(F, D), NEW c \in Clerk, clerk[c].op \in ClientOp,
           clerk[c].op # Nil, NEW g \in Gid, isDuplicateOp(F[g], clerk[c].op)
    PROVE  clerk[c].op \in D
<1> DEFINE op == clerk[c].op
           n == F[g].ClientLastRequest[c]
<1>1. /\ op.ClientId = c /\ op.RequestIndex = clerk[c].requestIndex - 1
      /\ op.RequestIndex \in Nat /\ clerk[c].requestIndex \in Nat
  BY DEF Story, ClerkOK, ClientOp, TypeInv, TypeOK, ClerkState
<1>2. n \in Nat \cup {-1} /\ op.RequestIndex <= n
  <2>1. F[g] \in State
    BY DEF Story, Hist
  <2> QED
    BY <1>1, <2>1 DEF isDuplicateOp, State, LastRequests
<1>3. n # -1
  BY <1>1, <1>2
<1>4. PICK o \in D : o.ClientId = c /\ o.RequestIndex = n
  BY <1>3 DEF Story, Hist, Justified
<1>5. o.RequestIndex < clerk[c].requestIndex
  BY <1>4 DEF Story, ClerkOK
<1>6. o.RequestIndex = clerk[c].requestIndex - 1
  <2> HIDE DEF op, n
  <2> QED
    BY <1>1, <1>2, <1>3, <1>4, <1>5
<1>7. o = clerk[c].op
  BY <1>4, <1>6 DEF Story, ClerkOK
<1> QED
  BY <1>7

LEMMA acceptStory ==
    ASSUME Inv, NEW F, NEW D, Story(F, D), NEW c \in Clerk, accept(c)
    PROVE  \E G, E : Story(G, E)'
<1>0. TypeInv /\ ConfigsOK(configs) /\ Hist(configs, F, D)
  BY configsOK DEF Inv, Story
<1>1. target(c) \in Server /\ clerk[c].op \in ClientOp /\ clerk[c].op # Nil
  BY <1>0, triesOK DEF accept, tries
<1>2. PICK s \in Server : s = target(c)
  BY <1>1
<1>3. PICK op \in ClientOp : op = clerk[c].op
  BY <1>1
<1>4. /\ log' = [t \in Server |-> IF gid(t) = gid(s)
                                  THEN Append(log[t], [op |-> op, ServerId |-> s])
                                  ELSE log[t]]
      /\ UNCHANGED <<configs, kv, fetches, snap>>
  BY <1>2, <1>3 DEF accept, Start
<1>5. PICK g \in Gid : g = gid(s)
  BY ServerFacts
<1>6. PICK E : E = IF verdict(F[g], g, op) = "OK" THEN D \cup {op} ELSE D
  OBVIOUS
<1>7. PICK G : G = [F EXCEPT ![g] = applyOp(F[g], g, op)]
  OBVIOUS
<1>8. op.Type # "PUT" /\ op.ClientId = c /\ op.RequestIndex = clerk[c].requestIndex - 1
  BY <1>1, <1>3 DEF Story, ClerkOK
<1>9. isDuplicateOp(F[g], op) => op \in D
  BY <1>0, <1>1, <1>3, duplicates
<1>10. Step(configs, F, D, g, op, G, E)
  <2> DEFINE state == applyOp(F[g], g, op)
  <2>1. /\ Hist(configs, [F EXCEPT ![g] = state], E) /\ state \in State
        /\ state.AllConfigs = F[g].AllConfigs
        /\ \A k \in Shard : AtLast(configs, F[g]) /\ Now(configs, k) # g =>
              state.ShardKVStore[k] = F[g].ShardKVStore[k]
    BY <1>0, <1>6, <1>8, <1>9, histClient
  <2>2. G = [F EXCEPT ![g] = state]
    BY <1>7
  <2> HIDE DEF state
  <2>3. F \in [Gid -> State]
    BY <1>0 DEF Hist
  <2>4. Moves(F, G, g, state) /\ G[g] = state
    BY <2>1, <2>2, <2>3 DEF Moves
  <2>5. AtLast(configs, F[g]) => AtLast(configs, G[g])
    BY <2>1, <2>4 DEF AtLast
  <2>6. D \subseteq E /\ (verdict(F[g], g, op) = "OK" => op \in E)
    BY <1>6
  <2>7. Hist(configs, G, E)
    BY <2>1, <2>2
  <2> QED
    BY <2>1, <2>4, <2>5, <2>6, <2>7 DEF Step, state
<1>11. clerk \in [Clerk -> ClerkState] /\ clerk[c].requestIndex \in Nat /\ op.RequestIndex \in Nat
  BY <1>0 DEF TypeInv, TypeOK, ClerkState, ClientOp
<1>12. \A d \in Clerk : /\ clerk'[d].op = clerk[d].op
                        /\ clerk'[d].requestIndex = clerk[d].requestIndex
                        /\ clerk'[d].acked = clerk[d].acked
  BY <1>11 DEF accept, ClerkState
<1>13. ASSUME NEW d \in Clerk PROVE ClerkOK(E, d)
  <2>1. ClerkOK(D, d) /\ D \subseteq E /\ E \subseteq D \cup {op}
    BY <1>6 DEF Story
  <2>2. ASSUME NEW o \in E, o.ClientId = d
        PROVE  /\ o.RequestIndex < clerk[d].requestIndex
               /\ clerk[d].op # Nil /\ o.RequestIndex = clerk[d].requestIndex - 1 => o = clerk[d].op
    <3>1. CASE o \in D
      BY <2>1, <2>2, <3>1 DEF ClerkOK
    <3>2. CASE o = op
      BY <1>3, <1>8, <1>11, <2>2, <3>2
    <3> QED
      BY <2>1, <3>1, <3>2
  <2> QED
    BY <2>1, <2>2 DEF ClerkOK
<1>14. \A d \in Clerk : ClerkOK(E, d)'
  BY <1>12, <1>13, sameClerk
<1>15. op \in Op /\ Step(configs, F, D, gid(s), op, G, E)
  BY <1>5, <1>10 DEF Op
<1>16. Story(G, E)'
  BY <1>4, <1>14, <1>15, storyStart
<1> QED
  BY <1>16

LEMMA startInstallStory ==
    ASSUME Inv, NEW F, NEW D, Story(F, D), NEW s \in Server, NEW accepted,
           startInstall(s, accepted)
    PROVE  \E G, E : Story(G, E)'
<1>0. TypeInv /\ ConfigsOK(configs) /\ Hist(configs, F, D)
  BY configsOK DEF Inv, Story
<1>1. UNCHANGED <<configs, fetches, clerk, snap>>
  BY DEF startInstall
<1>2. \A t \in Server : /\ kv'[t].state = kv[t].state /\ kv'[t].applied = kv[t].applied
                        /\ kv'[t].lagging = kv[t].lagging
  BY DEF startInstall, Inv, TypeInv, TypeOK, KVState
<1>3. \A c \in Clerk : ClerkOK(D, c)'
  BY <1>1, sameClerk DEF Story
<1> DEFINE num == LatestConfig(kv[s].state).Num + 1
           command == [Type |-> "InstallShardConfig", ShardConfig |-> Query(num)]
<1>4. num \in Int
  <2>1. LatestConfig(kv[s].state) \in Config
    BY <1>0, sizes, LatestConfigOK
  <2> QED
    BY <2>1 DEF Config
<1>5. UNCHANGED log \/ Start(s, command, accepted)
  BY DEF startInstall
<1>6. Query(num) \in Config /\ \E n \in 1 .. Len(configs) : Query(num) = configs[n]
  <2> HIDE DEF num
  <2> QED
    BY <1>0, <1>4, QueryOK
<1>7. PICK n \in 1 .. Len(configs) : Query(num) = configs[n]
  BY <1>6
<1>8. CASE UNCHANGED log
  <2>1. \A f \in fetches' : Brings(F, D, f)'
    BY <1>1 DEF Story, Brings, owner
  <2>2. \A t \in Server : LaggingOK(t)'
    BY <1>1, <1>2 DEF Story, LaggingOK
  <2>3. Story(F, D)'
    BY <1>1, <1>2, <1>3, <1>8, <2>1, <2>2, storyQuiet
  <2> QED
    BY <2>3
<1>9. CASE ~UNCHANGED log
  <2>1. PICK op : op = command
    OBVIOUS
  <2>2. op \in Op /\ op.Type = "InstallShardConfig" /\ op.ShardConfig = configs[n]
    <3> HIDE DEF num
    <3> QED
      BY <1>6, <1>7, <2>1 DEF Op
  <2>3. log' = [t \in Server |-> IF gid(t) = gid(s)
                                 THEN Append(log[t], [op |-> op, ServerId |-> s])
                                 ELSE log[t]]
    BY <1>5, <1>9, <2>1 DEF Start
  <2>4. PICK g \in Gid : g = gid(s)
    BY ServerFacts
  <2>5. PICK state : state = handleInstallShardConfig(F[g], g, configs[n])
    OBVIOUS
  <2>6. PICK G : G = [F EXCEPT ![g] = state]
    OBVIOUS
  <2>7. F \in [Gid -> State] /\ configs[n] \in Config
    BY <1>0 DEF Hist, ConfigsOK
  <2>8. state \in State
    BY <2>5, <2>7, handleInstallShardConfigOK
  <2>9. Moves(F, G, g, state) /\ G[g] = state
    BY <2>6, <2>7, <2>8 DEF Moves
  <2>10. Hist(configs, G, D) /\ (state = F[g] \/ ~AtLast(configs, F[g]))
    BY <1>0, <2>5, <2>9, histInstall
  <2>11. applyOp(F[g], g, op) = state /\ ~NeedSendBackCh(op)
    BY <2>2, <2>5 DEF applyOp, NeedSendBackCh
  <2>12. Step(configs, F, D, gid(s), op, G, D)
    BY <2>4, <2>9, <2>10, <2>11 DEF Step
  <2>13. Story(G, D)'
    BY <1>1, <1>2, <1>3, <2>2, <2>3, <2>12, storyStart
  <2> QED
    BY <2>13
<1> QED
  BY <1>8, <1>9

LEMMA handleAcquireShardReplyStory ==
    ASSUME Inv, NEW F, NEW D, Story(F, D), NEW f \in fetches, NEW accepted,
           handleAcquireShardReply(f, accepted)
    PROVE  \E G, E : Story(G, E)'
<1>0. TypeInv /\ ConfigsOK(configs) /\ Hist(configs, F, D)
  BY configsOK DEF Inv, Story
<1>1. UNCHANGED <<configs, kv, clerk, snap>> /\ fetches' \subseteq fetches /\ f.reply # Nil
  BY DEF handleAcquireShardReply
<1>2. \A c \in Clerk : ClerkOK(D, c)'
  BY <1>1, sameClerk DEF Story
<1>3. f \in Fetch /\ f.server \in Server /\ owner(f) \in Gid
  BY <1>0, fetchOK DEF Fetch
<1>4. PICK op : op = acquireOp(f)
  OBVIOUS
<1>5. /\ op \in Op /\ op.Type = "AcquireShard" /\ op.ShardId = f.sid
      /\ op.ShardConfigNum = f.reply.ConfigNum /\ op.ShardData = f.reply.ShardData
      /\ op.ClientLastRequest = f.reply.ClientLastRequest
  BY <1>1, <1>3, <1>4, acquireOpOK DEF acquireOp
<1>6. PICK s \in Server : s = f.server
  BY <1>3
<1>7. Start(s, op, accepted)
  BY <1>4, <1>6 DEF handleAcquireShardReply, acquireOp
<1>8. CASE UNCHANGED log
  <2>1. \A e \in fetches' : Brings(F, D, e)'
    BY <1>1 DEF Story, Brings, owner
  <2>2. \A t \in Server : LaggingOK(t)'
    BY <1>1 DEF Story, LaggingOK
  <2>3. Story(F, D)'
    BY <1>1, <1>2, <1>8, <2>1, <2>2, storyQuiet
  <2> QED
    BY <2>3
<1>9. CASE ~UNCHANGED log
  <2>1. log' = [t \in Server |-> IF gid(t) = gid(s)
                                 THEN Append(log[t], [op |-> op, ServerId |-> s])
                                 ELSE log[t]]
    BY <1>7, <1>9 DEF Start
  <2>2. PICK g \in Gid : g = gid(s)
    BY ServerFacts
  <2>3. /\ AtLast(configs, F[g]) /\ Now(configs, f.sid) = g
        /\ Justified(f.reply.ClientLastRequest, D)
        /\ f.reply.ConfigNum = lastNum(configs) /\ owner(f) # g =>
              /\ AtLast(configs, F[owner(f)])
              /\ f.reply.ShardData = F[owner(f)].ShardKVStore[f.sid]
    BY <1>1, <1>6, <2>2 DEF Story, Brings
  <2>4. /\ Len(configs) >= 2 /\ f.target = configs[Len(configs) - 1]
        /\ f.reply.ConfigNum <= lastNum(configs)
    BY <1>1 DEF Inv, FetchOK, latest, lastNum
  <2>5. Before(configs, f.sid) = owner(f)
    BY <2>4 DEF Before, owner
  <2>6. Brought(configs, F, D, g, op)
    BY <1>3, <1>5, <2>3, <2>4, <2>5 DEF Brought
  <2>7. PICK state : state = applyOp(F[g], g, op)
    OBVIOUS
  <2>8. PICK G : G = [F EXCEPT ![g] = state]
    OBVIOUS
  <2>9. F \in [Gid -> State]
    BY <1>0 DEF Hist
  <2>10. state \in State
    BY <1>5, <2>7, <2>9, handleAcquireShardOK DEF applyOp
  <2>11. Moves(F, G, g, state) /\ G[g] = state
    BY <2>8, <2>9, <2>10 DEF Moves
  <2>12. /\ Hist(configs, G, D) /\ state.AllConfigs = F[g].AllConfigs
         /\ \A k \in Shard : AtLast(configs, F[g]) /\ Now(configs, k) # g =>
               state.ShardKVStore[k] = F[g].ShardKVStore[k]
    BY <1>0, <2>6, <2>7, <2>11, histAcquire
  <2>13. ~NeedSendBackCh(op)
    BY <1>5 DEF NeedSendBackCh
  <2>14. AtLast(configs, F[g]) => AtLast(configs, G[g])
    BY <2>11, <2>12 DEF AtLast
  <2>15. Step(configs, F, D, gid(s), op, G, D)
    BY <2>2, <2>7, <2>11, <2>12, <2>13, <2>14 DEF Step
  <2>16. Story(G, D)'
    BY <1>1, <1>2, <1>5, <2>1, <2>15, storyStart
  <2> QED
    BY <2>16
<1> QED
  BY <1>8, <1>9

(* A snapshot is the beginning of the log that is left. *)
LEMMA installSnapshotStory ==
    ASSUME Inv, NEW F, NEW D, Story(F, D), NEW s \in Server, installSnapshot(s)
    PROVE  Story(F, D)'
<1>1. /\ \A t \in Server : kv'[t].state = IF t = s THEN snap[s] ELSE kv[t].state
      /\ \A t \in Server : kv'[t].applied = IF t = s THEN 0 ELSE kv[t].applied
      /\ \A t \in Server : kv'[t].lagging = kv[t].lagging
  BY installSnapshotTypes DEF Inv
<1>2. UNCHANGED <<configs, log, fetches, clerk, snap>>
  BY DEF installSnapshot
<1>3. ASSUME NEW t \in Server PROVE Runs(F, D, t)'
  <2>1. PICK h : /\ Run(configs, F, D, gid(t), snap[t], log[t], h)
                 /\ kv[t].applied >= 0 => kv[t].state = h[kv[t].applied]
    BY DEF Story, Runs
  <2>2. Run(configs', F, D, gid(t), snap'[t], log'[t], h)
    BY <1>2, <2>1
  <2>3. kv'[t].applied >= 0 => kv'[t].state = h[kv'[t].applied]
    BY <1>1, <2>1 DEF Run
  <2> QED
    BY <2>2, <2>3 DEF Runs
<1>4. \A f \in fetches' : Brings(F, D, f)'
  BY <1>2 DEF Story, Brings, owner
<1>5. \A t \in Server : LaggingOK(t)'
  BY <1>1, <1>2 DEF Story, LaggingOK
<1>6. \A c \in Clerk : ClerkOK(D, c)'
  BY <1>2, sameClerk DEF Story
<1>7. Hist(configs', F, D)
  BY <1>2 DEF Story
<1> QED
  BY <1>3, <1>4, <1>5, <1>6, <1>7 DEF Story

(* A crash leaves the log and the snapshot alone. *)
LEMMA StartServerStory ==
    ASSUME Inv, NEW F, NEW D, Story(F, D), NEW s \in Server, StartServer(s)
    PROVE  Story(F, D)'
<1>1. \A t \in Server : kv'[t] = IF t = s THEN startState(-1) ELSE kv[t]
  BY StartServerTypes DEF Inv
<1>2. UNCHANGED <<configs, log, snap>> /\ fetches' \subseteq fetches
  BY DEF StartServer
<1>3. startState(-1).applied = -1 /\ startState(-1).lagging = {}
  BY DEF startState
<1>4. ASSUME NEW t \in Server PROVE Runs(F, D, t)'
  <2>1. PICK h : /\ Run(configs, F, D, gid(t), snap[t], log[t], h)
                 /\ kv[t].applied >= 0 => kv[t].state = h[kv[t].applied]
    BY DEF Story, Runs
  <2>2. Run(configs', F, D, gid(t), snap'[t], log'[t], h)
    BY <1>2, <2>1
  <2>3. kv'[t].applied >= 0 => kv'[t].state = h[kv'[t].applied]
    BY <1>1, <1>3, <2>1
  <2> QED
    BY <2>2, <2>3 DEF Runs
<1>5. \A f \in fetches' : Brings(F, D, f)'
  BY <1>2 DEF Story, Brings, owner
<1>6. \A t \in Server : LaggingOK(t)'
  BY <1>1, <1>2, <1>3 DEF Story, LaggingOK
<1>7. ASSUME NEW c \in Clerk PROVE ClerkOK(D, c)'
  <2>1. clerk'[c] = IF clerk[c].server = s THEN goOn(c)[c] ELSE clerk[c]
    BY DEF StartServer
  <2>2. clerk \in [Clerk -> ClerkState]
    BY DEF Inv, TypeInv, TypeOK
  <2>3. /\ goOn(c)[c].op = clerk[c].op /\ goOn(c)[c].requestIndex = clerk[c].requestIndex
        /\ goOn(c)[c].acked = clerk[c].acked
    BY <2>2 DEF goOn, ClerkState
  <2> QED
    BY <2>1, <2>3, sameClerk DEF Story
<1>8. Hist(configs', F, D)
  BY <1>2 DEF Story
<1> QED
  BY <1>4, <1>5, <1>6, <1>7, <1>8 DEF Story

(* A request that is answered was carried out where it entered the log. *)
LEMMA handleCommandApplyStory ==
    ASSUME Inv, NEW F, NEW D, Story(F, D), NEW s \in Server, NEW answered,
           handleCommandApply(s, answered)
    PROVE  Story(F, D)'
<1> DEFINE index == kv[s].applied + 1
           op == log[s][index].op
           state == applyOp(kv[s].state, gid(s), op)
           rest == SubSeq(log[s], index + 1, Len(log[s]))
<1>0. TypeInv
  BY DEF Inv
<1>1. /\ index \in 1 .. Len(log[s]) /\ kv[s].applied \in Nat /\ op \in Op
      /\ \A t \in Server : kv'[t].state = IF t = s THEN state ELSE kv[t].state
      /\ \A t \in Server : kv'[t].lagging = kv[t].lagging
      /\ \A t \in Server : t # s => kv'[t] = kv[t] /\ snap'[t] = snap[t] /\ log'[t] = log[t]
      /\ \/ snap'[s] = state /\ kv'[s].applied = 0 /\ log'[s] = rest
         \/ kv'[s].applied = index /\ UNCHANGED <<snap, log>>
  BY <1>0, applyFacts
<1>2. UNCHANGED <<configs, fetches>>
  BY DEF handleCommandApply
<1>3. PICK h : /\ Run(configs, F, D, gid(s), snap[s], log[s], h)
               /\ kv[s].applied >= 0 => kv[s].state = h[kv[s].applied]
  BY DEF Story, Runs
<1>4. log[s] \in Seq(Entry) /\ Len(log[s]) \in Nat /\ index - 1 = kv[s].applied
  BY <1>0, <1>1, sizes
<1>5. kv[s].state = h[index - 1]
  BY <1>1, <1>3, <1>4
<1>6. /\ h[index] = state
      /\ NeedSendBackCh(op) /\ verdict(kv[s].state, gid(s), op) = "OK" => op \in D
  <2> HIDE DEF index
  <2> QED
    BY <1>1, <1>3, <1>5 DEF Run
<1>7. \A c \in Clerk : ClerkOK(D, c)'
  <2>1. CASE UNCHANGED clerk
    BY <2>1, sameClerk DEF Story
  <2>2. CASE opChannelMatch(s, log[s][index]) /\ clerk' = signalStartCh(s, op, answered)
    <3>0. PICK c : c = op.ClientId
      OBVIOUS
    <3>1. NeedSendBackCh(op) /\ op \in ClientOp /\ c \in Clerk /\ clerk[c].op = op
      BY <1>1, <2>2, <3>0 DEF opChannelMatch, NeedSendBackCh, Op, ClientOp
    <3>2. CASE clerk' = goOn(c) \/ clerk' = break(c)
      BY <1>0, <3>1, <3>2, callGoesOn, sameClerk DEF Story
    <3>3. CASE clerk' = return(c) /\ verdict(kv[s].state, gid(s), op) = "OK"
      <4> HIDE DEF index
      <4>1. clerk \in [Clerk -> ClerkState]
        BY <1>0 DEF TypeInv, TypeOK
      <4>2. /\ clerk'[c].op = Nil /\ clerk'[c].requestIndex = clerk[c].requestIndex
            /\ clerk'[c].acked = IF op.Type = "GET" THEN clerk[c].acked
                                 ELSE clerk[c].acked \cup {op}
            /\ \A d \in Clerk : d # c => clerk'[d] = clerk[d]
        <5> HIDE DEF op
        <5> QED
          BY <3>1, <3>3, <4>1 DEF return, ClerkState
      <4>3. op \in D /\ op.Type # "PUT" /\ op.Type \in {"GET", "PUT", "APPEND"}
        BY <1>6, <3>1, <3>3 DEF Story, Hist, ClientOp
      <4> HIDE DEF op
      <4>4. ClerkOK(D, c)'
        <5>1. ClerkOK(D, c)
          BY <3>1 DEF Story
        <5>2. \A o \in clerk'[c].acked : o \in D /\ o.Type = "APPEND"
          BY <4>2, <4>3, <5>1 DEF ClerkOK
        <5> QED
          BY <4>2, <5>1, <5>2 DEF ClerkOK
      <4> QED
        BY <4>2, <4>4, sameClerk DEF Story
    <3> QED
      BY <2>2, <3>0, <3>2, <3>3 DEF signalStartCh
  <2> QED
    BY <2>1, <2>2 DEF handleCommandApply
<1>8. Runs(F, D, s)'
  <2>1. CASE kv'[s].applied = index /\ UNCHANGED <<snap, log>>
    <3> HIDE DEF index, state, op
    <3>1. Run(configs', F, D, gid(s), snap'[s], log'[s], h) /\ kv'[s].state = h[kv'[s].applied]
      BY <1>1, <1>2, <1>3, <1>6, <2>1
    <3> QED
      BY <3>1 DEF Runs
  <2>2. CASE snap'[s] = state /\ kv'[s].applied = 0 /\ log'[s] = rest
    <3>1. \E j : j[0] = h[index] /\ Run(configs, F, D, gid(s), h[index], rest, j)
      <4> HIDE DEF index
      <4> QED
        BY <1>1, <1>3, <1>4, runRest
    <3> HIDE DEF index, state, op, rest
    <3>2. PICK j : j[0] = state /\ Run(configs, F, D, gid(s), state, rest, j)
      BY <1>6, <3>1
    <3>3. Run(configs', F, D, gid(s), snap'[s], log'[s], j) /\ kv'[s].state = j[kv'[s].applied]
      BY <1>1, <1>2, <2>2, <3>2
    <3> QED
      BY <3>3 DEF Runs
  <2> QED
    BY <1>1, <2>1, <2>2
<1> HIDE DEF index, state, op, rest
<1>9. ASSUME NEW t \in Server, t # s PROVE Runs(F, D, t)'
  <2>1. Runs(F, D, t) /\ kv'[t] = kv[t] /\ snap'[t] = snap[t] /\ log'[t] = log[t]
    BY <1>1, <1>9 DEF Story
  <2> QED
    BY <1>2, <2>1 DEF Runs
<1>10. \A f \in fetches' : Brings(F, D, f)'
  BY <1>2 DEF Story, Brings, owner
<1>11. \A t \in Server : LaggingOK(t)'
  BY <1>1, <1>2 DEF Story, LaggingOK
<1>12. Hist(configs', F, D)
  BY <1>2 DEF Story
<1> QED
  BY <1>7, <1>8, <1>9, <1>10, <1>11, <1>12 DEF Story

(* A server that has applied all of its log has the state of its group. *)
LEMMA currentState ==
    ASSUME Inv, NEW F, NEW D, Story(F, D), NEW s \in Server, current(s)
    PROVE  kv[s].applied >= 0 /\ kv[s].state = F[gid(s)]
<1>1. kv[s].applied = Len(log[s]) /\ Len(log[s]) \in Nat
  BY sizes DEF Inv, current
<1>2. PICK h : /\ Run(configs, F, D, gid(s), snap[s], log[s], h)
               /\ kv[s].applied >= 0 => kv[s].state = h[kv[s].applied]
  BY DEF Story, Runs
<1>3. kv[s].applied >= 0
  BY <1>1
<1> QED
  BY <1>1, <1>2, <1>3 DEF Run

(* The next configuration comes when every group has installed the last one, and has all of
   its shards. *)
LEMMA reconfigureStory ==
    ASSUME Inv, Settled, NEW F, NEW D, Story(F, D), NEW ctrlerOp \in CtrlerOp,
           reconfigure(ctrlerOp)
    PROVE  Story(F, D)'
<1>1. PICK config \in Config : configs' = Append(configs, config)
  BY reconfigureTypes DEF Inv
<1>2. UNCHANGED <<log, kv, fetches, clerk, snap>> /\ settled
  BY DEF reconfigure
<1>3. ConfigsOK(configs) /\ Hist(configs, F, D)
  BY configsOK DEF Story
<1>4. Len(configs') = Len(configs) + 1 /\ \A n \in 1 .. Len(configs) : configs'[n] = configs[n]
  <2>1. configs \in Seq(Config)
    BY <1>3 DEF ConfigsOK
  <2> QED
    BY <1>1, <2>1
<1>5. ASSUME NEW g \in Gid PROVE AtLast(configs, F[g]) /\ allShardsUpToDate(F[g], g)
  <2>1. <<g, 1>> \in Server /\ gid(<<g, 1>>) = g
    BY ReplicasAssumption DEF Server
  <2>2. PICK s \in Server : gid(s) = g
    BY <2>1
  <2>3. /\ current(s) /\ LatestConfig(kv[s].state).Num = Len(configs) - 1
        /\ allShardsUpToDate(kv[s].state, gid(s))
    BY <1>2 DEF settled, migrated
  <2>4. kv[s].applied >= 0 /\ kv[s].state = F[g]
    BY <2>2, <2>3, currentState
  <2>5. /\ Len(F[g].AllConfigs) \in 1 .. Len(configs)
        /\ LatestConfig(F[g]).Num = Len(F[g].AllConfigs) - 1
    BY <2>4, serverConfig
  <2>6. Len(configs) \in Nat
    BY <1>3 DEF ConfigsOK
  <2>7. AtLast(configs, F[g])
    BY <2>3, <2>4, <2>5, <2>6 DEF AtLast
  <2> QED
    BY <2>2, <2>3, <2>4, <2>7
<1>6. Hist(configs', F, D)
  BY <1>3, <1>4, <1>5, histReconfigure
<1>7. ASSUME NEW s \in Server PROVE Runs(F, D, s)'
  <2>1. PICK h : /\ Run(configs, F, D, gid(s), snap[s], log[s], h)
                 /\ kv[s].applied >= 0 => kv[s].state = h[kv[s].applied]
    BY DEF Story, Runs
  <2>2. Run(configs', F, D, gid(s), snap[s], log[s], h)
    BY <1>3, <1>4, <2>1, runReconfigure
  <2> QED
    BY <1>2, <2>1, <2>2 DEF Runs
<1>8. \A f \in fetches' : Brings(F, D, f)'
  BY <1>2 DEF settled
<1>9. \A s \in Server : LaggingOK(s)'
  BY <1>2 DEF settled, LaggingOK
<1>10. \A c \in Clerk : ClerkOK(D, c)'
  BY <1>2, sameClerk DEF Story
<1> QED
  BY <1>6, <1>7, <1>8, <1>9, <1>10 DEF Story

(* At first the logs are empty and nothing was carried out. *)
LEMMA InitStory == Init => \E F, D : Story(F, D)
<1> SUFFICES ASSUME Init PROVE \E F, D : Story(F, D)
  OBVIOUS
<1>1. PICK F : F = [g \in Gid |-> makeState]
  OBVIOUS
<1>2. Hist(configs, F, {}) /\ ConfigsOK(configs)
  BY <1>1, histInit DEF Init
<1>3. ASSUME NEW s \in Server PROVE Runs(F, {}, s)
  <2>1. /\ log[s] = <<>> /\ Len(log[s]) = 0 /\ snap[s] = makeState
        /\ kv[s].state = makeState /\ kv[s].applied = 0
    BY DEF Init, startState
  <2>2. PICK h : h = [i \in {0} |-> makeState]
    OBVIOUS
  <2>3. h[0] = makeState /\ F[gid(s)] = makeState
    BY <1>1, <2>2, ServerFacts
  <2>4. /\ makeState \in State /\ Justified(makeState.ClientLastRequest, {})
        /\ AtLast(configs, makeState) /\ Len(configs) = 1
    <3>1. configs = <<initialConfig>> /\ Len(configs) = 1
      BY DEF Init
    <3>2. makeState.AllConfigs = <<initialConfig>> /\ Len(makeState.AllConfigs) = 1
      BY DEF makeState
    <3>3. Justified(makeState.ClientLastRequest, {})
      BY DEF makeState, Justified
    <3> QED
      BY <3>1, <3>2, <3>3, makeStateOK DEF AtLast
  <2>5. /\ \A i \in 1 .. 0 : FALSE
        /\ \A i \in 0 .. 0 : i = 0
    OBVIOUS
  <2>6. Run(configs, F, {}, gid(s), snap[s], log[s], h)
    <3>1. Len(makeState.AllConfigs) <= Len(configs)
      BY <2>4 DEF AtLast
    <3>2. ASSUME NEW i \in 0 .. Len(log[s])
          PROVE  /\ h[i] \in State /\ Justified(h[i].ClientLastRequest, {})
                 /\ Len(h[i].AllConfigs) <= Len(configs)
                 /\ AtLast(configs, F[gid(s)]) /\ h[i] = F[gid(s)]
      <4>1. i = 0
        BY <2>1, <2>5
      <4> QED
        BY <2>3, <2>4, <3>1, <4>1
    <3>3. \A i \in 1 .. Len(log[s]) : FALSE
      BY <2>1, <2>5
    <3>4. h[0] = snap[s] /\ h[Len(log[s])] = F[gid(s)]
      BY <2>1, <2>3
    <3> QED
      BY <3>2, <3>3, <3>4 DEF Run
  <2> QED
    BY <2>1, <2>3, <2>6 DEF Runs
<1>4. \A c \in Clerk : ClerkOK({}, c)
  BY DEF Init, ClerkOK
<1>5. \A s \in Server : LaggingOK(s)
  BY DEF Init, startState, LaggingOK
<1>6. \A f \in fetches : Brings(F, {}, f)
  BY DEF Init
<1> QED
  BY <1>2, <1>3, <1>4, <1>5, <1>6 DEF Story

(* the clerks only read and append *)
NoPut == \A c \in Clerk : "PUT" \notin Calls[c]

(* Every step extends the story, or leaves it as it is. *)
LEMMA NextStory ==
    ASSUME Inv, NEW F, NEW D, Story(F, D), Settled, NoPut, [Next]_vars
    PROVE  \E G, E : Story(G, E)'
<1>1. CASE UNCHANGED vars
  <2>1. UNCHANGED <<configs, log, kv, fetches, clerk, snap>>
    BY <1>1 DEF vars
  <2>2. \A f \in fetches' : Brings(F, D, f)'
    BY <2>1 DEF Story, Brings, owner
  <2>3. \A s \in Server : LaggingOK(s)'
    BY <2>1 DEF Story, LaggingOK
  <2>4. \A c \in Clerk : ClerkOK(D, c)'
    BY <2>1, sameClerk DEF Story
  <2>5. Story(F, D)'
    BY <2>1, <2>2, <2>3, <2>4, storyQuiet
  <2> QED
    BY <2>5
<1>2. ASSUME Len(configs) <= Len(Plan), NEW op \in Plan[Len(configs)], reconfigure(op)
      PROVE  \E G, E : Story(G, E)'
  <2>1. op \in CtrlerOp
    BY <1>2, PlannedOK DEF Inv
  <2>2. Story(F, D)'
    BY <1>2, <2>1, reconfigureStory
  <2> QED
    BY <2>2
<1>3. ASSUME NEW s \in Server,
             \/ checkShards(s) \/ findLagging(s) \/ goAcquireShards(s)
             \/ installSnapshot(s) \/ StartServer(s)
             \/ \E answered \in BOOLEAN : handleCommandApply(s, answered)
      PROVE  \E G, E : Story(G, E)'
  <2>1. Story(F, D)'
    BY <1>3, checkShardsStory, findLaggingStory, goAcquireShardsStory, installSnapshotStory,
       StartServerStory, handleCommandApplyStory
  <2> QED
    BY <2>1
<1>4. ASSUME NEW s \in Server, NEW accepted \in BOOLEAN, startInstall(s, accepted)
      PROVE  \E G, E : Story(G, E)'
  BY <1>4, startInstallStory
<1>5. ASSUME NEW f \in fetches, acquireFails(f) \/ AcquireShards(f)
      PROVE  \E G, E : Story(G, E)'
  <2>1. Story(F, D)'
    BY <1>5, acquireFailsStory, AcquireShardsStory
  <2> QED
    BY <2>1
<1>6. ASSUME NEW f \in fetches, NEW accepted \in BOOLEAN, handleAcquireShardReply(f, accepted)
      PROVE  \E G, E : Story(G, E)'
  BY <1>6, handleAcquireShardReplyStory
<1>7. ASSUME NEW c \in Clerk,
             \/ \E type \in Calls[c], k \in Shard : begin(c, type, k)
             \/ refresh(c) \/ callFails(c) \/ refuse(c)
      PROVE  \E G, E : Story(G, E)'
  <2>1. \A type \in Calls[c] : type # "PUT"
    BY DEF NoPut
  <2>2. Story(F, D)'
    BY <1>7, <2>1, beginStory, clerkStory
  <2> QED
    BY <2>2
<1>8. ASSUME NEW c \in Clerk, accept(c) PROVE \E G, E : Story(G, E)'
  BY <1>8, acceptStory
<1> QED
  BY <1>1, <1>2, <1>3, <1>4, <1>5, <1>6, <1>7, <1>8 DEF Next

(* What was acknowledged was carried out, and is where it was carried out or where the shard
   has gone since. *)
LEMMA histKeeps ==
    ASSUME HistInv
    PROVE  NoWriteLost
<1>1. PICK F, D : Story(F, D)
  BY DEF HistInv
<1>2. Inv
  BY DEF HistInv
<1>3. ConfigsOK(configs) /\ Hist(configs, F, D) /\ F \in [Gid -> State] /\ D \subseteq ClientOp
  BY <1>1, <1>2, configsOK DEF Story, Hist
<1>4. ASSUME NEW s \in Server, NEW c \in Clerk, NEW op \in clerk[c].acked,
             current(s), serves(s, op.ShardId)
      PROVE  \E n \in DOMAIN kv[s].state.ShardKVStore[op.ShardId] :
                kv[s].state.ShardKVStore[op.ShardId][n] = token(op)
  <2>1. PICK g \in Gid : g = gid(s)
    BY ServerFacts
  <2>2. kv[s].state = F[g]
    BY <1>1, <1>2, <1>4, <2>1, currentState
  <2>3. op \in D /\ op.Type = "APPEND"
    BY <1>1 DEF Story, ClerkOK
  <2>4. op.ShardId \in Shard /\ Kept(configs, F, op)
    BY <1>3, <2>3 DEF Hist, ClientOp
  <2>5. LatestConfig(F[g]).Shards[op.ShardId] = g /\ allShardsUpToDate(F[g], g)
    BY <1>4, <2>1, <2>2 DEF serves
  <2>6. /\ Len(configs) >= 2
        /\ \/ Held(configs, F, g, op.ShardId)
           \/ /\ Before(configs, op.ShardId) = g
              /\ \A q \in Gid : ~Held(configs, F, q, op.ShardId)
    BY <1>3, <2>4, <2>5, served
  <2>7. Has(F[g].ShardKVStore[op.ShardId], op)
    BY <2>4, <2>6 DEF Kept
  <2>8. F[g].ShardKVStore[op.ShardId] \in Seq(Clerk \X Nat)
    BY <1>3, <2>4 DEF State, Value
  <2>9. DOMAIN F[g].ShardKVStore[op.ShardId] = 1 .. Len(F[g].ShardKVStore[op.ShardId])
    BY <2>8
  <2> QED
    BY <2>2, <2>7, <2>9 DEF Has
<1> QED
  BY <1>4 DEF NoWriteLost

(* NoWriteLost of ShardKV for every number of groups, servers, shards and clerks: if whoever
   changes the configuration waits until the groups have settled, the servers take snapshots
   and the clerks do not overwrite with Put, an Append that returned stays in the value of
   its shard, through migrations, crashes, lost calls, retries and late replies. *)
THEOREM WritesSurvive == Settled /\ maxraftstate # -1 /\ NoPut => (Spec => []NoWriteLost)
<1> SUFFICES ASSUME Settled, maxraftstate # -1, NoPut PROVE Spec => []NoWriteLost
  OBVIOUS
<1>1. Init => HistInv
  BY InitInv, InitStory DEF HistInv
<1>2. HistInv /\ [Next]_vars => HistInv'
  <2> SUFFICES ASSUME HistInv, [Next]_vars PROVE HistInv'
    OBVIOUS
  <2>1. Inv'
    BY NextInv DEF HistInv
  <2>2. PICK F, D : Story(F, D)
    BY DEF HistInv
  <2>3. \E G, E : Story(G, E)'
    BY <2>2, NextStory DEF HistInv
  <2>4. (\E G, E : Story(G, E))'
    BY <2>3
  <2> QED
    BY <2>1, <2>4 DEF HistInv
<1>3. HistInv => NoWriteLost
  BY histKeeps
<1> QED
  BY <1>1, <1>2, <1>3, PTL DEF Spec
=============================================================================
