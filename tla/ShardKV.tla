------------------------------ MODULE ShardKV ------------------------------
(***************************************************************************)
(* The sharded key/value service of code/src/shardkv: replica groups that  *)
(* follow the controller's configurations one by one, fetch the shards     *)
(* they gain from the groups that had them, and serve the clerks.          *)
(*                                                                         *)
(* Raft is what its users are promised.  A command given to Start takes    *)
(* its place in the one log of the group at once or never, since commands  *)
(* that survive keep the order in which leaders accepted them; every       *)
(* server of the group applies the log in order, at its own pace, or a     *)
(* snapshot in place of a prefix.  Any server may believe that it leads.   *)
(* log[s] is what follows the snapshot of s, up to the end of the group's  *)
(* log, whether s has heard of it or not.                                  *)
(*                                                                         *)
(* The handlers' channels are the ones of kvraft, whose races are the      *)
(* subject of KVServer: here clerk[c].server = s says that a handler at s  *)
(* waits for the request of c.  Every shard has one key.                   *)
(***************************************************************************)
EXTENDS ShardConfig

CONSTANTS
    Replicas,      \* servers per group
    Clerk,         \* the clerks
    Nil,           \* no operation, no server, no reply
    maxraftstate,  \* entries in the log that call for a snapshot, or -1
    Settled,       \* assumption: whoever changes the configuration waits until the
                   \* groups have settled in the last one
    Plan,          \* bound: Plan[n] is what the controller may be asked to do for
                   \* its n-th configuration
    Calls,         \* bound: Calls[c] are the types of the calls clerk c makes
    MaxRequests,   \* bound: calls per clerk
    MaxLog,        \* bound: entries in the log after a snapshot
    MaxFetches,    \* bound: goroutines of a server that fetch a shard
    MaxCrashes,    \* bound: restarts
    Crashing       \* bound: the groups whose servers restart

ASSUME ReplicasAssumption == Replicas \in Nat \ {0}
ASSUME SwitchAssumption == maxraftstate \in Int /\ Settled \in BOOLEAN
ASSUME ShardKVBounds ==
    /\ MaxRequests \in Nat /\ MaxLog \in Nat /\ MaxFetches \in Nat
    /\ MaxCrashes \in Nat

ASSUME PlanAssumption == Plan \in Seq(SUBSET CtrlerOp)
ASSUME CallsAssumption == Calls \in [Clerk -> SUBSET {"GET", "PUT", "APPEND"}]

VARIABLES
    configs,   \* the controller's configurations
    log,       \* log[s]: the log of the group of s after the snapshot of s
    kv,        \* kv[s]: the State of server s, how far it has applied the log, and
               \* where its two tickers are
    fetches,   \* goroutines in acquireShards
    clerk,     \* clerk[c]: the Clerk struct and the call it is in
    snap,      \* snap[s]: the snapshot in the persister of s, or the initial state
    crashes    \* number of restarts so far

vars == <<configs, log, kv, fetches, clerk, snap, crashes>>

Server == Gid \X (1 .. Replicas)

ASSUME NilAssumption == Nil \notin Server

gid(s) == s[1]
group(g) == {s \in Server : gid(s) = g}

(* the number of entries of config.Groups[g] *)
servers(config, g) == IF g \in config.Groups THEN Replicas ELSE 0

-----------------------------------------------------------------------------
(* server.go, common.go, util.go: the state *)

(* what a map without the client stands for *)
missing == -1

makeState ==
    [AllConfigs        |-> <<initialConfig>>,
     ShardKVStore      |-> [k \in Shard |-> <<>>],
     ShardTimestamp    |-> [k \in Shard |-> 0],
     ClientLastRequest |-> [c \in Clerk |-> missing]]

LatestConfig(state) == state.AllConfigs[Len(state.AllConfigs)]

(* variant: a shard one configuration behind counts as up to date *)
laggingByTwo(state, g) ==
    {k \in Shard : /\ LatestConfig(state).Shards[k] = g
                   /\ state.ShardTimestamp[k] + 1 < LatestConfig(state).Num}

laggingShards(state, g) ==
    {k \in Shard : /\ LatestConfig(state).Shards[k] = g
                   /\ state.ShardTimestamp[k] < LatestConfig(state).Num}

allShardsUpToDate(state, g) == laggingShards(state, g) = {}

isDuplicateOp(state, op) == op.RequestIndex <= state.ClientLastRequest[op.ClientId]

(* a value is the sequence of the writes it is made of *)
token(op) == <<op.ClientId, op.RequestIndex>>

-----------------------------------------------------------------------------
(* applyTicker.go: the change an operation of the log makes in group g *)

handleInstallShardConfig(state, g, config) ==
    LET old == LatestConfig(state)
        first == config.Num = 1
    IN IF config.Num # old.Num + 1 THEN state
       ELSE [state EXCEPT
               !.AllConfigs = Append(state.AllConfigs, config),
               !.ShardKVStore = IF first THEN [k \in Shard |-> <<>>] ELSE state.ShardKVStore,
               !.ShardTimestamp =
                  [k \in Shard |->
                     IF config.Shards[k] = g /\ (first \/ old.Shards[k] = g) THEN config.Num
                     ELSE IF first THEN 0 ELSE state.ShardTimestamp[k]]]

(* variant: the requests of the clients stay behind *)
keepLastRequests(own, theirs) == own

(* the map gives 0 for a client it does not have *)
mergeLastRequests(own, theirs) ==
    [c \in Clerk |->
        IF (IF own[c] = missing THEN 0 ELSE own[c]) < theirs[c] THEN theirs[c] ELSE own[c]]

(* variant: whatever comes is taken *)
newerOrNot(state, op) == TRUE

newer(state, op) == op.ShardConfigNum > state.ShardTimestamp[op.ShardId]

handleAcquireShard(state, op) ==
    LET merged == [state EXCEPT !.ClientLastRequest =
                      mergeLastRequests(state.ClientLastRequest, op.ClientLastRequest)]
    IN IF newer(state, op)
       THEN [merged EXCEPT !.ShardTimestamp[op.ShardId] = op.ShardConfigNum,
                           !.ShardKVStore[op.ShardId] = op.ShardData]
       ELSE merged

(* the tests a client's operation has to pass, before Start and when it is applied *)
verdict(state, g, op) ==
    IF LatestConfig(state).Shards[op.ShardId] # g THEN "ErrWrongGroup"
    ELSE IF ~allShardsUpToDate(state, g) THEN "ErrNotUpToDate"
    ELSE "OK"

written(value, op) ==
    CASE op.Type = "GET"    -> value
      [] op.Type = "PUT"    -> <<token(op)>>
      [] op.Type = "APPEND" -> Append(value, token(op))

handleClientOp(state, g, op) ==
    IF verdict(state, g, op) # "OK" \/ isDuplicateOp(state, op) THEN state
    ELSE [state EXCEPT
            !.ClientLastRequest[op.ClientId] = op.RequestIndex,
            !.ShardKVStore[op.ShardId] = written(state.ShardKVStore[op.ShardId], op)]

applyOp(state, g, op) ==
    CASE op.Type = "InstallShardConfig" -> handleInstallShardConfig(state, g, op.ShardConfig)
      [] op.Type = "AcquireShard"       -> handleAcquireShard(state, op)
      [] OTHER                          -> handleClientOp(state, g, op)

NeedSendBackCh(op) == op.Type \in {"GET", "PUT", "APPEND"}

-----------------------------------------------------------------------------
(* Outside of shardkv: the controller, and Raft's Start *)

(* s has applied all of the log: what s would do, its group does next *)
current(s) == kv[s].applied = Len(log[s])

(* all servers are at the last configuration, and the shards have arrived *)
migrated ==
    \A s \in Server :
       /\ LatestConfig(kv[s].state).Num = Len(configs) - 1
       /\ allShardsUpToDate(kv[s].state, gid(s))

(* and nothing is under way *)
settled ==
    /\ migrated /\ fetches = {}
    /\ \A s \in Server : current(s) /\ kv[s].lagging = {}

(* Join, Leave or Move at the controller *)
reconfigure(op) ==
    /\ Settled => settled
    /\ configs' = configs \o nextConfigs(configs[Len(configs)], op)
    /\ UNCHANGED <<log, kv, fetches, clerk, snap, crashes>>

Query(num) ==
    IF num < 0 \/ num >= Len(configs) THEN configs[Len(configs)] ELSE configs[num + 1]

(* accepted is FALSE when s does not lead, or the entry is overwritten later *)
Start(s, op, accepted) ==
    \/ /\ accepted /\ \A t \in group(gid(s)) : Len(log[t]) < MaxLog
       /\ log' = [t \in Server |-> IF gid(t) = gid(s)
                                   THEN Append(log[t], [op |-> op, ServerId |-> s])
                                   ELSE log[t]]
    \/ ~accepted /\ UNCHANGED log

-----------------------------------------------------------------------------
(* shardConfigTicker.go *)

(* the first look at the state, under the lock; a tick before there is another
   configuration finds nothing that one after it does not find *)
checkShards(s) ==
    /\ ~kv[s].ticking /\ LatestConfig(kv[s].state).Num < Len(configs) - 1
    /\ allShardsUpToDate(kv[s].state, gid(s))
    /\ kv' = [kv EXCEPT ![s].ticking = TRUE]
    /\ UNCHANGED <<configs, log, fetches, clerk, snap, crashes>>

(* the second, without it: Query, and Start if there is a next configuration *)
startInstall(s, accepted) ==
    LET num == LatestConfig(kv[s].state).Num + 1
        newConfig == Query(num)
    IN
    /\ kv[s].ticking
    /\ kv' = [kv EXCEPT ![s].ticking = FALSE]
    /\ \/ newConfig.Num # num /\ UNCHANGED log
       \/ /\ newConfig.Num = num
          /\ Start(s, [Type |-> "InstallShardConfig", ShardConfig |-> newConfig], accepted)
    /\ UNCHANGED <<configs, fetches, clerk, snap, crashes>>

-----------------------------------------------------------------------------
(* acquireShardTicker.go *)

(* the tick finds shards to fetch, under the lock *)
findLagging(s) ==
    /\ kv[s].lagging = {} /\ laggingShards(kv[s].state, gid(s)) # {}
    /\ kv' = [kv EXCEPT ![s].lagging = laggingShards(kv[s].state, gid(s))]
    /\ UNCHANGED <<configs, log, fetches, clerk, snap, crashes>>

(* the second last configuration, read without the lock *)
targetConfig(state) == state.AllConfigs[Len(state.AllConfigs) - 1]

(* a goroutine per shard, which ends at once if the shard had no group; two that are
   at the same point are one, as the tick comes again *)
goAcquireShards(s) ==
    LET target == targetConfig(kv[s].state)
        found == {k \in kv[s].lagging : servers(target, target.Shards[k]) > 0}
        begun == {[server |-> s, sid |-> k, target |-> target, si |-> 1, reply |-> Nil] :
                     k \in found}
    IN
    /\ kv[s].lagging # {}
    /\ Cardinality({f \in fetches : f.server = s}) + Cardinality(found) <= MaxFetches
    /\ kv' = [kv EXCEPT ![s].lagging = {}]
    /\ fetches' = fetches \cup begun
    /\ UNCHANGED <<configs, log, clerk, snap, crashes>>

owner(f) == f.target.Shards[f.sid]

(* variant: one server more than there are *)
acquireFailsPastEnd(f) ==
    /\ f.reply = Nil
    /\ fetches' = (fetches \ {f}) \cup
          (IF f.si <= servers(f.target, owner(f)) THEN {[f EXCEPT !.si = f.si + 1]} ELSE {})
    /\ UNCHANGED <<configs, log, kv, clerk, snap, crashes>>

(* Call returned false, or ASWrongLeader or ASBehind: the next server, if any *)
acquireFails(f) ==
    /\ f.reply = Nil
    /\ fetches' = (fetches \ {f}) \cup
          (IF f.si < servers(f.target, owner(f)) THEN {[f EXCEPT !.si = f.si + 1]} ELSE {})
    /\ UNCHANGED <<configs, log, kv, clerk, snap, crashes>>

(* the handler, at a server that believes to lead: it answers with its newest number *)
AcquireShards(f) ==
    LET state == kv[<<owner(f), f.si>>].state
        num == LatestConfig(state).Num
    IN
    /\ f.reply = Nil
    /\ num # 0 /\ num >= f.target.Num
    /\ fetches' = (fetches \ {f}) \cup
          {[f EXCEPT !.reply = [ConfigNum         |-> num,
                                ShardData         |-> state.ShardKVStore[f.sid],
                                ClientLastRequest |-> state.ClientLastRequest]]}
    /\ UNCHANGED <<configs, log, kv, clerk, snap, crashes>>

handleAcquireShardReply(f, accepted) ==
    /\ f.reply # Nil
    /\ fetches' = fetches \ {f}
    /\ Start(f.server,
             [Type |-> "AcquireShard", ShardId |-> f.sid,
              ShardConfigNum |-> f.reply.ConfigNum, ShardData |-> f.reply.ShardData,
              ClientLastRequest |-> f.reply.ClientLastRequest], accepted)
    /\ UNCHANGED <<configs, kv, clerk, snap, crashes>>

-----------------------------------------------------------------------------
(* client.go, get.go, putAppend.go: the clerks *)

begin(c, type, k) ==
    /\ clerk[c].op = Nil /\ clerk[c].requestIndex < MaxRequests
    /\ clerk' = [clerk EXCEPT
          ![c].op = [Type |-> type, ShardId |-> k, ClientId |-> c,
                     RequestIndex |-> clerk[c].requestIndex],
          ![c].requestIndex = clerk[c].requestIndex + 1,
          ![c].si = 1]
    /\ UNCHANGED <<configs, log, kv, fetches, snap, crashes>>

targetGroup(c) == clerk[c].config.Shards[clerk[c].op.ShardId]
target(c) == <<targetGroup(c), clerk[c].si>>

(* c is about to call target(c) *)
tries(c) ==
    /\ clerk[c].op # Nil /\ clerk[c].server = Nil
    /\ clerk[c].si <= servers(clerk[c].config, targetGroup(c))

(* the loop over the servers is over, or there are none *)
refresh(c) ==
    /\ clerk[c].op # Nil /\ clerk[c].server = Nil /\ ~tries(c)
    /\ clerk' = [clerk EXCEPT ![c].config = Query(-1), ![c].si = 1]
    /\ UNCHANGED <<configs, log, kv, fetches, snap, crashes>>

goOn(c) == [clerk EXCEPT ![c].server = Nil, ![c].si = clerk[c].si + 1]
break(c) == [clerk EXCEPT ![c].server = Nil, ![c].si = Replicas + 1]
return(c) == [clerk EXCEPT
                 ![c].server = Nil, ![c].op = Nil,
                 ![c].acked = IF clerk[c].op.Type = "GET" THEN clerk[c].acked
                              ELSE clerk[c].acked \cup {clerk[c].op}]

(* Call returned false or the reply is neither OK nor ErrWrongGroup: no leader, no
   configuration, not up to date, timeout *)
callFails(c) ==
    /\ tries(c) \/ clerk[c].server # Nil
    /\ clerk' = goOn(c)
    /\ UNCHANGED <<configs, log, kv, fetches, snap, crashes>>

-----------------------------------------------------------------------------
(* the handlers Get and PutAppend *)

preStart(s, op) ==
    IF LatestConfig(kv[s].state).Num = 0 THEN "ErrNoConfig"
    ELSE verdict(kv[s].state, gid(s), op)

refuse(c) ==
    /\ tries(c) /\ preStart(target(c), clerk[c].op) = "ErrWrongGroup"
    /\ clerk' = break(c)
    /\ UNCHANGED <<configs, log, kv, fetches, snap, crashes>>

(* the channel is created, the command started, and the handler waits; a command that
   Raft does not take or keep ends in callFails *)
accept(c) ==
    /\ tries(c) /\ preStart(target(c), clerk[c].op) = "OK"
    /\ clerk' = [clerk EXCEPT ![c].server = target(c)]
    /\ Start(target(c), clerk[c].op, TRUE)
    /\ UNCHANGED <<configs, kv, fetches, snap, crashes>>

-----------------------------------------------------------------------------
(* applyTicker.go, snapshot.go: handleApplyMessage *)

(* s started the command and a handler of s waits for this request *)
opChannelMatch(s, entry) ==
    LET c == entry.op.ClientId IN
    /\ NeedSendBackCh(entry.op) /\ entry.ServerId = s
    /\ clerk[c].server = s /\ clerk[c].op = entry.op

(* what the reply makes of the clerk; it is ErrWrongLeader if s has lost its office,
   and it may be lost *)
signalStartCh(s, op, answered) ==
    LET error == verdict(kv[s].state, gid(s), op)
    IN IF answered /\ error = "OK" THEN return(op.ClientId)
       ELSE IF answered /\ error = "ErrWrongGroup" THEN break(op.ClientId)
       ELSE goOn(op.ClientId)

(* a snapshot after every change of configuration or shards, and when the log is large *)
takesSnapshot(s, op) ==
    maxraftstate # -1 /\ (~NeedSendBackCh(op) \/ Len(log[s]) >= maxraftstate)

(* applied counts entries of log[s]; it is below 0 while a snapshot waits to be
   delivered *)
handleCommandApply(s, answered) ==
    LET index == kv[s].applied + 1
        entry == log[s][index]
        state == applyOp(kv[s].state, gid(s), entry.op)
    IN
    /\ index \in 1 .. Len(log[s])
    /\ \/ /\ takesSnapshot(s, entry.op)
          /\ kv' = [kv EXCEPT ![s].state = state, ![s].applied = 0]
          /\ snap' = [snap EXCEPT ![s] = state]
          /\ log' = [log EXCEPT ![s] = SubSeq(log[s], index + 1, Len(log[s]))]
       \/ /\ ~takesSnapshot(s, entry.op)
          /\ kv' = [kv EXCEPT ![s].state = state, ![s].applied = index]
          /\ UNCHANGED <<snap, log>>
    /\ \/ opChannelMatch(s, entry) /\ clerk' = signalStartCh(s, entry.op, answered)
       \/ ~opChannelMatch(s, entry) /\ ~answered /\ UNCHANGED clerk
    /\ UNCHANGED <<configs, fetches, crashes>>

(* the snapshot of a restarted server.  One from the leader of a live server takes it
   where the log would take it, and has no action of its own. *)
installSnapshot(s) ==
    /\ kv[s].applied < 0
    /\ kv' = [kv EXCEPT ![s].state = snap[s], ![s].applied = 0]
    /\ UNCHANGED <<configs, log, fetches, clerk, snap, crashes>>

startState(applied) ==
    [state |-> makeState, applied |-> applied, ticking |-> FALSE, lagging |-> {}]

(* Kill, then StartServer on the same persister: the state is empty until Raft has
   delivered the snapshot *)
StartServer(s) ==
    /\ crashes < MaxCrashes /\ gid(s) \in Crashing
    /\ crashes' = crashes + 1
    /\ kv' = [kv EXCEPT ![s] = startState(-1)]
    /\ fetches' = {f \in fetches : f.server # s}
    /\ clerk' = [c \in Clerk |-> IF clerk[c].server = s THEN goOn(c)[c] ELSE clerk[c]]
    /\ UNCHANGED <<configs, log, snap>>

-----------------------------------------------------------------------------
Init ==
    /\ configs = <<initialConfig>>
    /\ log = [s \in Server |-> <<>>]
    /\ kv = [s \in Server |-> startState(0)]
    /\ fetches = {}
    /\ clerk = [c \in Clerk |-> [config |-> initialConfig, requestIndex |-> 0, op |-> Nil,
                                 si |-> 1, server |-> Nil, acked |-> {}]]
    /\ snap = [s \in Server |-> makeState]
    /\ crashes = 0

Next ==
    \/ /\ Len(configs) <= Len(Plan)
       /\ \E op \in Plan[Len(configs)] : reconfigure(op)
    \/ \E s \in Server :
          \/ checkShards(s) \/ findLagging(s) \/ goAcquireShards(s)
          \/ installSnapshot(s) \/ StartServer(s)
          \/ \E accepted \in BOOLEAN : startInstall(s, accepted)
          \/ \E answered \in BOOLEAN : handleCommandApply(s, answered)
    \/ \E f \in fetches :
          \/ acquireFails(f) \/ AcquireShards(f)
          \/ \E accepted \in BOOLEAN : handleAcquireShardReply(f, accepted)
    \/ \E c \in Clerk :
          \/ \E type \in Calls[c], k \in Shard : begin(c, type, k)
          \/ refresh(c) \/ callFails(c) \/ refuse(c) \/ accept(c)

Spec == Init /\ [][Next]_vars

-----------------------------------------------------------------------------
(* Types *)

Value == Seq(Clerk \X Nat)
LastRequests == [Clerk -> Nat \cup {missing}]

State == [AllConfigs        : Seq(Config) \ {<<>>},
          ShardKVStore      : [Shard -> Value],
          ShardTimestamp    : [Shard -> Nat],
          ClientLastRequest : LastRequests]

ClientOp == [Type : {"GET", "PUT", "APPEND"}, ShardId : Shard, ClientId : Clerk,
             RequestIndex : Nat]

Op == ClientOp
      \cup [Type : {"InstallShardConfig"}, ShardConfig : Config]
      \cup [Type : {"AcquireShard"}, ShardId : Shard, ShardConfigNum : Nat,
            ShardData : Value, ClientLastRequest : LastRequests]

Entry == [op : Op, ServerId : Server]

KVState == [state : State, applied : Int, ticking : BOOLEAN, lagging : SUBSET Shard]

Reply == [ConfigNum : Nat, ShardData : Value, ClientLastRequest : LastRequests]

Fetch == [server : Server, sid : Shard, target : Config, si : 1 .. Replicas,
          reply : Reply \cup {Nil}]

ClerkState == [config : Config, requestIndex : Nat, op : ClientOp \cup {Nil},
               si : 1 .. Replicas + 1, server : Server \cup {Nil}, acked : SUBSET ClientOp]

(* Every field has its type: the servers a fetch or a clerk tries are servers of the
   group (acquireShards and the clerks index config.Groups), every timestamp is a number
   of a configuration, and what a server has applied is within its log. *)
TypeOK ==
    /\ configs \in Seq(Config) \ {<<>>}
    /\ log \in [Server -> Seq(Entry)]
    /\ kv \in [Server -> KVState]
    /\ \A s \in Server : kv[s].applied \in -1 .. Len(log[s])
    /\ fetches \subseteq Fetch
    /\ clerk \in [Clerk -> ClerkState]
    /\ snap \in [Server -> State]
    /\ crashes \in 0 .. MaxCrashes

-----------------------------------------------------------------------------
serves(s, k) ==
    /\ LatestConfig(kv[s].state).Shards[k] = gid(s)
    /\ allShardsUpToDate(kv[s].state, gid(s))

(* handleInstallShardConfig, handleAcquireShard and allShardsUpToDate together are a lock
   on the shard: of the servers that have applied all of their group's log, no two of
   different groups would carry out an operation on the same shard. *)
OneGroupServes ==
    \A s, t \in Server, k \in Shard :
       current(s) /\ current(t) /\ serves(s, k) /\ serves(t, k) => gid(s) = gid(t)

(* A Put or Append that returned to its clerk survives migrations, snapshots and restarts:
   a group that serves the shard, and has applied all of its log, has it in the value.
   (For clerks that only append: a Put may replace what was written before.) *)
NoWriteLost ==
    \A s \in Server, c \in Clerk :
       \A op \in clerk[c].acked :
          current(s) /\ serves(s, op.ShardId) =>
             \E n \in DOMAIN kv[s].state.ShardKVStore[op.ShardId] :
                kv[s].state.ShardKVStore[op.ShardId][n] = token(op)

(* ClientLastRequest goes with the shard (acquireShardTicker.go, applyTicker.go), so a
   request that was carried out by the old owner and is retried at the new one is not
   carried out again.  Request 0 is left out: the table of the new owner cannot tell it
   from no request, and it may be written twice. *)
WrittenOnce ==
    \A s \in Server, k \in Shard :
       LET value == kv[s].state.ShardKVStore[k] IN
       \A m, n \in DOMAIN value : value[m] = value[n] /\ value[n][2] > 0 => m = n
=============================================================================
