---------------------------- MODULE ShardCtrler ----------------------------
(***************************************************************************)
(* The shard controller of code/src/shardctrler: the replication of the    *)
(* sequence of configurations (see ShardConfig) by clerks, handlers, apply *)
(* ticker, snapshots and restarts over what Raft promises (see KVServer).  *)
(*                                                                         *)
(* The handlers and their channels are the ones of kvraft, whose races are *)
(* the subject of KVServer.  Here clerk[c].server = i says that a handler  *)
(* at i waits in its select with the channel of the request: the handlers  *)
(* of calls that were given up differ from their absence in nothing but    *)
(* the commands they started.                                              *)
(***************************************************************************)
EXTENDS ShardConfig

CONSTANTS
    Server,       \* the controllers
    Clerk,        \* their clerks
    Nil,          \* no operation, no server, no answer
    Commands,     \* bound: Commands[n] is what a clerk may ask for in its n-th call
    MaxLog,       \* bound: length of the committed log
    MaxPending,   \* bound: uncommitted commands
    MaxCrashes    \* bound: restarts

(* what a clerk may ask for, and with the clerk's id and the number of the request *)
Command == CtrlerOp \cup [Type : {"QUERY"}, Num : Int]
Op == [Type : {"JOIN", "LEAVE"}, GIDs : SUBSET Gid, ClientId : Clerk, RequestIndex : Nat]
      \cup [Type : {"MOVE"}, Shard : Shard, GID : Gid, ClientId : Clerk, RequestIndex : Nat]
      \cup [Type : {"QUERY"}, Num : Int, ClientId : Clerk, RequestIndex : Nat]

ASSUME CtrlerBounds == MaxLog \in Nat /\ MaxPending \in Nat /\ MaxCrashes \in Nat
ASSUME CommandsAssumption == Commands \in Seq(SUBSET Command)
ASSUME NilAssumption ==
    Nil \notin Op /\ Nil \notin [op : Op, config : Config \cup {Nil}, missed : BOOLEAN]

VARIABLES
    clerk,     \* clerk[c]: the Clerk struct and the call it is in
    started,   \* commands Raft accepted and has not committed
    log,       \* the committed log
    sc,        \* sc[i]: controller i's state and what Raft delivered to it
    snap,      \* snap[i]: the snapshot in the persister of i
    crashes    \* number of restarts so far

vars == <<clerk, started, log, sc, snap, crashes>>

-----------------------------------------------------------------------------
(* applyTicker.go, server.go: the state and its changes *)

(* a clerk that is not in the map has no last request; requests start at 0 *)
makeState ==
    [Configs |-> <<initialConfig>>,
     ClientLastRequest |-> [c \in Clerk |-> -1]]

getLatestConfig(state) == state.Configs[Len(state.Configs)]

isDuplicateOp(state, op) == op.RequestIndex <= state.ClientLastRequest[op.ClientId]

(* variant: the number of configurations is taken for the last number *)
getValueOffByOne(state, op) ==
    IF op.Num < 0 \/ op.Num >= Len(state.Configs)
    THEN state.Configs[IF Len(state.Configs) > 1 THEN Len(state.Configs) - 1 ELSE 1]
    ELSE state.Configs[op.Num + 1]

getValue(state, op) ==
    IF op.Num < 0 \/ op.Num >= Len(state.Configs)
    THEN getLatestConfig(state)
    ELSE state.Configs[op.Num + 1]

(* the change handleCommandApply makes *)
applyOp(state, op) ==
    IF isDuplicateOp(state, op) THEN state
    ELSE [Configs |-> state.Configs \o nextConfigs(getLatestConfig(state), op),
          ClientLastRequest |->
             [state.ClientLastRequest EXCEPT ![op.ClientId] = op.RequestIndex]]

(* the ReturnConfig of replyMsg; nothing but a Query has one *)
replyConfig(state, op) ==
    IF op.Type = "QUERY" THEN getValue(applyOp(state, op), op) ELSE Nil

key(op) == <<op.ClientId, op.RequestIndex>>

-----------------------------------------------------------------------------
(* the client sides of Join, Leave, Move and Query *)

(* the loop that retries until an answer comes; since is the length of the log when the
   call begins, it is not in the code *)
request(c, op) ==
    /\ clerk[c].op = Nil
    /\ clerk' = [clerk EXCEPT ![c].op = op, ![c].requestIndex = clerk[c].requestIndex + 1,
                              ![c].answer = Nil, ![c].since = Len(log)]
    /\ UNCHANGED <<started, log, sc, snap, crashes>>

Join(c, gids) ==
    request(c, [Type |-> "JOIN", GIDs |-> gids,
                ClientId |-> c, RequestIndex |-> clerk[c].requestIndex])

Leave(c, gids) ==
    request(c, [Type |-> "LEAVE", GIDs |-> gids,
                ClientId |-> c, RequestIndex |-> clerk[c].requestIndex])

Move(c, shard, gid) ==
    request(c, [Type |-> "MOVE", Shard |-> shard, GID |-> gid,
                ClientId |-> c, RequestIndex |-> clerk[c].requestIndex])

Query(c, num) ==
    request(c, [Type |-> "QUERY", Num |-> num,
                ClientId |-> c, RequestIndex |-> clerk[c].requestIndex])

(* Call returned false, or a reply with WrongLeader after the timeout, a channel that
   was closed, or the loss of leadership; the clerk goes on to the next server *)
callFails(c) ==
    /\ clerk[c].server # Nil
    /\ clerk' = [clerk EXCEPT ![c].server = Nil]
    /\ UNCHANGED <<started, log, sc, snap, crashes>>

-----------------------------------------------------------------------------
(* the handlers Join, Leave, Move and Query *)

(* i leads: the channel is created, Start accepts the command and the handler waits.
   A server that does not lead refuses and changes nothing.  Servers are tried in
   turn, but any one may refuse. *)
handleRequest(c, i) ==
    /\ clerk[c].op # Nil /\ clerk[c].server = Nil
    /\ Cardinality(started) < MaxPending
    /\ clerk' = [clerk EXCEPT ![c].server = i]
    /\ started' = started \cup {[op |-> clerk[c].op, ServerId |-> i]}
    /\ UNCHANGED <<log, sc, snap, crashes>>

-----------------------------------------------------------------------------
(* Raft *)

commit(s) ==
    /\ Len(log) < MaxLog
    /\ log' = Append(log, s)
    /\ started' = started \ {s}
    /\ UNCHANGED <<clerk, sc, snap, crashes>>

overwritten(s) ==
    /\ started' = started \ {s}
    /\ UNCHANGED <<clerk, log, sc, snap, crashes>>

(* the leader's snapshot replaces the one of a server that is behind *)
raftInstallSnapshot(i, j) ==
    /\ snap[i].index < snap[j].index
    /\ snap' = [snap EXCEPT ![i] = snap[j]]
    /\ UNCHANGED <<clerk, started, log, sc, crashes>>

-----------------------------------------------------------------------------
(* handleApplyMessage *)

(* i started the command and a handler of i waits for this request *)
opChannelMatch(i, entry) ==
    LET c == entry.op.ClientId IN
    entry.ServerId = i /\ clerk[c].server = i /\ clerk[c].op = entry.op

(* the handler's reply ends the call of its clerk *)
handleResult(c, answer) ==
    [clerk EXCEPT ![c].op = Nil, ![c].server = Nil, ![c].answer = answer]

signalStartCh(i, op) ==
    handleResult(op.ClientId, [op |-> op, config |-> replyConfig(sc[i].state, op),
                               missed |-> sc[i].missed])

(* a command, after which a snapshot is always taken; Raft refuses one that is not
   newer than its own.  answered is FALSE when i does not lead any more, or the reply
   is lost. *)
handleCommandApply(i, answered) ==
    LET index == sc[i].applied + 1
        entry == log[index]
        state == applyOp(sc[i].state, entry.op)
    IN
    /\ index <= Len(log)
    /\ sc' = [sc EXCEPT ![i].state = state, ![i].applied = index]
    /\ snap' = IF snap[i].index < index
               THEN [snap EXCEPT ![i] =
                        [index |-> index, state |-> state, missed |-> sc[i].missed]]
               ELSE snap
    /\ \/ answered /\ opChannelMatch(i, entry) /\ clerk' = signalStartCh(i, entry.op)
       \/ ~answered /\ UNCHANGED clerk
    /\ UNCHANGED <<started, log, crashes>>

(* A snapshot is received and dropped: its installation is commented out, and the
   controller goes on with the state it has.  missed records that. *)
handleSnapshotApply(i) ==
    /\ sc[i].applied < snap[i].index
    /\ sc' = [sc EXCEPT ![i].applied = snap[i].index, ![i].missed = TRUE]
    /\ UNCHANGED <<clerk, started, log, snap, crashes>>

(* variant: a restarted controller begins with the empty configuration *)
installNothing(i) ==
    [state |-> makeState, applied |-> snap[i].index, missed |-> snap[i].missed]

(* the persister's snapshot, or what makeState made; Raft delivers it once more,
   which changes nothing *)
installSnapshot(i) ==
    [state |-> snap[i].state, applied |-> snap[i].index, missed |-> snap[i].missed]

(* the calls at i come to nothing *)
ShutdownServer(i) ==
    [c \in Clerk |->
        IF clerk[c].server = i THEN [clerk[c] EXCEPT !.server = Nil] ELSE clerk[c]]

(* Kill, then StartServer on the same persister *)
StartServer(i) ==
    /\ crashes < MaxCrashes
    /\ crashes' = crashes + 1
    /\ sc' = [sc EXCEPT ![i] = installSnapshot(i)]
    /\ clerk' = ShutdownServer(i)
    /\ UNCHANGED <<started, log, snap>>

-----------------------------------------------------------------------------
Init ==
    /\ clerk = [c \in Clerk |->
          [requestIndex |-> 0, op |-> Nil, server |-> Nil, answer |-> Nil, since |-> 0]]
    /\ started = {} /\ log = <<>>
    /\ sc = [i \in Server |-> [state |-> makeState, applied |-> 0, missed |-> FALSE]]
    /\ snap = [i \in Server |-> [index |-> 0, state |-> makeState, missed |-> FALSE]]
    /\ crashes = 0

asks(c, type) ==
    IF clerk[c].requestIndex < Len(Commands)
    THEN {a \in Commands[clerk[c].requestIndex + 1] : a.Type = type} ELSE {}

Next ==
    \/ \E c \in Clerk :
          \/ \E a \in asks(c, "JOIN")  : Join(c, a.GIDs)
          \/ \E a \in asks(c, "LEAVE") : Leave(c, a.GIDs)
          \/ \E a \in asks(c, "MOVE")  : Move(c, a.Shard, a.GID)
          \/ \E a \in asks(c, "QUERY") : Query(c, a.Num)
          \/ callFails(c)
    \/ \E c \in Clerk, i \in Server : handleRequest(c, i)
    \/ \E s \in started : commit(s) \/ overwritten(s)
    \/ \E i, j \in Server : raftInstallSnapshot(i, j)
    \/ \E i \in Server, answered \in BOOLEAN : handleCommandApply(i, answered)
    \/ \E i \in Server : handleSnapshotApply(i) \/ StartServer(i)

Spec == Init /\ [][Next]_vars

-----------------------------------------------------------------------------
(* What the log means: of the entries for one request the first takes effect. *)
takesEffect(l, n) == \A k \in 1 .. n - 1 : key(l[k].op) # key(l[n].op)

replay(l) ==
    LET after[n \in 0 .. Len(l)] ==
            IF n = 0 THEN makeState.Configs
            ELSE LET before == after[n - 1] IN
                 IF takesEffect(l, n)
                 THEN before \o nextConfigs(before[Len(before)], l[n].op) ELSE before
    IN after

configsAfter == replay(log)

(* Every controller that never dropped a snapshot has the configurations of the log,
   each request counted once, the request with number 0 too; so have the snapshots,
   and the controllers that restart from them.  Without the exception this does not
   hold, see handleSnapshotApply. *)
ConfigsFollowLog ==
    LET configs == configsAfter IN
    \A i \in Server :
        /\ ~sc[i].missed => sc[i].state.Configs = configs[sc[i].applied]
        /\ ~snap[i].missed => snap[i].state.Configs = configs[snap[i].index]

(* common.go: "Query(num) -> fetch Config # num, or latest config if num==-1".  What
   a Query returned was the configuration at a time between its call and its return,
   whichever controllers it was tried at. *)
QueryIsCurrent ==
    \A c \in Clerk :
        LET a == clerk[c].answer IN
        a # Nil /\ ~a.missed /\ a.op.Type = "QUERY" =>
            \E n \in clerk[c].since .. Len(log) :
                LET configs == configsAfter[n] IN
                a.config = IF a.op.Num \in 0 .. Len(configs) - 1
                           THEN configs[a.op.Num + 1] ELSE configs[Len(configs)]

newConfig(i) == sc[i].state.Configs # sc'[i].state.Configs

(* test_test.go, check: after a Join or a Leave the shares of the groups differ by at
   most one and no shard is without a group, whatever Moves have made of the
   configuration before.  But a shard that was moved to a group that is not there
   stays with it.  Stated where a controller has a new configuration, of every Join
   and every Leave that could be next. *)
RebalanceCorrect ==
    [][\A i \in Server : newConfig(i) => rebalancesWell(getLatestConfig(sc'[i].state))]_sc

(* test_test.go, "non-minimal transfer after Join()s": a Join to a configuration that
   Moves have not unbalanced moves shards to the new groups only. *)
JoinIsMinimal ==
    [][\A i \in Server : newConfig(i) => joinsMinimally(getLatestConfig(sc'[i].state))]_sc
=============================================================================
