------------------------------ MODULE KVServer ------------------------------
(***************************************************************************)
(* The replicated key/value service of code/src/kvraft: its clerks, the    *)
(* RPC handlers Get and PutAppend, the apply ticker and the reply channels *)
(* (startChannels) that connect them, service snapshots and restarts.      *)
(*                                                                         *)
(* Raft is what its users are promised: commands given to Start may enter  *)
(* the one committed log at any later time, in any order, once or never;   *)
(* each server receives the log in order, or a snapshot instead of a       *)
(* prefix.  Leadership can change between any two looks at it, so GetState *)
(* and Start answer either way each time.                                  *)
(*                                                                         *)
(* kv.mu is held over a step except in signalStartCh, which sends on an    *)
(* unbuffered channel while holding it: sending[i] is that send.           *)
(***************************************************************************)
EXTENDS Integers, Sequences, FiniteSets

CONSTANTS
    N,            \* servers are 0 .. N-1, as in the clerk's slice
    Clerk,        \* the clerks
    Nil,          \* no call, no send, no result
    Snapshots,    \* whether maxraftstate is set
    Calls,        \* bound: Calls[c] are the types of the calls clerk c makes
    MaxRequests,  \* bound: calls per clerk
    MaxLog,       \* bound: length of the committed log
    Slots,        \* bound: handlers and uncommitted commands of one clerk
    MaxCrashes    \* bound: restarts

ASSUME NAssumption == N \in Nat \ {0}
ASSUME SnapshotsAssumption == Snapshots \in BOOLEAN
ASSUME CallsAssumption == Calls \in [Clerk -> SUBSET {"GET", "PUT", "APPEND"}]
ASSUME KVBounds == /\ MaxRequests \in Nat /\ MaxLog \in Nat
                   /\ Slots \in Nat /\ MaxCrashes \in Nat

VARIABLES
    clerk,     \* clerk[c]: the Clerk struct and the call it is in
    handlers,  \* RPC handlers at work, and calls on their way to or from one
    started,   \* commands Raft accepted and has not committed
    log,       \* the committed log
    kv,        \* kv[i]: server i's State, startChannels and what Raft delivered
    sending,   \* sending[i]: the send signalStartCh is blocked in, or Nil
    snap,      \* snap[i]: the snapshot in server i's persister
    crashes    \* number of restarts so far

vars == <<clerk, handlers, started, log, kv, sending, snap, crashes>>

Server == 0 .. N - 1

Type == {"GET", "PUT", "APPEND"}

ASSUME NilAssumption ==
    Nil \notin Type /\ Nil \notin [type : Type, w : Clerk \X (1 .. MaxRequests)]

(* a value is the sequence of the writes it is made of; "" is <<>> *)
token(op) == <<op.ClientId, op.RequestIndex>>

makeState == [KeyValueStore     |-> <<>>,
              ClientLastRequest |-> [c \in Clerk |-> 0]]

-----------------------------------------------------------------------------
(* common.go, utils.go, kvServerApplyTicker.go: methods on the state *)

(* variant: only the very last request is recognised *)
isLastOp(state, op) == op.RequestIndex = state.ClientLastRequest[op.ClientId]

isDuplicateOp(state, op) == op.RequestIndex <= state.ClientLastRequest[op.ClientId]

getValue(state) ==
    [Error |-> IF state.KeyValueStore = <<>> THEN "ErrNoKey" ELSE "OK",
     Value |-> state.KeyValueStore]

(* the change handleCommandApply makes *)
applyOp(state, op) ==
    IF isDuplicateOp(state, op) THEN state
    ELSE [KeyValueStore |->
            CASE op.Type = "GET"    -> state.KeyValueStore
              [] op.Type = "PUT"    -> <<token(op)>>
              [] op.Type = "APPEND" -> Append(state.KeyValueStore, token(op)),
          ClientLastRequest |->
            [state.ClientLastRequest EXCEPT ![op.ClientId] = op.RequestIndex]]

(* replyMsg; GetState says afterwards whether the server still leads *)
replyMsg(state, op, isLeader) ==
    LET value == IF op.Type = "GET" THEN getValue(applyOp(state, op))
                                    ELSE [Error |-> "OK", Value |-> <<>>]
    IN IF isLeader THEN value ELSE [value EXCEPT !.Error = "ErrWrongLeader"]

channelOf(op) == <<op.ClientId, op.RequestIndex>>

(* the operation of a channel is the one of its key: a clerk gives every call a
   new RequestIndex *)
opChannelMatch(i, op) ==
    op.ServerId = i /\ channelOf(op) \in DOMAIN kv[i].startChannels

-----------------------------------------------------------------------------
(* startChannels: from <<client, request>> to the handler that reads it *)

without(f, x) == [y \in DOMAIN f \ {x} |-> f[y]]

handlerId(h) == <<h.op.ClientId, h.id>>

(* the map write drops the channel of an older handler of the same request *)
createStartCh(i, h) ==
    LET channels == kv[i].startChannels
        key == channelOf(h.op)
    IN [kv EXCEPT ![i].startChannels =
           [k \in DOMAIN channels \cup {key} |->
               IF k = key THEN handlerId(h) ELSE channels[k]]]

(* variant: the channel stays in the map *)
leaveStartCh(i, key) == kv

(* close wakes the handler that reads the channel, which gets the zero KVReplyMsg *)
closeChannel(hs, i, key) ==
    {IF /\ key \in DOMAIN kv[i].startChannels
        /\ handlerId(h) = kv[i].startChannels[key] /\ h.op.ServerId = i
     THEN [h EXCEPT !.closed = TRUE] ELSE h : h \in hs}

deleteStartCh(i, key) ==
    [kv EXCEPT ![i].startChannels = without(kv[i].startChannels, key)]

muFree(i) == sending[i] = Nil

-----------------------------------------------------------------------------
(* client.go and the client sides of Get and PutAppend *)

begin(c, type) ==
    /\ clerk[c].op = Nil
    /\ clerk[c].requestIndex < MaxRequests
    /\ clerk' = [clerk EXCEPT
          ![c].requestIndex = clerk[c].requestIndex + 1,
          ![c].op = type, ![c].result = Nil,
          ![c].since = Len(log)]
    /\ UNCHANGED <<handlers, started, log, kv, sending, snap, crashes>>

freeId(c, id) ==
    /\ \A h \in handlers : h.op.ClientId = c => h.id # id
    /\ \A s \in started : s.op.ClientId = c => s.id # id

(* one turn of the retry loop: the call goes to lastLeaderServer *)
sendCall(c, id) ==
    /\ clerk[c].op # Nil /\ ~clerk[c].calling
    /\ freeId(c, id) /\ \A k \in 1 .. id - 1 : ~freeId(c, k)
    /\ clerk' = [clerk EXCEPT ![c].calling = TRUE]
    /\ handlers' = handlers \cup
          {[id |-> id, stage |-> "request", heard |-> TRUE, closed |-> FALSE,
            response |-> Nil,
            op |-> [ServerId |-> clerk[c].lastLeaderServer, ClientId |-> c,
                    RequestIndex |-> clerk[c].requestIndex, Type |-> clerk[c].op]]}
    /\ UNCHANGED <<started, log, kv, sending, snap, crashes>>

(* variant: no wrap-around *)
nextServerUnbounded(s) == s + 1

nextServer(s) == (s + 1) % N

retry(c) == [clerk EXCEPT ![c].calling = FALSE,
                          ![c].lastLeaderServer = nextServer(clerk[c].lastLeaderServer)]

(* Call returned false: the request or the reply was lost, the server was killed,
   or the link went down while the handler was at work *)
callFails(c) ==
    /\ clerk[c].calling
    /\ clerk' = retry(c)
    /\ handlers' =
          {IF h.op.ClientId = c THEN [h EXCEPT !.heard = FALSE] ELSE h :
              h \in {g \in handlers : ~(/\ g.op.ClientId = c /\ g.heard
                                        /\ g.stage \in {"request", "reply"})}}
    /\ UNCHANGED <<started, log, kv, sending, snap, crashes>>

(* variant: the call that timed out is not repeated *)
succeededOrTimeout(e) == e \in {"OK", "ErrNoKey", "ErrTimeout"}

succeeded(e) == e \in {"OK", "ErrNoKey"}

(* any error but ErrNoKey of a Get is retried at the next server; the error of
   the zero reply is the empty string *)
receiveReply(h) ==
    LET c == h.op.ClientId IN
    /\ h.stage = "reply"
    /\ clerk' = IF succeeded(h.response.Error)
                THEN [clerk EXCEPT ![c].calling = FALSE, ![c].op = Nil,
                                   ![c].result = h.response.Value]
                ELSE retry(c)
    /\ handlers' = handlers \ {h}
    /\ UNCHANGED <<started, log, kv, sending, snap, crashes>>

-----------------------------------------------------------------------------
(* the handlers Get and PutAppend, which differ only in the operation *)

error(e) == [Error |-> e, Value |-> <<>>]

becomes(hs, h, stage, response) ==
    (hs \ {h}) \cup {[h EXCEPT !.stage = stage, !.response = response]}

(* the handler returns; nobody may be listening any more *)
returns(hs, h, response) ==
    IF h.heard THEN becomes(hs, [h EXCEPT !.closed = FALSE], "reply", response) \ {h}
    ELSE hs \ {h}

(* GetState: not the leader *)
wrongLeader(h) ==
    /\ h.stage = "request"
    /\ handlers' = returns(handlers, h, error("ErrWrongLeader"))
    /\ UNCHANGED <<clerk, started, log, kv, sending, snap, crashes>>

(* GetState: leader; then preGetStart, prePutAppendStart *)
preStart(h) ==
    /\ h.stage = "request" /\ muFree(h.op.ServerId)
    /\ kv' = createStartCh(h.op.ServerId, h)
    /\ handlers' = becomes(handlers, h, "created", Nil)
    /\ UNCHANGED <<clerk, started, log, sending, snap, crashes>>

start(h) ==
    /\ h.stage = "created"
    /\ \/ /\ started' = started \cup {[op |-> h.op, id |-> h.id]}
          /\ handlers' = becomes(handlers, h, "select", Nil)
       \/ /\ handlers' = becomes(handlers, h, "notLeader", Nil)
          /\ UNCHANGED started
    /\ UNCHANGED <<clerk, log, kv, sending, snap, crashes>>

(* the case time.After of the select; getTimeout has yet to get kv.mu *)
timeout(h) ==
    /\ h.stage = "select"
    /\ handlers' = becomes(handlers, h, "timeout", Nil)
    /\ UNCHANGED <<clerk, started, log, kv, sending, snap, crashes>>

(* the other case, on a channel that was closed under the handler *)
receiveClosed(h) ==
    /\ h.stage = "select" /\ h.closed
    /\ handlers' = becomes(handlers, h, "result", error(""))
    /\ UNCHANGED <<clerk, started, log, kv, sending, snap, crashes>>

(* handleGetResult and handlePutAppendResult, getTimeout and putAppendTimeout,
   deleteStartChLocked: lock, delete the channel, reply *)
endHandler(h) ==
    LET i == h.op.ServerId
        key == channelOf(h.op)
        response == CASE h.stage = "result"    -> h.response
                      [] h.stage = "timeout"   -> error("ErrTimeout")
                      [] h.stage = "notLeader" -> error("ErrWrongLeader")
    IN
    /\ h.stage \in {"result", "timeout", "notLeader"} /\ muFree(i)
    /\ kv' = deleteStartCh(i, key)
    /\ handlers' = returns(closeChannel(handlers \ {h}, i, key), h, response)
    /\ UNCHANGED <<clerk, started, log, sending, snap, crashes>>

-----------------------------------------------------------------------------
(* Raft commits a command that some leader accepted. *)
commit(s) ==
    /\ Len(log) < MaxLog
    /\ log' = Append(log, s.op)
    /\ started' = started \ {s}
    /\ UNCHANGED <<clerk, handlers, kv, sending, snap, crashes>>

(* an uncommitted command is overwritten by another leader's log *)
overwritten(s) ==
    /\ started' = started \ {s}
    /\ UNCHANGED <<clerk, handlers, log, kv, sending, snap, crashes>>

(* another server's InstallSnapshot replaces the snapshot in the persister, also
   by one of a prefix that was delivered already *)
raftInstallSnapshot(i, j) ==
    /\ snap[i].index < snap[j].index
    /\ snap' = [snap EXCEPT ![i] = snap[j]]
    /\ UNCHANGED <<clerk, handlers, started, log, kv, sending, crashes>>

(* variant: the table of last requests is left out *)
makeSnapshotOfValues(state) ==
    [state EXCEPT !.ClientLastRequest = [c \in Clerk |-> 0]]

makeSnapshot(state) == state

(* handleApplyMessage of a command, which the ticker may hold since before an
   InstallSnapshot.  toSnapshot: RaftStateSize has reached maxraftstate; Raft
   refuses a snapshot that is not newer than its own. *)
handleCommandApply(i, isLeader, toSnapshot) ==
    LET index == kv[i].applied + 1
        op == log[index]
        state == applyOp(kv[i].state, op)
    IN
    /\ muFree(i) /\ index <= Len(log)
    /\ kv' = [kv EXCEPT ![i].state = state, ![i].applied = index]
    /\ snap' = IF toSnapshot /\ snap[i].index < index
               THEN [snap EXCEPT ![i] = [index |-> index, data |-> makeSnapshot(state)]]
               ELSE snap
    /\ sending' = [sending EXCEPT ![i] =
          IF opChannelMatch(i, op)
          THEN [channel |-> kv[i].startChannels[channelOf(op)], op |-> op,
                msg |-> replyMsg(kv[i].state, op, isLeader)]
          ELSE Nil]
    /\ UNCHANGED <<clerk, handlers, started, log, crashes>>

(* the send meets the handler's select, then the channel is deleted *)
signalStartCh(h) ==
    LET i == h.op.ServerId IN
    /\ h.stage = "select" /\ sending[i] # Nil
    /\ sending[i].channel = handlerId(h)
    /\ handlers' = becomes(handlers, h, "result", sending[i].msg)
    /\ kv' = deleteStartCh(i, channelOf(h.op))
    /\ sending' = [sending EXCEPT ![i] = Nil]
    /\ UNCHANGED <<clerk, started, log, snap, crashes>>

(* handleApplyMessage of a snapshot; CondInstallSnapshot always agrees *)
installSnapshot(i) ==
    /\ muFree(i) /\ kv[i].applied < snap[i].index
    /\ kv' = [kv EXCEPT ![i].state = snap[i].data, ![i].applied = snap[i].index]
    /\ UNCHANGED <<clerk, handlers, started, log, sending, snap, crashes>>

(* the server's handlers die with it, requests and replies on their way do not *)
ShutdownServer(i) ==
    {h \in handlers : h.op.ServerId # i \/ h.stage \in {"request", "reply"}}

(* Kill, then StartKVServer on the same persister, whose snapshot it reads; Raft
   delivers that snapshot once more, which changes nothing *)
StartKVServer(i) ==
    /\ crashes < MaxCrashes
    /\ crashes' = crashes + 1
    /\ kv' = [kv EXCEPT ![i] =
          [state |-> IF snap[i].index = 0 THEN makeState ELSE snap[i].data,
           applied |-> snap[i].index, startChannels |-> <<>>]]
    /\ sending' = [sending EXCEPT ![i] = Nil]
    /\ handlers' = ShutdownServer(i)
    /\ UNCHANGED <<clerk, started, log, snap>>

-----------------------------------------------------------------------------
Init ==
    /\ clerk = [c \in Clerk |-> [requestIndex |-> 0, lastLeaderServer |-> 0, op |-> Nil,
                                 calling |-> FALSE, since |-> 0, result |-> Nil]]
    /\ handlers = {} /\ started = {} /\ log = <<>>
    /\ kv = [i \in Server |-> [state |-> makeState, applied |-> 0, startChannels |-> <<>>]]
    /\ sending = [i \in Server |-> Nil]
    /\ snap = [i \in Server |-> [index |-> 0, data |-> makeState]]
    /\ crashes = 0

handlerSteps(h) ==
    wrongLeader(h) \/ preStart(h) \/ start(h) \/ timeout(h) \/ receiveClosed(h)
        \/ endHandler(h) \/ signalStartCh(h)

Next ==
    \/ \E c \in Clerk : \E type \in Calls[c] : begin(c, type)
    \/ \E c \in Clerk, id \in 1 .. Slots : sendCall(c, id)
    \/ \E c \in Clerk : callFails(c)
    \/ \E h \in handlers : receiveReply(h) \/ handlerSteps(h)
    \/ \E s \in started : commit(s) \/ overwritten(s)
    \/ \E i, j \in Server : raftInstallSnapshot(i, j)
    \/ \E i \in Server, isLeader, toSnapshot \in BOOLEAN :
          /\ toSnapshot => Snapshots
          /\ handleCommandApply(i, isLeader, toSnapshot)
    \/ \E i \in Server : installSnapshot(i) \/ StartKVServer(i)

Spec == Init /\ [][Next]_vars

(* every goroutine that can take a step takes it, and the tickers go on; no call,
   command or restart is forced *)
FairSpec ==
    /\ Spec
    /\ \A c \in Clerk, id \in 1 .. Slots :
          WF_vars(\E h \in handlers : handlerId(h) = <<c, id>> /\ handlerSteps(h))
    /\ \A i \in Server :
          /\ WF_vars(\E isLeader, toSnapshot \in BOOLEAN :
                         /\ toSnapshot => Snapshots
                         /\ handleCommandApply(i, isLeader, toSnapshot))
          /\ WF_vars(installSnapshot(i))

-----------------------------------------------------------------------------
OpType == [ServerId : Server, ClientId : Clerk,
           RequestIndex : 1 .. MaxRequests, Type : Type]

Values == UNION {[1 .. n -> Clerk \X (1 .. MaxRequests)] : n \in 0 .. MaxLog}

State == [KeyValueStore : Values, ClientLastRequest : [Clerk -> 0 .. MaxRequests]]

Response == [Error : {"", "OK", "ErrNoKey", "ErrWrongLeader", "ErrTimeout"},
             Value : Values]

(* The fields hold what the Go types and the use of them allow; in particular no
   reply carries ErrFiller. *)
TypeOK ==
    /\ \A c \in Clerk :
          /\ clerk[c].requestIndex \in 0 .. MaxRequests
          /\ clerk[c].lastLeaderServer \in Server
          /\ clerk[c].op \in Type \cup {Nil}
          /\ clerk[c].calling \in BOOLEAN
          /\ clerk[c].since \in 0 .. Len(log)
          /\ clerk[c].result \in Values \cup {Nil}
    /\ \A h \in handlers :
          /\ h.op \in OpType /\ h.id \in 1 .. Slots
          /\ h.stage \in {"request", "created", "select", "timeout", "result",
                          "notLeader", "reply"}
          /\ h.heard \in BOOLEAN /\ h.closed \in BOOLEAN
          /\ h.response \in Response \cup {Nil}
    /\ started \subseteq [op : OpType, id : 1 .. Slots]
    /\ log \in Seq(OpType)
    /\ \A i \in Server :
          /\ kv[i].state \in State /\ kv[i].applied \in 0 .. Len(log)
          /\ \A k \in DOMAIN kv[i].startChannels :
                /\ k \in Clerk \X (1 .. MaxRequests)
                /\ kv[i].startChannels[k] \in Clerk \X (1 .. Slots)
          /\ sending[i] # Nil => sending[i].msg \in Response
          /\ snap[i].index \in 0 .. Len(log) /\ snap[i].data \in State
    /\ crashes \in 0 .. MaxCrashes

-----------------------------------------------------------------------------
(* What the log means, whoever applies it: of the entries for one request the
   first takes effect. *)
takesEffect(l, n) == \A k \in 1 .. n - 1 : channelOf(l[k]) # channelOf(l[n])

written(value, op) ==
    CASE op.Type = "GET"    -> value
      [] op.Type = "PUT"    -> <<token(op)>>
      [] op.Type = "APPEND" -> Append(value, token(op))

replay(l) ==
    LET v[n \in 0 .. Len(l)] ==
            IF n = 0 THEN <<>>
            ELSE IF takesEffect(l, n) THEN written(v[n - 1], l[n]) ELSE v[n - 1]
    IN v

valueAfter == replay(log)

(* Exactly once: the state of every server, live, restarted or restored from
   another server's snapshot, is the log up to the last applied entry with every
   request counted once.  isDuplicateOp compares numbers only, so this needs the
   clerks to have one request at a time and the table of last requests to travel
   with every snapshot. *)
StateIsReplay ==
    LET v == valueAfter IN
    \A i \in Server :
       /\ kv[i].state.KeyValueStore = v[kv[i].applied]
       /\ snap[i].data.KeyValueStore = v[snap[i].index]

(* signalStartCh sends to a handler that has not left and waits for this very
   request at this server, though the same request may have had several handlers
   and each deletes the channel of the others. *)
SendsHaveAReader ==
    \A i \in Server : sending[i] # Nil =>
       \E h \in handlers :
          /\ handlerId(h) = sending[i].channel
          /\ h.op.ServerId = i
          /\ channelOf(h.op) = channelOf(sending[i].op)
          /\ h.stage \in {"created", "select", "timeout", "notLeader"} /\ ~h.closed

(* what the log and the clerks show of the abstract store *)
valueNow == valueAfter[Len(log)]

pendingCall == [c \in Clerk |->
    IF clerk[c].op = Nil THEN Nil
    ELSE [type |-> clerk[c].op, w |-> <<c, clerk[c].requestIndex>>]]

tookEffect == [c \in Clerk |->
    /\ clerk[c].op # Nil
    /\ \E n \in 1 .. Len(log) : channelOf(log[n]) = <<c, clerk[c].requestIndex>>]

valuesSince == [c \in Clerk |->
    IF clerk[c].op = Nil THEN {}
    ELSE {valueAfter[n] : n \in clerk[c].since .. Len(log)}]

lastResult == [c \in Clerk |-> clerk[c].result]

Store == INSTANCE KVStore WITH
            Name <- Clerk \X (1 .. MaxRequests), store <- valueNow, call <- pendingCall,
            done <- tookEffect, seen <- valuesSince, result <- lastResult

(* The clerks see one store on which every write happens once, between call and
   return, and every Get reads a value of that time: duplicates, retries at other
   servers, leader changes and restarts included. *)
Linearizable == Store!Spec

(* "hear back from channel or timeout" (kvServerGet.go): a handler that waits in
   the select leaves the server. *)
HandlersReply ==
    \A c \in Clerk, id \in 1 .. Slots :
       (\E h \in handlers : handlerId(h) = <<c, id>> /\ h.stage = "select")
          ~> ~ \E h \in handlers : handlerId(h) = <<c, id>> /\ h.stage # "reply"
=============================================================================
