--------------------------- MODULE KVServerProofs ---------------------------
(***************************************************************************)
(* Types and reply channels of KVServer, for any number of servers and     *)
(* clerks and every bound.                                                 *)
(***************************************************************************)
EXTENDS KVServer, TLAPS

(* Types, with lengths of values left open *)

Token == Clerk \X (1 .. MaxRequests)
Slot == Clerk \X (1 .. Slots)

StateT == [KeyValueStore : Seq(Token), ClientLastRequest : [Clerk -> 0 .. MaxRequests]]

ResponseT == [Error : {"", "OK", "ErrNoKey", "ErrWrongLeader", "ErrTimeout"},
              Value : Seq(Token)]

Stage == {"request", "created", "select", "timeout", "result", "notLeader", "reply"}

ClerkT == [requestIndex : 0 .. MaxRequests, lastLeaderServer : Server,
           op : Type \cup {Nil}, calling : BOOLEAN, since : Nat,
           result : Seq(Token) \cup {Nil}]

HandlerT == [id : 1 .. Slots, stage : Stage, heard : BOOLEAN, closed : BOOLEAN,
             response : ResponseT \cup {Nil}, op : OpType]

StartedT == [op : OpType, id : 1 .. Slots]

Channels == UNION {[D -> Slot] : D \in SUBSET Token}

KVT == [state : StateT, applied : Nat, startChannels : Channels]

SendT == [channel : Slot, op : OpType, msg : ResponseT]

SnapT == [index : Nat, data : StateT]

Types ==
    /\ clerk \in [Clerk -> ClerkT]
    /\ started \subseteq StartedT
    /\ log \in Seq(OpType) /\ Len(log) <= MaxLog
    /\ kv \in [Server -> KVT]
    /\ sending \in [Server -> SendT \cup {Nil}]
    /\ snap \in [Server -> SnapT]
    /\ crashes \in 0 .. MaxCrashes

(* nobody is ahead of the log, and a value has no more writes than the log *)
Bounds ==
    /\ \A c \in Clerk : /\ clerk[c].since <= Len(log)
                        /\ clerk[c].result # Nil => Len(clerk[c].result) <= MaxLog
    /\ \A i \in Server :
          /\ kv[i].applied <= Len(log) /\ Len(kv[i].state.KeyValueStore) <= kv[i].applied
          /\ snap[i].index <= Len(log) /\ Len(snap[i].data.KeyValueStore) <= snap[i].index
          /\ sending[i] # Nil => Len(sending[i].msg.Value) <= MaxLog

(* a slot is one handler *)
UniqueSlots == \A g, h \in handlers : handlerId(g) = handlerId(h) => g = h

(* a handler that has come to an answer has one *)
suits(stage, response) ==
    /\ stage \in Stage
    /\ IF stage \in {"result", "reply"}
       THEN response \in ResponseT /\ Len(response.Value) <= MaxLog
       ELSE response = Nil

HandlersOK ==
    /\ handlers \subseteq HandlerT
    /\ UniqueSlots
    /\ \A h \in handlers : suits(h.stage, h.response)

(* a clerk that is in a call has begun a request *)
CallsHaveNumbers == \A c \in Clerk : clerk[c].op # Nil => clerk[c].requestIndex >= 1

TypeInv == Types /\ Bounds /\ HandlersOK /\ CallsHaveNumbers

-----------------------------------------------------------------------------
(* Channels *)

(* from the creation of the channel to the lock that deletes it *)
Reading == {"created", "select", "timeout", "notLeader"}

(* h reads the channel of request key at server i *)
reads(h, i, key) ==
    /\ h.op.ServerId = i /\ channelOf(h.op) = key
    /\ h.stage \in Reading /\ ~h.closed

(* a channel in the map has its handler *)
ChannelsHaveReaders ==
    \A i \in Server : \A key \in DOMAIN kv[i].startChannels :
       \E h \in handlers : handlerId(h) = kv[i].startChannels[key] /\ reads(h, i, key)

(* while kv.mu is held over a send the channel stays in the map *)
SendsAreMapped ==
    \A i \in Server : sending[i] # Nil =>
       /\ channelOf(sending[i].op) \in DOMAIN kv[i].startChannels
       /\ kv[i].startChannels[channelOf(sending[i].op)] = sending[i].channel

(* nobody closes the channel of a handler that has none yet *)
RequestsAreOpen == \A h \in handlers : h.stage = "request" => ~h.closed

ChannelInv == RequestsAreOpen /\ ChannelsHaveReaders /\ SendsAreMapped

-----------------------------------------------------------------------------
(* The operators on the state *)

LEMMA OpFacts ==
    ASSUME NEW op \in OpType
    PROVE  /\ op.ServerId \in Server /\ op.ClientId \in Clerk
           /\ op.RequestIndex \in 1 .. MaxRequests /\ op.Type \in Type
           /\ token(op) \in Token /\ channelOf(op) \in Token
  BY DEF OpType, token, channelOf, Token

LEMMA writtenOK ==
    ASSUME NEW value \in Seq(Token), NEW op \in OpType
    PROVE  written(value, op) \in Seq(Token) /\ Len(written(value, op)) <= Len(value) + 1
<1> DEFINE t == token(op)
<1>1. t \in Token /\ op.Type \in Type
  BY OpFacts
<1> HIDE DEF t
<1>2. /\ <<t>> \in Seq(Token) /\ Len(<<t>>) = 1
      /\ Append(value, t) \in Seq(Token) /\ Len(Append(value, t)) = Len(value) + 1
      /\ Len(value) \in Nat
  BY <1>1
<1> QED
  BY <1>1, <1>2 DEF written, Type, t

LEMMA makeStateOK == makeState \in StateT
<1>1. <<>> \in Seq(Token)
  OBVIOUS
<1>2. [c \in Clerk |-> 0] \in [Clerk -> 0 .. MaxRequests]
  BY KVBounds
<1> QED
  BY <1>1, <1>2 DEF makeState, StateT

(* An operation is carried out or was carried out before. *)
LEMMA applyOpCases ==
    ASSUME NEW state \in StateT, NEW op \in OpType
    PROVE  LET new == applyOp(state, op) IN
           /\ isDuplicateOp(state, op) => new = state
           /\ ~isDuplicateOp(state, op) =>
                 /\ new.KeyValueStore = written(state.KeyValueStore, op)
                 /\ new.ClientLastRequest =
                       [state.ClientLastRequest EXCEPT ![op.ClientId] = op.RequestIndex]
           /\ new \in StateT
           /\ Len(new.KeyValueStore) <= Len(state.KeyValueStore) + 1
<1> DEFINE new == applyOp(state, op)
           value == written(state.KeyValueStore, op)
           last == [state.ClientLastRequest EXCEPT ![op.ClientId] = op.RequestIndex]
<1>0. /\ state.KeyValueStore \in Seq(Token) /\ Len(state.KeyValueStore) \in Nat
      /\ state.ClientLastRequest \in [Clerk -> 0 .. MaxRequests]
  BY DEF StateT
<1>1. CASE isDuplicateOp(state, op)
  <2>1. new = state
    BY <1>1 DEF applyOp
  <2> QED
    BY <1>0, <1>1, <2>1
<1>2. CASE ~isDuplicateOp(state, op)
  <2>1. new = [KeyValueStore |-> value, ClientLastRequest |-> last]
    BY <1>2 DEF applyOp, written
  <2>2. value \in Seq(Token) /\ Len(value) <= Len(state.KeyValueStore) + 1
    BY <1>0, writtenOK
  <2>3. last \in [Clerk -> 0 .. MaxRequests]
    BY <1>0, OpFacts
  <2> HIDE DEF new, value, last
  <2>4. /\ new.KeyValueStore = value /\ new.ClientLastRequest = last
        /\ new \in StateT
    BY <2>1, <2>2, <2>3 DEF StateT
  <2> QED
    BY <1>2, <2>2, <2>4 DEF new, value, last
<1> QED
  BY <1>1, <1>2

(* A reply of replyMsg is the value after the operation, for a Get. *)
LEMMA replyMsgCases ==
    ASSUME NEW state \in StateT, NEW op \in OpType, NEW isLeader \in BOOLEAN
    PROVE  LET msg == replyMsg(state, op, isLeader) IN
           /\ msg \in ResponseT
           /\ op.Type = "GET" => msg.Value = applyOp(state, op).KeyValueStore
           /\ op.Type # "GET" => msg.Value = <<>>
<1> DEFINE new == applyOp(state, op)
           value == IF op.Type = "GET" THEN new.KeyValueStore ELSE <<>>
           code == IF isLeader
                   THEN IF op.Type = "GET"
                        THEN IF new.KeyValueStore = <<>> THEN "ErrNoKey" ELSE "OK"
                        ELSE "OK"
                   ELSE "ErrWrongLeader"
           msg == replyMsg(state, op, isLeader)
<1>1. msg = [Error |-> code, Value |-> value]
  <2> HIDE DEF new
  <2> QED
    BY DEF replyMsg, getValue, new
<1>2. new.KeyValueStore \in Seq(Token)
  BY applyOpCases DEF StateT
<1>3. value \in Seq(Token)
  BY <1>2
<1>4. code \in {"OK", "ErrNoKey", "ErrWrongLeader"}
  OBVIOUS
<1>5. msg.Value = value
  BY <1>1
<1>6. msg \in ResponseT
  <2> HIDE DEF msg, code, value
  <2> QED
    BY <1>1, <1>3, <1>4 DEF ResponseT
<1> QED
  BY <1>5, <1>6

LEMMA AppendFacts ==
    ASSUME NEW l \in Seq(OpType), NEW op \in OpType
    PROVE  /\ Len(l) \in Nat
           /\ Append(l, op) \in Seq(OpType) /\ Len(Append(l, op)) = Len(l) + 1
           /\ Append(l, op)[Len(l) + 1] = op
           /\ \A n \in 1 .. Len(l) : Append(l, op)[n] = l[n] /\ l[n] \in OpType
           /\ \A n \in 1 .. Len(l) + 1 : n \in 1 .. Len(l) \/ n = Len(l) + 1
  OBVIOUS

-----------------------------------------------------------------------------
(* The operators on handlers and channels *)

LEMMA HandlerFacts ==
    ASSUME NEW h \in HandlerT
    PROVE  /\ h.id \in 1 .. Slots /\ h.stage \in Stage /\ h.heard \in BOOLEAN
           /\ h.closed \in BOOLEAN /\ h.response \in ResponseT \cup {Nil}
           /\ h.op \in OpType /\ h.op.ClientId \in Clerk /\ h.op.ServerId \in Server
           /\ handlerId(h) \in Slot /\ channelOf(h.op) \in Token
  BY DEF HandlerT, handlerId, Slot, OpType, channelOf, Token

(* g is h at another stage *)
advanced(g, h, stage, response) ==
    /\ g \in HandlerT /\ g.id = h.id /\ g.op = h.op /\ g.heard = h.heard
    /\ g.stage = stage /\ g.response = response

LEMMA becomesOK ==
    ASSUME NEW hs, NEW h \in HandlerT, NEW stage \in Stage,
           NEW response \in ResponseT \cup {Nil}
    PROVE  \E g : /\ advanced(g, h, stage, response) /\ g.closed = h.closed
                  /\ becomes(hs, h, stage, response) = (hs \ {h}) \cup {g}
<1> DEFINE g == [h EXCEPT !.stage = stage, !.response = response]
<1>1. advanced(g, h, stage, response) /\ g.closed = h.closed
  BY DEF advanced, HandlerT
<1>2. becomes(hs, h, stage, response) = (hs \ {h}) \cup {g}
  BY DEF becomes
<1> HIDE DEF g
<1> QED
  BY <1>1, <1>2

LEMMA returnsOK ==
    ASSUME NEW hs, NEW h \in HandlerT, NEW response \in ResponseT, h.stage # "reply",
           \A g \in hs : handlerId(g) = handlerId(h) => g = h
    PROVE  \/ ~h.heard /\ returns(hs, h, response) = hs \ {h}
           \/ /\ h.heard
              /\ \E g : /\ advanced(g, h, "reply", response) /\ ~g.closed
                        /\ returns(hs, h, response) = (hs \ {h}) \cup {g}
<1>1. CASE ~h.heard
  BY <1>1 DEF returns
<1>2. CASE h.heard
  <2> DEFINE open == [h EXCEPT !.closed = FALSE]
             g == [open EXCEPT !.stage = "reply", !.response = response]
  <2>1. /\ advanced(g, h, "reply", response) /\ g # h /\ ~g.closed
        /\ handlerId(open) = handlerId(h)
    BY DEF advanced, HandlerT, Stage, handlerId
  <2>2. returns(hs, h, response) = ((hs \ {open}) \cup {g}) \ {h}
    BY <1>2 DEF returns, becomes
  <2>3. open \in hs => open = h
    BY <2>1
  <2> HIDE DEF g, open
  <2>4. returns(hs, h, response) = (hs \ {h}) \cup {g}
    BY <2>1, <2>2, <2>3
  <2> QED
    BY <1>2, <2>1, <2>4
<1> QED
  BY <1>1, <1>2, HandlerFacts

(* x is the reader of the channel of request key at server i *)
isReader(x, i, key) ==
    /\ key \in DOMAIN kv[i].startChannels
    /\ handlerId(x) = kv[i].startChannels[key] /\ x.op.ServerId = i

(* closing a channel changes one field of at most the handler that reads it *)
LEMMA closeChannelOK ==
    ASSUME NEW hs, hs \subseteq HandlerT, NEW i, NEW key
    PROVE  /\ \A g \in closeChannel(hs, i, key) : \E h \in hs :
                 /\ advanced(g, h, h.stage, h.response)
                 /\ ~isReader(h, i, key) => g = h
                 /\ isReader(h, i, key) => g = [h EXCEPT !.closed = TRUE]
           /\ \A h \in hs : ~isReader(h, i, key) => h \in closeChannel(hs, i, key)
<1> DEFINE close(h) == IF isReader(h, i, key) THEN [h EXCEPT !.closed = TRUE] ELSE h
<1>1. closeChannel(hs, i, key) = {close(h) : h \in hs}
  BY DEF closeChannel, isReader
<1>2. ASSUME NEW h \in hs
      PROVE  /\ advanced(close(h), h, h.stage, h.response)
             /\ ~isReader(h, i, key) => close(h) = h
             /\ isReader(h, i, key) => close(h) = [h EXCEPT !.closed = TRUE]
  <2>1. h \in HandlerT
    BY <1>2
  <2> QED
    BY <2>1 DEF advanced, HandlerT
<1> HIDE DEF close
<1> QED
  BY <1>1, <1>2

LEMMA ChannelFacts ==
    ASSUME NEW channels \in Channels
    PROVE  /\ DOMAIN channels \subseteq Token
           /\ \A k \in DOMAIN channels : channels[k] \in Slot
  BY DEF Channels

LEMMA ChannelsIntro ==
    ASSUME NEW D, D \subseteq Token, NEW channels \in [D -> Slot]
    PROVE  channels \in Channels
  BY DEF Channels

LEMMA KVFacts ==
    ASSUME NEW x \in KVT
    PROVE  x.state \in StateT /\ x.applied \in Nat /\ x.startChannels \in Channels
  BY DEF KVT

(* a change of startChannels changes nothing else *)
LEMMA setChannels ==
    ASSUME kv \in [Server -> KVT], NEW i \in Server, NEW channels \in Channels
    PROVE  LET new == [kv EXCEPT ![i].startChannels = channels] IN
           /\ new \in [Server -> KVT]
           /\ \A j \in Server : /\ new[j].state = kv[j].state
                                /\ new[j].applied = kv[j].applied
                                /\ j # i => new[j].startChannels = kv[j].startChannels
           /\ new[i].startChannels = channels
<1> DEFINE x == [kv[i] EXCEPT !.startChannels = channels]
           new == [kv EXCEPT ![i] = x]
<1>1. x \in KVT /\ x.state = kv[i].state /\ x.applied = kv[i].applied
      /\ x.startChannels = channels
  BY DEF KVT
<1>2. [kv EXCEPT ![i].startChannels = channels] = new
  OBVIOUS
<1>3. /\ new \in [Server -> KVT]
      /\ \A j \in Server : /\ new[j].state = kv[j].state
                           /\ new[j].applied = kv[j].applied
                           /\ j # i => new[j].startChannels = kv[j].startChannels
      /\ new[i].startChannels = channels
  <2> HIDE DEF x
  <2> QED
    BY <1>1
<1> QED
  BY <1>2, <1>3

LEMMA createStartChOK ==
    ASSUME kv \in [Server -> KVT], NEW i \in Server, NEW h \in HandlerT
    PROVE  LET new == createStartCh(i, h)
               key == channelOf(h.op)
           IN
           /\ new \in [Server -> KVT]
           /\ \A j \in Server : /\ new[j].state = kv[j].state
                                /\ new[j].applied = kv[j].applied
                                /\ j # i => new[j].startChannels = kv[j].startChannels
           /\ DOMAIN new[i].startChannels = DOMAIN kv[i].startChannels \cup {key}
           /\ new[i].startChannels[key] = handlerId(h)
           /\ \A k \in DOMAIN kv[i].startChannels :
                 k # key => new[i].startChannels[k] = kv[i].startChannels[k]
<1> DEFINE old == kv[i].startChannels
           key == channelOf(h.op)
           D == DOMAIN old \cup {key}
           channels == [k \in D |-> IF k = key THEN handlerId(h) ELSE old[k]]
<1>1. old \in Channels
  BY KVFacts
<1>2. D \subseteq Token /\ channels \in [D -> Slot]
  <2>1. DOMAIN old \subseteq Token /\ \A k \in DOMAIN old : old[k] \in Slot
    BY <1>1, ChannelFacts
  <2>2. key \in Token /\ handlerId(h) \in Slot
    BY HandlerFacts
  <2> HIDE DEF old, key
  <2> QED
    BY <2>1, <2>2
<1>3. channels \in Channels
  BY <1>2, ChannelsIntro
<1>4. createStartCh(i, h) = [kv EXCEPT ![i].startChannels = channels]
  BY DEF createStartCh
<1>5. /\ DOMAIN channels = D /\ channels[key] = handlerId(h)
      /\ \A k \in DOMAIN old : k # key => channels[k] = old[k]
  OBVIOUS
<1> HIDE DEF channels
<1> QED
  BY <1>3, <1>4, <1>5, setChannels

LEMMA deleteStartChOK ==
    ASSUME kv \in [Server -> KVT], NEW i \in Server, NEW key
    PROVE  LET new == deleteStartCh(i, key) IN
           /\ new \in [Server -> KVT]
           /\ \A j \in Server : /\ new[j].state = kv[j].state
                                /\ new[j].applied = kv[j].applied
                                /\ j # i => new[j].startChannels = kv[j].startChannels
           /\ DOMAIN new[i].startChannels = DOMAIN kv[i].startChannels \ {key}
           /\ \A k \in DOMAIN new[i].startChannels :
                 new[i].startChannels[k] = kv[i].startChannels[k]
<1> DEFINE old == kv[i].startChannels
           D == DOMAIN old \ {key}
           channels == [k \in D |-> old[k]]
<1>1. old \in Channels
  BY KVFacts
<1>2. D \subseteq Token /\ channels \in [D -> Slot]
  <2>1. DOMAIN old \subseteq Token /\ \A k \in DOMAIN old : old[k] \in Slot
    BY <1>1, ChannelFacts
  <2> HIDE DEF old
  <2> QED
    BY <2>1
<1>3. channels \in Channels
  BY <1>2, ChannelsIntro
<1>4. deleteStartCh(i, key) = [kv EXCEPT ![i].startChannels = channels]
  BY DEF deleteStartCh, without
<1>5. DOMAIN channels = D /\ \A k \in D : channels[k] = old[k]
  OBVIOUS
<1> HIDE DEF channels
<1> QED
  BY <1>3, <1>4, <1>5, setChannels

-----------------------------------------------------------------------------
(* What becomes of the handlers *)

LEMMA errorFields ==
    ASSUME NEW e
    PROVE  /\ error(e).Error = e /\ error(e).Value = <<>>
           /\ error(e).Value \in Seq(Token) /\ Len(error(e).Value) <= MaxLog
<1>1. <<>> \in Seq(Token) /\ Len(<<>>) = 0
  OBVIOUS
<1>2. error(e).Error = e /\ error(e).Value = <<>>
  BY DEF error
<1> QED
  BY <1>1, <1>2, KVBounds

LEMMA errorOK ==
    ASSUME NEW e \in {"", "ErrWrongLeader", "ErrTimeout"},
           NEW stage \in {"result", "reply"}
    PROVE  error(e) \in ResponseT /\ suits(stage, error(e)) /\ ~succeeded(error(e).Error)
<1> DEFINE r == error(e)
<1>1. r = [Error |-> r.Error, Value |-> r.Value] /\ r.Error = e
  BY DEF error
<1>2. r.Value \in Seq(Token) /\ Len(r.Value) <= MaxLog
  BY errorFields
<1> HIDE DEF r
<1>3. r \in ResponseT
  BY <1>1, <1>2 DEF ResponseT
<1>4. ~succeeded(r.Error)
  BY <1>1 DEF succeeded
<1> QED
  BY <1>2, <1>3, <1>4 DEF suits, Stage, r

(* The handler h advances. *)
LEMMA AdvanceOK ==
    ASSUME HandlersOK, NEW h \in handlers, NEW g, NEW stage, NEW response,
           suits(stage, response), advanced(g, h, stage, response),
           handlers' = (handlers \ {h}) \cup {g}
    PROVE  HandlersOK'
<1>1. h \in HandlerT /\ g \in HandlerT /\ handlerId(g) = handlerId(h)
  BY DEF HandlersOK, advanced, handlerId
<1>2. handlers' \subseteq HandlerT
  BY <1>1 DEF HandlersOK
<1>3. UniqueSlots'
  BY <1>1 DEF HandlersOK, UniqueSlots
<1>4. suits(g.stage, g.response)
  BY DEF advanced
<1>5. \A x \in handlers' : x \in handlers \/ x = g
  OBVIOUS
<1> QED
  BY <1>2, <1>3, <1>4, <1>5 DEF HandlersOK

(* Handlers go. *)
LEMMA RemoveOK ==
    ASSUME HandlersOK, handlers' \subseteq handlers
    PROVE  HandlersOK'
  BY DEF HandlersOK, UniqueSlots

(* Handlers change fields that do not matter for types, or go. *)
LEMMA ChangeOK ==
    ASSUME HandlersOK, UniqueSlots',
           \A g \in handlers' : \E h \in handlers :
              g \in HandlerT /\ g.stage = h.stage /\ g.response = h.response
    PROVE  HandlersOK'
  BY DEF HandlersOK

(* h goes from one stage to the next *)
advances(h, stage, response) ==
    \E g : /\ advanced(g, h, stage, response) /\ (g.closed => h.closed)
           /\ handlers' = (handlers \ {h}) \cup {g}

LEMMA AdvancesOK ==
    ASSUME HandlersOK, NEW h \in handlers, NEW stage, NEW response,
           suits(stage, response), advances(h, stage, response)
    PROVE  HandlersOK'
  BY AdvanceOK DEF advances

LEMMA becomesAdvances ==
    ASSUME HandlersOK, NEW h \in handlers, NEW stage \in Stage,
           NEW response \in ResponseT \cup {Nil},
           handlers' = becomes(handlers, h, stage, response)
    PROVE  advances(h, stage, response)
<1>1. h \in HandlerT
  BY DEF HandlersOK
<1>2. PICK g : /\ advanced(g, h, stage, response) /\ g.closed = h.closed
               /\ becomes(handlers, h, stage, response) = (handlers \ {h}) \cup {g}
  BY <1>1, becomesOK
<1> QED
  BY <1>2 DEF advances

LEMMA wrongLeaderDoes ==
    ASSUME HandlersOK, NEW h \in handlers, wrongLeader(h)
    PROVE  \/ handlers' = handlers \ {h}
           \/ h.heard /\ advances(h, "reply", error("ErrWrongLeader"))
<1>1. h \in HandlerT /\ h.stage # "reply"
  BY DEF HandlersOK, wrongLeader
<1>2. \A g \in handlers : handlerId(g) = handlerId(h) => g = h
  BY DEF HandlersOK, UniqueSlots
<1>3. error("ErrWrongLeader") \in ResponseT
  BY errorOK DEF Stage
<1>4. handlers' = returns(handlers, h, error("ErrWrongLeader"))
  BY DEF wrongLeader
<1> QED
  BY <1>1, <1>2, <1>3, <1>4, returnsOK DEF advances

(* endHandler of h closes the channel that x reads *)
isClosed(x, h) == isReader(x, h.op.ServerId, channelOf(h.op))

endResponse(h) == CASE h.stage = "result"    -> h.response
                    [] h.stage = "timeout"   -> error("ErrTimeout")
                    [] h.stage = "notLeader" -> error("ErrWrongLeader")

LEMMA endResponseOK ==
    ASSUME HandlersOK, NEW h \in handlers, h.stage \in {"result", "timeout", "notLeader"}
    PROVE  endResponse(h) \in ResponseT /\ suits("reply", endResponse(h))
<1> USE DEF Stage
<1>1. CASE h.stage = "result"
  <2>1. h.response \in ResponseT /\ Len(h.response.Value) <= MaxLog
    BY <1>1 DEF HandlersOK, suits
  <2> QED
    BY <1>1, <2>1 DEF suits, endResponse
<1>2. CASE h.stage = "timeout"
  BY <1>2, errorOK DEF endResponse
<1>3. CASE h.stage = "notLeader"
  BY <1>3, errorOK DEF endResponse
<1> QED
  BY <1>1, <1>2, <1>3

LEMMA endHandlerDoes ==
    ASSUME HandlersOK, NEW h \in handlers, endHandler(h)
    PROVE  /\ \A g \in handlers' :
                 \/ \E x \in handlers \ {h} :
                       /\ advanced(g, x, x.stage, x.response)
                       /\ ~isClosed(x, h) => g = x
                       /\ isClosed(x, h) => g = [x EXCEPT !.closed = TRUE]
                 \/ h.heard /\ advanced(g, h, "reply", endResponse(h)) /\ ~g.closed
           /\ \A x \in handlers \ {h} : ~isClosed(x, h) => x \in handlers'
           /\ UniqueSlots'
<1> DEFINE i == h.op.ServerId
           key == channelOf(h.op)
           hs == closeChannel(handlers \ {h}, i, key)
<1>1. h \in HandlerT /\ handlers \ {h} \subseteq HandlerT /\ UniqueSlots
  BY DEF HandlersOK
<1>2. handlers' = returns(hs, h, endResponse(h))
  BY DEF endHandler, endResponse
<1>3. /\ h.stage \in {"result", "timeout", "notLeader"}
      /\ endResponse(h) \in ResponseT
  BY endResponseOK DEF endHandler
<1>4. /\ \A g \in hs : \E x \in handlers \ {h} :
            /\ advanced(g, x, x.stage, x.response)
            /\ ~isClosed(x, h) => g = x
            /\ isClosed(x, h) => g = [x EXCEPT !.closed = TRUE]
      /\ \A x \in handlers \ {h} : ~isClosed(x, h) => x \in hs
  BY <1>1, closeChannelOK DEF isClosed
<1> HIDE DEF hs
<1>5. \A g \in hs : handlerId(g) # handlerId(h)
  BY <1>1, <1>4 DEF advanced, handlerId, UniqueSlots
<1>6. h \notin hs
  BY <1>5
<1>7. \/ handlers' = hs
      \/ /\ h.heard
         /\ \E g : advanced(g, h, "reply", endResponse(h)) /\ ~g.closed
                   /\ handlers' = hs \cup {g}
  <2>1. h.stage # "reply" /\ \A g \in hs : handlerId(g) = handlerId(h) => g = h
    BY <1>3, <1>5
  <2>2. hs \ {h} = hs
    BY <1>6
  <2> QED
    BY <1>1, <1>2, <1>3, <2>1, <2>2, returnsOK
<1>8. \A f, g \in hs : handlerId(f) = handlerId(g) => f = g
  <2> SUFFICES ASSUME NEW f \in hs, NEW g \in hs, handlerId(f) = handlerId(g)
               PROVE  f = g
    OBVIOUS
  <2>1. PICK x \in handlers \ {h} : /\ advanced(f, x, x.stage, x.response)
                                    /\ ~isClosed(x, h) => f = x
                                    /\ isClosed(x, h) => f = [x EXCEPT !.closed = TRUE]
    BY <1>4
  <2>2. PICK y \in handlers \ {h} : /\ advanced(g, y, y.stage, y.response)
                                    /\ ~isClosed(y, h) => g = y
                                    /\ isClosed(y, h) => g = [y EXCEPT !.closed = TRUE]
    BY <1>4
  <2>3. handlerId(x) = handlerId(y)
    BY <2>1, <2>2 DEF advanced, handlerId
  <2>4. x = y
    BY <1>1, <2>3 DEF UniqueSlots
  <2> QED
    BY <2>1, <2>2, <2>4
<1>9. UniqueSlots'
  <2>1. CASE handlers' = hs
    BY <1>8, <2>1 DEF UniqueSlots, handlerId
  <2>2. CASE \E g : advanced(g, h, "reply", endResponse(h)) /\ ~g.closed
                    /\ handlers' = hs \cup {g}
    <3>1. PICK g : advanced(g, h, "reply", endResponse(h)) /\ handlers' = hs \cup {g}
      BY <2>2
    <3>2. handlerId(g) = handlerId(h)
      BY <3>1 DEF advanced, handlerId
    <3>3. \A x, y \in handlers' : handlerId(x) = handlerId(y) => x = y
      <4> HIDE DEF handlerId
      <4> QED
        BY <1>5, <1>8, <3>1, <3>2
    <3> QED
      BY <3>3 DEF UniqueSlots, handlerId
  <2> QED
    BY <1>7, <2>1, <2>2
<1> QED
  BY <1>4, <1>7, <1>9

LEMMA callFailsDoes ==
    ASSUME HandlersOK, NEW c \in Clerk, callFails(c)
    PROVE  /\ \A g \in handlers' : \E x \in handlers :
                 /\ g.id = x.id /\ g.op = x.op /\ g.stage = x.stage
                 /\ g.response = x.response /\ g.closed = x.closed
                 /\ g \in HandlerT
                 /\ x.op.ClientId = c => ~g.heard /\ ~(x.heard /\ x.stage = "reply")
                 /\ x.op.ClientId # c => g = x
           /\ \A x \in handlers :
                 x.stage \notin {"request", "reply"} =>
                    \E g \in handlers' : /\ g.id = x.id /\ g.op = x.op /\ g.stage = x.stage
                                         /\ g.closed = x.closed
           /\ UniqueSlots'
<1> DEFINE K == {g \in handlers : ~(/\ g.op.ClientId = c /\ g.heard
                                    /\ g.stage \in {"request", "reply"})}
           f(h) == IF h.op.ClientId = c THEN [h EXCEPT !.heard = FALSE] ELSE h
<1>1. handlers' = {f(h) : h \in K}
  BY DEF callFails
<1>2. ASSUME NEW x \in handlers
      PROVE  /\ f(x).id = x.id /\ f(x).op = x.op /\ f(x).stage = x.stage
             /\ f(x).response = x.response /\ f(x).closed = x.closed
             /\ f(x) \in HandlerT
             /\ x.op.ClientId = c => ~f(x).heard
             /\ x.op.ClientId # c => f(x) = x
             /\ handlerId(f(x)) = handlerId(x)
  <2>1. x \in HandlerT
    BY <1>2 DEF HandlersOK
  <2> QED
    BY <2>1 DEF HandlerT, handlerId
<1> HIDE DEF f
<1>3. UniqueSlots'
  <2>1. \A g, h \in handlers' : handlerId(g) = handlerId(h) => g = h
    BY <1>1, <1>2 DEF HandlersOK, UniqueSlots
  <2> QED
    BY <2>1 DEF UniqueSlots, handlerId
<1> QED
  BY <1>1, <1>2, <1>3

-----------------------------------------------------------------------------
(* Types *)

LEMMA InitTypes == Init => TypeInv
<1> SUFFICES ASSUME Init PROVE TypeInv
  OBVIOUS
<1>1. /\ log = <<>> /\ Len(<<>>) = 0 /\ log \in Seq(OpType)
      /\ handlers = {} /\ started = {} /\ crashes = 0
  BY DEF Init
<1>2. 0 \in Server
  BY NAssumption DEF Server
<1>3. clerk \in [Clerk -> ClerkT] /\ \A c \in Clerk : clerk[c].since = 0 /\ clerk[c].result = Nil
  BY <1>2, KVBounds DEF Init, ClerkT
<1>4. <<>> \in Channels
  <2>1. <<>> \in [{} -> Slot]
    OBVIOUS
  <2> QED
    BY <2>1, ChannelsIntro
<1>5. kv \in [Server -> KVT]
  BY <1>4, makeStateOK DEF Init, KVT
<1>6. snap \in [Server -> SnapT]
  BY makeStateOK DEF Init, SnapT
<1>7. \A i \in Server : /\ kv[i].state = makeState /\ kv[i].applied = 0
                        /\ snap[i].data = makeState /\ snap[i].index = 0
                        /\ sending[i] = Nil
  BY DEF Init
<1>8. Len(makeState.KeyValueStore) = 0
  BY DEF makeState
<1>9. sending \in [Server -> SendT \cup {Nil}]
  BY DEF Init
<1>10. Types
  BY <1>1, <1>3, <1>5, <1>6, <1>9, KVBounds DEF Types
<1>11. Bounds
  BY <1>1, <1>3, <1>7, <1>8 DEF Bounds
<1>12. HandlersOK
  BY <1>1 DEF HandlersOK, UniqueSlots
<1>13. CallsHaveNumbers
  BY DEF Init, CallsHaveNumbers
<1> QED
  BY <1>10, <1>11, <1>12, <1>13 DEF TypeInv

LEMMA ClerkFacts ==
    ASSUME Types, NEW c \in Clerk
    PROVE  /\ clerk[c] \in ClerkT
           /\ clerk[c].requestIndex \in 0 .. MaxRequests
           /\ clerk[c].lastLeaderServer \in Server
           /\ clerk[c].op \in Type \cup {Nil} /\ clerk[c].calling \in BOOLEAN
           /\ clerk[c].since \in Nat /\ clerk[c].result \in Seq(Token) \cup {Nil}
           /\ Len(log) \in Nat
  BY DEF Types, ClerkT

LEMMA nextServerOK ==
    ASSUME NEW i \in Server
    PROVE  nextServer(i) \in Server
  BY NAssumption DEF nextServer, Server

(* what the retry loop does between two calls *)
LEMMA retryOK ==
    ASSUME Types, NEW c \in Clerk
    PROVE  /\ retry(c) \in [Clerk -> ClerkT]
           /\ ~retry(c)[c].calling
           /\ \A d \in Clerk : /\ retry(c)[d].requestIndex = clerk[d].requestIndex
                               /\ retry(c)[d].op = clerk[d].op
                               /\ retry(c)[d].since = clerk[d].since
                               /\ retry(c)[d].result = clerk[d].result
                               /\ d # c => retry(c)[d] = clerk[d]
<1> DEFINE s == nextServer(clerk[c].lastLeaderServer)
           x == [clerk[c] EXCEPT !.calling = FALSE, !.lastLeaderServer = s]
<1>1. s \in Server
  BY ClerkFacts, nextServerOK
<1> HIDE DEF s
<1>2. clerk[c] \in ClerkT /\ clerk \in [Clerk -> ClerkT]
  BY DEF Types
<1>3. /\ x \in ClerkT /\ ~x.calling /\ x.requestIndex = clerk[c].requestIndex
      /\ x.op = clerk[c].op /\ x.since = clerk[c].since /\ x.result = clerk[c].result
  BY <1>1, <1>2 DEF ClerkT
<1>4. retry(c) = [clerk EXCEPT ![c] = x]
  BY DEF retry, s
<1> HIDE DEF x
<1> QED
  BY <1>2, <1>3, <1>4

LEMMA beginDoes ==
    ASSUME TypeInv, NEW c \in Clerk, NEW type \in Calls[c], begin(c, type)
    PROVE  /\ type \in Type /\ type # Nil /\ clerk[c].op = Nil
           /\ clerk' \in [Clerk -> ClerkT]
           /\ \A d \in Clerk : d # c => clerk'[d] = clerk[d]
           /\ clerk'[c].requestIndex = clerk[c].requestIndex + 1
           /\ clerk'[c].op = type /\ clerk'[c].result = Nil
           /\ clerk'[c].since = Len(log) /\ clerk'[c].calling = clerk[c].calling
<1> DEFINE n == Len(log)
           r == clerk[c].requestIndex + 1
           x == [clerk[c] EXCEPT !.requestIndex = r, !.op = type, !.result = Nil, !.since = n]
<1>1. type \in Type /\ type # Nil
  BY CallsAssumption, NilAssumption DEF Type
<1>2. clerk[c] \in ClerkT /\ clerk \in [Clerk -> ClerkT] /\ n \in Nat
  BY DEF TypeInv, Types
<1>3. r \in 0 .. MaxRequests
  <2>1. clerk[c].requestIndex \in 0 .. MaxRequests
    BY <1>2 DEF ClerkT
  <2> QED
    BY <2>1, KVBounds DEF begin
<1>4. clerk' = [clerk EXCEPT ![c] = x]
  BY DEF begin
<1> HIDE DEF n, r
<1>5. x \in ClerkT /\ x.requestIndex = r /\ x.op = type /\ x.since = n /\ x.result = Nil
      /\ x.calling = clerk[c].calling
  BY <1>1, <1>2, <1>3 DEF ClerkT
<1> HIDE DEF x
<1>6. /\ clerk' \in [Clerk -> ClerkT] /\ clerk'[c] = x
      /\ \A d \in Clerk : d # c => clerk'[d] = clerk[d]
  BY <1>2, <1>4, <1>5
<1>7. clerk[c].op = Nil
  BY DEF begin
<1> QED
  BY <1>1, <1>5, <1>6, <1>7 DEF n, r

LEMMA beginTypes ==
    ASSUME TypeInv, NEW c \in Clerk, NEW type \in Calls[c], begin(c, type)
    PROVE  TypeInv'
<1>1. Types /\ Bounds /\ HandlersOK /\ CallsHaveNumbers /\ Len(log) \in Nat
      /\ clerk[c].requestIndex \in Nat
  BY ClerkFacts DEF TypeInv
<1>2. UNCHANGED <<handlers, started, log, kv, sending, snap, crashes>>
  BY DEF begin
<1>3. Types'
  BY <1>1, <1>2, beginDoes DEF Types
<1>4. Bounds'
  BY <1>1, <1>2, beginDoes DEF Bounds
<1>5. HandlersOK'
  BY <1>1, <1>2, RemoveOK
<1>6. CallsHaveNumbers'
  BY <1>1, beginDoes DEF CallsHaveNumbers
<1> QED
  BY <1>3, <1>4, <1>5, <1>6 DEF TypeInv

(* the new handler of sendCall *)
newHandler(c, id) ==
    [id |-> id, stage |-> "request", heard |-> TRUE, closed |-> FALSE, response |-> Nil,
     op |-> [ServerId |-> clerk[c].lastLeaderServer, ClientId |-> c,
             RequestIndex |-> clerk[c].requestIndex, Type |-> clerk[c].op]]

LEMMA sendCallDoes ==
    ASSUME TypeInv, NEW c \in Clerk, NEW id \in 1 .. Slots, sendCall(c, id)
    PROVE  LET g == newHandler(c, id) IN
           /\ g \in HandlerT /\ handlers' = handlers \cup {g}
           /\ handlerId(g) = <<c, id>>
           /\ \A h \in handlers : handlerId(h) # <<c, id>>
           /\ clerk' \in [Clerk -> ClerkT]
           /\ clerk'[c].calling
           /\ \A d \in Clerk : /\ clerk'[d].requestIndex = clerk[d].requestIndex
                               /\ clerk'[d].op = clerk[d].op
                               /\ clerk'[d].since = clerk[d].since
                               /\ clerk'[d].result = clerk[d].result
                               /\ d # c => clerk'[d] = clerk[d]
<1> DEFINE x == [clerk[c] EXCEPT !.calling = TRUE]
           op == [ServerId |-> clerk[c].lastLeaderServer, ClientId |-> c,
                  RequestIndex |-> clerk[c].requestIndex, Type |-> clerk[c].op]
           g == newHandler(c, id)
<1>1. clerk \in [Clerk -> ClerkT] /\ clerk[c] \in ClerkT
  BY DEF TypeInv, Types
<1>2. clerk[c].op \in Type /\ clerk[c].requestIndex \in 1 .. MaxRequests
      /\ clerk[c].lastLeaderServer \in Server
  BY <1>1 DEF sendCall, TypeInv, CallsHaveNumbers, ClerkT
<1>3. op \in OpType /\ op.ClientId = c
  BY <1>2 DEF OpType
<1>4. g = [id |-> id, stage |-> "request", heard |-> TRUE, closed |-> FALSE,
           response |-> Nil, op |-> op]
  BY DEF newHandler
<1>5. handlers' = handlers \cup {g}
  BY DEF sendCall, newHandler
<1>6. clerk' = [clerk EXCEPT ![c] = x]
  BY DEF sendCall
<1>7. x \in ClerkT /\ x.calling /\ x.requestIndex = clerk[c].requestIndex
      /\ x.op = clerk[c].op /\ x.since = clerk[c].since /\ x.result = clerk[c].result
  BY <1>1 DEF ClerkT
<1> HIDE DEF op, g, x
<1>8. g \in HandlerT /\ handlerId(g) = <<c, id>>
  BY <1>3, <1>4 DEF HandlerT, Stage, handlerId
<1>9. \A h \in handlers : handlerId(h) # <<c, id>>
  BY DEF sendCall, freeId, handlerId
<1>10. clerk' \in [Clerk -> ClerkT] /\ \A d \in Clerk : clerk'[d] = IF d = c THEN x ELSE clerk[d]
  BY <1>1, <1>6, <1>7
<1>11. /\ clerk'[c].calling
       /\ \A d \in Clerk : /\ clerk'[d].requestIndex = clerk[d].requestIndex
                           /\ clerk'[d].op = clerk[d].op
                           /\ clerk'[d].since = clerk[d].since
                           /\ clerk'[d].result = clerk[d].result
                           /\ d # c => clerk'[d] = clerk[d]
  BY <1>7, <1>10
<1> QED
  BY <1>5, <1>8, <1>9, <1>10, <1>11 DEF g

LEMMA sendCallTypes ==
    ASSUME TypeInv, NEW c \in Clerk, NEW id \in 1 .. Slots, sendCall(c, id)
    PROVE  TypeInv'
<1> DEFINE g == newHandler(c, id)
<1>1. Types /\ Bounds /\ HandlersOK /\ CallsHaveNumbers
  BY DEF TypeInv
<1>2. UNCHANGED <<started, log, kv, sending, snap, crashes>>
  BY DEF sendCall
<1>3. Types'
  BY <1>1, <1>2, sendCallDoes DEF Types
<1>4. Bounds'
  BY <1>1, <1>2, sendCallDoes DEF Bounds
<1>5. /\ g \in HandlerT /\ handlers' = handlers \cup {g}
      /\ \A h \in handlers : handlerId(h) # handlerId(g)
  BY sendCallDoes
<1>6. g.stage = "request" /\ g.response = Nil
  BY DEF newHandler
<1> HIDE DEF g
<1>7. HandlersOK'
  <2>1. \A x, y \in handlers' : handlerId(x) = handlerId(y) => x = y
    BY <1>1, <1>5 DEF HandlersOK, UniqueSlots
  <2>2. UniqueSlots'
    BY <2>1 DEF UniqueSlots, handlerId
  <2> QED
    BY <1>1, <1>5, <1>6, <2>2 DEF HandlersOK, suits, Stage
<1>8. CallsHaveNumbers'
  BY <1>1, sendCallDoes DEF CallsHaveNumbers
<1> QED
  BY <1>3, <1>4, <1>7, <1>8 DEF TypeInv

LEMMA callFailsTypes ==
    ASSUME TypeInv, NEW c \in Clerk, callFails(c)
    PROVE  TypeInv'
<1>1. Types /\ Bounds /\ HandlersOK /\ CallsHaveNumbers
  BY DEF TypeInv
<1>2. UNCHANGED <<started, log, kv, sending, snap, crashes>> /\ clerk' = retry(c)
  BY DEF callFails
<1>3. Types'
  BY <1>1, <1>2, retryOK DEF Types
<1>4. Bounds'
  BY <1>1, <1>2, retryOK DEF Bounds
<1>5. HandlersOK'
  <2>1. UniqueSlots' /\ \A g \in handlers' : \E h \in handlers :
           g \in HandlerT /\ g.stage = h.stage /\ g.response = h.response
    BY <1>1, callFailsDoes
  <2> QED
    BY <1>1, <2>1, ChangeOK
<1>6. CallsHaveNumbers'
  BY <1>1, <1>2, retryOK DEF CallsHaveNumbers
<1> QED
  BY <1>3, <1>4, <1>5, <1>6 DEF TypeInv

(* a reply ends the call or is followed by the next turn of the loop *)
LEMMA receiveReplyDoes ==
    ASSUME TypeInv, NEW h \in handlers, receiveReply(h)
    PROVE  LET c == h.op.ClientId IN
           /\ c \in Clerk /\ handlers' = handlers \ {h}
           /\ h.stage = "reply" /\ h.response \in ResponseT
           /\ Len(h.response.Value) <= MaxLog
           /\ ~succeeded(h.response.Error) => clerk' = retry(c)
           /\ succeeded(h.response.Error) =>
                 /\ clerk' \in [Clerk -> ClerkT]
                 /\ clerk'[c].op = Nil /\ clerk'[c].result = h.response.Value
                 /\ ~clerk'[c].calling
                 /\ clerk'[c].requestIndex = clerk[c].requestIndex
                 /\ clerk'[c].since = clerk[c].since
                 /\ \A d \in Clerk : d # c => clerk'[d] = clerk[d]
<1> DEFINE c == h.op.ClientId
           value == h.response.Value
           x == [clerk[c] EXCEPT !.calling = FALSE, !.op = Nil, !.result = value]
<1>1. h \in HandlerT /\ h.stage = "reply" /\ h.response \in ResponseT
      /\ Len(h.response.Value) <= MaxLog
  BY DEF TypeInv, HandlersOK, suits, receiveReply
<1>2. c \in Clerk /\ value \in Seq(Token)
  BY <1>1, HandlerFacts DEF ResponseT
<1>3. clerk \in [Clerk -> ClerkT] /\ clerk[c] \in ClerkT
  BY <1>2 DEF TypeInv, Types
<1>4. CASE succeeded(h.response.Error)
  <2>1. clerk' = [clerk EXCEPT ![c] = x]
    BY <1>4 DEF receiveReply
  <2> HIDE DEF value
  <2>2. x \in ClerkT /\ x.op = Nil /\ x.result = value /\ ~x.calling
        /\ x.requestIndex = clerk[c].requestIndex /\ x.since = clerk[c].since
    BY <1>2, <1>3 DEF ClerkT
  <2> HIDE DEF x
  <2>3. /\ clerk' \in [Clerk -> ClerkT] /\ clerk'[c] = x
        /\ \A d \in Clerk : d # c => clerk'[d] = clerk[d]
    BY <1>2, <1>3, <2>1, <2>2
  <2> QED
    BY <1>1, <1>2, <1>4, <2>2, <2>3 DEF receiveReply, value
<1>5. CASE ~succeeded(h.response.Error)
  BY <1>1, <1>2, <1>5 DEF receiveReply
<1> QED
  BY <1>4, <1>5

LEMMA receiveReplyTypes ==
    ASSUME TypeInv, NEW h \in handlers, receiveReply(h)
    PROVE  TypeInv'
<1> DEFINE c == h.op.ClientId
<1>1. Types /\ Bounds /\ HandlersOK /\ CallsHaveNumbers
  BY DEF TypeInv
<1>2. UNCHANGED <<started, log, kv, sending, snap, crashes>>
  BY DEF receiveReply
<1>3. HandlersOK'
  BY <1>1, receiveReplyDoes, RemoveOK
<1>4. CASE ~succeeded(h.response.Error)
  <2>1. c \in Clerk /\ clerk' = retry(c)
    BY <1>4, receiveReplyDoes
  <2> HIDE DEF c
  <2>2. Types'
    BY <1>1, <1>2, <2>1, retryOK DEF Types
  <2>3. Bounds'
    BY <1>1, <1>2, <2>1, retryOK DEF Bounds
  <2>4. CallsHaveNumbers'
    BY <1>1, <2>1, retryOK DEF CallsHaveNumbers
  <2> QED
    BY <1>3, <2>2, <2>3, <2>4 DEF TypeInv
<1>5. CASE succeeded(h.response.Error)
  <2>1. /\ c \in Clerk /\ clerk' \in [Clerk -> ClerkT]
        /\ clerk'[c].op = Nil /\ clerk'[c].result = h.response.Value
        /\ clerk'[c].since = clerk[c].since
        /\ \A d \in Clerk : d # c => clerk'[d] = clerk[d]
        /\ h.response \in ResponseT
    BY <1>5, receiveReplyDoes
  <2> HIDE DEF c
  <2>2. Types'
    BY <1>1, <1>2, <2>1 DEF Types
  <2>3. Len(h.response.Value) <= MaxLog
    BY receiveReplyDoes
  <2>4. Bounds'
    BY <1>1, <1>2, <2>1, <2>3 DEF Bounds
  <2>5. CallsHaveNumbers'
    BY <1>1, <2>1 DEF CallsHaveNumbers
  <2> QED
    BY <1>3, <2>2, <2>4, <2>5 DEF TypeInv
<1> QED
  BY <1>4, <1>5

(* steps of a handler that leave the servers' states alone *)
LEMMA ServersSame ==
    ASSUME Types, Bounds, CallsHaveNumbers, kv' \in [Server -> KVT],
           \A j \in Server : kv'[j].state = kv[j].state /\ kv'[j].applied = kv[j].applied,
           UNCHANGED <<clerk, log, snap, crashes>>,
           started' \subseteq StartedT,
           \A j \in Server : sending'[j] = sending[j] \/ sending'[j] = Nil,
           sending' \in [Server -> SendT \cup {Nil}]
    PROVE  Types' /\ Bounds' /\ CallsHaveNumbers'
<1>1. Types'
  BY DEF Types
<1>2. Bounds'
  BY DEF Bounds
<1>3. CallsHaveNumbers'
  BY DEF CallsHaveNumbers
<1> QED
  BY <1>1, <1>2, <1>3

LEMMA handlerStepsTypes ==
    ASSUME TypeInv, NEW h \in handlers, handlerSteps(h)
    PROVE  TypeInv'
<1>1. Types /\ Bounds /\ HandlersOK /\ CallsHaveNumbers
  BY DEF TypeInv
<1>2. /\ started \subseteq StartedT /\ kv \in [Server -> KVT]
      /\ sending \in [Server -> SendT \cup {Nil}]
      /\ h \in HandlerT /\ h.op.ServerId \in Server
      /\ suits(h.stage, h.response)
  BY <1>1, HandlerFacts DEF Types, HandlersOK
<1>4. CASE wrongLeader(h)
  <2>1. UNCHANGED <<clerk, started, log, kv, sending, snap, crashes>>
    BY <1>4 DEF wrongLeader
  <2>2. HandlersOK'
    <3>1. suits("reply", error("ErrWrongLeader"))
      BY errorOK
    <3> QED
      BY <1>1, <1>4, <3>1, wrongLeaderDoes, AdvancesOK, RemoveOK
  <2> QED
    BY <1>1, <1>2, <2>1, <2>2, ServersSame DEF TypeInv
<1>5. CASE preStart(h)
  <2>1. UNCHANGED <<clerk, started, log, sending, snap, crashes>>
    BY <1>5 DEF preStart
  <2>2. kv' = createStartCh(h.op.ServerId, h)
    BY <1>5 DEF preStart
  <2>3. HandlersOK'
    <3>1. suits("created", Nil)
      BY DEF suits, Stage
    <3>2. advances(h, "created", Nil)
      BY <1>1, <1>5, becomesAdvances DEF preStart, Stage
    <3> QED
      BY <1>1, <3>1, <3>2, AdvancesOK
  <2>4. /\ kv' \in [Server -> KVT]
        /\ \A j \in Server : kv'[j].state = kv[j].state /\ kv'[j].applied = kv[j].applied
    BY <1>2, <2>2, createStartChOK
  <2> QED
    BY <1>1, <1>2, <2>1, <2>3, <2>4, ServersSame DEF TypeInv
<1>6. CASE start(h)
  <2>1. UNCHANGED <<clerk, log, kv, sending, snap, crashes>>
    BY <1>6 DEF start
  <2>2. started' \subseteq StartedT
    <3>1. [op |-> h.op, id |-> h.id] \in StartedT
      BY <1>2, HandlerFacts DEF StartedT
    <3> QED
      BY <1>2, <1>6, <3>1 DEF start
  <2>3. HandlersOK'
    <3>1. suits("select", Nil) /\ suits("notLeader", Nil)
      BY DEF suits, Stage
    <3>2. advances(h, "select", Nil) \/ advances(h, "notLeader", Nil)
      BY <1>1, <1>6, becomesAdvances DEF start, Stage
    <3> QED
      BY <1>1, <3>1, <3>2, AdvancesOK
  <2> QED
    BY <1>1, <1>2, <2>1, <2>2, <2>3, ServersSame DEF TypeInv
<1>7. CASE timeout(h)
  <2>1. UNCHANGED <<clerk, started, log, kv, sending, snap, crashes>>
    BY <1>7 DEF timeout
  <2>2. HandlersOK'
    <3>1. suits("timeout", Nil)
      BY DEF suits, Stage
    <3>2. advances(h, "timeout", Nil)
      BY <1>1, <1>7, becomesAdvances DEF timeout, Stage
    <3> QED
      BY <1>1, <3>1, <3>2, AdvancesOK
  <2> QED
    BY <1>1, <1>2, <2>1, <2>2, ServersSame DEF TypeInv
<1>8. CASE receiveClosed(h)
  <2>1. UNCHANGED <<clerk, started, log, kv, sending, snap, crashes>>
    BY <1>8 DEF receiveClosed
  <2>2. HandlersOK'
    <3>1. suits("result", error("")) /\ error("") \in ResponseT
      BY errorOK
    <3>2. advances(h, "result", error(""))
      BY <1>1, <1>8, <3>1, becomesAdvances DEF receiveClosed, Stage
    <3> QED
      BY <1>1, <3>1, <3>2, AdvancesOK
  <2> QED
    BY <1>1, <1>2, <2>1, <2>2, ServersSame DEF TypeInv
<1>9. CASE endHandler(h)
  <2>1. UNCHANGED <<clerk, started, log, sending, snap, crashes>>
    BY <1>9 DEF endHandler
  <2>2. kv' = deleteStartCh(h.op.ServerId, channelOf(h.op))
    BY <1>9 DEF endHandler
  <2>3. /\ kv' \in [Server -> KVT]
        /\ \A j \in Server : kv'[j].state = kv[j].state /\ kv'[j].applied = kv[j].applied
    BY <1>2, <2>2, deleteStartChOK
  <2>4. HandlersOK'
    <3>1. suits("reply", endResponse(h))
      BY <1>1, <1>9, endResponseOK DEF endHandler
    <3>2. ASSUME NEW g \in handlers' PROVE g \in HandlerT /\ suits(g.stage, g.response)
      <4>1. CASE \E x \in handlers : advanced(g, x, x.stage, x.response)
        BY <1>1, <4>1 DEF HandlersOK, advanced
      <4>2. CASE advanced(g, h, "reply", endResponse(h))
        BY <3>1, <4>2 DEF advanced
      <4> QED
        BY <1>1, <1>9, <4>1, <4>2, endHandlerDoes
    <3>3. UniqueSlots'
      BY <1>1, <1>9, endHandlerDoes
    <3> QED
      BY <3>2, <3>3 DEF HandlersOK
  <2> QED
    BY <1>1, <1>2, <2>1, <2>3, <2>4, ServersSame DEF TypeInv
<1>10. CASE signalStartCh(h)
  <2> DEFINE i == h.op.ServerId
  <2>1. UNCHANGED <<clerk, started, log, snap, crashes>>
    BY <1>10 DEF signalStartCh
  <2>2. kv' = deleteStartCh(i, channelOf(h.op))
    BY <1>10 DEF signalStartCh
  <2>3. /\ kv' \in [Server -> KVT]
        /\ \A j \in Server : kv'[j].state = kv[j].state /\ kv'[j].applied = kv[j].applied
    BY <1>2, <2>2, deleteStartChOK
  <2>4. /\ sending' \in [Server -> SendT \cup {Nil}]
        /\ \A j \in Server : sending'[j] = sending[j] \/ sending'[j] = Nil
    BY <1>2, <1>10 DEF signalStartCh
  <2>5. sending[i] # Nil /\ sending[i] \in SendT
    BY <1>2, <1>10 DEF signalStartCh
  <2>6. sending[i].msg \in ResponseT /\ Len(sending[i].msg.Value) <= MaxLog
    BY <1>1, <1>2, <2>5 DEF SendT, Bounds
  <2>7. HandlersOK'
    <3>1. suits("result", sending[i].msg)
      BY <2>6 DEF suits, Stage
    <3>2. advances(h, "result", sending[i].msg)
      BY <1>1, <1>10, <2>6, becomesAdvances DEF signalStartCh, Stage
    <3> QED
      BY <1>1, <3>1, <3>2, AdvancesOK
  <2> QED
    BY <1>1, <1>2, <2>1, <2>3, <2>4, <2>7, ServersSame DEF TypeInv
<1> QED
  BY <1>4, <1>5, <1>6, <1>7, <1>8, <1>9, <1>10 DEF handlerSteps

LEMMA ServerFacts ==
    ASSUME TypeInv, NEW i \in Server
    PROVE  /\ kv[i] \in KVT /\ snap[i] \in SnapT
           /\ kv[i].state \in StateT /\ kv[i].applied \in Nat
           /\ kv[i].startChannels \in Channels
           /\ snap[i].data \in StateT /\ snap[i].index \in Nat
           /\ Len(kv[i].state.KeyValueStore) \in Nat
           /\ Len(snap[i].data.KeyValueStore) \in Nat
           /\ kv[i].applied <= Len(log) /\ snap[i].index <= Len(log)
           /\ Len(kv[i].state.KeyValueStore) <= kv[i].applied
           /\ Len(snap[i].data.KeyValueStore) <= snap[i].index
           /\ Len(log) \in Nat /\ Len(log) <= MaxLog /\ log \in Seq(OpType)
<1>1. kv[i] \in KVT /\ snap[i] \in SnapT /\ log \in Seq(OpType) /\ Len(log) <= MaxLog
  BY DEF TypeInv, Types
<1>2. /\ kv[i].state \in StateT /\ kv[i].applied \in Nat
      /\ kv[i].startChannels \in Channels
      /\ snap[i].data \in StateT /\ snap[i].index \in Nat
  BY <1>1 DEF KVT, SnapT
<1>3. /\ kv[i].state.KeyValueStore \in Seq(Token)
      /\ snap[i].data.KeyValueStore \in Seq(Token)
  BY <1>2 DEF StateT
<1>4. /\ kv[i].applied <= Len(log) /\ snap[i].index <= Len(log)
      /\ Len(kv[i].state.KeyValueStore) <= kv[i].applied
      /\ Len(snap[i].data.KeyValueStore) <= snap[i].index
  BY DEF TypeInv, Bounds
<1> QED
  BY <1>1, <1>2, <1>3, <1>4

LEMMA commitTypes ==
    ASSUME TypeInv, NEW s \in started, commit(s) \/ overwritten(s)
    PROVE  TypeInv'
<1>1. Types /\ Bounds /\ HandlersOK /\ CallsHaveNumbers
  BY DEF TypeInv
<1>2. UNCHANGED <<clerk, handlers, kv, sending, snap, crashes>> /\ started' \subseteq started
  BY DEF commit, overwritten
<1>3. log' \in Seq(OpType) /\ Len(log') <= MaxLog /\ Len(log) <= Len(log')
      /\ Len(log') \in Nat /\ Len(log) \in Nat
  <2>1. log \in Seq(OpType) /\ Len(log) <= MaxLog /\ Len(log) \in Nat
    BY <1>1 DEF Types
  <2>2. CASE commit(s)
    <3>1. s.op \in OpType /\ log' = Append(log, s.op) /\ Len(log) < MaxLog
      BY <1>1, <2>2 DEF Types, StartedT, commit
    <3> QED
      BY <2>1, <3>1, AppendFacts, KVBounds
  <2>3. CASE overwritten(s)
    BY <2>1, <2>3 DEF overwritten
  <2> QED
    BY <2>2, <2>3
<1>4. Types'
  BY <1>1, <1>2, <1>3 DEF Types
<1>5. Bounds'
  <2>1. \A c \in Clerk : clerk[c].since \in Nat
    BY <1>1, ClerkFacts
  <2>2. \A i \in Server : kv[i].applied \in Nat /\ snap[i].index \in Nat
    BY ServerFacts
  <2> QED
    BY <1>1, <1>2, <1>3, <2>1, <2>2 DEF Bounds
<1>6. HandlersOK' /\ CallsHaveNumbers'
  BY <1>1, <1>2, RemoveOK DEF CallsHaveNumbers
<1> QED
  BY <1>4, <1>5, <1>6 DEF TypeInv

LEMMA raftInstallSnapshotTypes ==
    ASSUME TypeInv, NEW i \in Server, NEW j \in Server, raftInstallSnapshot(i, j)
    PROVE  TypeInv'
<1>1. Types /\ Bounds /\ HandlersOK /\ CallsHaveNumbers
  BY DEF TypeInv
<1>2. UNCHANGED <<clerk, handlers, started, log, kv, sending, crashes>>
      /\ snap' = [snap EXCEPT ![i] = snap[j]]
  BY DEF raftInstallSnapshot
<1>3. Types'
  BY <1>1, <1>2 DEF Types
<1>4. \A k \in Server : snap'[k] = snap[k] \/ snap'[k] = snap[j]
  BY <1>1, <1>2 DEF Types
<1>5. Bounds'
  BY <1>1, <1>2, <1>4 DEF Bounds
<1>6. HandlersOK' /\ CallsHaveNumbers'
  BY <1>1, <1>2, RemoveOK DEF CallsHaveNumbers
<1> QED
  BY <1>3, <1>5, <1>6 DEF TypeInv

(* a command is applied to the state, may be in the snapshot then, and may be signalled *)
LEMMA handleCommandApplyDoes ==
    ASSUME TypeInv, NEW i \in Server, NEW isLeader \in BOOLEAN, NEW toSnapshot \in BOOLEAN,
           handleCommandApply(i, isLeader, toSnapshot)
    PROVE  LET index == kv[i].applied + 1
               op == log[index]
               state == applyOp(kv[i].state, op)
               key == channelOf(op)
               msg == replyMsg(kv[i].state, op, isLeader)
           IN
           /\ index \in 1 .. Len(log) /\ op \in OpType /\ sending[i] = Nil
           /\ kv' \in [Server -> KVT]
           /\ kv'[i].state = state /\ kv'[i].applied = index
           /\ kv'[i].startChannels = kv[i].startChannels
           /\ \A j \in Server : j # i => kv'[j] = kv[j]
           /\ snap' \in [Server -> SnapT]
           /\ snap'[i] = snap[i] \/ (snap'[i].index = index /\ snap'[i].data = state)
           /\ \A j \in Server : j # i => snap'[j] = snap[j]
           /\ sending' \in [Server -> SendT \cup {Nil}]
           /\ \A j \in Server : j # i => sending'[j] = sending[j]
           /\ \/ sending'[i] = Nil
              \/ /\ key \in DOMAIN kv[i].startChannels
                 /\ sending'[i] = [channel |-> kv[i].startChannels[key],
                                   op |-> op, msg |-> msg]
                 /\ sending'[i].channel = kv[i].startChannels[key]
                 /\ sending'[i].op = op /\ sending'[i].msg = msg
<1> DEFINE index == kv[i].applied + 1
           op == log[index]
           state == applyOp(kv[i].state, op)
           key == channelOf(op)
           msg == replyMsg(kv[i].state, op, isLeader)
           send == [channel |-> kv[i].startChannels[key], op |-> op, msg |-> msg]
           x == [kv[i] EXCEPT !.state = state, !.applied = index]
           y == [index |-> index, data |-> state]
<1>1. /\ kv \in [Server -> KVT] /\ snap \in [Server -> SnapT]
      /\ sending \in [Server -> SendT \cup {Nil}]
  BY DEF TypeInv, Types
<1>2. index \in 1 .. Len(log) /\ op \in OpType
  BY ServerFacts DEF handleCommandApply
<1>3. state \in StateT
  BY <1>2, applyOpCases, ServerFacts
<1>4. msg \in ResponseT
  BY <1>2, replyMsgCases, ServerFacts
<1>5. kv' = [kv EXCEPT ![i] = x] /\ kv[i] \in KVT
  BY <1>1 DEF handleCommandApply
<1>6. sending[i] = Nil /\ (sending' = [sending EXCEPT ![i] = send] \/ sending' = [sending EXCEPT ![i] = Nil])
      /\ (sending' = [sending EXCEPT ![i] = Nil] \/ key \in DOMAIN kv[i].startChannels)
  BY DEF handleCommandApply, muFree, opChannelMatch
<1>7. snap' = snap \/ snap' = [snap EXCEPT ![i] = y]
  BY DEF handleCommandApply, makeSnapshot
<1> HIDE DEF state, index, op, msg
<1>8. /\ x \in KVT /\ x.state = state /\ x.applied = index
      /\ x.startChannels = kv[i].startChannels
  <2>1. index \in Nat
    BY <1>2
  <2> QED
    BY <1>3, <1>5, <2>1 DEF KVT
<1>9. y \in SnapT /\ y.index = index /\ y.data = state
  BY <1>2, <1>3 DEF SnapT
<1>10. key \in DOMAIN kv[i].startChannels => send \in SendT
  <2>1. key \in DOMAIN kv[i].startChannels => kv[i].startChannels[key] \in Slot
    BY ServerFacts, ChannelFacts
  <2> QED
    BY <1>2, <1>4, <2>1 DEF SendT
<1>11. /\ send.channel = kv[i].startChannels[key] /\ send.op = op /\ send.msg = msg
  OBVIOUS
<1> HIDE DEF x, y, key
<1>12. /\ kv' \in [Server -> KVT] /\ kv'[i] = x
       /\ \A j \in Server : j # i => kv'[j] = kv[j]
  BY <1>1, <1>5, <1>8
<1>13. /\ snap' \in [Server -> SnapT] /\ (snap'[i] = snap[i] \/ snap'[i] = y)
       /\ \A j \in Server : j # i => snap'[j] = snap[j]
  BY <1>1, <1>7, <1>9
<1>14. /\ sending' \in [Server -> SendT \cup {Nil}]
       /\ \A j \in Server : j # i => sending'[j] = sending[j]
       /\ sending'[i] = Nil \/ (key \in DOMAIN kv[i].startChannels /\ sending'[i] = send)
  <2> HIDE DEF send
  <2> QED
    BY <1>1, <1>6, <1>10
<1>15. snap'[i] = snap[i] \/ (snap'[i].index = index /\ snap'[i].data = state)
  BY <1>9, <1>13
<1>16. \/ sending'[i] = Nil
       \/ /\ key \in DOMAIN kv[i].startChannels
          /\ sending'[i] = send
          /\ sending'[i].channel = kv[i].startChannels[key]
          /\ sending'[i].op = op /\ sending'[i].msg = msg
  BY <1>11, <1>14
<1> QED
  BY <1>2, <1>6, <1>8, <1>12, <1>13, <1>14, <1>15, <1>16 DEF state, index, op, msg, key

LEMMA handleCommandApplyTypes ==
    ASSUME TypeInv, NEW i \in Server, NEW isLeader \in BOOLEAN, NEW toSnapshot \in BOOLEAN,
           handleCommandApply(i, isLeader, toSnapshot)
    PROVE  TypeInv'
<1> DEFINE index == kv[i].applied + 1
           op == log[index]
           state == applyOp(kv[i].state, op)
           msg == replyMsg(kv[i].state, op, isLeader)
<1>1. Types /\ Bounds /\ HandlersOK /\ CallsHaveNumbers
  BY DEF TypeInv
<1>2. UNCHANGED <<clerk, handlers, started, log, crashes>>
  BY DEF handleCommandApply
<1>3. /\ index \in 1 .. Len(log) /\ op \in OpType
      /\ kv' \in [Server -> KVT] /\ snap' \in [Server -> SnapT]
      /\ sending' \in [Server -> SendT \cup {Nil}]
      /\ kv'[i].state = state /\ kv'[i].applied = index
      /\ snap'[i] = snap[i] \/ (snap'[i].index = index /\ snap'[i].data = state)
      /\ sending'[i] = Nil \/ sending'[i].msg = msg
      /\ \A j \in Server : j # i =>
            kv'[j] = kv[j] /\ snap'[j] = snap[j] /\ sending'[j] = sending[j]
  BY handleCommandApplyDoes
<1>4. Types'
  BY <1>1, <1>2, <1>3 DEF Types
<1>5. Len(state.KeyValueStore) <= index /\ Len(state.KeyValueStore) \in Nat
  <2>1. Len(state.KeyValueStore) <= Len(kv[i].state.KeyValueStore) + 1 /\ state \in StateT
    BY <1>3, applyOpCases, ServerFacts
  <2>2. Len(state.KeyValueStore) \in Nat
    BY <2>1 DEF StateT
  <2> HIDE DEF state
  <2> QED
    BY <2>1, <2>2, ServerFacts
<1>6. Len(msg.Value) <= MaxLog
  <2>1. msg.Value = state.KeyValueStore \/ msg.Value = <<>>
    BY <1>3, replyMsgCases, ServerFacts
  <2>2. Len(<<>>) = 0
    OBVIOUS
  <2> HIDE DEF state, msg
  <2>3. CASE msg.Value = state.KeyValueStore
    BY <1>3, <1>5, <2>3, ServerFacts, KVBounds
  <2>4. CASE msg.Value = <<>>
    BY <2>2, <2>4, KVBounds
  <2> QED
    BY <2>1, <2>3, <2>4
<1> HIDE DEF index, op, state, msg
<1>7. ASSUME NEW j \in Server
      PROVE  /\ kv'[j].applied <= Len(log)
             /\ Len(kv'[j].state.KeyValueStore) <= kv'[j].applied
             /\ snap'[j].index <= Len(log)
             /\ Len(snap'[j].data.KeyValueStore) <= snap'[j].index
             /\ sending'[j] # Nil => Len(sending'[j].msg.Value) <= MaxLog
  BY <1>1, <1>3, <1>5, <1>6 DEF Bounds
<1>8. Bounds'
  BY <1>1, <1>2, <1>7 DEF Bounds
<1>9. HandlersOK' /\ CallsHaveNumbers'
  BY <1>1, <1>2, RemoveOK DEF CallsHaveNumbers
<1> QED
  BY <1>4, <1>8, <1>9 DEF TypeInv

(* the snapshot replaces the state *)
LEMMA installSnapshotDoes ==
    ASSUME TypeInv, NEW i \in Server, installSnapshot(i)
    PROVE  /\ kv' \in [Server -> KVT]
           /\ kv'[i].state = snap[i].data /\ kv'[i].applied = snap[i].index
           /\ kv'[i].startChannels = kv[i].startChannels
           /\ \A j \in Server : j # i => kv'[j] = kv[j]
           /\ UNCHANGED <<clerk, handlers, started, log, sending, snap, crashes>>
<1> DEFINE x == [kv[i] EXCEPT !.state = snap[i].data, !.applied = snap[i].index]
<1>1. kv \in [Server -> KVT] /\ kv[i] \in KVT
  BY DEF TypeInv, Types
<1>2. snap[i].data \in StateT /\ snap[i].index \in Nat
  BY ServerFacts
<1>3. /\ x \in KVT /\ x.state = snap[i].data /\ x.applied = snap[i].index
      /\ x.startChannels = kv[i].startChannels
  BY <1>1, <1>2 DEF KVT
<1>4. kv' = [kv EXCEPT ![i] = x]
  BY DEF installSnapshot
<1> HIDE DEF x
<1> QED
  BY <1>1, <1>3, <1>4 DEF installSnapshot

LEMMA installSnapshotTypes ==
    ASSUME TypeInv, NEW i \in Server, installSnapshot(i)
    PROVE  TypeInv'
<1>1. Types /\ Bounds /\ HandlersOK /\ CallsHaveNumbers
  BY DEF TypeInv
<1>2. Types'
  BY <1>1, installSnapshotDoes DEF Types
<1>3. ASSUME NEW j \in Server
      PROVE  /\ kv'[j].applied <= Len(log)
             /\ Len(kv'[j].state.KeyValueStore) <= kv'[j].applied
  BY <1>1, installSnapshotDoes DEF Bounds
<1>4. Bounds'
  BY <1>1, <1>3, installSnapshotDoes DEF Bounds
<1>5. HandlersOK' /\ CallsHaveNumbers'
  BY <1>1, installSnapshotDoes, RemoveOK DEF CallsHaveNumbers
<1> QED
  BY <1>2, <1>4, <1>5 DEF TypeInv

(* the state is the one of the snapshot, or the first *)
LEMMA StartKVServerDoes ==
    ASSUME TypeInv, NEW i \in Server, StartKVServer(i)
    PROVE  /\ kv' \in [Server -> KVT]
           /\ kv'[i].state = IF snap[i].index = 0 THEN makeState ELSE snap[i].data
           /\ kv'[i].applied = snap[i].index
           /\ DOMAIN kv'[i].startChannels = {}
           /\ sending' \in [Server -> SendT \cup {Nil}] /\ sending'[i] = Nil
           /\ \A j \in Server : j # i => kv'[j] = kv[j] /\ sending'[j] = sending[j]
           /\ UNCHANGED <<clerk, started, log, snap>> /\ crashes' \in 0 .. MaxCrashes
           /\ handlers' \subseteq handlers
           /\ \A h \in handlers : h.op.ServerId # i => h \in handlers'
<1> DEFINE state == IF snap[i].index = 0 THEN makeState ELSE snap[i].data
           x == [state |-> state, applied |-> snap[i].index, startChannels |-> <<>>]
<1>1. kv \in [Server -> KVT] /\ sending \in [Server -> SendT \cup {Nil}]
      /\ crashes \in 0 .. MaxCrashes
  BY DEF TypeInv, Types
<1>2. state \in StateT /\ snap[i].index \in Nat
  BY ServerFacts, makeStateOK
<1>3. <<>> \in Channels /\ DOMAIN <<>> = {}
  <2>1. <<>> \in [{} -> Slot]
    OBVIOUS
  <2> QED
    BY <2>1, ChannelsIntro
<1>4. kv' = [kv EXCEPT ![i] = x] /\ sending' = [sending EXCEPT ![i] = Nil]
  BY DEF StartKVServer
<1>5. crashes' \in 0 .. MaxCrashes
  BY <1>1, KVBounds DEF StartKVServer
<1> HIDE DEF state
<1>6. x \in KVT /\ x.state = state /\ x.applied = snap[i].index /\ x.startChannels = <<>>
  BY <1>2, <1>3 DEF KVT
<1> HIDE DEF x
<1>7. /\ kv' \in [Server -> KVT] /\ kv'[i] = x
      /\ sending' \in [Server -> SendT \cup {Nil}] /\ sending'[i] = Nil
      /\ \A j \in Server : j # i => kv'[j] = kv[j] /\ sending'[j] = sending[j]
  BY <1>1, <1>4, <1>6
<1>8. /\ handlers' \subseteq handlers
      /\ \A h \in handlers : h.op.ServerId # i => h \in handlers'
  BY DEF StartKVServer, ShutdownServer
<1>9. DOMAIN kv'[i].startChannels = {}
  BY <1>3, <1>6, <1>7
<1>10. UNCHANGED <<clerk, started, log, snap>>
  BY DEF StartKVServer
<1> QED
  BY <1>5, <1>6, <1>7, <1>8, <1>9, <1>10 DEF state

LEMMA StartKVServerTypes ==
    ASSUME TypeInv, NEW i \in Server, StartKVServer(i)
    PROVE  TypeInv'
<1>1. Types /\ Bounds /\ HandlersOK /\ CallsHaveNumbers
  BY DEF TypeInv
<1>2. Types'
  BY <1>1, StartKVServerDoes DEF Types
<1>3. Len(makeState.KeyValueStore) = 0
  BY DEF makeState
<1>4. ASSUME NEW j \in Server
      PROVE  /\ kv'[j].applied <= Len(log)
             /\ Len(kv'[j].state.KeyValueStore) <= kv'[j].applied
             /\ sending'[j] # Nil => Len(sending'[j].msg.Value) <= MaxLog
  <2>1. CASE j = i
    BY <1>1, <1>3, <2>1, StartKVServerDoes, ServerFacts DEF Bounds
  <2>2. CASE j # i
    BY <1>1, <2>2, StartKVServerDoes DEF Bounds
  <2> QED
    BY <2>1, <2>2
<1>5. Bounds'
  BY <1>1, <1>4, StartKVServerDoes DEF Bounds
<1>6. HandlersOK' /\ CallsHaveNumbers'
  BY <1>1, StartKVServerDoes, RemoveOK DEF CallsHaveNumbers
<1> QED
  BY <1>2, <1>5, <1>6 DEF TypeInv

LEMMA TypesNext == TypeInv /\ [Next]_vars => TypeInv'
<1> SUFFICES ASSUME TypeInv, [Next]_vars PROVE TypeInv'
  OBVIOUS
<1>1. CASE UNCHANGED vars
  <2>1. Types' /\ Bounds' /\ CallsHaveNumbers'
    BY <1>1 DEF vars, TypeInv, Types, Bounds, CallsHaveNumbers
  <2>2. HandlersOK'
    BY <1>1, RemoveOK DEF vars, TypeInv
  <2> QED
    BY <2>1, <2>2 DEF TypeInv
<1>2. CASE Next
  BY <1>2, beginTypes, sendCallTypes, callFailsTypes, receiveReplyTypes, handlerStepsTypes,
     commitTypes, raftInstallSnapshotTypes, handleCommandApplyTypes, installSnapshotTypes,
     StartKVServerTypes DEF Next
<1> QED
  BY <1>1, <1>2

LEMMA ValuesIntro ==
    ASSUME NEW v \in Seq(Token), Len(v) <= MaxLog
    PROVE  v \in Values
<1>1. Len(v) \in 0 .. MaxLog /\ v \in [1 .. Len(v) -> Clerk \X (1 .. MaxRequests)]
  BY KVBounds DEF Token
<1> QED
  BY <1>1 DEF Values

(* TypeOK: the fields of clerks, handlers, servers and snapshots hold what the Go types and
   their use allow, and no value is longer than the log. *)
THEOREM TypeCorrect == Spec => []TypeOK
<1>1. TypeInv => TypeOK
  <2> SUFFICES ASSUME TypeInv PROVE TypeOK
    OBVIOUS
  <2>1. Types /\ Bounds /\ HandlersOK
    BY DEF TypeInv
  <2>2. ASSUME NEW c \in Clerk
        PROVE  /\ clerk[c].requestIndex \in 0 .. MaxRequests
               /\ clerk[c].lastLeaderServer \in Server
               /\ clerk[c].op \in Type \cup {Nil}
               /\ clerk[c].calling \in BOOLEAN
               /\ clerk[c].since \in 0 .. Len(log)
               /\ clerk[c].result \in Values \cup {Nil}
    <3>1. clerk[c].since <= Len(log)
          /\ (clerk[c].result # Nil => Len(clerk[c].result) <= MaxLog)
      BY <2>1 DEF Bounds
    <3> QED
      BY <2>1, <3>1, ClerkFacts, ValuesIntro
  <2>3. \A r \in ResponseT : Len(r.Value) <= MaxLog => r \in Response
    <3> SUFFICES ASSUME NEW r \in ResponseT, Len(r.Value) <= MaxLog PROVE r \in Response
      OBVIOUS
    <3>1. r.Value \in Values
      BY ValuesIntro DEF ResponseT
    <3> QED
      BY <3>1 DEF ResponseT, Response
  <2>4. ASSUME NEW h \in handlers
        PROVE  /\ h.op \in OpType /\ h.id \in 1 .. Slots
               /\ h.stage \in {"request", "created", "select", "timeout", "result",
                               "notLeader", "reply"}
               /\ h.heard \in BOOLEAN /\ h.closed \in BOOLEAN
               /\ h.response \in Response \cup {Nil}
    <3>1. h \in HandlerT /\ suits(h.stage, h.response)
      BY <2>1 DEF HandlersOK
    <3>2. h.response \in Response \cup {Nil}
      BY <2>3, <3>1 DEF suits
    <3> QED
      BY <3>1, <3>2, HandlerFacts DEF Stage
  <2>5. \A x \in StateT : Len(x.KeyValueStore) <= MaxLog => x \in State
    <3> SUFFICES ASSUME NEW x \in StateT, Len(x.KeyValueStore) <= MaxLog PROVE x \in State
      OBVIOUS
    <3>1. x.KeyValueStore \in Values
      BY ValuesIntro DEF StateT
    <3> QED
      BY <3>1 DEF StateT, State
  <2>6. ASSUME NEW i \in Server
        PROVE  /\ kv[i].state \in State /\ kv[i].applied \in 0 .. Len(log)
               /\ \A k \in DOMAIN kv[i].startChannels :
                     /\ k \in Clerk \X (1 .. MaxRequests)
                     /\ kv[i].startChannels[k] \in Clerk \X (1 .. Slots)
               /\ sending[i] # Nil => sending[i].msg \in Response
               /\ snap[i].index \in 0 .. Len(log) /\ snap[i].data \in State
    <3>1. /\ Len(kv[i].state.KeyValueStore) <= MaxLog
          /\ Len(snap[i].data.KeyValueStore) <= MaxLog
      BY ServerFacts, KVBounds
    <3>2. kv[i].state \in State /\ snap[i].data \in State
      BY <2>5, <3>1, ServerFacts
    <3>3. \A k \in DOMAIN kv[i].startChannels :
             k \in Token /\ kv[i].startChannels[k] \in Slot
      BY ServerFacts, ChannelFacts
    <3>4. sending[i] # Nil => sending[i].msg \in ResponseT /\ Len(sending[i].msg.Value) <= MaxLog
      BY <2>1 DEF Types, Bounds, SendT
    <3> QED
      BY <2>3, <3>2, <3>3, <3>4, ServerFacts DEF Token, Slot
  <2>7. started \subseteq [op : OpType, id : 1 .. Slots] /\ log \in Seq(OpType)
        /\ crashes \in 0 .. MaxCrashes
    BY <2>1 DEF Types, StartedT
  <2> QED
    BY <2>2, <2>4, <2>6, <2>7 DEF TypeOK
<1> QED
  BY InitTypes, TypesNext, <1>1, PTL DEF Spec

-----------------------------------------------------------------------------
(* Channels *)

(* h is there after the step, and reads if it did *)
stays(h) == \E g \in handlers' : /\ g.id = h.id /\ g.op = h.op
                                 /\ g.stage \in Reading /\ ~g.closed

channelsOf(i) == kv[i].startChannels

LEMMA ReadersStay ==
    ASSUME ChannelsHaveReaders,
           \A i \in Server : \A key \in DOMAIN channelsOf(i)' :
              /\ key \in DOMAIN channelsOf(i) /\ channelsOf(i)'[key] = channelsOf(i)[key]
              /\ \A h \in handlers :
                    handlerId(h) = channelsOf(i)[key] /\ reads(h, i, key) => stays(h)
    PROVE  ChannelsHaveReaders'
<1> SUFFICES ASSUME NEW i \in Server, NEW key \in DOMAIN channelsOf(i)'
             PROVE  \E g \in handlers' : /\ handlerId(g) = channelsOf(i)'[key]
                                         /\ reads(g, i, key)
  BY DEF ChannelsHaveReaders, channelsOf, handlerId, reads, channelOf
<1>1. PICK h \in handlers : handlerId(h) = channelsOf(i)[key] /\ reads(h, i, key)
  BY DEF ChannelsHaveReaders, channelsOf
<1>2. PICK g \in handlers' : /\ g.id = h.id /\ g.op = h.op
                             /\ g.stage \in Reading /\ ~g.closed
  BY <1>1 DEF stays
<1>3. handlerId(g) = handlerId(h) /\ reads(g, i, key)
  BY <1>1, <1>2 DEF handlerId, reads
<1> QED
  BY <1>1, <1>2, <1>3

(* a handler that advances from one stage with a channel to the next stays *)
LEMMA AdvancesStay ==
    ASSUME NEW h \in handlers, NEW stage, NEW response, advances(h, stage, response),
           NEW x \in handlers, x.stage \in Reading, ~x.closed, x = h => stage \in Reading
    PROVE  stays(x)
<1>1. PICK g : /\ advanced(g, h, stage, response) /\ (g.closed => h.closed)
               /\ handlers' = (handlers \ {h}) \cup {g}
  BY DEF advances
<1>2. CASE x = h
  BY <1>1, <1>2 DEF advanced, stays
<1>3. CASE x # h
  BY <1>1, <1>3 DEF stays
<1> QED
  BY <1>2, <1>3

LEMMA AdvancesOpen ==
    ASSUME RequestsAreOpen, NEW h \in handlers, NEW stage, NEW response,
           advances(h, stage, response), stage # "request"
    PROVE  RequestsAreOpen'
  BY DEF RequestsAreOpen, advances, advanced

(* the reader of a channel is the one the channel belongs to *)
LEMMA TheReader ==
    ASSUME HandlersOK, ChannelsHaveReaders, NEW i \in Server, NEW key, NEW x \in handlers,
           isReader(x, i, key)
    PROVE  reads(x, i, key)
<1>1. PICK h \in handlers : handlerId(h) = kv[i].startChannels[key] /\ reads(h, i, key)
  BY DEF ChannelsHaveReaders, isReader
<1>2. x = h
  BY <1>1 DEF HandlersOK, UniqueSlots, isReader
<1> QED
  BY <1>1, <1>2

LEMMA InitChannels == Init => ChannelInv
<1> SUFFICES ASSUME Init PROVE ChannelInv
  OBVIOUS
<1>1. handlers = {} /\ \A i \in Server : sending[i] = Nil /\ kv[i].startChannels = <<>>
  BY DEF Init
<1>2. DOMAIN <<>> = {}
  OBVIOUS
<1> QED
  BY <1>1, <1>2 DEF ChannelInv, RequestsAreOpen, ChannelsHaveReaders, SendsAreMapped

(* steps that leave the channels alone *)
LEMMA ChannelsSame ==
    ASSUME TypeInv, ChannelInv, RequestsAreOpen',
           \A i \in Server : kv'[i].startChannels = kv[i].startChannels,
           sending' = sending,
           \A h \in handlers : h.stage \in Reading /\ ~h.closed => stays(h)
    PROVE  ChannelInv'
<1>1. ChannelsHaveReaders'
  BY ReadersStay DEF ChannelInv, channelsOf, reads
<1>2. SendsAreMapped'
  BY DEF ChannelInv, SendsAreMapped, channelOf
<1> QED
  BY <1>1, <1>2 DEF ChannelInv

LEMMA handlerStepsChannels ==
    ASSUME TypeInv, ChannelInv, NEW h \in handlers, handlerSteps(h)
    PROVE  ChannelInv'
<1>1. HandlersOK /\ Types /\ RequestsAreOpen /\ ChannelsHaveReaders /\ SendsAreMapped
  BY DEF TypeInv, ChannelInv
<1>2. /\ kv \in [Server -> KVT] /\ sending \in [Server -> SendT \cup {Nil}]
      /\ h \in HandlerT /\ h.op.ServerId \in Server
      /\ suits(h.stage, h.response)
  BY <1>1, HandlerFacts DEF Types, HandlersOK
<1>4. CASE wrongLeader(h)
  <2>1. UNCHANGED <<kv, sending>> /\ h.stage = "request"
    BY <1>4 DEF wrongLeader
  <2>2. CASE handlers' = handlers \ {h}
    <3>1. \A x \in handlers : x.stage \in Reading /\ ~x.closed => stays(x)
      BY <2>1, <2>2 DEF stays, Reading
    <3>2. RequestsAreOpen'
      BY <1>1, <2>2 DEF RequestsAreOpen
    <3> QED
      BY <2>1, <3>1, <3>2, ChannelsSame
  <2>3. CASE advances(h, "reply", error("ErrWrongLeader"))
    <3>1. \A x \in handlers : x.stage \in Reading /\ ~x.closed => stays(x)
      BY <2>1, <2>3, AdvancesStay DEF Reading
    <3>2. RequestsAreOpen'
      BY <1>1, <2>3, AdvancesOpen
    <3> QED
      BY <2>1, <3>1, <3>2, ChannelsSame
  <2> QED
    BY <1>1, <1>4, <2>2, <2>3, wrongLeaderDoes
<1>5. CASE preStart(h)
  <2> DEFINE i == h.op.ServerId
             key == channelOf(h.op)
  <2>1. sending' = sending /\ h.stage = "request" /\ sending[i] = Nil
        /\ kv' = createStartCh(i, h)
    BY <1>5 DEF preStart, muFree
  <2>2. advances(h, "created", Nil)
    BY <1>1, <1>5, becomesAdvances DEF preStart, Stage
  <2>3. RequestsAreOpen'
    BY <1>1, <2>2, AdvancesOpen
  <2>4. /\ \A j \in Server : j # i => kv'[j].startChannels = kv[j].startChannels
        /\ DOMAIN kv'[i].startChannels = DOMAIN kv[i].startChannels \cup {key}
        /\ kv'[i].startChannels[key] = handlerId(h)
        /\ \A k \in DOMAIN kv[i].startChannels :
              k # key => kv'[i].startChannels[k] = kv[i].startChannels[k]
    BY <1>2, <2>1, createStartChOK
  <2>5. \A x \in handlers : x.stage \in Reading /\ ~x.closed => stays(x)
    BY <2>2, AdvancesStay DEF Reading
  <2>6. ASSUME NEW j \in Server, NEW k \in DOMAIN kv'[j].startChannels
        PROVE  \E g \in handlers' : /\ handlerId(g) = kv'[j].startChannels[k]
                                    /\ reads(g, j, k)
    <3>1. CASE j = i /\ k = key
      <4>1. PICK g : /\ advanced(g, h, "created", Nil) /\ (g.closed => h.closed)
                     /\ handlers' = (handlers \ {h}) \cup {g}
        BY <2>2 DEF advances
      <4>2. handlerId(g) = handlerId(h) /\ reads(g, j, k) /\ g \in handlers'
        BY <1>1, <2>1, <3>1, <4>1 DEF advanced, handlerId, reads, Reading, RequestsAreOpen
      <4> QED
        BY <2>4, <3>1, <4>2
    <3>2. CASE ~(j = i /\ k = key)
      <4>1. k \in DOMAIN kv[j].startChannels
            /\ kv'[j].startChannels[k] = kv[j].startChannels[k]
        BY <2>4, <3>2
      <4>2. PICK x \in handlers : handlerId(x) = kv[j].startChannels[k] /\ reads(x, j, k)
        BY <1>1, <4>1 DEF ChannelsHaveReaders
      <4>3. PICK g \in handlers' : /\ g.id = x.id /\ g.op = x.op
                                   /\ g.stage \in Reading /\ ~g.closed
        BY <2>5, <4>2 DEF stays, reads
      <4>4. handlerId(g) = handlerId(x) /\ reads(g, j, k)
        BY <4>2, <4>3 DEF handlerId, reads
      <4> QED
        BY <4>1, <4>2, <4>3, <4>4
    <3> QED
      BY <3>1, <3>2
  <2>7. ChannelsHaveReaders'
    BY <2>6 DEF ChannelsHaveReaders, handlerId, reads, channelOf
  <2>8. SendsAreMapped'
    <3> SUFFICES ASSUME NEW j \in Server, sending[j] # Nil
                 PROVE  /\ channelOf(sending[j].op) \in DOMAIN kv'[j].startChannels
                        /\ kv'[j].startChannels[channelOf(sending[j].op)] = sending[j].channel
      BY <2>1 DEF SendsAreMapped, channelOf
    <3> QED
      BY <1>1, <2>1, <2>4 DEF SendsAreMapped
  <2> QED
    BY <2>3, <2>7, <2>8 DEF ChannelInv
<1>6. CASE start(h)
  <2>1. UNCHANGED <<kv, sending>>
    BY <1>6 DEF start
  <2>2. PICK stage \in {"select", "notLeader"} : advances(h, stage, Nil)
    BY <1>1, <1>6, becomesAdvances DEF start, Stage
  <2>3. \A x \in handlers : x.stage \in Reading /\ ~x.closed => stays(x)
    BY <2>2, AdvancesStay DEF Reading
  <2>4. RequestsAreOpen'
    BY <1>1, <2>2, AdvancesOpen
  <2> QED
    BY <2>1, <2>3, <2>4, ChannelsSame
<1>7. CASE timeout(h)
  <2>1. UNCHANGED <<kv, sending>>
    BY <1>7 DEF timeout
  <2>2. advances(h, "timeout", Nil)
    BY <1>1, <1>7, becomesAdvances DEF timeout, Stage
  <2>3. \A x \in handlers : x.stage \in Reading /\ ~x.closed => stays(x)
    BY <2>2, AdvancesStay DEF Reading
  <2>4. RequestsAreOpen'
    BY <1>1, <2>2, AdvancesOpen
  <2> QED
    BY <2>1, <2>3, <2>4, ChannelsSame
<1>8. CASE receiveClosed(h)
  <2>1. UNCHANGED <<kv, sending>> /\ h.closed
    BY <1>8 DEF receiveClosed
  <2>2. error("") \in ResponseT
    BY errorOK
  <2>3. advances(h, "result", error(""))
    BY <1>1, <1>8, <2>2, becomesAdvances DEF receiveClosed, Stage
  <2>4. \A x \in handlers : x.stage \in Reading /\ ~x.closed => stays(x)
    BY <2>1, <2>3, AdvancesStay
  <2>5. RequestsAreOpen'
    BY <1>1, <2>3, AdvancesOpen
  <2> QED
    BY <2>1, <2>4, <2>5, ChannelsSame
<1>9. CASE endHandler(h)
  <2> DEFINE i == h.op.ServerId
             key == channelOf(h.op)
  <2>1. sending' = sending /\ sending[i] = Nil /\ kv' = deleteStartCh(i, key)
    BY <1>9 DEF endHandler, muFree
  <2>2. /\ \A j \in Server : j # i => kv'[j].startChannels = kv[j].startChannels
        /\ DOMAIN kv'[i].startChannels = DOMAIN kv[i].startChannels \ {key}
        /\ \A k \in DOMAIN kv'[i].startChannels :
              kv'[i].startChannels[k] = kv[i].startChannels[k]
    BY <1>2, <2>1, deleteStartChOK
  <2>3. ASSUME NEW j \in Server, NEW k \in DOMAIN kv'[j].startChannels, NEW x \in handlers,
               reads(x, j, k)
        PROVE  stays(x)
    <3>1. ~(j = i /\ k = key)
      BY <2>2, <2>3
    <3>2. x # h
      BY <2>3, <3>1 DEF reads
    <3>3. ~isClosed(x, h)
      BY <1>1, <1>2, <2>3, <3>1, TheReader DEF isClosed, reads
    <3>4. x \in handlers'
      BY <1>1, <1>9, <3>2, <3>3, endHandlerDoes
    <3> QED
      BY <2>3, <3>4 DEF stays, reads
  <2>4. ChannelsHaveReaders'
    BY <1>1, <2>2, <2>3, ReadersStay DEF channelsOf
  <2>5. SendsAreMapped'
    <3> SUFFICES ASSUME NEW j \in Server, sending[j] # Nil
                 PROVE  /\ channelOf(sending[j].op) \in DOMAIN kv'[j].startChannels
                        /\ kv'[j].startChannels[channelOf(sending[j].op)] = sending[j].channel
      BY <2>1 DEF SendsAreMapped, channelOf
    <3> QED
      BY <1>1, <2>1, <2>2 DEF SendsAreMapped
  <2>6. RequestsAreOpen'
    <3> SUFFICES ASSUME NEW g \in handlers', g.stage = "request" PROVE ~g.closed
      BY DEF RequestsAreOpen
    <3>1. PICK x \in handlers \ {h} :
             /\ advanced(g, x, x.stage, x.response)
             /\ ~isClosed(x, h) => g = x
      BY <1>1, <1>9, endHandlerDoes DEF advanced
    <3>2. x.stage = "request"
      BY <3>1 DEF advanced
    <3>3. ~isClosed(x, h)
      BY <1>1, <1>2, <3>2, TheReader DEF isClosed, reads, Reading
    <3> QED
      BY <1>1, <3>1, <3>2, <3>3 DEF RequestsAreOpen
  <2> QED
    BY <2>4, <2>5, <2>6 DEF ChannelInv
<1>10. CASE signalStartCh(h)
  <2> DEFINE i == h.op.ServerId
             key == channelOf(h.op)
  <2>1. /\ sending' = [sending EXCEPT ![i] = Nil] /\ kv' = deleteStartCh(i, key)
        /\ sending[i] # Nil
    BY <1>10 DEF signalStartCh
  <2>2. sending[i].msg \in ResponseT
    BY <1>2, <2>1 DEF SendT
  <2>3. advances(h, "result", sending[i].msg)
    BY <1>1, <1>10, <2>2, becomesAdvances DEF signalStartCh, Stage
  <2>4. RequestsAreOpen'
    BY <1>1, <2>3, AdvancesOpen
  <2>5. /\ \A j \in Server : j # i => kv'[j].startChannels = kv[j].startChannels
        /\ DOMAIN kv'[i].startChannels = DOMAIN kv[i].startChannels \ {key}
        /\ \A k \in DOMAIN kv'[i].startChannels :
              kv'[i].startChannels[k] = kv[i].startChannels[k]
    BY <1>2, <2>1, deleteStartChOK
  <2>6. ASSUME NEW j \in Server, NEW k \in DOMAIN kv'[j].startChannels, NEW x \in handlers,
               reads(x, j, k)
        PROVE  stays(x)
    <3>1. x # h
      BY <2>5, <2>6 DEF reads
    <3> QED
      BY <2>3, <2>6, <3>1, AdvancesStay DEF reads
  <2>7. ChannelsHaveReaders'
    BY <1>1, <2>5, <2>6, ReadersStay DEF channelsOf
  <2>8. SendsAreMapped'
    <3>1. \A j \in Server : sending'[j] = IF j = i THEN Nil ELSE sending[j]
      BY <1>2, <2>1
    <3> SUFFICES ASSUME NEW j \in Server, j # i, sending[j] # Nil
                 PROVE  /\ channelOf(sending[j].op) \in DOMAIN kv'[j].startChannels
                        /\ kv'[j].startChannels[channelOf(sending[j].op)] = sending[j].channel
      BY <3>1 DEF SendsAreMapped, channelOf
    <3> QED
      BY <1>1, <2>5 DEF SendsAreMapped
  <2> QED
    BY <2>4, <2>7, <2>8 DEF ChannelInv
<1> QED
  BY <1>4, <1>5, <1>6, <1>7, <1>8, <1>9, <1>10 DEF handlerSteps

(* a clerk's steps *)
LEMMA clerkStepsChannels ==
    ASSUME TypeInv, ChannelInv, NEW c \in Clerk,
           \/ \E type \in Calls[c] : begin(c, type)
           \/ \E id \in 1 .. Slots : sendCall(c, id)
           \/ callFails(c)
           \/ \E h \in handlers : receiveReply(h)
    PROVE  ChannelInv'
<1>1. HandlersOK /\ RequestsAreOpen
  BY DEF TypeInv, ChannelInv
<1>2. CASE \E type \in Calls[c] : begin(c, type)
  <2>1. PICK type \in Calls[c] : begin(c, type)
    BY <1>2
  <2>2. handlers' = handlers /\ kv' = kv /\ sending' = sending
    BY <2>1 DEF begin
  <2> QED
    BY <1>1, <2>2, ChannelsSame DEF RequestsAreOpen, stays
<1>3. CASE \E id \in 1 .. Slots : sendCall(c, id)
  <2>1. PICK id \in 1 .. Slots : sendCall(c, id)
    BY <1>3
  <2>2. handlers' = handlers \cup {newHandler(c, id)}
    BY <2>1, sendCallDoes
  <2>3. ~newHandler(c, id).closed
    BY DEF newHandler
  <2>4. kv' = kv /\ sending' = sending
    BY <2>1 DEF sendCall
  <2> QED
    BY <1>1, <2>2, <2>3, <2>4, ChannelsSame DEF RequestsAreOpen, stays
<1>4. CASE callFails(c)
  <2>1. UNCHANGED <<kv, sending>>
    BY <1>4 DEF callFails
  <2>2. RequestsAreOpen'
    BY <1>1, <1>4, callFailsDoes DEF RequestsAreOpen
  <2>3. \A h \in handlers : h.stage \in Reading /\ ~h.closed => stays(h)
    BY <1>1, <1>4, callFailsDoes DEF stays, Reading
  <2> QED
    BY <2>1, <2>2, <2>3, ChannelsSame
<1>5. CASE \E h \in handlers : receiveReply(h)
  <2>1. PICK h \in handlers : receiveReply(h)
    BY <1>5
  <2>2. kv' = kv /\ sending' = sending /\ handlers' = handlers \ {h} /\ h.stage = "reply"
    BY <2>1 DEF receiveReply
  <2>3. \A x \in handlers : x.stage \in Reading /\ ~x.closed => stays(x)
    BY <2>2 DEF stays, Reading
  <2> QED
    BY <1>1, <2>2, <2>3, ChannelsSame DEF RequestsAreOpen
<1> QED
  BY <1>2, <1>3, <1>4, <1>5

(* a server's steps, and Raft's *)
LEMMA serverStepsChannels ==
    ASSUME TypeInv, ChannelInv,
           \/ \E s \in started : commit(s) \/ overwritten(s)
           \/ \E i, j \in Server : raftInstallSnapshot(i, j)
           \/ \E i \in Server, isLeader, toSnapshot \in BOOLEAN :
                 handleCommandApply(i, isLeader, toSnapshot)
           \/ \E i \in Server : installSnapshot(i) \/ StartKVServer(i)
    PROVE  ChannelInv'
<1>1. RequestsAreOpen /\ ChannelsHaveReaders /\ SendsAreMapped
  BY DEF ChannelInv
<1>2. CASE \/ \E s \in started : commit(s) \/ overwritten(s)
           \/ \E i, j \in Server : raftInstallSnapshot(i, j)
  <2>1. UNCHANGED <<handlers, kv, sending>>
    BY <1>2 DEF commit, overwritten, raftInstallSnapshot
  <2> QED
    BY <1>1, <2>1, ChannelsSame DEF RequestsAreOpen, stays
<1>3. CASE \E i \in Server, isLeader, toSnapshot \in BOOLEAN :
              handleCommandApply(i, isLeader, toSnapshot)
  <2>1. PICK i \in Server, isLeader \in BOOLEAN, toSnapshot \in BOOLEAN :
           handleCommandApply(i, isLeader, toSnapshot)
    BY <1>3
  <2>2. handlers' = handlers
    BY <2>1 DEF handleCommandApply
  <2> DEFINE op == log[kv[i].applied + 1]
  <2>6. /\ \A j \in Server : j # i => sending'[j] = sending[j] /\ kv'[j] = kv[j]
        /\ kv'[i].startChannels = kv[i].startChannels
        /\ \/ sending'[i] = Nil
           \/ /\ channelOf(op) \in DOMAIN kv[i].startChannels
              /\ sending'[i].channel = kv[i].startChannels[channelOf(op)]
              /\ sending'[i].op = op
    BY <2>1, handleCommandApplyDoes, ZenonT(30)
  <2> HIDE DEF op
  <2>3. \A j \in Server : channelsOf(j)' = channelsOf(j)
    BY <2>6 DEF channelsOf
  <2>4. ChannelsHaveReaders'
    BY <1>1, <2>2, <2>3, ReadersStay DEF stays, reads
  <2>5. SendsAreMapped'
    <3> SUFFICES ASSUME NEW j \in Server, sending'[j] # Nil
                 PROVE  /\ channelOf(sending'[j].op) \in DOMAIN channelsOf(j)
                        /\ channelsOf(j)[channelOf(sending'[j].op)] = sending'[j].channel
      BY <2>3 DEF SendsAreMapped, channelOf, channelsOf
    <3>1. CASE j = i
      BY <2>6, <3>1 DEF channelsOf
    <3>2. CASE j # i
      BY <1>1, <2>6, <3>2 DEF SendsAreMapped, channelsOf
    <3> QED
      BY <3>1, <3>2
  <2> QED
    BY <1>1, <2>2, <2>4, <2>5 DEF ChannelInv, RequestsAreOpen
<1>4. CASE \E i \in Server : installSnapshot(i)
  <2>1. PICK i \in Server : installSnapshot(i)
    BY <1>4
  <2>2. /\ handlers' = handlers /\ sending' = sending
        /\ \A j \in Server : kv'[j].startChannels = kv[j].startChannels
    BY <2>1, installSnapshotDoes
  <2> QED
    BY <1>1, <2>2, ChannelsSame DEF RequestsAreOpen, stays
<1>5. CASE \E i \in Server : StartKVServer(i)
  <2>1. PICK i \in Server : StartKVServer(i)
    BY <1>5
  <2>2. /\ handlers' \subseteq handlers
        /\ \A h \in handlers : h.op.ServerId # i => h \in handlers'
        /\ DOMAIN channelsOf(i)' = {} /\ sending'[i] = Nil
        /\ \A j \in Server : j # i => channelsOf(j)' = channelsOf(j) /\ sending'[j] = sending[j]
    BY <2>1, StartKVServerDoes DEF channelsOf
  <2>3. ChannelsHaveReaders'
    BY <1>1, <2>2, ReadersStay DEF stays, reads
  <2>4. SendsAreMapped'
    <3> SUFFICES ASSUME NEW j \in Server, j # i, sending[j] # Nil
                 PROVE  /\ channelOf(sending[j].op) \in DOMAIN channelsOf(j)
                        /\ channelsOf(j)[channelOf(sending[j].op)] = sending[j].channel
      BY <2>2 DEF SendsAreMapped, channelOf, channelsOf
    <3> QED
      BY <1>1 DEF SendsAreMapped, channelsOf
  <2> QED
    BY <1>1, <2>2, <2>3, <2>4 DEF ChannelInv, RequestsAreOpen
<1> QED
  BY <1>2, <1>3, <1>4, <1>5

LEMMA ChannelsNext == TypeInv /\ ChannelInv /\ [Next]_vars => ChannelInv'
<1> SUFFICES ASSUME TypeInv, ChannelInv, [Next]_vars PROVE ChannelInv'
  OBVIOUS
<1>1. CASE UNCHANGED vars
  <2>1. UNCHANGED <<handlers, kv, sending>>
    BY <1>1 DEF vars
  <2> QED
    BY <2>1, ChannelsSame DEF ChannelInv, RequestsAreOpen, stays
<1>2. CASE Next
  <2>1. CASE \E h \in handlers : receiveReply(h)
    BY <2>1, receiveReplyDoes, clerkStepsChannels
  <2>2. CASE \E h \in handlers : handlerSteps(h)
    BY <2>2, handlerStepsChannels
  <2>3. CASE \E c \in Clerk : \E type \in Calls[c] : begin(c, type)
    BY <2>3, clerkStepsChannels
  <2>8. CASE \E c \in Clerk, id \in 1 .. Slots : sendCall(c, id)
    BY <2>8, clerkStepsChannels
  <2>9. CASE \E c \in Clerk : callFails(c)
    BY <2>9, clerkStepsChannels
  <2>4. CASE \E s \in started : commit(s) \/ overwritten(s)
    BY <2>4, serverStepsChannels
  <2>5. CASE \E i, j \in Server : raftInstallSnapshot(i, j)
    BY <2>5, serverStepsChannels
  <2>6. CASE \E i \in Server, isLeader, toSnapshot \in BOOLEAN :
                /\ toSnapshot => Snapshots
                /\ handleCommandApply(i, isLeader, toSnapshot)
    BY <2>6, serverStepsChannels
  <2>7. CASE \E i \in Server : installSnapshot(i) \/ StartKVServer(i)
    BY <2>7, serverStepsChannels
  <2> QED
    BY <1>2, <2>1, <2>2, <2>3, <2>4, <2>5, <2>6, <2>7, <2>8, <2>9 DEF Next
<1> QED
  BY <1>1, <1>2

(* SendsHaveAReader: the send of signalStartCh, which holds kv.mu, is to a handler of this
   very request that has not left and whose channel nobody has closed. *)
THEOREM NoSendIsLost == Spec => []SendsHaveAReader
<1>1. TypeInv /\ ChannelInv => SendsHaveAReader
  <2> SUFFICES ASSUME TypeInv, ChannelInv, NEW i \in Server, sending[i] # Nil
               PROVE  \E h \in handlers :
                         /\ handlerId(h) = sending[i].channel
                         /\ h.op.ServerId = i
                         /\ channelOf(h.op) = channelOf(sending[i].op)
                         /\ h.stage \in {"created", "select", "timeout", "notLeader"}
                         /\ ~h.closed
    BY DEF SendsHaveAReader
  <2>1. /\ channelOf(sending[i].op) \in DOMAIN kv[i].startChannels
        /\ kv[i].startChannels[channelOf(sending[i].op)] = sending[i].channel
    BY DEF ChannelInv, SendsAreMapped
  <2>2. PICK h \in handlers : /\ handlerId(h) = sending[i].channel
                              /\ reads(h, i, channelOf(sending[i].op))
    BY <2>1 DEF ChannelInv, ChannelsHaveReaders
  <2> QED
    BY <2>2 DEF reads, Reading
<1> QED
  BY InitTypes, TypesNext, InitChannels, ChannelsNext, <1>1, PTL DEF Spec
=============================================================================
