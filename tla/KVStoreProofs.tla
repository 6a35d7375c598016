---------------------------- MODULE KVStoreProofs ----------------------------
(***************************************************************************)
(* Exactly-once in KVServer, and that it implements KVStore, for any       *)
(* number of servers and clerks and every bound.                           *)
(*                                                                         *)
(* The argument: a clerk begins a request when the one before it has been  *)
(* answered, and an answer tells of an entry in the log.  So a request     *)
(* enters the log for the first time only after all earlier ones of its    *)
(* clerk, and comparing numbers, as isDuplicateOp does, finds exactly the  *)
(* entries whose request was in the log before.                            *)
(***************************************************************************)
EXTENDS KVServerProofs, Induction

(* Requests.  cl stands for clerk and l for log, before or after a step. *)

(* an entry of the log up to n is of this request *)
inLog(l, n, key) == \E k \in 1 .. n : channelOf(l[k]) = key

(* op is of the call its clerk is in *)
ofCall(cl, op) ==
    /\ cl[op.ClientId].op # Nil
    /\ op.RequestIndex = cl[op.ClientId].requestIndex

(* an operation is of the last request of its clerk or of one before *)
Known(cl, op) ==
    /\ op.RequestIndex <= cl[op.ClientId].requestIndex
    /\ ofCall(cl, op) => op.Type = cl[op.ClientId].op

(* what has been answered is in the log *)
Completed(cl, l) ==
    \A c \in Clerk : \A r \in 1 .. cl[c].requestIndex :
       r < cl[c].requestIndex \/ cl[c].op = Nil => inLog(l, Len(l), <<c, r>>)

(* before an entry are entries of all earlier requests of its clerk *)
InOrder(l) ==
    \A n \in 1 .. Len(l) : \A r \in 1 .. l[n].RequestIndex - 1 :
       inLog(l, n - 1, <<l[n].ClientId, r>>)

(* the call a clerk is in came to the log after it began *)
CallsAreNew(cl, l) ==
    \A n \in 1 .. Len(l) : ofCall(cl, l[n]) => n > cl[l[n].ClientId].since

LogFits(cl, l) ==
    /\ \A n \in 1 .. Len(l) : Known(cl, l[n])
    /\ Completed(cl, l) /\ InOrder(l) /\ CallsAreNew(cl, l)

(* an answer that ends a call tells of an entry in the log, and for a Get of a value of
   the time of the call *)
Truthful(cl, l, op, msg) ==
    succeeded(msg.Error) =>
       /\ inLog(l, Len(l), channelOf(op))
       /\ ofCall(cl, op) =>
             IF op.Type = "GET"
             THEN \E n \in cl[op.ClientId].since .. Len(l) : msg.Value = replay(l)[n]
             ELSE msg.Value = <<>>

(* a clerk listens only to a handler of its call *)
HandlerFits(cl, l, h) ==
    /\ Known(cl, h.op)
    /\ h.heard => cl[h.op.ClientId].calling /\ ofCall(cl, h.op)
    /\ h.stage = "reply" => h.heard
    /\ h.stage \in {"result", "reply"} => Truthful(cl, l, h.op, h.response)

OneHeard ==
    \A g, h \in handlers : g.heard /\ h.heard /\ g.op.ClientId = h.op.ClientId => g = h

SendFits(cl, l, send) == Known(cl, send.op) /\ Truthful(cl, l, send.op, send.msg)

RequestInv ==
    /\ LogFits(clerk, log)
    /\ \A h \in handlers : HandlerFits(clerk, log, h)
    /\ OneHeard
    /\ \A c \in Clerk : clerk[c].calling => clerk[c].op # Nil
    /\ \A s \in started : Known(clerk, s.op)
    /\ \A i \in Server : sending[i] # Nil => SendFits(clerk, log, sending[i])

-----------------------------------------------------------------------------
(* States *)

(* last is the table of last requests after n entries of l *)
LastRequests(last, l, n) ==
    \A c \in Clerk :
       /\ last[c] = 0 \/ inLog(l, n, <<c, last[c]>>)
       /\ \A k \in 1 .. n : l[k].ClientId = c => l[k].RequestIndex <= last[c]

(* state is what the first n entries of l make *)
Replayed(state, l, n) ==
    /\ state.KeyValueStore = replay(l)[n]
    /\ LastRequests(state.ClientLastRequest, l, n)

StatesAreReplays ==
    \A i \in Server :
       /\ Replayed(kv[i].state, log, kv[i].applied)
       /\ Replayed(snap[i].data, log, snap[i].index)

Inv == TypeInv /\ ChannelInv /\ RequestInv /\ StatesAreReplays

-----------------------------------------------------------------------------
(* replay, by induction over the log *)

replayStep(l, v, n) ==
    IF n = 0 THEN <<>>
    ELSE IF takesEffect(l, n) THEN written(v[n - 1], l[n]) ELSE v[n - 1]

(* There is a function that satisfies the recursion, so replay does. *)
LEMMA replayDef ==
    ASSUME NEW l, Len(l) \in Nat
    PROVE  replay(l) = [n \in 0 .. Len(l) |-> replayStep(l, replay(l), n)]
<1> DEFINE S == {m \in Nat : \E f : f = [n \in 0 .. m |-> replayStep(l, f, n)]}
<1>1. 0 \in S
  <2> DEFINE f == [n \in 0 .. 0 |-> <<>>]
  <2>1. f = [n \in 0 .. 0 |-> replayStep(l, f, n)]
    BY DEF replayStep
  <2> QED
    BY <2>1
<1>2. ASSUME NEW m \in 0 .. Len(l) - 1, m \in S PROVE m + 1 \in S
  <2>1. PICK f : f = [n \in 0 .. m |-> replayStep(l, f, n)]
    BY <1>2
  <2> DEFINE g == [n \in 0 .. m + 1 |-> replayStep(l, f, n)]
  <2>2. ASSUME NEW n \in 0 .. m + 1 PROVE replayStep(l, f, n) = replayStep(l, g, n)
    <3>1. CASE n = 0
      BY <3>1 DEF replayStep
    <3>2. CASE n # 0
      <4>1. n - 1 \in 0 .. m /\ n - 1 \in 0 .. m + 1
        BY <3>2
      <4>2. f[n - 1] = g[n - 1]
        BY <2>1, <4>1
      <4> QED
        BY <4>2 DEF replayStep
    <3> QED
      BY <3>1, <3>2
  <2>3. g = [n \in 0 .. m + 1 |-> replayStep(l, g, n)]
    BY <2>2
  <2> HIDE DEF g
  <2> QED
    BY <2>3
<1>3. Len(l) \in S
  <2> HIDE DEF S
  <2>1. \A n \in 0 .. Len(l) : n \in S
    BY <1>1, <1>2, InductionUpTo
  <2> QED
    BY <2>1
<1>4. PICK f : f = [n \in 0 .. Len(l) |-> replayStep(l, f, n)]
  BY <1>3
<1> QED
  BY <1>4 DEF replay, replayStep

LEMMA replayCases ==
    ASSUME NEW l, Len(l) \in Nat
    PROVE  /\ replay(l)[0] = <<>>
           /\ \A n \in 1 .. Len(l) :
                 replay(l)[n] = IF takesEffect(l, n) THEN written(replay(l)[n - 1], l[n])
                                ELSE replay(l)[n - 1]
<1> DEFINE v == replay(l)
<1>1. v = [n \in 0 .. Len(l) |-> replayStep(l, v, n)]
  BY replayDef
<1> HIDE DEF v
<1>2. \A n \in 0 .. Len(l) : v[n] = replayStep(l, v, n)
  BY <1>1
<1>3. v[0] = <<>>
  BY <1>2 DEF replayStep
<1>4. \A n \in 1 .. Len(l) :
         v[n] = IF takesEffect(l, n) THEN written(v[n - 1], l[n]) ELSE v[n - 1]
  BY <1>2 DEF replayStep
<1> QED
  BY <1>3, <1>4 DEF v

(* What a prefix of the log makes does not depend on what follows. *)
LEMMA replayAppend ==
    ASSUME NEW l \in Seq(OpType), NEW op \in OpType
    PROVE  \A n \in 0 .. Len(l) : replay(Append(l, op))[n] = replay(l)[n]
<1> DEFINE m == Append(l, op)
           v == replay(l)
           w == replay(m)
           S == {n \in Nat : w[n] = v[n]}
<1>0. /\ Len(l) \in Nat /\ Len(m) = Len(l) + 1
      /\ \A n \in 1 .. Len(l) : m[n] = l[n]
  OBVIOUS
<1> HIDE DEF m
<1>1. 0 \in S
  BY <1>0, replayCases
<1>2. ASSUME NEW n \in 0 .. Len(l) - 1, n \in S PROVE n + 1 \in S
  <2>1. n + 1 \in 1 .. Len(l) /\ n + 1 \in 1 .. Len(m) /\ n + 1 - 1 = n
    BY <1>0
  <2>2. takesEffect(m, n + 1) <=> takesEffect(l, n + 1)
    BY <1>0, <2>1 DEF takesEffect
  <2>3. w[n + 1] = IF takesEffect(m, n + 1) THEN written(w[n], m[n + 1]) ELSE w[n]
    BY <1>0, <2>1, replayCases
  <2>4. v[n + 1] = IF takesEffect(l, n + 1) THEN written(v[n], l[n + 1]) ELSE v[n]
    BY <1>0, <2>1, replayCases
  <2> HIDE DEF v, w
  <2>5. w[n + 1] = v[n + 1]
    BY <1>0, <1>2, <2>1, <2>2, <2>3, <2>4
  <2> QED
    BY <2>5
<1>3. \A n \in 0 .. Len(l) : n \in S
  <2> HIDE DEF S
  <2> QED
    BY <1>0, <1>1, <1>2, InductionUpTo
<1> QED
  BY <1>3 DEF m

-----------------------------------------------------------------------------
(* Duplicates *)

(* Comparing numbers finds the duplicates. *)
LEMMA DuplicatesAreFound ==
    ASSUME NEW l \in Seq(OpType), InOrder(l), NEW n \in 1 .. Len(l),
           NEW state \in StateT, LastRequests(state.ClientLastRequest, l, n - 1)
    PROVE  takesEffect(l, n) <=> ~isDuplicateOp(state, l[n])
<1> DEFINE op == l[n]
           c == op.ClientId
           last == state.ClientLastRequest[c]
<1>0. Len(l) \in Nat /\ \A k \in 1 .. Len(l) : l[k] \in OpType
  OBVIOUS
<1>1. /\ op \in OpType /\ c \in Clerk /\ op.RequestIndex \in 1 .. MaxRequests
      /\ last \in 0 .. MaxRequests
  BY <1>0, OpFacts DEF StateT
<1>2. /\ last = 0 \/ inLog(l, n - 1, <<c, last>>)
      /\ \A k \in 1 .. n - 1 : l[k].ClientId = c => l[k].RequestIndex <= last
  BY <1>1 DEF LastRequests
<1>3. isDuplicateOp(state, op) <=> op.RequestIndex <= last
  BY DEF isDuplicateOp
<1>4. ASSUME op.RequestIndex <= last PROVE ~takesEffect(l, n)
  <2>1. PICK k \in 1 .. n - 1 : channelOf(l[k]) = <<c, last>>
    BY <1>1, <1>2, <1>4 DEF inLog
  <2>2. k \in 1 .. Len(l) /\ l[k].ClientId = c /\ l[k].RequestIndex = last
    BY <1>0, <2>1 DEF channelOf
  <2>3. CASE op.RequestIndex = last
    BY <2>1, <2>3 DEF takesEffect, channelOf
  <2>4. CASE op.RequestIndex < last
    <3>1. op.RequestIndex \in 1 .. l[k].RequestIndex - 1
      BY <1>1, <2>2, <2>4
    <3>2. inLog(l, k - 1, <<c, op.RequestIndex>>)
      BY <2>2, <3>1 DEF InOrder
    <3>3. PICK j \in 1 .. k - 1 : channelOf(l[j]) = <<c, op.RequestIndex>>
      BY <3>2 DEF inLog
    <3>4. j \in 1 .. n - 1
      BY <2>1, <3>3
    <3> QED
      BY <3>3, <3>4 DEF takesEffect, channelOf
  <2> QED
    BY <1>1, <1>4, <2>3, <2>4
<1>5. ASSUME ~takesEffect(l, n) PROVE op.RequestIndex <= last
  <2>1. PICK k \in 1 .. n - 1 : channelOf(l[k]) = channelOf(op)
    BY <1>5 DEF takesEffect
  <2>2. l[k].ClientId = c /\ l[k].RequestIndex = op.RequestIndex
    BY <2>1 DEF channelOf
  <2> QED
    BY <1>2, <2>2
<1> QED
  BY <1>3, <1>4, <1>5

(* A state that the log up to n makes becomes the one the log up to n + 1 makes. *)
LEMMA applyOpReplays ==
    ASSUME NEW l \in Seq(OpType), InOrder(l), NEW n \in 0 .. Len(l) - 1,
           NEW state \in StateT, Replayed(state, l, n)
    PROVE  Replayed(applyOp(state, l[n + 1]), l, n + 1)
<1> DEFINE op == l[n + 1]
           new == applyOp(state, op)
           last == state.ClientLastRequest
<1>0. /\ n \in Nat /\ n + 1 \in 1 .. Len(l) /\ n + 1 - 1 = n /\ Len(l) \in Nat
      /\ op \in OpType
      /\ \A k \in 1 .. n + 1 : k \in 1 .. n \/ k = n + 1
  OBVIOUS
<1>1. op.ClientId \in Clerk /\ op.RequestIndex \in 1 .. MaxRequests
  BY <1>0, OpFacts
<1>2. last \in [Clerk -> 0 .. MaxRequests]
  BY DEF StateT
<1>3. LastRequests(last, l, n) /\ state.KeyValueStore = replay(l)[n]
  BY DEF Replayed
<1>4. takesEffect(l, n + 1) <=> ~isDuplicateOp(state, op)
  BY <1>0, <1>3, DuplicatesAreFound
<1>5. replay(l)[n + 1] = IF takesEffect(l, n + 1) THEN written(replay(l)[n], op)
                         ELSE replay(l)[n]
  BY <1>0, replayCases
<1>6. new.KeyValueStore = replay(l)[n + 1]
  BY <1>0, <1>3, <1>4, <1>5, applyOpCases
<1>7. ASSUME NEW c \in Clerk
      PROVE  /\ new.ClientLastRequest[c] = 0
                \/ inLog(l, n + 1, <<c, new.ClientLastRequest[c]>>)
             /\ \A k \in 1 .. n + 1 :
                   l[k].ClientId = c => l[k].RequestIndex <= new.ClientLastRequest[c]
  <2> DEFINE r == new.ClientLastRequest[c]
  <2>1. /\ last[c] = 0 \/ inLog(l, n, <<c, last[c]>>)
        /\ \A k \in 1 .. n : l[k].ClientId = c => l[k].RequestIndex <= last[c]
    BY <1>3, <1>7 DEF LastRequests
  <2>2. CASE isDuplicateOp(state, op) \/ op.ClientId # c
    <3>1. r = last[c]
      BY <1>0, <1>2, <2>2, applyOpCases
    <3>2. op.ClientId = c => op.RequestIndex <= last[c]
      BY <2>2 DEF isDuplicateOp
    <3> HIDE DEF r
    <3>3. r = 0 \/ inLog(l, n + 1, <<c, r>>)
      BY <1>0, <2>1, <3>1 DEF inLog
    <3>4. \A k \in 1 .. n + 1 : l[k].ClientId = c => l[k].RequestIndex <= r
      BY <1>0, <2>1, <3>1, <3>2
    <3> QED
      BY <3>3, <3>4 DEF r
  <2>3. CASE ~isDuplicateOp(state, op) /\ op.ClientId = c
    <3>1. r = op.RequestIndex
      BY <1>0, <1>2, <2>3, applyOpCases
    <3>2. op.RequestIndex > last[c]
      BY <1>1, <1>2, <2>3 DEF isDuplicateOp
    <3>3. channelOf(l[n + 1]) = <<c, op.RequestIndex>>
      BY <2>3 DEF channelOf
    <3> HIDE DEF r
    <3>4. inLog(l, n + 1, <<c, r>>)
      BY <1>0, <3>1, <3>3 DEF inLog
    <3>5. \A k \in 1 .. n : l[k] \in OpType
      BY <1>0
    <3>6. \A k \in 1 .. n + 1 : l[k].ClientId = c => l[k].RequestIndex <= r
      <4> SUFFICES ASSUME NEW k \in 1 .. n + 1, l[k].ClientId = c
                   PROVE  l[k].RequestIndex <= r
        OBVIOUS
      <4>1. CASE k = n + 1
        BY <1>1, <3>1, <4>1
      <4>2. CASE k \in 1 .. n
        <5>1. l[k].RequestIndex \in Int /\ last[c] \in Int
          BY <1>2, <3>5, <4>2, OpFacts
        <5> QED
          BY <1>1, <2>1, <3>1, <3>2, <4>2, <5>1
      <4> QED
        BY <1>0, <4>1, <4>2
    <3> QED
      BY <3>4, <3>6 DEF r
  <2> QED
    BY <2>2, <2>3
<1> QED
  BY <1>6, <1>7 DEF Replayed, LastRequests

(* More entries leave a prefix as it is. *)
LEMMA inLogAppend ==
    ASSUME NEW l \in Seq(OpType), NEW op \in OpType, NEW n \in 0 .. Len(l), NEW key
    PROVE  inLog(Append(l, op), n, key) <=> inLog(l, n, key)
<1>1. \A k \in 1 .. n : Append(l, op)[k] = l[k]
  BY AppendFacts
<1> HIDE DEF channelOf
<1> QED
  BY <1>1 DEF inLog

LEMMA ReplayedAppend ==
    ASSUME NEW l \in Seq(OpType), NEW op \in OpType, NEW n \in 0 .. Len(l),
           NEW state, Replayed(state, l, n)
    PROVE  Replayed(state, Append(l, op), n)
<1> DEFINE m == Append(l, op)
<1>1. replay(m)[n] = replay(l)[n]
  BY replayAppend
<1>2. \A k \in 1 .. n : m[k] = l[k]
  BY AppendFacts
<1>3. \A key : inLog(m, n, key) <=> inLog(l, n, key)
  BY inLogAppend
<1> HIDE DEF m
<1> QED
  BY <1>1, <1>2, <1>3 DEF Replayed, LastRequests, m

-----------------------------------------------------------------------------
(* Requests *)

LEMMA RequestIntro ==
    ASSUME LogFits(clerk', log'),
           \A h \in handlers' : HandlerFits(clerk', log', h), OneHeard',
           \A c \in Clerk : clerk'[c].calling => clerk'[c].op # Nil,
           \A s \in started' : Known(clerk', s.op),
           \A i \in Server : sending'[i] # Nil => SendFits(clerk', log', sending'[i])
    PROVE  RequestInv'
  BY DEF RequestInv

(* from cl to cl2 requests are begun and ended; a call that goes on is the same call *)
goOn(cl2, cl) ==
    \A c \in Clerk :
       /\ cl2[c].requestIndex >= cl[c].requestIndex
       /\ cl2[c].op # Nil /\ cl2[c].requestIndex = cl[c].requestIndex =>
             cl2[c].op = cl[c].op /\ cl2[c].since = cl[c].since

LEMMA KnownKept ==
    ASSUME NEW cl \in [Clerk -> ClerkT], NEW cl2 \in [Clerk -> ClerkT], goOn(cl2, cl),
           NEW op \in OpType, Known(cl, op)
    PROVE  /\ Known(cl2, op)
           /\ ofCall(cl2, op) => /\ ofCall(cl, op)
                                 /\ cl2[op.ClientId].since = cl[op.ClientId].since
<1> DEFINE c == op.ClientId
<1>1. c \in Clerk /\ op.RequestIndex \in Nat
  BY OpFacts
<1>2. cl[c].requestIndex \in Nat /\ cl2[c].requestIndex \in Nat
  BY <1>1 DEF ClerkT
<1> HIDE DEF c
<1>3. /\ cl2[c].requestIndex >= cl[c].requestIndex
      /\ cl2[c].op # Nil /\ cl2[c].requestIndex = cl[c].requestIndex =>
            cl2[c].op = cl[c].op /\ cl2[c].since = cl[c].since
  BY <1>1 DEF goOn
<1>4. /\ op.RequestIndex <= cl[c].requestIndex
      /\ ofCall(cl, op) => op.Type = cl[c].op
  BY DEF Known, c
<1>5. ofCall(cl2, op) => ofCall(cl, op) /\ cl2[c].since = cl[c].since /\ cl2[c].op = cl[c].op
  BY <1>1, <1>2, <1>3, <1>4 DEF ofCall, c
<1> QED
  BY <1>1, <1>2, <1>3, <1>4, <1>5 DEF Known, c

LEMMA TruthfulKept ==
    ASSUME NEW cl \in [Clerk -> ClerkT], NEW cl2 \in [Clerk -> ClerkT], goOn(cl2, cl),
           NEW op \in OpType, Known(cl, op), NEW l, NEW msg, Truthful(cl, l, op, msg)
    PROVE  Truthful(cl2, l, op, msg)
<1>1. ofCall(cl2, op) => /\ ofCall(cl, op)
                         /\ cl2[op.ClientId].since = cl[op.ClientId].since
  BY KnownKept
<1> QED
  BY <1>1 DEF Truthful

LEMMA FitsKept ==
    ASSUME NEW cl \in [Clerk -> ClerkT], NEW cl2 \in [Clerk -> ClerkT], goOn(cl2, cl),
           NEW l, NEW h \in HandlerT, HandlerFits(cl, l, h),
           h.heard => cl2[h.op.ClientId].calling /\ ofCall(cl2, h.op)
    PROVE  HandlerFits(cl2, l, h)
<1>1. h.op \in OpType
  BY HandlerFacts
<1>2. Known(cl2, h.op)
  BY <1>1, KnownKept DEF HandlerFits
<1>3. h.stage \in {"result", "reply"} => Truthful(cl2, l, h.op, h.response)
  BY <1>1, TruthfulKept DEF HandlerFits
<1> QED
  BY <1>2, <1>3 DEF HandlerFits

LEMMA LogKept ==
    ASSUME NEW cl \in [Clerk -> ClerkT], NEW cl2 \in [Clerk -> ClerkT], goOn(cl2, cl),
           NEW l \in Seq(OpType), LogFits(cl, l), Completed(cl2, l)
    PROVE  LogFits(cl2, l)
<1>1. ASSUME NEW n \in 1 .. Len(l)
      PROVE  /\ Known(cl2, l[n])
             /\ ofCall(cl2, l[n]) => n > cl2[l[n].ClientId].since
  <2>1. l[n] \in OpType
    OBVIOUS
  <2>2. Known(cl, l[n]) /\ (ofCall(cl, l[n]) => n > cl[l[n].ClientId].since)
    BY DEF LogFits, CallsAreNew
  <2> QED
    BY <2>1, <2>2, KnownKept
<1> QED
  BY <1>1 DEF LogFits, CallsAreNew

sameCalls ==
    \A c \in Clerk : /\ clerk'[c].requestIndex = clerk[c].requestIndex
                     /\ clerk'[c].op = clerk[c].op
                     /\ clerk'[c].since = clerk[c].since

LEMMA SameCallsKept ==
    ASSUME TypeInv, LogFits(clerk, log), sameCalls, clerk' \in [Clerk -> ClerkT]
    PROVE  goOn(clerk', clerk) /\ LogFits(clerk', log)
<1>1. clerk \in [Clerk -> ClerkT] /\ log \in Seq(OpType)
  BY DEF TypeInv, Types
<1>2. goOn(clerk', clerk)
  <2>1. \A c \in Clerk : clerk[c].requestIndex \in Nat
    BY <1>1 DEF ClerkT
  <2> QED
    BY <2>1 DEF goOn, sameCalls
<1>3. Completed(clerk', log)
  BY DEF LogFits, Completed, sameCalls
<1> QED
  BY <1>1, <1>2, <1>3, LogKept

(* what a step leaves alone fits after it *)
LEMMA OthersKept ==
    ASSUME TypeInv, RequestInv, goOn(clerk', clerk), clerk' \in [Clerk -> ClerkT]
    PROVE  /\ \A s \in started : Known(clerk', s.op)
           /\ \A i \in Server : sending[i] # Nil => SendFits(clerk', log, sending[i])
           /\ \A h \in handlers :
                 (h.heard => clerk'[h.op.ClientId].calling /\ ofCall(clerk', h.op)) =>
                 HandlerFits(clerk', log, h)
<1>1. /\ clerk \in [Clerk -> ClerkT] /\ started \subseteq StartedT
      /\ sending \in [Server -> SendT \cup {Nil}] /\ handlers \subseteq HandlerT
  BY DEF TypeInv, Types, HandlersOK
<1>2. \A s \in started : Known(clerk', s.op)
  <2> SUFFICES ASSUME NEW s \in started PROVE Known(clerk', s.op)
    OBVIOUS
  <2>1. s.op \in OpType /\ Known(clerk, s.op)
    BY <1>1 DEF StartedT, RequestInv
  <2> QED
    BY <1>1, <2>1, KnownKept
<1>3. \A i \in Server : sending[i] # Nil => SendFits(clerk', log, sending[i])
  <2> SUFFICES ASSUME NEW i \in Server, sending[i] # Nil
               PROVE  SendFits(clerk', log, sending[i])
    OBVIOUS
  <2>1. sending[i].op \in OpType
    BY <1>1 DEF SendT
  <2>2. Known(clerk, sending[i].op) /\ Truthful(clerk, log, sending[i].op, sending[i].msg)
    BY DEF RequestInv, SendFits
  <2> QED
    BY <1>1, <2>1, <2>2, KnownKept, TruthfulKept DEF SendFits
<1>4. ASSUME NEW h \in handlers,
             h.heard => clerk'[h.op.ClientId].calling /\ ofCall(clerk', h.op)
      PROVE  HandlerFits(clerk', log, h)
  <2>1. h \in HandlerT /\ HandlerFits(clerk, log, h)
    BY <1>1 DEF RequestInv
  <2> QED
    BY <1>1, <1>4, <2>1, FitsKept
<1> QED
  BY <1>2, <1>3, <1>4

LEMMA beginRequests ==
    ASSUME TypeInv, RequestInv, NEW c \in Clerk, NEW type \in Calls[c], begin(c, type)
    PROVE  RequestInv'
<1>1. UNCHANGED <<handlers, started, log, kv, sending, snap, crashes>>
  BY DEF begin
<1>2. /\ clerk' \in [Clerk -> ClerkT] /\ clerk[c].op = Nil
      /\ \A d \in Clerk : d # c => clerk'[d] = clerk[d]
      /\ clerk'[c].requestIndex = clerk[c].requestIndex + 1
      /\ clerk'[c].op # Nil /\ clerk'[c].calling = clerk[c].calling
  BY beginDoes
<1>3. clerk \in [Clerk -> ClerkT] /\ log \in Seq(OpType)
      /\ \A d \in Clerk : clerk[d].requestIndex \in Nat /\ clerk'[d].requestIndex \in Nat
  BY <1>2 DEF TypeInv, Types, ClerkT
<1>4. goOn(clerk', clerk)
  BY <1>2, <1>3 DEF goOn
<1>5. Completed(clerk', log)
  <2> SUFFICES ASSUME NEW d \in Clerk, NEW r \in 1 .. clerk'[d].requestIndex,
                      r < clerk'[d].requestIndex \/ clerk'[d].op = Nil
               PROVE  inLog(log, Len(log), <<d, r>>)
    BY DEF Completed
  <2>1. Completed(clerk, log)
    BY DEF RequestInv, LogFits
  <2>2. r \in 1 .. clerk[d].requestIndex
        /\ (r < clerk[d].requestIndex \/ clerk[d].op = Nil)
    BY <1>2, <1>3
  <2> QED
    BY <2>1, <2>2 DEF Completed
<1>6. LogFits(clerk', log)
  BY <1>2, <1>3, <1>4, <1>5, LogKept DEF RequestInv
<1>7. \A h \in handlers : h.heard => clerk'[h.op.ClientId].calling /\ ofCall(clerk', h.op)
  <2> SUFFICES ASSUME NEW h \in handlers, h.heard
               PROVE  clerk'[h.op.ClientId].calling /\ ofCall(clerk', h.op)
    OBVIOUS
  <2>1. clerk[h.op.ClientId].calling /\ ofCall(clerk, h.op) /\ h.op.ClientId \in Clerk
    BY HandlerFacts DEF RequestInv, HandlerFits, TypeInv, HandlersOK
  <2>2. h.op.ClientId # c
    BY <1>2, <2>1 DEF ofCall
  <2> QED
    BY <1>2, <2>1, <2>2 DEF ofCall
<1>8. \A h \in handlers : HandlerFits(clerk', log, h)
  BY <1>2, <1>4, <1>7, OthersKept
<1>9. \A d \in Clerk : clerk'[d].calling => clerk'[d].op # Nil
  BY <1>2 DEF RequestInv
<1> QED
  BY <1>1, <1>2, <1>4, <1>6, <1>8, <1>9, OthersKept, RequestIntro DEF RequestInv, OneHeard

LEMMA sendCallRequests ==
    ASSUME TypeInv, RequestInv, NEW c \in Clerk, NEW id \in 1 .. Slots, sendCall(c, id)
    PROVE  RequestInv'
<1> DEFINE g == newHandler(c, id)
<1>1. UNCHANGED <<started, log, kv, sending, snap, crashes>> /\ ~clerk[c].calling
      /\ clerk[c].op # Nil
  BY DEF sendCall
<1>2. /\ clerk' \in [Clerk -> ClerkT] /\ clerk'[c].calling /\ sameCalls
      /\ \A d \in Clerk : d # c => clerk'[d] = clerk[d]
      /\ handlers' = handlers \cup {g} /\ g \in HandlerT
  BY sendCallDoes DEF sameCalls
<1>3. goOn(clerk', clerk) /\ LogFits(clerk', log)
  BY <1>2, SameCallsKept DEF RequestInv
<1>4. /\ g.heard /\ g.stage = "request" /\ g.op.ClientId = c
      /\ g.op.RequestIndex = clerk[c].requestIndex /\ g.op.Type = clerk[c].op
  BY DEF newHandler
<1> HIDE DEF g
<1>5. ASSUME NEW h \in handlers, h.heard
      PROVE  clerk'[h.op.ClientId].calling /\ ofCall(clerk', h.op) /\ h.op.ClientId # c
  <2>1. clerk[h.op.ClientId].calling /\ ofCall(clerk, h.op) /\ h.op.ClientId \in Clerk
    BY <1>5, HandlerFacts DEF RequestInv, HandlerFits, TypeInv, HandlersOK
  <2>2. h.op.ClientId # c
    BY <1>1, <2>1
  <2> QED
    BY <1>2, <2>1, <2>2 DEF ofCall
<1>6. HandlerFits(clerk', log, g)
  <2>1. clerk'[c].requestIndex = clerk[c].requestIndex /\ clerk'[c].op = clerk[c].op
        /\ clerk[c].requestIndex \in Nat
    BY <1>2, ClerkFacts DEF sameCalls, TypeInv
  <2>2. ofCall(clerk', g.op) /\ Known(clerk', g.op)
    BY <1>1, <1>4, <2>1 DEF ofCall, Known
  <2> QED
    BY <1>2, <1>4, <2>2 DEF HandlerFits
<1>7. \A h \in handlers' : HandlerFits(clerk', log, h)
  BY <1>2, <1>3, <1>5, <1>6, OthersKept
<1>8. OneHeard'
  BY <1>2, <1>4, <1>5 DEF OneHeard, RequestInv
<1>9. \A d \in Clerk : clerk'[d].calling => clerk'[d].op # Nil
  BY <1>1, <1>2 DEF RequestInv, sameCalls
<1> QED
  BY <1>1, <1>2, <1>3, <1>7, <1>8, <1>9, OthersKept, RequestIntro

LEMMA callFailsRequests ==
    ASSUME TypeInv, RequestInv, NEW c \in Clerk, callFails(c)
    PROVE  RequestInv'
<1>1. UNCHANGED <<started, log, kv, sending, snap, crashes>> /\ clerk' = retry(c)
  BY DEF callFails
<1>2. /\ clerk' \in [Clerk -> ClerkT] /\ ~clerk'[c].calling /\ sameCalls
      /\ \A d \in Clerk : d # c => clerk'[d] = clerk[d]
  BY <1>1, retryOK DEF sameCalls, TypeInv
<1>3. goOn(clerk', clerk) /\ LogFits(clerk', log)
  BY <1>2, SameCallsKept DEF RequestInv
<1>4. ASSUME NEW g \in handlers'
      PROVE  /\ HandlerFits(clerk', log, g)
             /\ g.op.ClientId # c => g \in handlers
             /\ g.op.ClientId = c => ~g.heard
  <2>1. PICK x \in handlers :
           /\ g.id = x.id /\ g.op = x.op /\ g.stage = x.stage
           /\ g.response = x.response /\ g.closed = x.closed
           /\ g \in HandlerT
           /\ x.op.ClientId = c => ~g.heard /\ ~(x.heard /\ x.stage = "reply")
           /\ x.op.ClientId # c => g = x
    BY callFailsDoes DEF TypeInv
  <2>2. HandlerFits(clerk, log, x) /\ x \in HandlerT
    BY DEF RequestInv, TypeInv, HandlersOK
  <2>3. CASE x.op.ClientId = c
    <3>1. HandlerFits(clerk, log, g) /\ ~g.heard
      BY <2>1, <2>2, <2>3 DEF HandlerFits
    <3>2. clerk \in [Clerk -> ClerkT]
      BY DEF TypeInv, Types
    <3> QED
      BY <1>2, <1>3, <2>1, <2>3, <3>1, <3>2, FitsKept
  <2>4. CASE x.op.ClientId # c
    <3>1. g = x /\ x.op.ClientId \in Clerk
      BY <2>1, <2>2, <2>4, HandlerFacts
    <3>2. x.heard => clerk'[x.op.ClientId].calling /\ ofCall(clerk', x.op)
      BY <1>2, <2>2, <2>4, <3>1 DEF HandlerFits, ofCall
    <3> QED
      BY <1>2, <1>3, <2>4, <3>1, <3>2, OthersKept
  <2> QED
    BY <2>3, <2>4
<1>5. OneHeard'
  BY <1>4 DEF OneHeard, RequestInv
<1>6. \A d \in Clerk : clerk'[d].calling => clerk'[d].op # Nil
  BY <1>2 DEF RequestInv
<1> QED
  BY <1>1, <1>2, <1>3, <1>4, <1>5, <1>6, OthersKept, RequestIntro

LEMMA receiveReplyRequests ==
    ASSUME TypeInv, RequestInv, NEW h \in handlers, receiveReply(h)
    PROVE  RequestInv'
<1> DEFINE c == h.op.ClientId
<1>1. UNCHANGED <<started, log, kv, sending, snap, crashes>>
  BY DEF receiveReply
<1>2. c \in Clerk /\ handlers' = handlers \ {h} /\ h.stage = "reply"
  BY receiveReplyDoes
<1>3. h.heard /\ ofCall(clerk, h.op) /\ Truthful(clerk, log, h.op, h.response)
  BY <1>2 DEF RequestInv, HandlerFits
<1>4. clerk \in [Clerk -> ClerkT] /\ log \in Seq(OpType)
      /\ \A d \in Clerk : clerk[d].requestIndex \in Nat
  BY DEF TypeInv, Types, ClerkT
<1>5. /\ clerk' \in [Clerk -> ClerkT] /\ ~clerk'[c].calling
      /\ \A d \in Clerk : d # c => clerk'[d] = clerk[d]
      /\ clerk'[c].requestIndex = clerk[c].requestIndex
      /\ clerk'[c].since = clerk[c].since
      /\ succeeded(h.response.Error) => clerk'[c].op = Nil
      /\ ~succeeded(h.response.Error) => clerk'[c].op = clerk[c].op
  <2>1. CASE succeeded(h.response.Error)
    BY <2>1, receiveReplyDoes
  <2>2. CASE ~succeeded(h.response.Error)
    BY <1>2, <2>2, receiveReplyDoes, retryOK DEF TypeInv
  <2> QED
    BY <2>1, <2>2
<1>6. inLog(log, Len(log), <<c, clerk[c].requestIndex>>) \/ clerk'[c].op = clerk[c].op
  BY <1>3, <1>5 DEF Truthful, ofCall, channelOf
<1> HIDE DEF c
<1>7. goOn(clerk', clerk)
  BY <1>2, <1>4, <1>5 DEF goOn
<1>8. Completed(clerk', log)
  <2> SUFFICES ASSUME NEW d \in Clerk, NEW r \in 1 .. clerk'[d].requestIndex,
                      r < clerk'[d].requestIndex \/ clerk'[d].op = Nil
               PROVE  inLog(log, Len(log), <<d, r>>)
    BY DEF Completed
  <2>1. Completed(clerk, log)
    BY DEF RequestInv, LogFits
  <2>2. \/ /\ r \in 1 .. clerk[d].requestIndex
           /\ r < clerk[d].requestIndex \/ clerk[d].op = Nil
        \/ d = c /\ r = clerk[c].requestIndex /\ clerk'[c].op # clerk[c].op
    BY <1>2, <1>4, <1>5
  <2> QED
    BY <1>6, <2>1, <2>2 DEF Completed
<1>9. LogFits(clerk', log)
  BY <1>4, <1>5, <1>7, <1>8, LogKept DEF RequestInv
<1>10. ASSUME NEW x \in handlers' PROVE HandlerFits(clerk', log, x)
  <2>1. x \in handlers /\ x # h
    BY <1>2
  <2>2. x.heard => clerk'[x.op.ClientId].calling /\ ofCall(clerk', x.op)
    <3> SUFFICES ASSUME x.heard PROVE clerk'[x.op.ClientId].calling /\ ofCall(clerk', x.op)
      OBVIOUS
    <3>1. clerk[x.op.ClientId].calling /\ ofCall(clerk, x.op) /\ x.op.ClientId \in Clerk
      BY <2>1, HandlerFacts DEF RequestInv, HandlerFits, TypeInv, HandlersOK
    <3>2. x.op.ClientId # c
      BY <1>3, <2>1 DEF RequestInv, OneHeard, c
    <3> QED
      BY <1>5, <3>1, <3>2 DEF ofCall
  <2> QED
    BY <1>5, <1>7, <2>1, <2>2, OthersKept
<1>11. OneHeard'
  BY <1>2 DEF OneHeard, RequestInv
<1>12. \A d \in Clerk : clerk'[d].calling => clerk'[d].op # Nil
  BY <1>5 DEF RequestInv
<1> QED
  BY <1>1, <1>5, <1>7, <1>9, <1>10, <1>11, <1>12, OthersKept, RequestIntro

LEMMA AdvancesFits ==
    ASSUME RequestInv, NEW h \in handlers, NEW stage, NEW response,
           advances(h, stage, response), stage = "reply" => h.heard,
           stage \in {"result", "reply"} => Truthful(clerk, log, h.op, response)
    PROVE  OneHeard' /\ \A x \in handlers' : HandlerFits(clerk, log, x)
<1>1. PICK g : advanced(g, h, stage, response) /\ handlers' = (handlers \ {h}) \cup {g}
  BY DEF advances
<1>2. /\ g.op = h.op /\ g.heard = h.heard /\ g.stage = stage /\ g.response = response
  BY <1>1 DEF advanced
<1>3. HandlerFits(clerk, log, g)
  BY <1>2 DEF HandlerFits, RequestInv
<1>4. OneHeard'
  BY <1>1, <1>2 DEF OneHeard, RequestInv
<1> QED
  BY <1>1, <1>3, <1>4 DEF RequestInv

(* a step of a server leaves clerks and log alone *)
LEMMA ServerFits ==
    ASSUME RequestInv, clerk' = clerk, log' = log,
           \A h \in handlers' : HandlerFits(clerk, log, h), OneHeard',
           \A s \in started' : Known(clerk, s.op),
           \A i \in Server : sending'[i] # Nil => SendFits(clerk, log, sending'[i])
    PROVE  RequestInv'
  BY RequestIntro DEF RequestInv

LEMMA FewerHandlers ==
    ASSUME RequestInv, handlers' \subseteq handlers
    PROVE  OneHeard' /\ \A x \in handlers' : HandlerFits(clerk, log, x)
  BY DEF RequestInv, OneHeard

(* an error ends no call *)
LEMMA errorFits ==
    ASSUME NEW cl, NEW l, NEW op, NEW e \in {"", "ErrWrongLeader", "ErrTimeout"}
    PROVE  Truthful(cl, l, op, error(e))
<1>1. ~succeeded(error(e).Error)
  BY errorOK
<1> QED
  BY <1>1 DEF Truthful

LEMMA handlerStepsRequests ==
    ASSUME TypeInv, ChannelInv, RequestInv, NEW h \in handlers, handlerSteps(h)
    PROVE  RequestInv'
<1>1. HandlersOK /\ HandlerFits(clerk, log, h)
  BY DEF TypeInv, RequestInv
<1>2. /\ h \in HandlerT /\ h.op \in OpType /\ h.op.ServerId \in Server
      /\ sending \in [Server -> SendT \cup {Nil}]
  BY <1>1, HandlerFacts DEF HandlersOK, TypeInv, Types
<1>3. ASSUME UNCHANGED <<clerk, log, sending>>, \A s \in started' : Known(clerk, s.op),
             OneHeard', \A x \in handlers' : HandlerFits(clerk, log, x)
      PROVE  RequestInv'
  BY <1>3, ServerFits DEF RequestInv
<1>4. \A s \in started : Known(clerk, s.op)
  BY DEF RequestInv
<1>5. CASE wrongLeader(h)
  <2>1. UNCHANGED <<clerk, started, log, sending>>
    BY <1>5 DEF wrongLeader
  <2>2. CASE handlers' = handlers \ {h}
    BY <1>3, <1>4, <2>1, <2>2, FewerHandlers
  <2>3. CASE h.heard /\ advances(h, "reply", error("ErrWrongLeader"))
    <3>1. Truthful(clerk, log, h.op, error("ErrWrongLeader"))
      BY errorFits
    <3>2. OneHeard' /\ \A x \in handlers' : HandlerFits(clerk, log, x)
      BY <2>3, <3>1, AdvancesFits
    <3> QED
      BY <1>3, <1>4, <2>1, <3>2
  <2> QED
    BY <1>1, <1>5, <2>2, <2>3, wrongLeaderDoes
<1>6. CASE preStart(h)
  <2>1. UNCHANGED <<clerk, started, log, sending>>
    BY <1>6 DEF preStart
  <2>2. advances(h, "created", Nil)
    BY <1>1, <1>6, becomesAdvances DEF preStart, Stage
  <2>3. OneHeard' /\ \A x \in handlers' : HandlerFits(clerk, log, x)
    BY <2>2, AdvancesFits
  <2> QED
    BY <1>3, <1>4, <2>1, <2>3
<1>7. CASE start(h)
  <2>1. UNCHANGED <<clerk, log, sending>>
    BY <1>7 DEF start
  <2>2. PICK stage \in {"select", "notLeader"} : advances(h, stage, Nil)
    BY <1>1, <1>7, becomesAdvances DEF start, Stage
  <2>3. OneHeard' /\ \A x \in handlers' : HandlerFits(clerk, log, x)
    BY <2>2, AdvancesFits
  <2>4. \A s \in started' : s \in started \/ s.op = h.op
    BY <1>7 DEF start
  <2> QED
    BY <1>1, <1>3, <1>4, <2>1, <2>3, <2>4 DEF HandlerFits
<1>8. CASE timeout(h)
  <2>1. UNCHANGED <<clerk, started, log, sending>>
    BY <1>8 DEF timeout
  <2>2. advances(h, "timeout", Nil)
    BY <1>1, <1>8, becomesAdvances DEF timeout, Stage
  <2>3. OneHeard' /\ \A x \in handlers' : HandlerFits(clerk, log, x)
    BY <2>2, AdvancesFits
  <2> QED
    BY <1>3, <1>4, <2>1, <2>3
<1>9. CASE receiveClosed(h)
  <2>1. UNCHANGED <<clerk, started, log, sending>>
    BY <1>9 DEF receiveClosed
  <2>2. error("") \in ResponseT
    BY errorOK
  <2>3. advances(h, "result", error(""))
    BY <1>1, <1>9, <2>2, becomesAdvances DEF receiveClosed, Stage
  <2>4. Truthful(clerk, log, h.op, error(""))
    BY errorFits
  <2>5. OneHeard' /\ \A x \in handlers' : HandlerFits(clerk, log, x)
    BY <2>3, <2>4, AdvancesFits
  <2> QED
    BY <1>3, <1>4, <2>1, <2>5
<1>10. CASE endHandler(h)
  <2>1. UNCHANGED <<clerk, started, log, sending>>
        /\ h.stage \in {"result", "timeout", "notLeader"}
    BY <1>10 DEF endHandler
  <2>2. Truthful(clerk, log, h.op, endResponse(h))
    <3>1. CASE h.stage = "result"
      BY <1>1, <3>1 DEF endResponse, HandlerFits
    <3>2. CASE h.stage = "timeout"
      BY <3>2, errorFits DEF endResponse
    <3>3. CASE h.stage = "notLeader"
      BY <3>3, errorFits DEF endResponse
    <3> QED
      BY <2>1, <3>1, <3>2, <3>3
  <2>3. ASSUME NEW g \in handlers'
        PROVE  \E x \in handlers : /\ g.op = x.op /\ g.heard = x.heard /\ g.id = x.id
                                   /\ HandlerFits(clerk, log, g)
    <3>1. CASE \E x \in handlers : advanced(g, x, x.stage, x.response)
      <4>1. PICK x \in handlers : advanced(g, x, x.stage, x.response)
        BY <3>1
      <4> QED
        BY <4>1 DEF advanced, RequestInv, HandlerFits
    <3>2. CASE h.heard /\ advanced(g, h, "reply", endResponse(h))
      BY <1>1, <2>2, <3>2 DEF advanced, HandlerFits
    <3> QED
      BY <1>1, <1>10, <3>1, <3>2, endHandlerDoes
  <2>4. OneHeard'
    <3> SUFFICES ASSUME NEW f \in handlers', NEW g \in handlers', f.heard, g.heard,
                        f.op.ClientId = g.op.ClientId
                 PROVE  f = g
      BY DEF OneHeard
    <3>1. PICK x \in handlers : f.op = x.op /\ f.heard = x.heard /\ f.id = x.id
      BY <2>3
    <3>2. PICK y \in handlers : g.op = y.op /\ g.heard = y.heard /\ g.id = y.id
      BY <2>3
    <3>3. x = y
      BY <3>1, <3>2 DEF RequestInv, OneHeard
    <3>4. UniqueSlots'
      BY <1>1, <1>10, endHandlerDoes
    <3> QED
      BY <3>1, <3>2, <3>3, <3>4 DEF UniqueSlots, handlerId
  <2> QED
    BY <1>3, <1>4, <2>1, <2>3, <2>4
<1>11. CASE signalStartCh(h)
  <2> DEFINE i == h.op.ServerId
             send == sending[i]
  <2>1. /\ UNCHANGED <<clerk, started, log>> /\ send # Nil
        /\ sending' = [sending EXCEPT ![i] = Nil] /\ send.channel = handlerId(h)
    BY <1>11 DEF signalStartCh
  <2>2. send \in SendT /\ send.msg \in ResponseT /\ send.op \in OpType
    BY <1>2, <2>1 DEF SendT
  <2>3. advances(h, "result", send.msg)
    BY <1>1, <1>11, <2>2, becomesAdvances DEF signalStartCh, Stage
  <2>4. channelOf(send.op) = channelOf(h.op)
    <3>1. /\ channelOf(send.op) \in DOMAIN kv[i].startChannels
          /\ kv[i].startChannels[channelOf(send.op)] = handlerId(h)
      BY <1>2, <2>1 DEF ChannelInv, SendsAreMapped
    <3>2. reads(h, i, channelOf(send.op))
      BY <1>1, <1>2, <3>1, TheReader DEF isReader, ChannelInv
    <3> QED
      BY <3>2 DEF reads
  <2>5. Known(clerk, send.op) /\ Truthful(clerk, log, send.op, send.msg)
    BY <1>2, <2>1 DEF RequestInv, SendFits
  <2>6. /\ send.op.ClientId = h.op.ClientId
        /\ send.op.RequestIndex = h.op.RequestIndex
    BY <2>4 DEF channelOf
  <2> HIDE DEF send, i
  <2>7. ofCall(clerk, h.op) => ofCall(clerk, send.op) /\ send.op.Type = h.op.Type
    BY <1>1, <2>5, <2>6 DEF ofCall, Known, HandlerFits
  <2>8. Truthful(clerk, log, h.op, send.msg)
    BY <2>4, <2>5, <2>6, <2>7 DEF Truthful
  <2>9. OneHeard' /\ \A x \in handlers' : HandlerFits(clerk, log, x)
    BY <2>3, <2>8, AdvancesFits
  <2>10. \A j \in Server : sending'[j] = sending[j] \/ sending'[j] = Nil
    BY <1>2, <2>1
  <2> QED
    BY <1>4, <2>1, <2>9, <2>10, ServerFits DEF RequestInv
<1> QED
  BY <1>5, <1>6, <1>7, <1>8, <1>9, <1>10, <1>11 DEF handlerSteps

(* More entries in the log make no answer false. *)
LEMMA TruthfulAppend ==
    ASSUME NEW l \in Seq(OpType), NEW op \in OpType, NEW cl \in [Clerk -> ClerkT],
           NEW x \in OpType, NEW msg, Truthful(cl, l, x, msg)
    PROVE  Truthful(cl, Append(l, op), x, msg)
<1> DEFINE m == Append(l, op)
<1>1. Len(l) \in Nat /\ Len(m) = Len(l) + 1
  BY AppendFacts
<1>2. \A n \in 0 .. Len(l) : replay(m)[n] = replay(l)[n]
  BY replayAppend
<1>3. inLog(l, Len(l), channelOf(x)) => inLog(m, Len(m), channelOf(x))
  <2>1. inLog(m, Len(l), channelOf(x)) <=> inLog(l, Len(l), channelOf(x))
    BY <1>1, inLogAppend
  <2> HIDE DEF m
  <2> QED
    BY <1>1, <2>1 DEF inLog
<1>4. cl[x.ClientId].since \in Nat
  BY OpFacts DEF ClerkT
<1> HIDE DEF m
<1>5. ASSUME NEW n \in cl[x.ClientId].since .. Len(l)
      PROVE  n \in cl[x.ClientId].since .. Len(m) /\ replay(m)[n] = replay(l)[n]
  BY <1>1, <1>2, <1>4
<1>6. Truthful(cl, m, x, msg)
  <2> SUFFICES ASSUME succeeded(msg.Error)
               PROVE  /\ inLog(m, Len(m), channelOf(x))
                      /\ ofCall(cl, x) =>
                            IF x.Type = "GET"
                            THEN \E n \in cl[x.ClientId].since .. Len(m) :
                                    msg.Value = replay(m)[n]
                            ELSE msg.Value = <<>>
    BY DEF Truthful
  <2>1. inLog(m, Len(m), channelOf(x))
    BY <1>3 DEF Truthful
  <2>2. CASE ofCall(cl, x) /\ x.Type = "GET"
    <3>1. PICK n \in cl[x.ClientId].since .. Len(l) : msg.Value = replay(l)[n]
      BY <2>2 DEF Truthful
    <3>2. n \in cl[x.ClientId].since .. Len(m) /\ replay(m)[n] = replay(l)[n]
      BY <1>5
    <3> QED
      BY <2>1, <2>2, <3>1, <3>2
  <2>3. CASE ofCall(cl, x) /\ x.Type # "GET"
    BY <2>1, <2>3 DEF Truthful
  <2> QED
    BY <2>1, <2>2, <2>3
<1> QED
  BY <1>6 DEF m

LEMMA commitRequests ==
    ASSUME TypeInv, RequestInv, NEW s \in started, commit(s)
    PROVE  RequestInv'
<1> DEFINE op == s.op
           m == Append(log, op)
<1>1. UNCHANGED <<clerk, handlers, kv, sending, snap, crashes>> /\ log' = m
      /\ started' = started \ {s}
  BY DEF commit
<1>2. /\ clerk \in [Clerk -> ClerkT] /\ log \in Seq(OpType) /\ op \in OpType
      /\ sending \in [Server -> SendT \cup {Nil}] /\ handlers \subseteq HandlerT
  BY DEF TypeInv, Types, StartedT, HandlersOK
<1>3. /\ Len(log) \in Nat /\ Len(m) = Len(log) + 1 /\ m[Len(log) + 1] = op
      /\ \A n \in 1 .. Len(log) : m[n] = log[n] /\ log[n] \in OpType
      /\ \A n \in 1 .. Len(log) + 1 : n \in 1 .. Len(log) \/ n = Len(log) + 1
  BY <1>2, AppendFacts
<1>4. \A n \in 0 .. Len(log) : \A key : inLog(m, n, key) <=> inLog(log, n, key)
  BY <1>2, inLogAppend
<1>5. LogFits(clerk, log) /\ Known(clerk, op)
  BY DEF RequestInv
<1>6. op.ClientId \in Clerk /\ op.RequestIndex \in Nat
      /\ clerk[op.ClientId].requestIndex \in Nat /\ clerk[op.ClientId].since \in Nat
      /\ clerk[op.ClientId].since <= Len(log)
  BY <1>2, OpFacts DEF ClerkT, TypeInv, Bounds
<1> HIDE DEF op, m
<1>7. LogFits(clerk, m)
  <2>1. \A n \in 1 .. Len(m) : Known(clerk, m[n])
    BY <1>3, <1>5 DEF LogFits
  <2>2. \A key : inLog(log, Len(log), key) => inLog(m, Len(m), key)
    <3> SUFFICES ASSUME NEW key, inLog(log, Len(log), key) PROVE inLog(m, Len(m), key)
      OBVIOUS
    <3>1. inLog(m, Len(log), key)
      BY <1>3, <1>4
    <3> QED
      BY <1>3, <3>1 DEF inLog
  <2>3. Completed(clerk, m)
    BY <1>5, <2>2 DEF LogFits, Completed
  <2>4. InOrder(m)
    <3> SUFFICES ASSUME NEW n \in 1 .. Len(m), NEW r \in 1 .. m[n].RequestIndex - 1
                 PROVE  inLog(m, n - 1, <<m[n].ClientId, r>>)
      BY DEF InOrder
    <3>1. CASE n \in 1 .. Len(log)
      <4>1. inLog(log, n - 1, <<log[n].ClientId, r>>)
        BY <1>3, <1>5, <3>1 DEF LogFits, InOrder
      <4>2. n - 1 \in 0 .. Len(log)
        BY <1>3, <3>1
      <4> QED
        BY <1>3, <1>4, <3>1, <4>1, <4>2
    <3>2. CASE n = Len(log) + 1
      <4>1. r \in 1 .. op.RequestIndex - 1 /\ n - 1 = Len(log)
        BY <1>3, <3>2
      <4>2. /\ r \in 1 .. clerk[op.ClientId].requestIndex
            /\ r < clerk[op.ClientId].requestIndex
        BY <1>5, <1>6, <4>1 DEF Known
      <4>3. inLog(log, Len(log), <<op.ClientId, r>>)
        BY <1>5, <1>6, <4>2 DEF LogFits, Completed
      <4> QED
        BY <1>3, <1>4, <3>2, <4>1, <4>3
    <3> QED
      BY <1>3, <3>1, <3>2
  <2>5. CallsAreNew(clerk, m)
    <3> SUFFICES ASSUME NEW n \in 1 .. Len(m), ofCall(clerk, m[n])
                 PROVE  n > clerk[m[n].ClientId].since
      BY DEF CallsAreNew
    <3>1. CASE n \in 1 .. Len(log)
      BY <1>3, <1>5, <3>1 DEF LogFits, CallsAreNew
    <3>2. CASE n = Len(log) + 1
      BY <1>3, <1>6, <3>2
    <3> QED
      BY <1>3, <3>1, <3>2
  <2> QED
    BY <2>1, <2>3, <2>4, <2>5 DEF LogFits
<1>8. ASSUME NEW h \in handlers PROVE HandlerFits(clerk, m, h)
  <2>1. HandlerFits(clerk, log, h) /\ h.op \in OpType
    BY <1>2, HandlerFacts DEF RequestInv
  <2>2. h.stage \in {"result", "reply"} => Truthful(clerk, m, h.op, h.response)
    BY <1>2, <2>1, TruthfulAppend DEF HandlerFits, m
  <2> QED
    BY <2>1, <2>2 DEF HandlerFits
<1>9. ASSUME NEW i \in Server, sending[i] # Nil PROVE SendFits(clerk, m, sending[i])
  <2>1. SendFits(clerk, log, sending[i]) /\ sending[i].op \in OpType
    BY <1>2, <1>9 DEF RequestInv, SendT
  <2> QED
    BY <1>2, <2>1, TruthfulAppend DEF SendFits, m
<1>10. /\ \A x \in started' : Known(clerk', x.op)
       /\ \A c \in Clerk : clerk'[c].calling => clerk'[c].op # Nil
       /\ OneHeard'
  BY <1>1 DEF RequestInv, OneHeard
<1> QED
  BY <1>1, <1>7, <1>8, <1>9, <1>10, RequestIntro

LEMMA serverStepsRequests ==
    ASSUME TypeInv, RequestInv, clerk' = clerk, log' = log, handlers' \subseteq handlers,
           started' \subseteq started,
           \A i \in Server : sending'[i] = sending[i] \/ sending'[i] = Nil
    PROVE  RequestInv'
<1>1. OneHeard' /\ \A x \in handlers' : HandlerFits(clerk, log, x)
  BY FewerHandlers
<1>2. \A i \in Server : sending'[i] # Nil => SendFits(clerk, log, sending'[i])
  BY DEF RequestInv
<1>3. \A s \in started' : Known(clerk, s.op)
  BY DEF RequestInv
<1> QED
  BY <1>1, <1>2, <1>3, ServerFits

LEMMA handleCommandApplyRequests ==
    ASSUME TypeInv, RequestInv, StatesAreReplays, NEW i \in Server,
           NEW isLeader \in BOOLEAN, NEW toSnapshot \in BOOLEAN,
           handleCommandApply(i, isLeader, toSnapshot)
    PROVE  RequestInv'
<1> DEFINE n == kv[i].applied
           op == log[n + 1]
           state == applyOp(kv[i].state, op)
           msg == replyMsg(kv[i].state, op, isLeader)
<1>1. UNCHANGED <<clerk, handlers, started, log, crashes>>
  BY DEF handleCommandApply
<1>2. /\ n + 1 \in 1 .. Len(log) /\ op \in OpType
      /\ \A j \in Server : j # i => sending'[j] = sending[j]
      /\ sending'[i] = Nil \/ (sending'[i].op = op /\ sending'[i].msg = msg)
  BY handleCommandApplyDoes
<1>3. LogFits(clerk, log) /\ log \in Seq(OpType) /\ kv[i].state \in StateT /\ n \in Nat
      /\ Len(log) \in Nat
  BY ServerFacts DEF RequestInv
<1>4. Known(clerk, op)
  BY <1>2, <1>3 DEF LogFits
<1>5. state.KeyValueStore = replay(log)[n + 1]
  <2>1. Replayed(kv[i].state, log, n) /\ InOrder(log) /\ n \in 0 .. Len(log) - 1
    BY <1>2, <1>3 DEF StatesAreReplays, LogFits
  <2>2. Replayed(state, log, n + 1)
    BY <1>3, <2>1, applyOpReplays
  <2> QED
    BY <2>2 DEF Replayed
<1>6. /\ op.Type = "GET" => msg.Value = state.KeyValueStore
      /\ op.Type # "GET" => msg.Value = <<>>
  BY <1>2, <1>3, replyMsgCases
<1>7. inLog(log, Len(log), channelOf(op))
  BY <1>2 DEF inLog
<1>8. ofCall(clerk, op) => n + 1 \in clerk[op.ClientId].since .. Len(log)
  <2>1. clerk[op.ClientId].since \in Nat
    BY <1>2, OpFacts, ClerkFacts DEF TypeInv
  <2> QED
    BY <1>2, <1>3, <2>1 DEF LogFits, CallsAreNew
<1> HIDE DEF op, state, msg, n
<1>9. Truthful(clerk, log, op, msg)
  BY <1>5, <1>6, <1>7, <1>8 DEF Truthful
<1>10. \A j \in Server : sending'[j] # Nil => SendFits(clerk, log, sending'[j])
  BY <1>2, <1>4, <1>9 DEF RequestInv, SendFits
<1> QED
  BY <1>1, <1>10, FewerHandlers, ServerFits DEF RequestInv

-----------------------------------------------------------------------------
(* States *)

LEMMA makeStateReplays ==
    ASSUME NEW l, Len(l) \in Nat
    PROVE  Replayed(makeState, l, 0)
<1>1. makeState.KeyValueStore = replay(l)[0]
  BY replayCases DEF makeState
<1>2. \A c \in Clerk : makeState.ClientLastRequest[c] = 0
  BY DEF makeState
<1>3. LastRequests(makeState.ClientLastRequest, l, 0)
  BY <1>2 DEF LastRequests
<1> QED
  BY <1>1, <1>3 DEF Replayed

LEMMA ReplaysIntro ==
    ASSUME \A i \in Server : /\ Replayed(kv'[i].state, log', kv'[i].applied)
                             /\ Replayed(snap'[i].data, log', snap'[i].index)
    PROVE  StatesAreReplays'
  BY DEF StatesAreReplays

LEMMA commitReplays ==
    ASSUME TypeInv, StatesAreReplays, NEW s \in started, commit(s)
    PROVE  StatesAreReplays'
<1>1. kv' = kv /\ snap' = snap /\ log' = Append(log, s.op)
  BY DEF commit
<1>2. log \in Seq(OpType) /\ s.op \in OpType
  BY DEF TypeInv, Types, StartedT
<1>3. ASSUME NEW i \in Server
      PROVE  /\ Replayed(kv[i].state, Append(log, s.op), kv[i].applied)
             /\ Replayed(snap[i].data, Append(log, s.op), snap[i].index)
  <2>1. kv[i].applied \in 0 .. Len(log) /\ snap[i].index \in 0 .. Len(log)
    BY ServerFacts
  <2>2. /\ Replayed(kv[i].state, log, kv[i].applied)
        /\ Replayed(snap[i].data, log, snap[i].index)
    BY DEF StatesAreReplays
  <2> QED
    BY <1>2, <2>1, <2>2, ReplayedAppend
<1> QED
  BY <1>1, <1>3, ReplaysIntro

LEMMA handleCommandApplyReplays ==
    ASSUME TypeInv, RequestInv, StatesAreReplays, NEW i \in Server,
           NEW isLeader \in BOOLEAN, NEW toSnapshot \in BOOLEAN,
           handleCommandApply(i, isLeader, toSnapshot)
    PROVE  StatesAreReplays'
<1> DEFINE n == kv[i].applied
           state == applyOp(kv[i].state, log[n + 1])
<1>1. log' = log
  BY DEF handleCommandApply
<1>2. /\ n + 1 \in 1 .. Len(log)
      /\ kv'[i].state = state /\ kv'[i].applied = n + 1
      /\ snap'[i] = snap[i] \/ (snap'[i].index = n + 1 /\ snap'[i].data = state)
      /\ \A j \in Server : j # i => kv'[j] = kv[j] /\ snap'[j] = snap[j]
  BY handleCommandApplyDoes
<1>3. log \in Seq(OpType) /\ kv[i].state \in StateT /\ n \in 0 .. Len(log) - 1
  BY <1>2, ServerFacts
<1>4. Replayed(kv[i].state, log, n) /\ InOrder(log)
  BY DEF StatesAreReplays, RequestInv, LogFits
<1>5. Replayed(state, log, n + 1)
  BY <1>3, <1>4, applyOpReplays
<1> HIDE DEF n, state
<1>6. \A j \in Server : /\ Replayed(kv'[j].state, log, kv'[j].applied)
                        /\ Replayed(snap'[j].data, log, snap'[j].index)
  BY <1>2, <1>5 DEF StatesAreReplays
<1> QED
  BY <1>1, <1>6, ReplaysIntro

LEMMA snapshotReplays ==
    ASSUME TypeInv, StatesAreReplays, NEW i \in Server,
           \/ \E j \in Server : raftInstallSnapshot(i, j)
           \/ installSnapshot(i)
           \/ StartKVServer(i)
    PROVE  StatesAreReplays'
<1>1. CASE \E j \in Server : raftInstallSnapshot(i, j)
  <2>1. PICK j \in Server : raftInstallSnapshot(i, j)
    BY <1>1
  <2>2. log' = log /\ kv' = kv /\ snap' = [snap EXCEPT ![i] = snap[j]]
    BY <2>1 DEF raftInstallSnapshot
  <2>3. \A k \in Server : snap'[k] = snap[k] \/ snap'[k] = snap[j]
    BY <2>2 DEF TypeInv, Types
  <2>4. \A k \in Server : /\ Replayed(kv'[k].state, log, kv'[k].applied)
                          /\ Replayed(snap'[k].data, log, snap'[k].index)
    BY <2>2, <2>3 DEF StatesAreReplays
  <2> QED
    BY <2>2, <2>4, ReplaysIntro
<1>2. CASE installSnapshot(i)
  <2>1. /\ kv'[i].state = snap[i].data /\ kv'[i].applied = snap[i].index
        /\ \A j \in Server : j # i => kv'[j] = kv[j]
        /\ log' = log /\ snap' = snap
    BY <1>2, installSnapshotDoes
  <2>2. \A k \in Server : /\ Replayed(kv'[k].state, log, kv'[k].applied)
                          /\ Replayed(snap'[k].data, log, snap'[k].index)
    BY <2>1 DEF StatesAreReplays
  <2> QED
    BY <2>1, <2>2, ReplaysIntro
<1>3. CASE StartKVServer(i)
  <2>1. /\ kv'[i].state = IF snap[i].index = 0 THEN makeState ELSE snap[i].data
        /\ kv'[i].applied = snap[i].index
        /\ \A j \in Server : j # i => kv'[j] = kv[j]
        /\ log' = log /\ snap' = snap
    BY <1>3, StartKVServerDoes
  <2>2. Replayed(makeState, log, 0)
    BY makeStateReplays, ServerFacts
  <2>3. \A k \in Server : /\ Replayed(kv'[k].state, log, kv'[k].applied)
                          /\ Replayed(snap'[k].data, log, snap'[k].index)
    BY <2>1, <2>2 DEF StatesAreReplays
  <2> QED
    BY <2>1, <2>3, ReplaysIntro
<1> QED
  BY <1>1, <1>2, <1>3

LEMMA StateSame ==
    ASSUME StatesAreReplays, log' = log, snap' = snap,
           \A i \in Server : kv'[i].state = kv[i].state /\ kv'[i].applied = kv[i].applied
    PROVE  StatesAreReplays'
  BY ReplaysIntro DEF StatesAreReplays

LEMMA handlerStepsReplays ==
    ASSUME TypeInv, StatesAreReplays, NEW h \in handlers, handlerSteps(h)
    PROVE  StatesAreReplays'
<1>1. /\ kv \in [Server -> KVT] /\ h \in HandlerT /\ h.op.ServerId \in Server
  BY HandlerFacts DEF TypeInv, Types, HandlersOK
<1>2. log' = log /\ snap' = snap
  BY DEF handlerSteps, wrongLeader, preStart, start, timeout, receiveClosed, endHandler,
     signalStartCh
<1>3. \/ kv' = kv
      \/ kv' = createStartCh(h.op.ServerId, h)
      \/ kv' = deleteStartCh(h.op.ServerId, channelOf(h.op))
  BY DEF handlerSteps, wrongLeader, preStart, start, timeout, receiveClosed, endHandler,
     signalStartCh
<1>4. \A i \in Server : kv'[i].state = kv[i].state /\ kv'[i].applied = kv[i].applied
  BY <1>1, <1>3, createStartChOK, deleteStartChOK
<1> QED
  BY <1>2, <1>4, StateSame

-----------------------------------------------------------------------------
(* The invariant *)

LEMMA InitInv == Init => Inv
<1> SUFFICES ASSUME Init PROVE Inv
  OBVIOUS
<1>1. TypeInv /\ ChannelInv
  BY InitTypes, InitChannels
<1>2. log = <<>> /\ handlers = {} /\ started = {} /\ Len(log) = 0
  BY DEF Init
<1>3. \A c \in Clerk : clerk[c].requestIndex = 0 /\ ~clerk[c].calling
  BY DEF Init
<1>4. LogFits(clerk, log)
  <2>1. \A n \in 1 .. Len(log) : FALSE
    BY <1>2
  <2>2. \A c \in Clerk : \A r \in 1 .. clerk[c].requestIndex : FALSE
    BY <1>3
  <2> QED
    BY <2>1, <2>2 DEF LogFits, Completed, InOrder, CallsAreNew
<1>5. \A i \in Server : /\ kv[i].state = makeState /\ kv[i].applied = 0
                        /\ snap[i].data = makeState /\ snap[i].index = 0
                        /\ sending[i] = Nil
  BY DEF Init
<1>6. RequestInv
  BY <1>2, <1>3, <1>4, <1>5 DEF RequestInv, OneHeard
<1>7. StatesAreReplays
  BY <1>2, <1>5, makeStateReplays DEF StatesAreReplays
<1> QED
  BY <1>1, <1>6, <1>7 DEF Inv

LEMMA NextInv == Inv /\ [Next]_vars => Inv'
<1> SUFFICES ASSUME Inv, [Next]_vars PROVE Inv'
  OBVIOUS
<1>1. TypeInv /\ ChannelInv /\ RequestInv /\ StatesAreReplays
  BY DEF Inv
<1>2. TypeInv' /\ ChannelInv'
  BY <1>1, TypesNext, ChannelsNext
<1>3. SUFFICES RequestInv' /\ StatesAreReplays'
  BY <1>2 DEF Inv
<1>4. ASSUME UNCHANGED <<log, kv, snap>> PROVE StatesAreReplays'
  BY <1>1, <1>4, StateSame
<1>5. CASE UNCHANGED vars
  <2>1. UNCHANGED <<clerk, handlers, started, log, kv, sending, snap>>
    BY <1>5 DEF vars
  <2> QED
    BY <1>1, <1>4, <2>1, serverStepsRequests
<1>6. ASSUME NEW c \in Clerk, NEW type \in Calls[c], begin(c, type)
      PROVE  RequestInv' /\ StatesAreReplays'
  <2>1. UNCHANGED <<log, kv, snap>>
    BY <1>6 DEF begin
  <2> QED
    BY <1>1, <1>4, <1>6, <2>1, beginRequests
<1>7. ASSUME NEW c \in Clerk, NEW id \in 1 .. Slots, sendCall(c, id)
      PROVE  RequestInv' /\ StatesAreReplays'
  <2>1. UNCHANGED <<log, kv, snap>>
    BY <1>7 DEF sendCall
  <2> QED
    BY <1>1, <1>4, <1>7, <2>1, sendCallRequests
<1>8. ASSUME NEW c \in Clerk, callFails(c)
      PROVE  RequestInv' /\ StatesAreReplays'
  <2>1. UNCHANGED <<log, kv, snap>>
    BY <1>8 DEF callFails
  <2> QED
    BY <1>1, <1>4, <1>8, <2>1, callFailsRequests
<1>9. ASSUME NEW h \in handlers, receiveReply(h)
      PROVE  RequestInv' /\ StatesAreReplays'
  <2>1. UNCHANGED <<log, kv, snap>>
    BY <1>9 DEF receiveReply
  <2> QED
    BY <1>1, <1>4, <1>9, <2>1, receiveReplyRequests
<1>10. ASSUME NEW h \in handlers, handlerSteps(h)
       PROVE  RequestInv' /\ StatesAreReplays'
  BY <1>1, <1>10, handlerStepsRequests, handlerStepsReplays
<1>11. ASSUME NEW s \in started, commit(s)
       PROVE  RequestInv' /\ StatesAreReplays'
  BY <1>1, <1>11, commitRequests, commitReplays
<1>12. ASSUME NEW s \in started, overwritten(s)
       PROVE  RequestInv' /\ StatesAreReplays'
  <2>1. UNCHANGED <<clerk, handlers, log, kv, sending, snap>> /\ started' \subseteq started
    BY <1>12 DEF overwritten
  <2> QED
    BY <1>1, <1>4, <2>1, serverStepsRequests
<1>13. ASSUME NEW i \in Server, NEW j \in Server, raftInstallSnapshot(i, j)
       PROVE  RequestInv' /\ StatesAreReplays'
  <2>1. UNCHANGED <<clerk, handlers, log, started, sending>>
    BY <1>13 DEF raftInstallSnapshot
  <2> QED
    BY <1>1, <1>13, <2>1, serverStepsRequests, snapshotReplays
<1>14. ASSUME NEW i \in Server, NEW isLeader \in BOOLEAN, NEW toSnapshot \in BOOLEAN,
              handleCommandApply(i, isLeader, toSnapshot)
       PROVE  RequestInv' /\ StatesAreReplays'
  BY <1>1, <1>14, handleCommandApplyRequests, handleCommandApplyReplays
<1>15. ASSUME NEW i \in Server, installSnapshot(i)
       PROVE  RequestInv' /\ StatesAreReplays'
  <2>1. UNCHANGED <<clerk, handlers, log, started, sending>>
    BY <1>15 DEF installSnapshot
  <2> QED
    BY <1>1, <1>15, <2>1, serverStepsRequests, snapshotReplays
<1>16. ASSUME NEW i \in Server, StartKVServer(i)
       PROVE  RequestInv' /\ StatesAreReplays'
  <2>1. /\ UNCHANGED <<clerk, log, started>> /\ handlers' \subseteq handlers
        /\ \A j \in Server : sending'[j] = sending[j] \/ sending'[j] = Nil
    BY <1>1, <1>16, StartKVServerDoes
  <2> QED
    BY <1>1, <1>16, <2>1, serverStepsRequests, snapshotReplays
<1>17. CASE Next
  BY <1>6, <1>7, <1>8, <1>9, <1>10, <1>11, <1>12, <1>13, <1>14, <1>15, <1>16, <1>17 DEF Next
<1> QED
  BY <1>5, <1>17

(* StateIsReplay: the store of every server, and of every snapshot, is the log up to the last
   applied entry with every request counted once, however often it was retried. *)
THEOREM ExactlyOnce == Spec => []StateIsReplay
<1>1. Inv => StateIsReplay
  BY DEF Inv, StatesAreReplays, Replayed, StateIsReplay, valueAfter
<1> QED
  BY InitInv, NextInv, <1>1, PTL DEF Spec

-----------------------------------------------------------------------------
(* The store that the clerks see *)

LEMMA InitStore == Init => Store!Init
<1> SUFFICES ASSUME Init PROVE Store!Init
  OBVIOUS
<1>1. log = <<>> /\ Len(log) = 0 /\ \A c \in Clerk : clerk[c].op = Nil /\ clerk[c].result = Nil
  BY DEF Init
<1>2. valueNow = <<>>
  BY <1>1, replayCases DEF valueNow, valueAfter
<1>3. /\ pendingCall = [c \in Clerk |-> Nil] /\ tookEffect = [c \in Clerk |-> FALSE]
      /\ valuesSince = [c \in Clerk |-> {}] /\ lastResult = [c \in Clerk |-> Nil]
  BY <1>1 DEF pendingCall, tookEffect, valuesSince, lastResult
<1> QED
  BY <1>2, <1>3 DEF Store!Init

(* most steps are not seen *)
LEMMA StoreStutters ==
    ASSUME sameCalls, log' = log, \A c \in Clerk : clerk'[c].result = clerk[c].result
    PROVE  UNCHANGED Store!vars
<1>1. valueNow' = valueNow
  BY DEF valueNow, valueAfter
<1>2. pendingCall' = pendingCall
  BY DEF pendingCall, sameCalls
<1>3. tookEffect' = tookEffect
  BY DEF tookEffect, sameCalls, channelOf
<1>4. valuesSince' = valuesSince
  BY DEF valuesSince, valueAfter, sameCalls
<1>5. lastResult' = lastResult
  BY DEF lastResult
<1> QED
  BY <1>1, <1>2, <1>3, <1>4, <1>5 DEF Store!vars

LEMMA beginInvokes ==
    ASSUME Inv, NEW c \in Clerk, NEW type \in Calls[c], begin(c, type)
    PROVE  Store!Invoke(c)
<1> DEFINE w == <<c, clerk[c].requestIndex + 1>>
<1>1. TypeInv /\ RequestInv /\ log' = log
  BY DEF Inv, begin
<1>2. /\ type \in Type /\ type # Nil /\ clerk[c].op = Nil
      /\ clerk' \in [Clerk -> ClerkT]
      /\ \A d \in Clerk : d # c => clerk'[d] = clerk[d]
      /\ clerk'[c].requestIndex = clerk[c].requestIndex + 1
      /\ clerk'[c].op = type /\ clerk'[c].result = Nil
      /\ clerk'[c].since = Len(log)
  BY <1>1, beginDoes
<1>3. w \in Clerk \X (1 .. MaxRequests) /\ clerk[c].requestIndex \in Nat /\ Len(log) \in Nat
  <2>1. clerk'[c] \in ClerkT
    BY <1>2
  <2>2. clerk'[c].requestIndex \in 0 .. MaxRequests
    BY <2>1 DEF ClerkT
  <2> QED
    BY <1>1, <1>2, <2>2, ClerkFacts DEF TypeInv
<1>4. valueNow' = valueNow
  BY <1>1 DEF valueNow, valueAfter
<1>5. pendingCall[c] = Nil /\ pendingCall' = [pendingCall EXCEPT ![c] = [type |-> type, w |-> w]]
  BY <1>2 DEF pendingCall
<1>6. \A n \in 1 .. Len(log) : channelOf(log[n]) # w
  <2> SUFFICES ASSUME NEW n \in 1 .. Len(log), channelOf(log[n]) = w PROVE FALSE
    OBVIOUS
  <2>1. Known(clerk, log[n])
    BY <1>1 DEF RequestInv, LogFits
  <2>2. log[n].ClientId = c /\ log[n].RequestIndex = clerk[c].requestIndex + 1
    BY DEF channelOf
  <2> QED
    BY <1>3, <2>1, <2>2 DEF Known
<1>7. tookEffect' = tookEffect
  <2>1. ~tookEffect[c] /\ ~tookEffect'[c]
    BY <1>1, <1>2, <1>6 DEF tookEffect, channelOf
  <2>2. \A d \in Clerk : d # c => tookEffect'[d] = tookEffect[d]
    BY <1>1, <1>2 DEF tookEffect, channelOf
  <2>3. \A d \in Clerk : tookEffect[d] \in BOOLEAN /\ tookEffect'[d] \in BOOLEAN
    BY DEF tookEffect, channelOf
  <2>4. \A d \in Clerk : tookEffect'[d] = tookEffect[d]
    BY <2>1, <2>2, <2>3
  <2>5. tookEffect = [d \in Clerk |-> tookEffect[d]] /\ tookEffect' = [d \in Clerk |-> tookEffect'[d]]
    BY DEF tookEffect, channelOf
  <2> QED
    BY <2>4, <2>5
<1>8. valuesSince' = [valuesSince EXCEPT ![c] = {valueNow}]
  <2>1. Len(log) .. Len(log) = {Len(log)}
    BY <1>3
  <2>2. {valueAfter[n] : n \in Len(log) .. Len(log)} = {valueNow}
    BY <2>1 DEF valueNow
  <2>3. valueAfter' = valueAfter
    BY <1>1 DEF valueAfter
  <2>4. valuesSince'[c] = {valueNow}
    BY <1>1, <1>2, <2>2, <2>3 DEF valuesSince
  <2>5. \A d \in Clerk : d # c => valuesSince'[d] = valuesSince[d]
    BY <1>1, <1>2, <2>3 DEF valuesSince
  <2>6. DOMAIN valuesSince = Clerk /\ DOMAIN valuesSince' = Clerk
        /\ valuesSince = [d \in Clerk |-> valuesSince[d]]
        /\ valuesSince' = [d \in Clerk |-> valuesSince'[d]]
    BY DEF valuesSince
  <2> QED
    BY <2>4, <2>5, <2>6
<1>9. lastResult' = [lastResult EXCEPT ![c] = Nil]
  BY <1>2 DEF lastResult
<1>10. type \in Store!Type
  BY <1>2 DEF Store!Type, Type
<1> HIDE DEF w
<1> QED
  BY <1>3, <1>4, <1>5, <1>7, <1>8, <1>9, <1>10 DEF Store!Invoke

LEMMA AbstractFunctions ==
    /\ pendingCall = [c \in Clerk |-> pendingCall[c]]
    /\ tookEffect = [c \in Clerk |-> tookEffect[c]]
    /\ valuesSince = [c \in Clerk |-> valuesSince[c]]
    /\ \A c \in Clerk : tookEffect[c] \in BOOLEAN
<1>1. pendingCall = [c \in Clerk |-> pendingCall[c]]
  BY DEF pendingCall
<1>2. /\ tookEffect = [c \in Clerk |-> tookEffect[c]]
      /\ \A c \in Clerk : tookEffect[c] \in BOOLEAN
  BY DEF tookEffect
<1>3. valuesSince = [c \in Clerk |-> valuesSince[c]]
  BY DEF valuesSince
<1> QED
  BY <1>1, <1>2, <1>3

LEMMA pendingCallOK ==
    ASSUME TypeInv, NEW c \in Clerk, clerk[c].op # Nil
    PROVE  pendingCall[c] # Nil /\ pendingCall[c].type = clerk[c].op
<1> DEFINE call == [type |-> clerk[c].op, w |-> <<c, clerk[c].requestIndex>>]
<1>1. clerk[c].op \in Type /\ clerk[c].requestIndex \in 1 .. MaxRequests
  BY ClerkFacts DEF TypeInv, CallsHaveNumbers
<1>2. call \in [type : Type, w : Clerk \X (1 .. MaxRequests)] /\ call.type = clerk[c].op
  BY <1>1
<1>3. pendingCall[c] = call
  BY DEF pendingCall
<1> HIDE DEF call
<1> QED
  BY <1>2, <1>3, NilAssumption

(* the first entry of a request is the effect of the call its clerk is in, any other entry
   changes nothing *)
LEMMA commitTakesEffect ==
    ASSUME Inv, NEW s \in started, commit(s)
    PROVE  Store!Next \/ UNCHANGED Store!vars
<1> DEFINE op == s.op
           c == op.ClientId
           m == Append(log, op)
           N0 == Len(log)
           first == \A k \in 1 .. N0 : channelOf(log[k]) # channelOf(op)
           value == replay(m)[N0 + 1]
<1>1. TypeInv /\ RequestInv
  BY DEF Inv
<1>2. log' = m /\ clerk' = clerk
  BY DEF commit
<1>3. /\ clerk \in [Clerk -> ClerkT] /\ log \in Seq(OpType) /\ op \in OpType /\ c \in Clerk
  BY <1>1, OpFacts DEF TypeInv, Types, StartedT
<1>4. /\ N0 \in Nat /\ Len(m) = N0 + 1 /\ m[N0 + 1] = op
      /\ \A n \in 1 .. N0 : m[n] = log[n]
      /\ \A n \in 1 .. N0 + 1 : n \in 1 .. N0 \/ n = N0 + 1
  BY <1>3, AppendFacts
<1>5. \A n \in 0 .. N0 : replay(m)[n] = replay(log)[n]
  BY <1>3, replayAppend
<1>6. takesEffect(m, N0 + 1) <=> first
  BY <1>4 DEF takesEffect
<1>7. value = IF first THEN written(replay(log)[N0], op) ELSE replay(log)[N0]
  <2>1. value = IF takesEffect(m, N0 + 1) THEN written(replay(m)[N0], m[N0 + 1])
                ELSE replay(m)[N0]
    <3>1. N0 + 1 \in 1 .. Len(m) /\ N0 + 1 - 1 = N0 /\ Len(m) \in Nat
      BY <1>4
    <3> HIDE DEF m, N0
    <3>2. \A n \in 1 .. Len(m) :
             replay(m)[n] = IF takesEffect(m, n) THEN written(replay(m)[n - 1], m[n])
                            ELSE replay(m)[n - 1]
      BY <3>1, replayCases
    <3>3. ASSUME NEW k \in 1 .. Len(m), k = N0 + 1
          PROVE  replay(m)[k] = IF takesEffect(m, k) THEN written(replay(m)[N0], m[k])
                                ELSE replay(m)[N0]
      <4>1. k - 1 = N0
        BY <1>4, <3>3 DEF N0
      <4> QED
        BY <3>2, <4>1
    <3> QED
      BY <3>1, <3>3
  <2> QED
    BY <1>4, <1>5, <1>6, <2>1
<1> HIDE DEF m, first, value, N0
<1>8. valueNow = replay(log)[N0] /\ valueNow' = value
  BY <1>2, <1>4 DEF valueNow, valueAfter, value, N0
<1>9. pendingCall' = pendingCall /\ lastResult' = lastResult
  BY <1>2 DEF pendingCall, lastResult
<1>10. ASSUME NEW d \in Clerk, clerk[d].op # Nil
       PROVE  valuesSince'[d] = valuesSince[d] \cup {value} /\ valueNow \in valuesSince[d]
  <2>1. clerk[d].since \in Nat /\ clerk[d].since <= N0
    BY <1>1, <1>10, ClerkFacts DEF TypeInv, Bounds, N0
  <2> DEFINE a == clerk[d].since
  <2>2. valuesSince[d] = {replay(log)[n] : n \in a .. N0}
    BY <1>10 DEF valuesSince, valueAfter, N0
  <2>3. valuesSince'[d] = {replay(m)[n] : n \in a .. N0 + 1}
    BY <1>2, <1>4, <1>10 DEF valuesSince, valueAfter
  <2>4. a .. N0 + 1 = (a .. N0) \cup {N0 + 1} /\ N0 \in a .. N0
        /\ \A n \in a .. N0 : n \in 0 .. N0
    BY <1>4, <2>1
  <2> HIDE DEF a
  <2>5. {replay(m)[n] : n \in a .. N0 + 1} = {replay(log)[n] : n \in a .. N0} \cup {value}
    BY <1>5, <2>4 DEF value
  <2> QED
    BY <1>8, <2>2, <2>3, <2>4, <2>5
<1>11. \A d \in Clerk : clerk[d].op = Nil => valuesSince'[d] = {} /\ valuesSince[d] = {}
  BY <1>2 DEF valuesSince
<1>12. \A d \in Clerk : pendingCall[d] = Nil <=> clerk[d].op = Nil
  BY <1>1, pendingCallOK DEF pendingCall
<1>13. ASSUME NEW d \in Clerk
       PROVE  tookEffect'[d] <=> \/ tookEffect[d]
                                 \/ /\ clerk[d].op # Nil
                                    /\ channelOf(op) = <<d, clerk[d].requestIndex>>
  <2>1. tookEffect[d] <=> /\ clerk[d].op # Nil
                          /\ \E n \in 1 .. N0 : channelOf(log[n]) = <<d, clerk[d].requestIndex>>
    BY DEF tookEffect, N0
  <2>2. tookEffect'[d] <=> /\ clerk[d].op # Nil
                           /\ \E n \in 1 .. N0 + 1 : channelOf(m[n]) = <<d, clerk[d].requestIndex>>
    BY <1>2, <1>4 DEF tookEffect, channelOf
  <2>3. (\E n \in 1 .. N0 + 1 : channelOf(m[n]) = <<d, clerk[d].requestIndex>>) <=>
           \/ \E n \in 1 .. N0 : channelOf(log[n]) = <<d, clerk[d].requestIndex>>
           \/ channelOf(op) = <<d, clerk[d].requestIndex>>
    <3>1. N0 + 1 \in 1 .. N0 + 1 /\ \A n \in 1 .. N0 : n \in 1 .. N0 + 1
      BY <1>4
    <3> HIDE DEF channelOf
    <3> QED
      BY <1>4, <3>1
  <2> QED
    BY <2>1, <2>2, <2>3
<1>14. CASE ~first
  <2>1. valueNow' = valueNow
    BY <1>7, <1>8, <1>14
  <2>2. valuesSince' = valuesSince
    <3>1. \A d \in Clerk : valuesSince'[d] = valuesSince[d]
      <4> SUFFICES ASSUME NEW d \in Clerk, clerk[d].op # Nil
                   PROVE  valuesSince'[d] = valuesSince[d]
        BY <1>11
      <4>1. valuesSince'[d] = valuesSince[d] \cup {value} /\ valueNow \in valuesSince[d]
        BY <1>10
      <4>2. value = valueNow
        BY <1>8, <2>1
      <4> QED
        BY <4>1, <4>2
    <3>2. valuesSince' = [d \in Clerk |-> valuesSince'[d]]
      BY DEF valuesSince
    <3> QED
      BY <3>1, <3>2, AbstractFunctions
  <2>3. tookEffect' = tookEffect
    <3>1. \A d \in Clerk : tookEffect'[d] <=> tookEffect[d]
      <4> SUFFICES ASSUME NEW d \in Clerk, clerk[d].op # Nil,
                          channelOf(op) = <<d, clerk[d].requestIndex>>
                   PROVE  tookEffect[d]
        BY <1>13
      <4> QED
        BY <1>14 DEF first, tookEffect, N0
    <3>2. tookEffect' = [d \in Clerk |-> tookEffect'[d]]
          /\ \A d \in Clerk : tookEffect'[d] \in BOOLEAN
      BY DEF tookEffect, channelOf
    <3> QED
      BY <3>1, <3>2, AbstractFunctions
  <2> QED
    BY <1>9, <2>1, <2>2, <2>3 DEF Store!vars
<1>15. CASE first
  <2>1. Known(clerk, op) /\ Completed(clerk, log)
    BY <1>1 DEF RequestInv, LogFits
  <2>2. op.RequestIndex \in 1 .. MaxRequests /\ clerk[c].requestIndex \in Nat
    BY <1>1, <1>3, OpFacts, ClerkFacts DEF TypeInv
  <2>3. clerk[c].op # Nil /\ op.RequestIndex = clerk[c].requestIndex
    <3>1. ~inLog(log, Len(log), <<c, op.RequestIndex>>)
      BY <1>15 DEF first, inLog, channelOf, N0
    <3>2. op.RequestIndex \in 1 .. clerk[c].requestIndex
      BY <2>1, <2>2 DEF Known
    <3>3. ~(op.RequestIndex < clerk[c].requestIndex \/ clerk[c].op = Nil)
      BY <1>3, <2>1, <3>1, <3>2 DEF Completed
    <3> QED
      BY <2>2, <3>2, <3>3
  <2>4. op.Type = clerk[c].op /\ channelOf(op) = <<c, clerk[c].requestIndex>>
    BY <2>1, <2>3 DEF Known, ofCall, channelOf
  <2>5. pendingCall[c] # Nil /\ pendingCall[c].type = op.Type /\ pendingCall[c].w = token(op)
    <3>1. pendingCall[c] = [type |-> clerk[c].op, w |-> <<c, clerk[c].requestIndex>>]
      BY <1>3, <2>3 DEF pendingCall
    <3>2. token(op) = <<c, clerk[c].requestIndex>>
      BY <2>4 DEF token, channelOf
    <3>3. pendingCall[c] # Nil
      BY <1>3, <1>12, <2>3
    <3>4. pendingCall[c].type = clerk[c].op /\ pendingCall[c].w = <<c, clerk[c].requestIndex>>
      BY <3>1
    <3> QED
      BY <2>4, <3>2, <3>3, <3>4
  <2>6. ~tookEffect[c] /\ tookEffect'[c]
    <3>1. ~tookEffect[c]
      BY <1>3, <1>15, <2>4 DEF tookEffect, first, N0
    <3> QED
      BY <1>3, <1>13, <2>3, <2>4, <3>1
  <2>7. tookEffect' = [tookEffect EXCEPT ![c] = TRUE]
    <3>1. \A d \in Clerk : d # c => (tookEffect'[d] <=> tookEffect[d])
      BY <1>13, <2>4
    <3>2. tookEffect' = [d \in Clerk |-> tookEffect'[d]]
          /\ \A d \in Clerk : tookEffect'[d] \in BOOLEAN
      BY DEF tookEffect, channelOf
    <3>3. \A d \in Clerk : d # c => tookEffect'[d] = tookEffect[d]
      BY <3>1, <3>2, AbstractFunctions
    <3>4. tookEffect'[c] = TRUE
      BY <1>3, <2>6, <3>2
    <3> QED
      BY <1>3, <3>2, <3>3, <3>4, AbstractFunctions
  <2>8. valueNow' = Store!Written(valueNow, pendingCall[c].type, pendingCall[c].w)
    <3>1. valueNow' = written(valueNow, op)
      BY <1>7, <1>8, <1>15
    <3>2. op.Type \in Type
      BY <1>3, OpFacts
    <3> HIDE DEF op
    <3> QED
      BY <2>5, <3>1, <3>2 DEF written, Store!Written, Type
  <2>9. valuesSince' = [d \in Clerk |-> IF pendingCall[d] = Nil THEN {}
                                        ELSE valuesSince[d] \cup {valueNow'}]
    <3>1. valuesSince' = [d \in Clerk |-> valuesSince'[d]]
      BY DEF valuesSince
    <3>2. \A d \in Clerk : valuesSince'[d] = IF pendingCall[d] = Nil THEN {}
                                             ELSE valuesSince[d] \cup {valueNow'}
      BY <1>8, <1>10, <1>11, <1>12
    <3> QED
      BY <3>1, <3>2
  <2>10. Store!Effect(c)
    BY <1>9, <2>5, <2>6, <2>7, <2>8, <2>9 DEF Store!Effect
  <2> QED
    BY <1>3, <2>10 DEF Store!Next
<1> QED
  BY <1>14, <1>15

LEMMA receiveReplyReturns ==
    ASSUME Inv, NEW h \in handlers, receiveReply(h), succeeded(h.response.Error)
    PROVE  Store!Next
<1> DEFINE c == h.op.ClientId
           value == h.response.Value
<1>1. TypeInv /\ RequestInv /\ log' = log
  BY DEF Inv, receiveReply
<1>2. /\ c \in Clerk /\ h.stage = "reply"
      /\ clerk' \in [Clerk -> ClerkT]
      /\ clerk'[c].op = Nil /\ clerk'[c].result = value
      /\ \A d \in Clerk : d # c => clerk'[d] = clerk[d]
  BY <1>1, receiveReplyDoes
<1>3. /\ Known(clerk, h.op) /\ ofCall(clerk, h.op)
      /\ Truthful(clerk, log, h.op, h.response)
  BY <1>1, <1>2 DEF RequestInv, HandlerFits
<1>4. /\ clerk[c].op # Nil /\ h.op.Type = clerk[c].op
      /\ channelOf(h.op) = <<c, clerk[c].requestIndex>>
  BY <1>3 DEF Known, ofCall, channelOf
<1>5. /\ inLog(log, Len(log), <<c, clerk[c].requestIndex>>)
      /\ IF h.op.Type = "GET"
         THEN \E n \in clerk[c].since .. Len(log) : value = replay(log)[n]
         ELSE value = <<>>
  BY <1>3, <1>4 DEF Truthful
<1> HIDE DEF c, value
<1>6. pendingCall[c] # Nil /\ pendingCall[c].type = clerk[c].op
  BY <1>1, <1>2, <1>4, pendingCallOK
<1>7. tookEffect[c]
  BY <1>2, <1>4, <1>5 DEF tookEffect, inLog
<1>8. value \in IF pendingCall[c].type = "GET" THEN valuesSince[c] ELSE {<<>>}
  <2>1. valuesSince[c] = {replay(log)[n] : n \in clerk[c].since .. Len(log)}
    BY <1>2, <1>4 DEF valuesSince, valueAfter
  <2> QED
    BY <1>4, <1>5, <1>6, <2>1
<1>9. valueNow' = valueNow
  BY <1>1 DEF valueNow, valueAfter
<1>10. pendingCall' = [pendingCall EXCEPT ![c] = Nil]
  BY <1>2 DEF pendingCall
<1>11. lastResult' = [lastResult EXCEPT ![c] = value]
  BY <1>2 DEF lastResult
<1>12. tookEffect' = [tookEffect EXCEPT ![c] = FALSE]
  <2>1. ~tookEffect'[c] /\ \A d \in Clerk : d # c => tookEffect'[d] = tookEffect[d]
    BY <1>1, <1>2 DEF tookEffect, channelOf
  <2>2. tookEffect' = [d \in Clerk |-> tookEffect'[d]]
        /\ \A d \in Clerk : tookEffect'[d] \in BOOLEAN
    BY DEF tookEffect, channelOf
  <2>3. tookEffect'[c] = FALSE
    BY <1>2, <2>1, <2>2
  <2> QED
    BY <1>2, <2>1, <2>2, <2>3, AbstractFunctions
<1>13. valuesSince' = [valuesSince EXCEPT ![c] = {}]
  <2>1. valueAfter' = valueAfter
    BY <1>1 DEF valueAfter
  <2>2. valuesSince'[c] = {} /\ \A d \in Clerk : d # c => valuesSince'[d] = valuesSince[d]
    BY <1>1, <1>2, <2>1 DEF valuesSince
  <2>3. valuesSince' = [d \in Clerk |-> valuesSince'[d]]
    BY DEF valuesSince
  <2> QED
    BY <1>2, <2>2, <2>3, AbstractFunctions
<1>14. Store!Return(c)
  BY <1>6, <1>7, <1>8, <1>9, <1>10, <1>11, <1>12, <1>13 DEF Store!Return
<1> QED
  BY <1>2, <1>14 DEF Store!Next

LEMMA NextStore == Inv /\ [Next]_vars => [Store!Next]_(Store!vars)
<1> SUFFICES ASSUME Inv, [Next]_vars PROVE Store!Next \/ UNCHANGED Store!vars
  OBVIOUS
<1>1. TypeInv /\ Types
  BY DEF Inv, TypeInv
<1>2. ASSUME clerk' = clerk, log' = log PROVE UNCHANGED Store!vars
  BY <1>2, StoreStutters DEF sameCalls
<1>3. CASE UNCHANGED vars
  BY <1>2, <1>3 DEF vars
<1>4. ASSUME NEW c \in Clerk, NEW type \in Calls[c], begin(c, type)
      PROVE  Store!Next \/ UNCHANGED Store!vars
  BY <1>4, beginInvokes DEF Store!Next
<1>5. ASSUME NEW c \in Clerk, NEW id \in 1 .. Slots, sendCall(c, id)
      PROVE  Store!Next \/ UNCHANGED Store!vars
  <2>1. sameCalls /\ \A d \in Clerk : clerk'[d].result = clerk[d].result
    BY <1>1, <1>5, sendCallDoes DEF sameCalls
  <2>2. log' = log
    BY <1>5 DEF sendCall
  <2> QED
    BY <2>1, <2>2, StoreStutters
<1>6. ASSUME NEW c \in Clerk, clerk' = retry(c), log' = log PROVE UNCHANGED Store!vars
  BY <1>1, <1>6, retryOK, StoreStutters DEF sameCalls
<1>7. ASSUME NEW c \in Clerk, callFails(c) PROVE Store!Next \/ UNCHANGED Store!vars
  BY <1>6, <1>7 DEF callFails
<1>8. ASSUME NEW h \in handlers, receiveReply(h) PROVE Store!Next \/ UNCHANGED Store!vars
  <2>1. CASE succeeded(h.response.Error)
    BY <1>8, <2>1, receiveReplyReturns
  <2>2. CASE ~succeeded(h.response.Error)
    <3>1. h.op.ClientId \in Clerk /\ clerk' = retry(h.op.ClientId)
      BY <1>1, <1>8, <2>2, receiveReplyDoes
    <3>2. log' = log
      BY <1>8 DEF receiveReply
    <3> QED
      BY <1>6, <3>1, <3>2
  <2> QED
    BY <2>1, <2>2
<1>9. ASSUME NEW h \in handlers, handlerSteps(h) PROVE UNCHANGED Store!vars
  <2>1. clerk' = clerk /\ log' = log
    BY <1>9 DEF handlerSteps, wrongLeader, preStart, start, timeout, receiveClosed,
       endHandler, signalStartCh
  <2> QED
    BY <1>2, <2>1
<1>10. ASSUME NEW s \in started, commit(s) PROVE Store!Next \/ UNCHANGED Store!vars
  BY <1>10, commitTakesEffect
<1>11. ASSUME NEW s \in started, overwritten(s) PROVE UNCHANGED Store!vars
  BY <1>2, <1>11 DEF overwritten
<1>12. ASSUME NEW i \in Server, NEW j \in Server, raftInstallSnapshot(i, j)
       PROVE  UNCHANGED Store!vars
  BY <1>2, <1>12 DEF raftInstallSnapshot
<1>13. ASSUME NEW i \in Server, NEW isLeader \in BOOLEAN, NEW toSnapshot \in BOOLEAN,
              handleCommandApply(i, isLeader, toSnapshot)
       PROVE  UNCHANGED Store!vars
  BY <1>2, <1>13 DEF handleCommandApply
<1>14. ASSUME NEW i \in Server, installSnapshot(i) \/ StartKVServer(i)
       PROVE  UNCHANGED Store!vars
  BY <1>2, <1>14 DEF installSnapshot, StartKVServer
<1>15. CASE Next
  BY <1>4, <1>5, <1>7, <1>8, <1>9, <1>10, <1>11, <1>12, <1>13, <1>14, <1>15 DEF Next
<1> QED
  BY <1>3, <1>15

(* Linearizable: whatever calls are lost, repeated at other servers or answered late, and
   whichever servers restart, the clerks see one store on which every write happens once
   between its call and its return, and a Get reads a value of that time. *)
THEOREM ImplementsKVStore == Spec => Linearizable
  BY InitInv, NextInv, InitStore, NextStore, PTL DEF Spec, Linearizable, Store!Spec
=============================================================================
