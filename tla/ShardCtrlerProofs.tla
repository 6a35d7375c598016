-------------------------- MODULE ShardCtrlerProofs --------------------------
(***************************************************************************)
(* The controllers of ShardCtrler, for any number of them, of clerks,      *)
(* groups and shards and every bound: a controller that missed no snapshot *)
(* has the configurations of the log, a Query returns one of the time of   *)
(* its call, and every configuration is one that Join and Leave rebalance. *)
(*                                                                         *)
(* The argument is the one of KVStoreProofs: requests of a clerk enter the *)
(* log in order, so that isDuplicateOp finds exactly the entries whose     *)
(* request was in the log before.                                          *)
(***************************************************************************)
EXTENDS ShardCtrler, ShardConfigProofs

(* Types *)

Entry == [op : Op, ServerId : Server]
State == [Configs : Seq(Config), ClientLastRequest : [Clerk -> Int]]
Controller == [state : State, applied : Nat, missed : BOOLEAN]
Snapshot == [index : Nat, state : State, missed : BOOLEAN]
Answer == [op : Op, config : Config \cup {Nil}, missed : BOOLEAN]
ClerkType == [requestIndex : Nat, op : Op \cup {Nil}, server : Server \cup {Nil},
              answer : Answer \cup {Nil}, since : Nat]

StateOK(state) == state \in State /\ Len(state.Configs) > 0

-----------------------------------------------------------------------------
(* Requests.  cl stands for clerk and l for log, before or after a step. *)

(* an entry of the log up to n is of this request *)
inLog(l, n, request_) == \E k \in 1 .. n : key(l[k].op) = request_

(* an operation is of the last request of its clerk or of one before *)
Known(cl, op) == op.RequestIndex < cl[op.ClientId].requestIndex

(* what has been answered is in the log *)
Completed(cl, l) ==
    \A c \in Clerk : \A r \in 0 .. cl[c].requestIndex - 1 :
       r < cl[c].requestIndex - 1 \/ cl[c].op = Nil => inLog(l, Len(l), <<c, r>>)

(* before an entry are entries of all earlier requests of its clerk *)
InOrder(l) ==
    \A n \in 1 .. Len(l) : \A r \in 0 .. l[n].op.RequestIndex - 1 :
       inLog(l, n - 1, <<l[n].op.ClientId, r>>)

(* the call a clerk is in came to the log after it began *)
CallsAreNew(cl, l) ==
    \A n \in 1 .. Len(l) : cl[l[n].op.ClientId].op = l[n].op => n > cl[l[n].op.ClientId].since

RequestsFit(cl, l) ==
    /\ \A n \in 1 .. Len(l) : Known(cl, l[n].op)
    /\ Completed(cl, l) /\ InOrder(l) /\ CallsAreNew(cl, l)

-----------------------------------------------------------------------------
(* States *)

(* last is the table of last requests after n entries of l *)
LastRequests(last, l, n) ==
    \A c \in Clerk :
       /\ last[c] = -1 \/ inLog(l, n, <<c, last[c]>>)
       /\ \A k \in 1 .. n : l[k].op.ClientId = c => l[k].op.RequestIndex <= last[c]

(* state is what the first n entries of l make *)
Replayed(state, l, n) ==
    /\ state.Configs = replay(l)[n]
    /\ LastRequests(state.ClientLastRequest, l, n)

(* x is a controller, or what it saves *)
ControllerFits(x, l) ==
    /\ x.applied <= Len(l) /\ StateOK(x.state)
    /\ ~x.missed => Replayed(x.state, l, x.applied)

SnapshotFits(x, l) ==
    /\ x.index <= Len(l) /\ StateOK(x.state)
    /\ ~x.missed => Replayed(x.state, l, x.index)

ServersInv ==
    /\ sc \in [Server -> Controller] /\ snap \in [Server -> Snapshot]
    /\ \A i \in Server : ControllerFits(sc[i], log) /\ SnapshotFits(snap[i], log)

-----------------------------------------------------------------------------
(* Clerks *)

(* the configuration that a Query for num has to return *)
asked(configs, num) ==
    IF num \in 0 .. Len(configs) - 1 THEN configs[num + 1] ELSE configs[Len(configs)]

(* the answer to a Query is of the time of the call; x is a clerk *)
AnswerFits(x, l) ==
    LET a == x.answer IN
    a # Nil /\ ~a.missed /\ a.op.Type = "QUERY" =>
       \E n \in x.since .. Len(l) : a.config = asked(replay(l)[n], a.op.Num)

(* the request clerk c is in is its last *)
ClerkFits(x, l, c) ==
    /\ x.since <= Len(l)
    /\ x.op # Nil => x.op.ClientId = c /\ x.op.RequestIndex = x.requestIndex - 1
    /\ AnswerFits(x, l)

ClerksInv ==
    /\ clerk \in [Clerk -> ClerkType] /\ started \subseteq Entry /\ log \in Seq(Entry)
    /\ \A c \in Clerk : ClerkFits(clerk[c], log, c)
    /\ RequestsFit(clerk, log)
    /\ \A s \in started : Known(clerk, s.op)

Inv == ServersInv /\ ClerksInv

-----------------------------------------------------------------------------
(* The operators *)

LEMMA OpFacts ==
    ASSUME NEW op \in Op
    PROVE  /\ op.ClientId \in Clerk /\ op.RequestIndex \in Nat
           /\ op.Type = "QUERY" \/ IsChange(op)
           /\ op.Type = "QUERY" => op.Num \in Int
  BY DEF Op, IsChange

LEMMA NoConfigs == <<>> \in Seq(Config)
  OBVIOUS

LEMMA nextConfigsType ==
    ASSUME NEW config \in Config, NEW op \in Op
    PROVE  nextConfigs(config, op) \in Seq(Config)
<1>1. CASE op.Type = "QUERY"
  <2>1. nextConfigs(config, op) = <<>>
    BY <1>1 DEF nextConfigs
  <2> QED
    BY <2>1, NoConfigs, Zenon
<1>2. CASE op.Type # "QUERY"
  <2>1. IsChange(op)
    BY <1>2, OpFacts
  <2>2. PICK c \in Config : nextConfigs(config, op) = <<c>>
    BY <2>1, nextConfigsFit
  <2> QED
    BY <2>2
<1> QED
  BY <1>1, <1>2

LEMMA makeStateOK ==
    /\ StateOK(makeState) /\ makeState.Configs = <<initialConfig>>
    /\ makeState.ClientLastRequest = [c \in Clerk |-> -1]
<1>1. <<initialConfig>> \in Seq(Config)
  BY initialConfigOK
<1> QED
  BY <1>1 DEF makeState, StateOK, State

LEMMA LatestConfigOK ==
    ASSUME NEW state, StateOK(state)
    PROVE  getLatestConfig(state) \in Config
<1>1. state.Configs \in Seq(Config) /\ Len(state.Configs) \in Nat \ {0}
  BY DEF StateOK, State
<1> QED
  BY <1>1 DEF getLatestConfig

(* What handleCommandApply makes of a state is a state again. *)
LEMMA applyOpOK ==
    ASSUME NEW state, StateOK(state), NEW op \in Op
    PROVE  LET new == applyOp(state, op) IN
           /\ StateOK(new)
           /\ isDuplicateOp(state, op) => new = state
           /\ ~isDuplicateOp(state, op) =>
                 /\ new.Configs = state.Configs \o nextConfigs(getLatestConfig(state), op)
                 /\ new.ClientLastRequest =
                       [state.ClientLastRequest EXCEPT ![op.ClientId] = op.RequestIndex]
<1>0. /\ state.Configs \in Seq(Config) /\ Len(state.Configs) > 0
      /\ state.ClientLastRequest \in [Clerk -> Int]
  BY DEF StateOK, State
<1>1. CASE isDuplicateOp(state, op)
  BY <1>1 DEF applyOp
<1>2. CASE ~isDuplicateOp(state, op)
  <2> DEFINE more == nextConfigs(getLatestConfig(state), op)
             configs == state.Configs \o more
             last == [state.ClientLastRequest EXCEPT ![op.ClientId] = op.RequestIndex]
  <2>1. more \in Seq(Config)
    BY LatestConfigOK, nextConfigsType
  <2>2. applyOp(state, op) = [Configs |-> configs, ClientLastRequest |-> last]
    BY <1>2 DEF applyOp
  <2> HIDE DEF more
  <2>3. configs \in Seq(Config) /\ Len(configs) > 0
    BY <1>0, <2>1
  <2>4. last \in [Clerk -> Int]
    BY <1>0, OpFacts
  <2> HIDE DEF configs, last
  <2>5. StateOK([Configs |-> configs, ClientLastRequest |-> last])
    BY <2>3, <2>4 DEF StateOK, State
  <2> QED
    BY <1>2, <2>2, <2>5 DEF configs, last, more
<1> QED
  BY <1>1, <1>2

(* A Query gets the configuration with the number it asks for, or the latest. *)
LEMMA getValueOK ==
    ASSUME NEW state, StateOK(state), NEW op \in Op, op.Type = "QUERY"
    PROVE  /\ getValue(state, op) = asked(state.Configs, op.Num)
           /\ getValue(state, op) \in Config
<1>1. state.Configs \in Seq(Config) /\ Len(state.Configs) \in Nat \ {0} /\ op.Num \in Int
  BY OpFacts DEF StateOK, State
<1>2. op.Num \in 0 .. Len(state.Configs) - 1 <=> ~ (op.Num < 0 \/ op.Num >= Len(state.Configs))
  BY <1>1
<1>3. getValue(state, op) = asked(state.Configs, op.Num)
  BY <1>2 DEF getValue, asked, getLatestConfig
<1>4. asked(state.Configs, op.Num) \in Config
  BY <1>1 DEF asked
<1> QED
  BY <1>3, <1>4

-----------------------------------------------------------------------------
(* replay, by induction over the log *)

replayStep(l, v, n) ==
    IF n = 0 THEN <<initialConfig>>
    ELSE IF takesEffect(l, n) THEN v[n - 1] \o nextConfigs(v[n - 1][Len(v[n - 1])], l[n].op)
         ELSE v[n - 1]

(* There is a function that satisfies the recursion, so replay does. *)
LEMMA replayDef ==
    ASSUME NEW l, Len(l) \in Nat
    PROVE  replay(l) = [n \in 0 .. Len(l) |-> replayStep(l, replay(l), n)]
<1> DEFINE S == {m \in Nat : \E f : f = [n \in 0 .. m |-> replayStep(l, f, n)]}
<1>1. 0 \in S
  <2> DEFINE f == [n \in 0 .. 0 |-> <<initialConfig>>]
  <2>1. f = [n \in 0 .. 0 |-> replayStep(l, f, n)]
    BY DEF replayStep
  <2> QED
    BY <2>1
<1>2. ASSUME NEW m \in 0 .. Len(l) - 1, m \in S PROVE m + 1 \in S
  <2>1. PICK f : f = [n \in 0 .. m |-> replayStep(l, f, n)]
    BY <1>2
  <2> DEFINE g == [n \in 0 .. m + 1 |-> replayStep(l, f, n)]
  <2>2. ASSUME NEW n \in 0 .. m + 1 PROVE replayStep(l, f, n) = replayStep(l, g, n)
    <3>1. CASE n = 0
      BY <3>1 DEF replayStep
    <3>2. CASE n # 0
      <4>1. n - 1 \in 0 .. m /\ n - 1 \in 0 .. m + 1
        BY <3>2
      <4>2. f[n - 1] = g[n - 1]
        BY <2>1, <4>1
      <4> QED
        BY <4>2 DEF replayStep
    <3> QED
      BY <3>1, <3>2
  <2>3. g = [n \in 0 .. m + 1 |-> replayStep(l, g, n)]
    BY <2>2
  <2> HIDE DEF g
  <2> QED
    BY <2>3
<1>3. Len(l) \in S
  <2> HIDE DEF S
  <2>1. \A n \in 0 .. Len(l) : n \in S
    BY <1>1, <1>2, InductionUpTo
  <2> QED
    BY <2>1
<1>4. PICK f : f = [n \in 0 .. Len(l) |-> replayStep(l, f, n)]
  BY <1>3
<1>5. makeState.Configs = <<initialConfig>>
  BY makeStateOK
<1>6. replay(l) = CHOOSE v : v = [n \in 0 .. Len(l) |-> replayStep(l, v, n)]
  BY <1>5, Zenon DEF replay, replayStep
<1> QED
  BY <1>4, <1>6, Zenon

LEMMA replayCases ==
    ASSUME NEW l, Len(l) \in Nat
    PROVE  /\ replay(l)[0] = <<initialConfig>>
           /\ \A n \in 1 .. Len(l) :
                 replay(l)[n] = LET before == replay(l)[n - 1] IN
                                IF takesEffect(l, n)
                                THEN before \o nextConfigs(before[Len(before)], l[n].op)
                                ELSE before
<1> DEFINE v == replay(l)
<1>1. v = [n \in 0 .. Len(l) |-> replayStep(l, v, n)]
  BY replayDef
<1> HIDE DEF v
<1>2. \A n \in 0 .. Len(l) : v[n] = replayStep(l, v, n)
  BY <1>1
<1>3. v[0] = <<initialConfig>>
  BY <1>2 DEF replayStep
<1>4. ASSUME NEW n \in 1 .. Len(l)
      PROVE  v[n] = IF takesEffect(l, n)
                    THEN v[n - 1] \o nextConfigs(v[n - 1][Len(v[n - 1])], l[n].op)
                    ELSE v[n - 1]
  <2>1. n \in 0 .. Len(l) /\ n # 0
    OBVIOUS
  <2> QED
    BY <1>2, <2>1, Zenon DEF replayStep
<1> QED
  BY <1>3, <1>4, Zenon DEF v

LEMMA AppendFacts ==
    ASSUME NEW l \in Seq(Entry), NEW e \in Entry
    PROVE  /\ Append(l, e) \in Seq(Entry)
           /\ Len(l) \in Nat /\ Len(Append(l, e)) = Len(l) + 1
           /\ \A n \in 1 .. Len(l) : Append(l, e)[n] = l[n] /\ l[n] \in Entry
           /\ Append(l, e)[Len(l) + 1] = e
  OBVIOUS

(* What a prefix of the log makes does not depend on what follows. *)
LEMMA replayAppend ==
    ASSUME NEW l \in Seq(Entry), NEW e \in Entry
    PROVE  \A n \in 0 .. Len(l) : replay(Append(l, e))[n] = replay(l)[n]
<1> DEFINE m == Append(l, e)
           v == replay(l)
           w == replay(m)
           S == {n \in Nat : w[n] = v[n]}
<1>0. /\ Len(l) \in Nat /\ Len(m) = Len(l) + 1
      /\ \A n \in 1 .. Len(l) : m[n] = l[n]
  BY AppendFacts
<1> HIDE DEF m
<1>1. 0 \in S
  <2>1. Len(m) \in Nat
    BY <1>0
  <2>2. v[0] = <<initialConfig>> /\ w[0] = <<initialConfig>>
    BY <1>0, <2>1, replayCases, Zenon
  <2> HIDE DEF v, w
  <2> QED
    BY <2>2
<1>2. ASSUME NEW n \in 0 .. Len(l) - 1, n \in S PROVE n + 1 \in S
  <2> DEFINE j == n + 1
  <2>1. /\ j \in 1 .. Len(l) /\ j \in 1 .. Len(m) /\ j - 1 = n /\ j \in Nat
        /\ \A k \in 1 .. j - 1 : k \in 1 .. Len(l)
    BY <1>0
  <2> HIDE DEF j
  <2>2. takesEffect(m, j) <=> takesEffect(l, j)
    BY <1>0, <2>1 DEF takesEffect
  <2>3. w[j] = IF takesEffect(m, j) THEN w[j - 1] \o nextConfigs(w[j - 1][Len(w[j - 1])], m[j].op)
               ELSE w[j - 1]
    BY <1>0, <2>1, replayCases
  <2>4. v[j] = IF takesEffect(l, j) THEN v[j - 1] \o nextConfigs(v[j - 1][Len(v[j - 1])], l[j].op)
               ELSE v[j - 1]
    BY <1>0, <2>1, replayCases
  <2>5. w[j - 1] = v[j - 1] /\ m[j] = l[j]
    BY <1>0, <1>2, <2>1
  <2> HIDE DEF v, w
  <2>6. w[j] = v[j]
    BY <2>2, <2>3, <2>4, <2>5, Zenon
  <2> QED
    BY <2>1, <2>6 DEF j
<1>3. \A n \in 0 .. Len(l) : n \in S
  <2> HIDE DEF S
  <2> QED
    BY <1>0, <1>1, <1>2, InductionUpTo
<1> QED
  BY <1>3 DEF m

-----------------------------------------------------------------------------
(* Duplicates *)

LEMMA EntryFacts ==
    ASSUME NEW l \in Seq(Entry)
    PROVE  /\ Len(l) \in Nat
           /\ \A k \in 1 .. Len(l) :
                 /\ l[k] \in Entry /\ l[k].op \in Op
                 /\ l[k].op.ClientId \in Clerk /\ l[k].op.RequestIndex \in Nat
<1>1. \A k \in 1 .. Len(l) : l[k] \in Entry
  OBVIOUS
<1> QED
  BY <1>1, OpFacts DEF Entry

(* Comparing numbers finds the duplicates. *)
LEMMA DuplicatesAreFound ==
    ASSUME NEW l \in Seq(Entry), InOrder(l), NEW n \in 1 .. Len(l),
           NEW state, StateOK(state), LastRequests(state.ClientLastRequest, l, n - 1)
    PROVE  takesEffect(l, n) <=> ~isDuplicateOp(state, l[n].op)
<1> DEFINE op == l[n].op
           c == op.ClientId
           last == state.ClientLastRequest[c]
<1>1. /\ n \in Nat /\ Len(l) \in Nat
      /\ op \in Op /\ c \in Clerk /\ op.RequestIndex \in Nat /\ last \in Int
  BY EntryFacts DEF StateOK, State
<1>2. /\ last = -1 \/ inLog(l, n - 1, <<c, last>>)
      /\ \A k \in 1 .. n - 1 : l[k].op.ClientId = c => l[k].op.RequestIndex <= last
  BY <1>1 DEF LastRequests
<1>3. isDuplicateOp(state, op) <=> op.RequestIndex <= last
  BY DEF isDuplicateOp
<1>4. ASSUME op.RequestIndex <= last PROVE ~takesEffect(l, n)
  <2>1. PICK k \in 1 .. n - 1 : key(l[k].op) = <<c, last>>
    BY <1>1, <1>2, <1>4 DEF inLog
  <2>2. k \in 1 .. Len(l) /\ l[k].op.ClientId = c /\ l[k].op.RequestIndex = last
    BY <1>1, <2>1 DEF key
  <2>3. CASE op.RequestIndex = last
    BY <2>1, <2>3 DEF takesEffect, key
  <2>4. CASE op.RequestIndex < last
    <3>1. op.RequestIndex \in 0 .. l[k].op.RequestIndex - 1
      BY <1>1, <2>2, <2>4
    <3>2. inLog(l, k - 1, <<c, op.RequestIndex>>)
      BY <2>2, <3>1 DEF InOrder
    <3>3. PICK j \in 1 .. k - 1 : key(l[j].op) = <<c, op.RequestIndex>>
      BY <3>2 DEF inLog
    <3>4. j \in 1 .. n - 1
      BY <1>1, <2>1, <3>3
    <3> QED
      BY <3>3, <3>4 DEF takesEffect, key
  <2> QED
    BY <1>1, <1>4, <2>3, <2>4
<1>5. ASSUME ~takesEffect(l, n) PROVE op.RequestIndex <= last
  <2>1. PICK k \in 1 .. n - 1 : key(l[k].op) = key(op)
    BY <1>5 DEF takesEffect
  <2>2. l[k].op.ClientId = c /\ l[k].op.RequestIndex = op.RequestIndex
    BY <2>1 DEF key
  <2> QED
    BY <1>2, <2>2
<1> QED
  BY <1>3, <1>4, <1>5

(* A state that the log up to n - 1 makes becomes the one the log up to n makes. *)
LEMMA applyOpReplays ==
    ASSUME NEW l \in Seq(Entry), InOrder(l), NEW n \in 1 .. Len(l),
           NEW state, StateOK(state), Replayed(state, l, n - 1)
    PROVE  Replayed(applyOp(state, l[n].op), l, n)
<1> DEFINE op == l[n].op
           new == applyOp(state, op)
           last == state.ClientLastRequest
<1>0. /\ n \in Nat /\ Len(l) \in Nat
      /\ op \in Op /\ op.ClientId \in Clerk /\ op.RequestIndex \in Nat
      /\ \A k \in 1 .. n : k \in 1 .. n - 1 \/ k = n
      /\ \A k \in 1 .. n - 1 : k \in 1 .. n /\ l[k].op.RequestIndex \in Nat
  BY EntryFacts
<1>2. last \in [Clerk -> Int]
  BY DEF StateOK, State
<1>3. LastRequests(last, l, n - 1) /\ state.Configs = replay(l)[n - 1]
  BY DEF Replayed
<1>4. takesEffect(l, n) <=> ~isDuplicateOp(state, op)
  BY <1>3, DuplicatesAreFound
<1>5. replay(l)[n] = IF takesEffect(l, n)
                     THEN state.Configs \o nextConfigs(getLatestConfig(state), op)
                     ELSE state.Configs
  BY <1>0, <1>3, replayCases, Zenon DEF getLatestConfig
<1>a. /\ isDuplicateOp(state, op) => new = state
      /\ ~isDuplicateOp(state, op) =>
            /\ new.Configs = state.Configs \o nextConfigs(getLatestConfig(state), op)
            /\ new.ClientLastRequest = [last EXCEPT ![op.ClientId] = op.RequestIndex]
  BY <1>0, applyOpOK
<1> HIDE DEF new
<1>6. new.Configs = replay(l)[n]
  BY <1>4, <1>5, <1>a
<1>7. ASSUME NEW c \in Clerk
      PROVE  /\ new.ClientLastRequest[c] = -1
                \/ inLog(l, n, <<c, new.ClientLastRequest[c]>>)
             /\ \A k \in 1 .. n :
                   l[k].op.ClientId = c => l[k].op.RequestIndex <= new.ClientLastRequest[c]
  <2> DEFINE r == new.ClientLastRequest[c]
  <2>1. /\ last[c] = -1 \/ inLog(l, n - 1, <<c, last[c]>>)
        /\ \A k \in 1 .. n - 1 : l[k].op.ClientId = c => l[k].op.RequestIndex <= last[c]
        /\ last[c] \in Int
    BY <1>2, <1>3, <1>7 DEF LastRequests
  <2>2. CASE isDuplicateOp(state, op) \/ op.ClientId # c
    <3>1. r = last[c]
      BY <1>2, <1>a, <2>2
    <3>2. op.ClientId = c => op.RequestIndex <= last[c]
      BY <2>2 DEF isDuplicateOp
    <3> HIDE DEF r
    <3>3. r = -1 \/ inLog(l, n, <<c, r>>)
      BY <1>0, <2>1, <3>1 DEF inLog
    <3>4. \A k \in 1 .. n : l[k].op.ClientId = c => l[k].op.RequestIndex <= r
      BY <1>0, <2>1, <3>1, <3>2
    <3> QED
      BY <3>3, <3>4 DEF r
  <2>3. CASE ~isDuplicateOp(state, op) /\ op.ClientId = c
    <3>1. r = op.RequestIndex
      BY <1>2, <1>a, <2>3
    <3>2. op.RequestIndex > last[c]
      BY <1>0, <2>1, <2>3 DEF isDuplicateOp
    <3>3. key(l[n].op) = <<c, op.RequestIndex>> /\ n \in 1 .. n
      BY <1>0, <2>3 DEF key
    <3> HIDE DEF r
    <3>4. inLog(l, n, <<c, r>>)
      BY <3>1, <3>3 DEF inLog
    <3>6. \A k \in 1 .. n : l[k].op.ClientId = c => l[k].op.RequestIndex <= r
      <4> SUFFICES ASSUME NEW k \in 1 .. n, l[k].op.ClientId = c
                   PROVE  l[k].op.RequestIndex <= r
        OBVIOUS
      <4>1. CASE k = n
        BY <1>0, <3>1, <4>1
      <4>2. CASE k \in 1 .. n - 1
        BY <1>0, <2>1, <3>1, <3>2, <4>2
      <4> QED
        BY <1>0, <4>1, <4>2
    <3> QED
      BY <3>4, <3>6 DEF r
  <2> QED
    BY <2>2, <2>3
<1> QED
  BY <1>6, <1>7 DEF Replayed, LastRequests, new

(* More entries leave a prefix as it is. *)
LEMMA inLogAppend ==
    ASSUME NEW l \in Seq(Entry), NEW e \in Entry, NEW n \in 0 .. Len(l), NEW r
    PROVE  inLog(Append(l, e), n, r) <=> inLog(l, n, r)
<1>1. \A k \in 1 .. n : Append(l, e)[k] = l[k]
  BY AppendFacts
<1> QED
  BY <1>1 DEF inLog

LEMMA ReplayedAppend ==
    ASSUME NEW l \in Seq(Entry), NEW e \in Entry, NEW n \in 0 .. Len(l),
           NEW state, Replayed(state, l, n)
    PROVE  Replayed(state, Append(l, e), n)
<1> DEFINE m == Append(l, e)
<1>1. replay(m)[n] = replay(l)[n]
  BY replayAppend
<1>2. \A k \in 1 .. n : m[k] = l[k]
  BY AppendFacts
<1>3. \A r : inLog(m, n, r) <=> inLog(l, n, r)
  BY inLogAppend
<1> HIDE DEF m
<1> QED
  BY <1>1, <1>2, <1>3 DEF Replayed, LastRequests, m

-----------------------------------------------------------------------------
(* What a step does to the controllers *)

LEMMA ServerFacts ==
    ASSUME ServersInv, NEW i \in Server
    PROVE  /\ sc[i] \in Controller /\ ControllerFits(sc[i], log)
           /\ snap[i] \in Snapshot /\ SnapshotFits(snap[i], log)
           /\ sc[i].applied \in Nat /\ snap[i].index \in Nat
           /\ StateOK(sc[i].state) /\ sc[i].state \in State
           /\ StateOK(snap[i].state) /\ snap[i].state \in State
           /\ sc[i].missed \in BOOLEAN /\ snap[i].missed \in BOOLEAN
  BY DEF ServersInv, ControllerFits, SnapshotFits, Controller, Snapshot

LEMMA LogGrowsServers ==
    ASSUME ServersInv, log \in Seq(Entry), NEW e \in Entry, log' = Append(log, e),
           UNCHANGED <<sc, snap>>
    PROVE  ServersInv'
<1>1. Len(log) \in Nat /\ Len(log') = Len(log) + 1
  BY AppendFacts
<1>2. ASSUME NEW i \in Server
      PROVE  ControllerFits(sc[i], log') /\ SnapshotFits(snap[i], log')
  <2>1. /\ ControllerFits(sc[i], log) /\ SnapshotFits(snap[i], log)
        /\ sc[i].applied \in Nat /\ snap[i].index \in Nat
    BY <1>2, ServerFacts
  <2>2. sc[i].applied \in 0 .. Len(log) /\ snap[i].index \in 0 .. Len(log)
    BY <1>1, <2>1 DEF ControllerFits, SnapshotFits
  <2>3. /\ ~sc[i].missed => Replayed(sc[i].state, log', sc[i].applied)
        /\ ~snap[i].missed => Replayed(snap[i].state, log', snap[i].index)
    BY <2>1, <2>2, ReplayedAppend DEF ControllerFits, SnapshotFits
  <2> QED
    BY <1>1, <2>1, <2>2, <2>3 DEF ControllerFits, SnapshotFits
<1> QED
  BY <1>2 DEF ServersInv

LEMMA raftInstallSnapshotServers ==
    ASSUME ServersInv, NEW i \in Server, NEW j \in Server, raftInstallSnapshot(i, j)
    PROVE  ServersInv'
  BY DEF ServersInv, raftInstallSnapshot

LEMMA handleSnapshotApplyServers ==
    ASSUME ServersInv, NEW i \in Server, handleSnapshotApply(i)
    PROVE  ServersInv'
<1> DEFINE x == [sc[i] EXCEPT !.applied = snap[i].index, !.missed = TRUE]
<1>1. sc' = [sc EXCEPT ![i] = x] /\ UNCHANGED <<log, snap>>
  BY DEF handleSnapshotApply
<1>2. x \in Controller /\ x.applied = snap[i].index /\ x.missed /\ x.state = sc[i].state
  BY ServerFacts DEF Controller
<1> HIDE DEF x
<1>3. ControllerFits(x, log)
  BY <1>2, ServerFacts DEF ControllerFits, SnapshotFits
<1> QED
  BY <1>1, <1>2, <1>3 DEF ServersInv

LEMMA StartServerServers ==
    ASSUME ServersInv, NEW i \in Server, StartServer(i)
    PROVE  ServersInv'
<1> DEFINE x == installSnapshot(i)
<1>1. sc' = [sc EXCEPT ![i] = x] /\ UNCHANGED <<log, snap>>
  BY DEF StartServer
<1>2. /\ x \in Controller /\ x.applied = snap[i].index /\ x.missed = snap[i].missed
      /\ x.state = snap[i].state
  BY ServerFacts DEF Controller, installSnapshot
<1> HIDE DEF x
<1>3. ControllerFits(x, log)
  BY <1>2, ServerFacts DEF ControllerFits, SnapshotFits
<1> QED
  BY <1>1, <1>2, <1>3 DEF ServersInv

(* An entry is applied: the state follows the log, and so does the snapshot. *)
LEMMA handleCommandApplyServers ==
    ASSUME ServersInv, log \in Seq(Entry), InOrder(log),
           NEW i \in Server, NEW answered \in BOOLEAN, handleCommandApply(i, answered)
    PROVE  LET n == sc[i].applied + 1
               state == applyOp(sc[i].state, log[n].op)
           IN
           /\ n \in 1 .. Len(log) /\ StateOK(state)
           /\ ~sc[i].missed => Replayed(state, log, n)
           /\ ServersInv'
<1> DEFINE n == sc[i].applied + 1
           state == applyOp(sc[i].state, log[n].op)
           x == [sc[i] EXCEPT !.state = state, !.applied = n]
           y == [index |-> n, state |-> state, missed |-> sc[i].missed]
<1>1. /\ n <= Len(log) /\ UNCHANGED log
      /\ sc' = [sc EXCEPT ![i] = x]
      /\ snap' = [snap EXCEPT ![i] = y] \/ snap' = snap
  BY DEF handleCommandApply
<1>2. /\ Len(log) \in Nat /\ n \in 1 .. Len(log) /\ n - 1 = sc[i].applied
      /\ log[n].op \in Op
  <2>1. sc[i].applied \in Nat /\ Len(log) \in Nat
    BY ServerFacts, EntryFacts
  <2>2. n \in 1 .. Len(log) /\ n - 1 = sc[i].applied
    BY <1>1, <2>1
  <2> QED
    BY <2>1, <2>2, EntryFacts
<1>3. /\ StateOK(sc[i].state) /\ sc[i] \in Controller /\ sc[i].missed \in BOOLEAN
      /\ ~sc[i].missed => Replayed(sc[i].state, log, sc[i].applied)
  BY ServerFacts DEF ControllerFits
<1>4. StateOK(state) /\ state \in State
  BY <1>2, <1>3, applyOpOK DEF StateOK
<1> HIDE DEF n
<1>5. ~sc[i].missed => Replayed(state, log, n)
  BY <1>2, <1>3, applyOpReplays
<1> HIDE DEF state
<1>6. x \in Controller /\ ControllerFits(x, log)
  <2>1. /\ x \in Controller /\ x.state = state /\ x.applied = n /\ x.missed = sc[i].missed
    <3>1. n \in Nat
      BY <1>2
    <3> DEFINE old == sc[i]
    <3>2. old \in Controller
      BY <1>3
    <3>3. x = [old EXCEPT !.state = state, !.applied = n] /\ old.missed = sc[i].missed
      OBVIOUS
    <3> HIDE DEF old, x
    <3>4. x \in Controller
      BY <1>4, <3>1, <3>2, <3>3 DEF Controller
    <3>5. x.state = state /\ x.applied = n /\ x.missed = old.missed
      BY <1>4, <3>1, <3>2, <3>3 DEF Controller
    <3> QED
      BY <3>3, <3>4, <3>5
  <2> QED
    BY <1>2, <1>4, <1>5, <2>1 DEF ControllerFits
<1>7. y \in Snapshot /\ SnapshotFits(y, log)
  BY <1>2, <1>3, <1>4, <1>5 DEF Snapshot, SnapshotFits
<1> HIDE DEF x, y
<1>8. ServersInv'
  <2>1. sc' \in [Server -> Controller] /\ \A j \in Server : ControllerFits(sc'[j], log)
    BY <1>1, <1>6 DEF ServersInv
  <2>2. snap' \in [Server -> Snapshot] /\ \A j \in Server : SnapshotFits(snap'[j], log)
    BY <1>1, <1>7 DEF ServersInv
  <2> QED
    BY <1>1, <2>1, <2>2 DEF ServersInv
<1> QED
  BY <1>2, <1>4, <1>5, <1>8 DEF n, state

-----------------------------------------------------------------------------
(* What a step does to the clerks *)

LEMMA ClerkFacts ==
    ASSUME ClerksInv, NEW c \in Clerk
    PROVE  /\ clerk[c] \in ClerkType /\ ClerkFits(clerk[c], log, c)
           /\ clerk[c].requestIndex \in Nat /\ clerk[c].since \in Nat
           /\ clerk[c].op \in Op \cup {Nil} /\ clerk[c].server \in Server \cup {Nil}
           /\ clerk[c].answer \in Answer \cup {Nil}
           /\ log \in Seq(Entry) /\ Len(log) \in Nat
<1>1. clerk[c] \in ClerkType /\ ClerkFits(clerk[c], log, c) /\ log \in Seq(Entry)
  BY DEF ClerksInv
<1> QED
  BY <1>1, EntryFacts DEF ClerkType

(* a step that begins or ends no call *)
sameCalls ==
    \A c \in Clerk : /\ clerk'[c].requestIndex = clerk[c].requestIndex
                     /\ clerk'[c].op = clerk[c].op
                     /\ clerk'[c].answer = clerk[c].answer
                     /\ clerk'[c].since = clerk[c].since

LEMMA SameCallsKept ==
    ASSUME ClerksInv, sameCalls, log' = log, clerk' \in [Clerk -> ClerkType],
           started' \subseteq Entry, \A s \in started' : Known(clerk, s.op)
    PROVE  ClerksInv'
<1>1. ASSUME NEW op \in Op
      PROVE  /\ Known(clerk, op) => Known(clerk', op)
             /\ clerk'[op.ClientId].op = clerk[op.ClientId].op
             /\ clerk'[op.ClientId].since = clerk[op.ClientId].since
  BY <1>1, OpFacts DEF sameCalls, Known
<1>2. \A c \in Clerk : ClerkFits(clerk'[c], log, c)
  BY DEF ClerksInv, ClerkFits, AnswerFits, sameCalls
<1>3. \A n \in 1 .. Len(log) : log[n].op \in Op
  BY EntryFacts DEF ClerksInv
<1>4. Completed(clerk', log)
  BY DEF ClerksInv, RequestsFit, Completed, sameCalls
<1>5. CallsAreNew(clerk', log)
  <2> SUFFICES ASSUME NEW n \in 1 .. Len(log),
                      clerk'[log[n].op.ClientId].op = log[n].op
               PROVE  n > clerk'[log[n].op.ClientId].since
    BY DEF CallsAreNew
  <2>1. CallsAreNew(clerk, log)
    BY DEF ClerksInv, RequestsFit
  <2> QED
    BY <1>1, <1>3, <2>1 DEF CallsAreNew
<1>6. RequestsFit(clerk', log)
  BY <1>1, <1>3, <1>4, <1>5 DEF ClerksInv, RequestsFit
<1>7. \A s \in started' : Known(clerk', s.op)
  <2>1. \A s \in started' : s.op \in Op
    BY DEF Entry
  <2> QED
    BY <1>1, <2>1
<1> QED
  BY <1>2, <1>6, <1>7 DEF ClerksInv

LEMMA callFailsClerks ==
    ASSUME ClerksInv, NEW c \in Clerk, callFails(c)
    PROVE  ClerksInv'
<1>1. clerk' = [clerk EXCEPT ![c].server = Nil] /\ UNCHANGED <<started, log>>
  BY DEF callFails
<1>2. clerk' \in [Clerk -> ClerkType] /\ sameCalls
  BY <1>1 DEF ClerksInv, ClerkType, sameCalls
<1> QED
  BY <1>1, <1>2, SameCallsKept DEF ClerksInv

LEMMA handleRequestClerks ==
    ASSUME ClerksInv, NEW c \in Clerk, NEW i \in Server, handleRequest(c, i)
    PROVE  ClerksInv'
<1> DEFINE e == [op |-> clerk[c].op, ServerId |-> i]
<1>1. /\ clerk' = [clerk EXCEPT ![c].server = i] /\ log' = log
      /\ started' = started \cup {e} /\ clerk[c].op # Nil
  BY DEF handleRequest
<1>2. clerk' \in [Clerk -> ClerkType] /\ sameCalls
  BY <1>1 DEF ClerksInv, ClerkType, sameCalls
<1>3. /\ clerk[c].op \in Op /\ clerk[c].requestIndex \in Nat
      /\ clerk[c].op.ClientId = c
      /\ clerk[c].op.RequestIndex = clerk[c].requestIndex - 1
  BY <1>1, ClerkFacts DEF ClerkFits
<1>4. e \in Entry /\ Known(clerk, e.op)
  BY <1>3 DEF Entry, Known
<1> HIDE DEF e
<1> QED
  BY <1>1, <1>2, <1>4, SameCallsKept DEF ClerksInv

LEMMA StartServerClerks ==
    ASSUME ClerksInv, NEW i \in Server, StartServer(i)
    PROVE  ClerksInv'
<1>1. clerk' = ShutdownServer(i) /\ UNCHANGED <<started, log>>
  BY DEF StartServer
<1>2. clerk' \in [Clerk -> ClerkType] /\ sameCalls
  BY <1>1 DEF ClerksInv, ClerkType, sameCalls, ShutdownServer
<1> QED
  BY <1>1, <1>2, SameCallsKept DEF ClerksInv

LEMMA overwrittenClerks ==
    ASSUME ClerksInv, NEW s \in started, overwritten(s)
    PROVE  ClerksInv'
  BY SameCallsKept DEF ClerksInv, overwritten, sameCalls

(* A request begins when the one before it is in the log. *)
LEMMA requestClerks ==
    ASSUME ClerksInv, NEW c \in Clerk, NEW op \in Op, request(c, op),
           op.ClientId = c, op.RequestIndex = clerk[c].requestIndex
    PROVE  ClerksInv'
<1> DEFINE x == [requestIndex |-> clerk[c].requestIndex + 1, op |-> op,
                 server |-> clerk[c].server, answer |-> Nil, since |-> Len(log)]
<1>0. /\ clerk[c].requestIndex \in Nat /\ clerk[c].server \in Server \cup {Nil}
      /\ log \in Seq(Entry) /\ Len(log) \in Nat
  BY ClerkFacts
<1>1. clerk[c].op = Nil /\ UNCHANGED <<started, log>>
  BY DEF request
<1>2. /\ clerk' \in [Clerk -> ClerkType] /\ clerk'[c] = x
      /\ \A d \in Clerk : d # c => clerk'[d] = clerk[d]
  <2>1. clerk' = [clerk EXCEPT ![c] = x]
    BY DEF request, ClerksInv, ClerkType
  <2>2. x \in ClerkType
    BY <1>0 DEF ClerkType
  <2> HIDE DEF x
  <2> QED
    BY <2>1, <2>2 DEF ClerksInv
<1>3. /\ x.requestIndex = clerk[c].requestIndex + 1 /\ x.op = op /\ x.answer = Nil
      /\ x.since = Len(log)
  OBVIOUS
<1> HIDE DEF x
<1>4. \A d \in Clerk : ClerkFits(clerk'[d], log, d)
  <2>1. ClerkFits(x, log, c)
    BY <1>0, <1>3 DEF ClerkFits, AnswerFits
  <2> QED
    BY <1>2, <2>1 DEF ClerksInv
<1>5. ASSUME NEW o \in Op, Known(clerk, o)
      PROVE  /\ Known(clerk', o)
             /\ clerk'[o.ClientId].op = o => clerk'[o.ClientId] = clerk[o.ClientId]
  <2>1. o.ClientId \in Clerk /\ o.RequestIndex \in Nat
    BY OpFacts
  <2> QED
    BY <1>0, <1>2, <1>3, <1>5, <2>1 DEF Known
<1>6. \A n \in 1 .. Len(log) : log[n].op \in Op /\ Known(clerk, log[n].op)
  BY EntryFacts DEF ClerksInv, RequestsFit
<1>7. Completed(clerk', log)
  <2> SUFFICES ASSUME NEW d \in Clerk, NEW r \in 0 .. clerk'[d].requestIndex - 1,
                      r < clerk'[d].requestIndex - 1 \/ clerk'[d].op = Nil
               PROVE  inLog(log, Len(log), <<d, r>>)
    BY DEF Completed
  <2>1. Completed(clerk, log)
    BY DEF ClerksInv, RequestsFit
  <2>2. CASE d # c
    <3>1. clerk'[d] = clerk[d]
      BY <1>2, <2>2
    <3> QED
      BY <2>1, <3>1 DEF Completed
  <2>3. CASE d = c
    <3>1. op # Nil
      BY NilAssumption
    <3>2. clerk'[d].requestIndex = clerk[c].requestIndex + 1 /\ clerk'[d].op # Nil
      BY <1>2, <1>3, <2>3, <3>1
    <3>3. r \in 0 .. clerk[c].requestIndex - 1
      BY <1>0, <3>2
    <3> QED
      BY <1>1, <2>1, <2>3, <3>3 DEF Completed
  <2> QED
    BY <2>2, <2>3
<1>8. CallsAreNew(clerk', log)
  <2> SUFFICES ASSUME NEW n \in 1 .. Len(log),
                      clerk'[log[n].op.ClientId].op = log[n].op
               PROVE  n > clerk'[log[n].op.ClientId].since
    BY DEF CallsAreNew
  <2>1. clerk'[log[n].op.ClientId] = clerk[log[n].op.ClientId]
    BY <1>5, <1>6
  <2>2. CallsAreNew(clerk, log)
    BY DEF ClerksInv, RequestsFit
  <2> QED
    BY <2>1, <2>2 DEF CallsAreNew
<1>9. RequestsFit(clerk', log)
  BY <1>5, <1>6, <1>7, <1>8 DEF ClerksInv, RequestsFit
<1>10. \A s \in started : Known(clerk', s.op)
  <2>1. \A s \in started : s.op \in Op /\ Known(clerk, s.op)
    BY DEF ClerksInv, Entry
  <2> QED
    BY <1>5, <2>1
<1> QED
  BY <1>1, <1>2, <1>4, <1>9, <1>10 DEF ClerksInv

(* What is committed is known, so all requests before it are in the log. *)
LEMMA commitClerks ==
    ASSUME ClerksInv, NEW s \in started, commit(s)
    PROVE  ClerksInv' /\ s \in Entry /\ log' = Append(log, s)
<1>0. s \in Entry /\ s.op \in Op /\ Known(clerk, s.op)
  BY DEF ClerksInv, Entry
<1>1. log' = Append(log, s) /\ started' = started \ {s} /\ UNCHANGED clerk
  BY DEF commit
<1>2. /\ log' \in Seq(Entry) /\ Len(log) \in Nat /\ Len(log') = Len(log) + 1
      /\ \A n \in 1 .. Len(log) : log'[n] = log[n] /\ log[n] \in Entry
      /\ log'[Len(log) + 1] = s
  BY <1>0, <1>1, AppendFacts DEF ClerksInv
<1>n. \A n \in 1 .. Len(log') : n \in 1 .. Len(log) \/ n = Len(log) + 1
  BY <1>2
<1>3. ASSUME NEW n \in 0 .. Len(log), NEW r, inLog(log, n, r)
      PROVE  inLog(log', n, r) /\ inLog(log', Len(log'), r)
  <2>1. inLog(log', n, r)
    BY <1>0, <1>1, <1>3, inLogAppend DEF ClerksInv
  <2>2. \A k \in 1 .. n : k \in 1 .. Len(log')
    BY <1>2
  <2> QED
    BY <2>1, <2>2 DEF inLog
<1>4. ASSUME NEW c \in Clerk PROVE ClerkFits(clerk[c], log', c)
  <2>1. ClerkFits(clerk[c], log, c) /\ clerk[c].since \in Nat
    BY <1>4, ClerkFacts
  <2>2. AnswerFits(clerk[c], log')
    <3> DEFINE a == clerk[c].answer
    <3> SUFFICES ASSUME a # Nil /\ ~a.missed /\ a.op.Type = "QUERY"
                 PROVE  \E n \in clerk[c].since .. Len(log') :
                           a.config = asked(replay(log')[n], a.op.Num)
      BY DEF AnswerFits
    <3>1. PICK n \in clerk[c].since .. Len(log) :
             a.config = asked(replay(log)[n], a.op.Num)
      BY <2>1 DEF ClerkFits, AnswerFits
    <3>2. n \in 0 .. Len(log) /\ n \in clerk[c].since .. Len(log')
      BY <1>2, <2>1, <3>1
    <3>3. replay(log')[n] = replay(log)[n]
      BY <1>0, <1>1, <3>2, replayAppend DEF ClerksInv
    <3> QED
      BY <3>1, <3>2, <3>3
  <2> QED
    BY <1>2, <2>1, <2>2 DEF ClerkFits
<1>5. RequestsFit(clerk, log)
  BY DEF ClerksInv
<1>6. \A n \in 1 .. Len(log') : Known(clerk, log'[n].op)
  BY <1>0, <1>2, <1>5, <1>n DEF RequestsFit
<1>7. Completed(clerk, log')
  <2>1. Len(log) \in 0 .. Len(log)
    BY <1>2
  <2> QED
    BY <1>3, <1>5, <2>1 DEF RequestsFit, Completed
<1>8. InOrder(log')
  <2> SUFFICES ASSUME NEW n \in 1 .. Len(log'), NEW r \in 0 .. log'[n].op.RequestIndex - 1
               PROVE  inLog(log', n - 1, <<log'[n].op.ClientId, r>>)
    BY DEF InOrder
  <2>1. CASE n \in 1 .. Len(log)
    <3>1. inLog(log, n - 1, <<log'[n].op.ClientId, r>>)
      BY <1>2, <1>5, <2>1 DEF RequestsFit, InOrder
    <3>2. n - 1 \in 0 .. Len(log)
      BY <1>2, <2>1
    <3> QED
      BY <1>3, <3>1, <3>2
  <2>2. CASE n = Len(log) + 1
    <3> DEFINE c == s.op.ClientId
    <3>1. log'[n] = s /\ n - 1 = Len(log) /\ Len(log) \in 0 .. Len(log)
      BY <1>2, <2>2
    <3>2. /\ c \in Clerk /\ s.op.RequestIndex \in Nat /\ clerk[c].requestIndex \in Nat
          /\ s.op.RequestIndex < clerk[c].requestIndex
      BY <1>0, OpFacts, ClerkFacts DEF Known
    <3>3. r \in 0 .. clerk[c].requestIndex - 1 /\ r < clerk[c].requestIndex - 1
      BY <3>1, <3>2
    <3>4. inLog(log, Len(log), <<c, r>>)
      BY <1>5, <3>2, <3>3 DEF RequestsFit, Completed
    <3> QED
      BY <1>3, <3>1, <3>4
  <2> QED
    BY <1>n, <2>1, <2>2
<1>9. CallsAreNew(clerk, log')
  <2> SUFFICES ASSUME NEW n \in 1 .. Len(log'),
                      clerk[log'[n].op.ClientId].op = log'[n].op
               PROVE  n > clerk[log'[n].op.ClientId].since
    BY DEF CallsAreNew
  <2>1. CASE n \in 1 .. Len(log)
    BY <1>2, <1>5, <2>1 DEF RequestsFit, CallsAreNew
  <2>2. CASE n = Len(log) + 1
    <3>1. s.op.ClientId \in Clerk
      BY <1>0, OpFacts
    <3>2. clerk[s.op.ClientId].since \in Nat /\ clerk[s.op.ClientId].since <= Len(log)
      BY <3>1, ClerkFacts DEF ClerkFits
    <3>3. log'[n] = s
      BY <1>2, <2>2
    <3> QED
      BY <1>2, <2>2, <3>2, <3>3
  <2> QED
    BY <1>n, <2>1, <2>2
<1>10. RequestsFit(clerk, log')
  BY <1>6, <1>7, <1>8, <1>9 DEF RequestsFit
<1> QED
  BY <1>0, <1>1, <1>2, <1>4, <1>10 DEF ClerksInv

LEMMA handleResultDoes ==
    ASSUME ClerksInv, NEW c \in Clerk, NEW answer \in Answer
    PROVE  LET cl == handleResult(c, answer) IN
           /\ cl \in [Clerk -> ClerkType]
           /\ \A d \in Clerk : d # c => cl[d] = clerk[d]
           /\ cl[c].requestIndex = clerk[c].requestIndex /\ cl[c].since = clerk[c].since
           /\ cl[c].op = Nil /\ cl[c].answer = answer
<1> DEFINE cl == handleResult(c, answer)
<1>0. clerk \in [Clerk -> ClerkType]
  BY DEF ClerksInv
<1>1. cl \in [Clerk -> ClerkType]
  BY <1>0, ZenonT(30) DEF handleResult, ClerkType
<1>2. /\ cl[c].requestIndex = clerk[c].requestIndex /\ cl[c].since = clerk[c].since
      /\ cl[c].op = Nil /\ cl[c].answer = answer
  BY <1>0 DEF handleResult, ClerkType
<1>3. \A d \in Clerk : d # c => cl[d] = clerk[d]
  BY <1>0 DEF handleResult
<1> QED
  BY <1>1, <1>2, <1>3

(* The answer to a call: its request is in the log, and was not when the call began.
   What a Query gets is the configuration after the entry that answers it. *)
LEMMA handleCommandApplyClerks ==
    ASSUME ClerksInv, ServersInv,
           NEW i \in Server, NEW answered \in BOOLEAN, handleCommandApply(i, answered)
    PROVE  ClerksInv'
<1> DEFINE n == sc[i].applied + 1
           op == log[n].op
           c == op.ClientId
           state == applyOp(sc[i].state, op)
           a == [op |-> op, config |-> replyConfig(sc[i].state, op), missed |-> sc[i].missed]
<1>0. log \in Seq(Entry) /\ RequestsFit(clerk, log) /\ InOrder(log)
  BY DEF ClerksInv, RequestsFit
<1>1. /\ n \in 1 .. Len(log) /\ StateOK(state)
      /\ ~sc[i].missed => Replayed(state, log, n)
  BY <1>0, handleCommandApplyServers
<1>2. UNCHANGED <<started, log>>
  BY DEF handleCommandApply
<1>3. \/ UNCHANGED clerk
      \/ opChannelMatch(i, log[n]) /\ clerk' = handleResult(c, a)
  BY DEF handleCommandApply, signalStartCh
<1>4. CASE UNCHANGED clerk
  BY <1>2, <1>4, SameCallsKept DEF ClerksInv, sameCalls
<1>5. CASE opChannelMatch(i, log[n]) /\ clerk' = handleResult(c, a)
  <2>1. /\ op \in Op /\ c \in Clerk /\ Len(log) \in Nat /\ n \in Nat
    BY <1>0, <1>1, EntryFacts
  <2>2. clerk[c].op = op
    BY <1>5 DEF opChannelMatch
  <2>3. /\ clerk[c].requestIndex \in Nat /\ clerk[c].since \in Nat
        /\ clerk[c].since <= Len(log)
        /\ op.RequestIndex = clerk[c].requestIndex - 1
    <3>1. op # Nil
      BY <2>1, NilAssumption
    <3> QED
      BY <2>1, <2>2, <3>1, ClerkFacts DEF ClerkFits
  <2>4. n \in clerk[c].since .. Len(log)
    <3>1. n > clerk[c].since
      <4> HIDE DEF n, state
      <4> QED
        BY <1>0, <1>1, <2>2 DEF RequestsFit, CallsAreNew
    <3> HIDE DEF n, c, op, state
    <3> QED
      BY <1>1, <2>1, <2>3, <3>1
  <2>5. op.Type = "QUERY" =>
          /\ replyConfig(sc[i].state, op) = asked(state.Configs, op.Num)
          /\ replyConfig(sc[i].state, op) \in Config
    BY <1>1, <2>1, getValueOK DEF replyConfig
  <2>6. a \in Answer
    <3>1. replyConfig(sc[i].state, op) \in Config \cup {Nil}
      BY <2>5 DEF replyConfig
    <3>2. sc[i].missed \in BOOLEAN
      BY ServerFacts
    <3> QED
      BY <2>1, <3>1, <3>2 DEF Answer
  <2> DEFINE x == clerk'[c]
  <2>7. /\ clerk' \in [Clerk -> ClerkType]
        /\ \A d \in Clerk : d # c => clerk'[d] = clerk[d]
        /\ x.requestIndex = clerk[c].requestIndex /\ x.since = clerk[c].since
        /\ x.op = Nil /\ x.answer = a
    <3> HIDE DEF a, c
    <3> QED
      BY <1>5, <2>1, <2>6, handleResultDoes
  <2>8. clerk'[c] = x
    OBVIOUS
  <2>9. /\ a.op = op /\ a.missed = sc[i].missed
        /\ a.config = replyConfig(sc[i].state, op)
    OBVIOUS
  <2> HIDE DEF x, a, state
  <2>10. AnswerFits(x, log)
    <3> SUFFICES ASSUME ~a.missed, op.Type = "QUERY"
                 PROVE  a.config = asked(replay(log)[n], op.Num)
      BY <2>4, <2>7, <2>9 DEF AnswerFits
    <3>1. state.Configs = replay(log)[n]
      BY <1>1, <2>9 DEF Replayed
    <3> QED
      BY <2>5, <2>9, <3>1
  <2> HIDE DEF c, op, n
  <2>11. \A d \in Clerk : ClerkFits(clerk'[d], log, d)
    <3>1. ClerkFits(x, log, c)
      BY <2>3, <2>7, <2>10 DEF ClerkFits
    <3> QED
      BY <2>7, <2>8, <3>1 DEF ClerksInv
  <2>12. ASSUME NEW o \in Op
         PROVE  /\ Known(clerk, o) => Known(clerk', o)
                /\ clerk'[o.ClientId].op = o => clerk'[o.ClientId] = clerk[o.ClientId]
    <3>1. o.ClientId \in Clerk /\ o # Nil
      BY OpFacts, NilAssumption
    <3> QED
      BY <2>7, <2>8, <3>1 DEF Known
  <2>13. \A k \in 1 .. Len(log) : log[k].op \in Op /\ Known(clerk, log[k].op)
    BY <1>0, EntryFacts DEF RequestsFit
  <2>14. Completed(clerk', log)
    <3> SUFFICES ASSUME NEW d \in Clerk, NEW r \in 0 .. clerk'[d].requestIndex - 1,
                        r < clerk'[d].requestIndex - 1 \/ clerk'[d].op = Nil
                 PROVE  inLog(log, Len(log), <<d, r>>)
      BY DEF Completed
    <3>1. Completed(clerk, log)
      BY <1>0 DEF RequestsFit
    <3>2. CASE d # c
      <4>1. clerk'[d] = clerk[d]
        BY <2>7, <3>2
      <4> QED
        BY <3>1, <4>1 DEF Completed
    <3>3. CASE d = c
      <4>1. clerk'[d].requestIndex = clerk[c].requestIndex
        BY <2>7, <2>8, <3>3
      <4>2. CASE r < clerk[c].requestIndex - 1
        BY <3>1, <3>3, <4>1, <4>2 DEF Completed
      <4>3. CASE r = clerk[c].requestIndex - 1
        <5>1. key(log[n].op) = <<d, r>>
          BY <2>3, <3>3, <4>3 DEF key, c, op
        <5> QED
          BY <1>1, <5>1 DEF inLog, n
      <4> QED
        BY <2>3, <4>1, <4>2, <4>3
    <3> QED
      BY <3>2, <3>3
  <2>15. CallsAreNew(clerk', log)
    <3> SUFFICES ASSUME NEW k \in 1 .. Len(log),
                        clerk'[log[k].op.ClientId].op = log[k].op
                 PROVE  k > clerk'[log[k].op.ClientId].since
      BY DEF CallsAreNew
    <3>1. clerk'[log[k].op.ClientId] = clerk[log[k].op.ClientId]
      BY <2>12, <2>13
    <3> QED
      BY <1>0, <3>1 DEF RequestsFit, CallsAreNew
  <2>16. RequestsFit(clerk', log)
    BY <1>0, <2>12, <2>13, <2>14, <2>15 DEF RequestsFit
  <2>17. \A s \in started : Known(clerk', s.op)
    <3>1. \A s \in started : s.op \in Op /\ Known(clerk, s.op)
      BY DEF ClerksInv, Entry
    <3> QED
      BY <2>12, <3>1
  <2> QED
    BY <1>2, <2>7, <2>11, <2>16, <2>17 DEF ClerksInv
<1> QED
  BY <1>3, <1>4, <1>5

-----------------------------------------------------------------------------
(* The invariant *)

LEMMA InitInv == Init => Inv
<1> SUFFICES ASSUME Init PROVE Inv
  OBVIOUS
<1>1. /\ log = <<>> /\ started = {}
      /\ clerk = [c \in Clerk |-> [requestIndex |-> 0, op |-> Nil, server |-> Nil,
                                   answer |-> Nil, since |-> 0]]
      /\ sc = [i \in Server |-> [state |-> makeState, applied |-> 0, missed |-> FALSE]]
      /\ snap = [i \in Server |-> [index |-> 0, state |-> makeState, missed |-> FALSE]]
  BY DEF Init
<1>2. log \in Seq(Entry) /\ Len(log) = 0
  BY <1>1
<1>3. StateOK(makeState) /\ makeState \in State
  BY makeStateOK DEF StateOK
<1>4. Replayed(makeState, log, 0)
  <2>1. makeState.Configs = replay(log)[0]
    BY <1>2, makeStateOK, replayCases
  <2>2. LastRequests(makeState.ClientLastRequest, log, 0)
    BY makeStateOK DEF LastRequests
  <2> QED
    BY <2>1, <2>2 DEF Replayed
<1>5. ServersInv
  <2>1. /\ sc \in [Server -> Controller] /\ snap \in [Server -> Snapshot]
        /\ \A i \in Server : /\ sc[i].state = makeState /\ sc[i].applied = 0
                             /\ snap[i].state = makeState /\ snap[i].index = 0
    BY <1>1, <1>3 DEF Controller, Snapshot
  <2> QED
    BY <1>2, <1>3, <1>4, <2>1 DEF ServersInv, ControllerFits, SnapshotFits
<1>6. ClerksInv
  <2>1. /\ clerk \in [Clerk -> ClerkType]
        /\ \A c \in Clerk : /\ clerk[c].requestIndex = 0 /\ clerk[c].op = Nil
                            /\ clerk[c].answer = Nil /\ clerk[c].since = 0
    BY <1>1 DEF ClerkType
  <2>2. \A c \in Clerk : ClerkFits(clerk[c], log, c)
    BY <1>2, <2>1 DEF ClerkFits, AnswerFits
  <2>3. RequestsFit(clerk, log)
    BY <1>2, <2>1 DEF RequestsFit, Completed, InOrder, CallsAreNew
  <2> QED
    BY <1>1, <1>2, <2>1, <2>2, <2>3 DEF ClerksInv
<1> QED
  BY <1>5, <1>6 DEF Inv

(* What a clerk asks for is what Commands say. *)
LEMMA asksOK ==
    ASSUME ClerksInv, NEW c \in Clerk, NEW type, NEW a \in asks(c, type)
    PROVE  a \in Command /\ a.Type = type
<1>1. clerk[c].requestIndex \in Nat
  BY ClerkFacts
<1>2. clerk[c].requestIndex < Len(Commands)
  BY DEF asks
<1>3. Commands[clerk[c].requestIndex + 1] \in SUBSET Command
  BY <1>1, <1>2, CommandsAssumption
<1> QED
  BY <1>2, <1>3 DEF asks

LEMMA CommandFacts ==
    ASSUME NEW a \in Command
    PROVE  /\ a.Type \in {"JOIN", "LEAVE"} => a.GIDs \in SUBSET Gid
           /\ a.Type = "MOVE" => a.Shard \in Shard /\ a.GID \in Gid
           /\ a.Type = "QUERY" => a.Num \in Int
  BY DEF Command, CtrlerOp

(* the operations a clerk sends *)
LEMMA SentOps ==
    ASSUME NEW c \in Clerk, NEW r \in Nat
    PROVE  /\ \A type \in {"JOIN", "LEAVE"}, gids \in SUBSET Gid :
                 [Type |-> type, GIDs |-> gids, ClientId |-> c, RequestIndex |-> r] \in Op
           /\ \A shard \in Shard, g \in Gid :
                 [Type |-> "MOVE", Shard |-> shard, GID |-> g,
                  ClientId |-> c, RequestIndex |-> r] \in Op
           /\ \A num \in Int :
                 [Type |-> "QUERY", Num |-> num, ClientId |-> c, RequestIndex |-> r] \in Op
  BY DEF Op

LEMMA NextInv == Inv /\ [Next]_vars => Inv'
<1> SUFFICES ASSUME Inv, [Next]_vars PROVE Inv'
  OBVIOUS
<1>0. ServersInv /\ ClerksInv /\ log \in Seq(Entry) /\ InOrder(log)
  BY DEF Inv, ClerksInv, RequestsFit
<1>a. ASSUME UNCHANGED <<log, sc, snap>> PROVE ServersInv'
  BY <1>0, <1>a DEF ServersInv
<1>b. ASSUME UNCHANGED <<clerk, started, log>> PROVE ClerksInv'
  BY <1>0, <1>b DEF ClerksInv
<1>c. ASSUME NEW c \in Clerk, NEW op \in Op, request(c, op),
             op.ClientId = c, op.RequestIndex = clerk[c].requestIndex
      PROVE  Inv'
  BY <1>0, <1>a, <1>c, requestClerks DEF request, Inv
<1>1. ASSUME NEW c \in Clerk,
             \/ \E a \in asks(c, "JOIN")  : Join(c, a.GIDs)
             \/ \E a \in asks(c, "LEAVE") : Leave(c, a.GIDs)
             \/ \E a \in asks(c, "MOVE")  : Move(c, a.Shard, a.GID)
             \/ \E a \in asks(c, "QUERY") : Query(c, a.Num)
             \/ callFails(c)
      PROVE  Inv'
  <2>0. clerk[c].requestIndex \in Nat
    BY <1>0, <1>1, ClerkFacts
  <2>1. ASSUME NEW a \in asks(c, "JOIN"), Join(c, a.GIDs) PROVE Inv'
    <3> DEFINE op == [Type |-> "JOIN", GIDs |-> a.GIDs,
                      ClientId |-> c, RequestIndex |-> clerk[c].requestIndex]
    <3>1. a.GIDs \in SUBSET Gid
      BY <1>0, <1>1, asksOK, CommandFacts
    <3>2. op \in Op /\ op.ClientId = c /\ op.RequestIndex = clerk[c].requestIndex
      BY <1>1, <2>0, <3>1, SentOps
    <3>3. request(c, op)
      BY <2>1 DEF Join
    <3> HIDE DEF op
    <3> QED
      BY <1>1, <1>c, <3>2, <3>3
  <2>2. ASSUME NEW a \in asks(c, "LEAVE"), Leave(c, a.GIDs) PROVE Inv'
    <3> DEFINE op == [Type |-> "LEAVE", GIDs |-> a.GIDs,
                      ClientId |-> c, RequestIndex |-> clerk[c].requestIndex]
    <3>1. a.GIDs \in SUBSET Gid
      BY <1>0, <1>1, asksOK, CommandFacts
    <3>2. op \in Op /\ op.ClientId = c /\ op.RequestIndex = clerk[c].requestIndex
      BY <1>1, <2>0, <3>1, SentOps
    <3>3. request(c, op)
      BY <2>2 DEF Leave
    <3> HIDE DEF op
    <3> QED
      BY <1>1, <1>c, <3>2, <3>3
  <2>3. ASSUME NEW a \in asks(c, "MOVE"), Move(c, a.Shard, a.GID) PROVE Inv'
    <3> DEFINE op == [Type |-> "MOVE", Shard |-> a.Shard, GID |-> a.GID,
                      ClientId |-> c, RequestIndex |-> clerk[c].requestIndex]
    <3>1. a.Shard \in Shard /\ a.GID \in Gid
      BY <1>0, <1>1, asksOK, CommandFacts
    <3>2. op \in Op /\ op.ClientId = c /\ op.RequestIndex = clerk[c].requestIndex
      BY <1>1, <2>0, <3>1, SentOps
    <3>3. request(c, op)
      BY <2>3 DEF Move
    <3> HIDE DEF op
    <3> QED
      BY <1>1, <1>c, <3>2, <3>3
  <2>4. ASSUME NEW a \in asks(c, "QUERY"), Query(c, a.Num) PROVE Inv'
    <3> DEFINE op == [Type |-> "QUERY", Num |-> a.Num,
                      ClientId |-> c, RequestIndex |-> clerk[c].requestIndex]
    <3>1. a.Num \in Int
      BY <1>0, <1>1, asksOK, CommandFacts
    <3>2. op \in Op /\ op.ClientId = c /\ op.RequestIndex = clerk[c].requestIndex
      BY <1>1, <2>0, <3>1, SentOps
    <3>3. request(c, op)
      BY <2>4 DEF Query
    <3> HIDE DEF op
    <3> QED
      BY <1>1, <1>c, <3>2, <3>3
  <2>5. CASE callFails(c)
    BY <1>0, <1>1, <1>a, <2>5, callFailsClerks DEF callFails, Inv
  <2> QED
    BY <1>1, <2>1, <2>2, <2>3, <2>4, <2>5
<1>2. ASSUME NEW c \in Clerk, NEW i \in Server, handleRequest(c, i) PROVE Inv'
  BY <1>0, <1>2, <1>a, handleRequestClerks DEF handleRequest, Inv
<1>3. ASSUME NEW s \in started, commit(s) \/ overwritten(s) PROVE Inv'
  <2>1. CASE commit(s)
    <3>1. ClerksInv' /\ s \in Entry /\ log' = Append(log, s)
      BY <1>0, <1>3, <2>1, commitClerks
    <3>2. UNCHANGED <<sc, snap>>
      BY <2>1 DEF commit
    <3> QED
      BY <1>0, <3>1, <3>2, LogGrowsServers DEF Inv
  <2>2. CASE overwritten(s)
    BY <1>0, <1>3, <1>a, <2>2, overwrittenClerks DEF overwritten, Inv
  <2> QED
    BY <1>3, <2>1, <2>2
<1>4. ASSUME NEW i \in Server, NEW j \in Server, raftInstallSnapshot(i, j) PROVE Inv'
  BY <1>0, <1>4, <1>b, raftInstallSnapshotServers DEF raftInstallSnapshot, Inv
<1>5. ASSUME NEW i \in Server, NEW answered \in BOOLEAN, handleCommandApply(i, answered)
      PROVE  Inv'
  BY <1>0, <1>5, handleCommandApplyClerks, handleCommandApplyServers DEF Inv
<1>6. ASSUME NEW i \in Server, handleSnapshotApply(i) \/ StartServer(i) PROVE Inv'
  <2>1. CASE handleSnapshotApply(i)
    BY <1>0, <1>6, <1>b, <2>1, handleSnapshotApplyServers DEF handleSnapshotApply, Inv
  <2>2. CASE StartServer(i)
    BY <1>0, <1>6, <2>2, StartServerServers, StartServerClerks DEF Inv
  <2> QED
    BY <1>6, <2>1, <2>2
<1>7. CASE UNCHANGED vars
  BY <1>0, <1>7, <1>a, <1>b DEF vars, Inv
<1> QED
  BY <1>1, <1>2, <1>3, <1>4, <1>5, <1>6, <1>7 DEF Next

THEOREM Invariance == Spec => []Inv
  BY InitInv, NextInv, PTL DEF Spec

(* handleCommandApply, handleInstallSnapshot and StartServer: every controller that
   never dropped a snapshot has the configurations of the log up to where it applied
   it, each request counted once, however often clerks retried it and controllers
   restarted. *)
THEOREM ControllersFollowLog == Spec => []ConfigsFollowLog
<1>1. Inv => ConfigsFollowLog
  BY DEF Inv, ServersInv, ControllerFits, SnapshotFits, Replayed, ConfigsFollowLog, configsAfter
<1> QED
  BY <1>1, Invariance, PTL

(* getValue: a Query returns the configuration it asks for as it was at a time between
   its call and its return. *)
THEOREM QueriesAreCurrent == Spec => []QueryIsCurrent
<1>1. Inv => QueryIsCurrent
  BY DEF Inv, ClerksInv, ClerkFits, AnswerFits, asked, QueryIsCurrent, configsAfter
<1> QED
  BY <1>1, Invariance, PTL

LEMMA LatestIsConfig ==
    ASSUME Inv', NEW i \in Server
    PROVE  getLatestConfig(sc'[i].state) \in Config
<1>1. StateOK(sc'[i].state)
  BY DEF Inv, ServersInv, ControllerFits
<1> QED
  BY <1>1, LatestConfigOK

(* handleJoin and handleLeave: from every configuration a controller comes to, even one
   that missed others, every Join and every Leave leads to even shares. *)
THEOREM RebalancesAreCorrect == Spec => RebalanceCorrect
<1>1. Inv' => \A i \in Server : newConfig(i) => rebalancesWell(getLatestConfig(sc'[i].state))
  BY LatestIsConfig, RebalancesWell
<1>2. Inv' => [\A i \in Server :
                 newConfig(i) => rebalancesWell(getLatestConfig(sc'[i].state))]_sc
  BY <1>1
<1> QED
  BY <1>2, Invariance, PTL DEF RebalanceCorrect

(* handleJoin: from every configuration a controller comes to, every Join moves shards
   to the new groups only, unless Moves had unbalanced it. *)
THEOREM JoinsAreMinimal == Spec => JoinIsMinimal
<1>1. Inv' => \A i \in Server : newConfig(i) => joinsMinimally(getLatestConfig(sc'[i].state))
  BY LatestIsConfig, JoinsMinimally
<1>2. Inv' => [\A i \in Server :
                 newConfig(i) => joinsMinimally(getLatestConfig(sc'[i].state))]_sc
  BY <1>1
<1> QED
  BY <1>2, Invariance, PTL DEF JoinIsMinimal
=============================================================================
