-------------------------------- MODULE Raft --------------------------------
(***************************************************************************)
(* One Raft peer of code/src/raft, its RPC handlers and its goroutines,    *)
(* for every server of a cluster, together with the network of             *)
(* code/src/labrpc that carries the calls, the service that reads applyCh, *)
(* and kill/restart from the persister.                                    *)
(*                                                                         *)
(* Every action below is one critical section of rf.mu (the code between   *)
(* Lock and Unlock).  What a goroutine does between two critical sections  *)
(* is kept in the state of the call it belongs to, so that all             *)
(* interleavings of handlers, reply handlers, the ticker and the service   *)
(* are explored.  The operators with an argument s are the methods of the  *)
(* Go struct: they map the struct before the call to the struct after it.  *)
(***************************************************************************)
EXTENDS Integers, Sequences, FiniteSets

CONSTANTS
    Server,      \* the peers
    Value,       \* commands a client may hand to Start
    Nil,         \* -1 of votedFor, nil slices, "no reply yet"
    Snapshots,   \* whether the service ever calls Snapshot (maxraftstate # -1)
    Contenders,  \* bound: the servers whose election timer may fire
    MaxTerm,     \* bound: no election starts that could exceed this term
    MaxLog,      \* bound: no Start beyond this log index
    MaxRpcs,     \* bound: calls in flight in the whole network
    Slots,       \* bound: overlapping calls of one kind between two peers
    MaxCrashes   \* bound: kill/restart events

ASSUME ServerAssumption == IsFiniteSet(Server) /\ Server # {}
ASSUME NilAssumption == Nil \notin Server \cup Value
ASSUME BoundAssumption ==
    /\ Snapshots \in BOOLEAN /\ Contenders \subseteq Server
    /\ MaxTerm \in Nat /\ MaxLog \in Nat /\ MaxRpcs \in Nat
    /\ Slots \in Nat \ {0} /\ MaxCrashes \in Nat

VARIABLES
    rf,           \* rf[i]: the fields of server i's Raft struct and its persister
    applyCh,      \* applyCh[i]: messages the holder of applyMu has yet to send
    service,      \* service[i]: commands the service of i has applied, index 0 first
    fatal,        \* servers whose process ended in log.Fatalf
    voteTasks,    \* voteTasks[i][j]: handleSendRequestVote(j) goroutines not yet run
    snapTasks,    \* snapTasks[i][j]: handleSendInstallSnapshot(j) goroutines not yet run
    voteCalls,    \* RequestVote calls in flight
    appendCalls,  \* AppendEntries calls in flight, and their handlers' threads
    snapCalls,    \* InstallSnapshot calls in flight
    crashes       \* number of restarts so far

vars == <<rf, applyCh, service, fatal, voteTasks, snapTasks,
          voteCalls, appendCalls, snapCalls, crashes>>

network == <<voteTasks, snapTasks, voteCalls, appendCalls, snapCalls>>

Follower  == "Follower"
Candidate == "Candidate"
Leader    == "Leader"

-----------------------------------------------------------------------------
(* logUtils.go: the log is logs, preceded by snapshotEntriesAmount entries  *)
(* that live only in the snapshot.  Indexes are absolute.                   *)

getLastLogEntryIndex(s) == Len(s.logs) - 1 + s.snapshotEntriesAmount

getOffsetIndex(s, index) == index - s.snapshotEntriesAmount

(* logIndexCheck does not end the process *)
logIndexCheck(s, index) ==
    /\ index >= s.snapshotEntriesAmount
    /\ index <= getLastLogEntryIndex(s)

getLogEntryAtIndex(s, index) == s.logs[getOffsetIndex(s, index) + 1]

getLastLogEntryTerm(s) ==
    IF s.logs = <<>> THEN s.lastSnapshotTerm
                     ELSE s.logs[Len(s.logs)].Term

(* getLogTermAtIndex returns: index is the last one of the snapshot or in logs *)
termIsKnown(s, index) ==
    index + 1 = s.snapshotEntriesAmount \/ logIndexCheck(s, index)

getLogTermAtIndex(s, index) ==
    IF index + 1 = s.snapshotEntriesAmount
    THEN s.lastSnapshotTerm
    ELSE getLogEntryAtIndex(s, index).Term

getLogEntryStartingAt(s, index) ==
    SubSeq(s.logs, getOffsetIndex(s, index) + 1, Len(s.logs))

(* variant: nothing is removed before the new entries are appended *)
keepLog(s, index) == s.logs

removeLogFromIndex(s, index) ==
    SubSeq(s.logs, 1, getOffsetIndex(s, index) + 1)

candidateIsUpToDate(s, args) ==
    \/ args.LastLogTerm > getLastLogEntryTerm(s)
    \/ /\ args.LastLogTerm = getLastLogEntryTerm(s)
       /\ args.LastLogIndex >= getLastLogEntryIndex(s)

-----------------------------------------------------------------------------
(* raft.go, persister.go: what survives a crash *)

getPersistData(s) ==
    [currentTerm           |-> s.currentTerm,
     votedFor              |-> s.votedFor,
     logs                  |-> s.logs,
     snapshotEntriesAmount |-> s.snapshotEntriesAmount,
     lastSnapshotTerm      |-> s.lastSnapshotTerm]

persist(s) == [s EXCEPT !.persister.raftstate = getPersistData(s)]

(* variant: the snapshot is not saved with the state *)
persistWithoutSnapshot(s, data) == persist(s)

persistAndSnapshot(s, data) ==
    [s EXCEPT !.persister = [raftstate |-> getPersistData(s), snapshot |-> data]]

(* LogEntity{-1, -1}: the filler every log starts with *)
filler == [Term |-> -1, Action |-> Nil]

(* Make's fields before readPersist *)
bootstrap(p) ==
    [status                |-> Follower,
     currentTerm           |-> 0,
     votedFor              |-> Nil,
     numVoteGathered       |-> 0,
     logs                  |-> <<filler>>,
     snapshotEntriesAmount |-> 0,
     lastSnapshotTerm      |-> -1,
     commitIndex           |-> -1,
     lastApplied           |-> -1,
     nextIndex             |-> Nil,
     matchIndex            |-> Nil,
     persister             |-> p]

readPersist(s) ==
    LET data == s.persister.raftstate IN
    IF data = Nil THEN s
    ELSE [s EXCEPT !.currentTerm           = data.currentTerm,
                   !.votedFor              = data.votedFor,
                   !.logs                  = data.logs,
                   !.snapshotEntriesAmount = data.snapshotEntriesAmount,
                   !.lastSnapshotTerm      = data.lastSnapshotTerm]

Make(p) == readPersist(bootstrap(p))

MakePersister == [raftstate |-> Nil, snapshot |-> <<>>]

-----------------------------------------------------------------------------
(* raftUtils.go: changes of role *)

isMajority(n) == n > Cardinality(Server) \div 2

(* variant: the new term and vote are not persisted *)
becomeFollowerInMemory(s, newTerm, votedForId) ==
    [s EXCEPT !.currentTerm     = newTerm,
              !.votedFor        = votedForId,
              !.status          = Follower,
              !.numVoteGathered = 0]

becomeFollower(s, newTerm, votedForId) ==
    persist([s EXCEPT !.currentTerm     = newTerm,
                      !.votedFor        = votedForId,
                      !.status          = Follower,
                      !.numVoteGathered = 0])

(* variant: the candidate's term and vote are not persisted *)
becomeCandidateInMemory(s, me) ==
    [s EXCEPT !.currentTerm     = s.currentTerm + 1,
              !.status          = Candidate,
              !.votedFor        = me,
              !.numVoteGathered = 1]

becomeCandidate(s, me) ==
    persist([s EXCEPT !.currentTerm     = s.currentTerm + 1,
                      !.status          = Candidate,
                      !.votedFor        = me,
                      !.numVoteGathered = 1])

(* variant: nextIndex starts at the last index instead of after it *)
becomeLeaderAtLast(s) ==
    persist([s EXCEPT !.status          = Leader,
                      !.currentTerm     = s.currentTerm + 1,
                      !.votedFor        = Nil,
                      !.numVoteGathered = 0,
                      !.nextIndex  = [j \in Server |-> getLastLogEntryIndex(s)],
                      !.matchIndex = [j \in Server |-> -1]])

(* The goroutines of broadcastAppendEntries need no state: see
   handleSendAppendEntries. *)
becomeLeader(s) ==
    persist([s EXCEPT !.status          = Leader,
                      !.currentTerm     = s.currentTerm + 1,
                      !.votedFor        = Nil,
                      !.numVoteGathered = 0,
                      !.nextIndex  = [j \in Server |-> getLastLogEntryIndex(s) + 1],
                      !.matchIndex = [j \in Server |-> -1]])

gainVote(s) ==
    IF s.status = Candidate
    THEN [s EXCEPT !.numVoteGathered = s.numVoteGathered + 1]
    ELSE s

checkElectionStatus(s) ==
    IF s.status = Candidate /\ isMajority(s.numVoteGathered)
    THEN becomeLeader(s)
    ELSE s

-----------------------------------------------------------------------------
(* commitAndApplyUtils.go *)

isMax(m, S) == m \in S /\ \A k \in S : k <= m

(* the values leaderUpdateCommit assigns to newCommitIndex, the last of which
   is the largest *)
commitCandidates(s, me) ==
    {s.commitIndex} \cup
    {k \in s.snapshotEntriesAmount .. getLastLogEntryIndex(s) :
        /\ k >= s.commitIndex
        /\ isMajority(1 + Cardinality({j \in Server \ {me} : s.matchIndex[j] >= k}))
        /\ getLogEntryAtIndex(s, k).Term = s.currentTerm}

snapshotMsg(s) ==
    [CommandValid |-> FALSE, SnapshotValid |-> TRUE,
     Index    |-> s.snapshotEntriesAmount - 1,
     Command  |-> Nil,
     Snapshot |-> s.persister.snapshot]

commandMsg(s, k) ==
    [CommandValid |-> k # 0, SnapshotValid |-> FALSE,
     Index    |-> k,
     Command  |-> getLogEntryAtIndex(s, k).Action,
     Snapshot |-> <<>>]

(* variant: off by one, the snapshot is sent again when it was just applied *)
snapshotNotBehind(s) == s.lastApplied < s.snapshotEntriesAmount

(* commitToApplyChannelWithLock: the three outcomes *)
snapshotAhead(s) == s.lastApplied + 1 < s.snapshotEntriesAmount

nothingToApply(s) == ~snapshotAhead(s) /\ s.lastApplied >= s.commitIndex

applyMsgs(s) ==
    IF snapshotAhead(s)
    THEN <<snapshotMsg(s)>>
    ELSE [n \in 1 .. (s.commitIndex - s.lastApplied) |-> commandMsg(s, s.lastApplied + n)]

applied(s) ==
    persist([s EXCEPT !.lastApplied =
                IF snapshotAhead(s) THEN s.snapshotEntriesAmount - 1 ELSE s.commitIndex])

(* getLogEntryAtIndex(i) of the loop stays inside the log *)
applyIsInLog(s) == snapshotAhead(s) \/ logIndexCheck(s, s.commitIndex)

-----------------------------------------------------------------------------
(* labrpc: a call is delivered at most once, in any order, or not at all.    *)
(* A call record is created by the caller's goroutine, becomes a reply when  *)
(* the handler returns and disappears when the caller has used the reply.    *)
(* live is FALSE once the calling instance was killed: its request can still *)
(* be executed, its reply goes nowhere.                                      *)

up(i) == i \notin fatal

rpcs == Cardinality(voteCalls) + Cardinality(appendCalls) + Cardinality(snapCalls)

(* id is the first unused slot for a call from i to j *)
freeSlot(calls, i, j, id) ==
    /\ rpcs < MaxRpcs
    /\ \A c \in calls : c.caller = i /\ c.callee = j => c.id # id
    /\ \A k \in 1 .. id - 1 : \E c \in calls : c.caller = i /\ c.callee = j /\ c.id = k

request(i, j, id, args) ==
    [id |-> id, caller |-> i, callee |-> j, live |-> TRUE,
     stage |-> "request", args |-> args, reply |-> Nil]

(* the handler of c returned reply *)
answer(calls, c, reply) ==
    (calls \ {c}) \cup
    IF c.live THEN {[c EXCEPT !.stage = "reply", !.reply = reply]} ELSE {}

move(calls, c, stage, reply) ==
    (calls \ {c}) \cup {[c EXCEPT !.stage = stage, !.reply = reply]}

-----------------------------------------------------------------------------
(* raft.go: ticker and Start *)

(* ticker, not leader, nextElectionTimeout passed: startElection *)
startElection(i) ==
    /\ up(i) /\ rf[i].status # Leader
    /\ rf[i].currentTerm + 2 <= MaxTerm
    /\ rf' = [rf EXCEPT ![i] = becomeCandidate(rf[i], i)]
    /\ voteTasks' = [voteTasks EXCEPT ![i] =
            [j \in Server |-> IF j = i THEN 0 ELSE voteTasks[i][j] + 1]]
    /\ UNCHANGED <<applyCh, service, fatal, snapTasks, voteCalls, appendCalls,
                   snapCalls, crashes>>

Start(i, command) ==
    /\ up(i) /\ rf[i].status = Leader
    /\ getLastLogEntryIndex(rf[i]) < MaxLog
    /\ rf' = [rf EXCEPT ![i] = persist([rf[i] EXCEPT !.logs =
            Append(rf[i].logs, [Term |-> rf[i].currentTerm, Action |-> command])])]
    /\ UNCHANGED <<applyCh, service, fatal, network, crashes>>

-----------------------------------------------------------------------------
(* requestVotes.go *)

getRequestVoteArgs(s, me) ==
    [Term         |-> s.currentTerm,
     CandidateId  |-> me,
     LastLogTerm  |-> getLastLogEntryTerm(s),
     LastLogIndex |-> getLastLogEntryIndex(s)]

(* The goroutine reads the arguments when it first gets rf.mu, which may be
   in a later term and another role than the election that spawned it. *)
handleSendRequestVote(i, j, id) ==
    /\ up(i) /\ voteTasks[i][j] > 0
    /\ freeSlot(voteCalls, i, j, id)
    /\ voteTasks' = [voteTasks EXCEPT ![i][j] = voteTasks[i][j] - 1]
    /\ voteCalls' = voteCalls \cup {request(i, j, id, getRequestVoteArgs(rf[i], i))}
    /\ UNCHANGED <<rf, applyCh, service, fatal, snapTasks, appendCalls, snapCalls, crashes>>

(* the struct after the receiver has compared terms *)
seenTerm(s, args) ==
    IF s.currentTerm < args.Term
    THEN becomeFollower(s, args.Term, args.CandidateId)
    ELSE s

(* variant: votedFor is not looked at *)
mayVoteAgain(s, me, args) == TRUE

mayVote(s, me, args) ==
    \/ s.votedFor \in {Nil, args.CandidateId}
    \/ s.votedFor = me /\ s.status = Candidate

RequestVote(c) ==
    LET i == c.callee
        s == rf[i]
        seen == seenTerm(s, c.args)
    IN
    /\ up(i) /\ c.stage = "request"
    /\ \/ /\ s.currentTerm > c.args.Term
          /\ voteCalls' = answer(voteCalls, c, [Term |-> s.currentTerm, VoteGranted |-> FALSE])
          /\ UNCHANGED rf
       \/ /\ s.currentTerm <= c.args.Term
          /\ ~(candidateIsUpToDate(seen, c.args) /\ mayVote(seen, i, c.args))
          /\ rf' = [rf EXCEPT ![i] = seen]
          /\ voteCalls' = answer(voteCalls, c, [Term |-> s.currentTerm, VoteGranted |-> FALSE])
       \/ /\ s.currentTerm <= c.args.Term
          /\ candidateIsUpToDate(seen, c.args) /\ mayVote(seen, i, c.args)
          /\ rf' = [rf EXCEPT ![i] = becomeFollower(seen, c.args.Term, c.args.CandidateId)]
          /\ voteCalls' = answer(voteCalls, c, [Term |-> c.args.Term, VoteGranted |-> TRUE])
    /\ UNCHANGED <<applyCh, service, fatal, voteTasks, snapTasks, appendCalls, snapCalls, crashes>>

(* the rest of handleSendRequestVote: Call returned true *)
handleRequestVoteReply(c) ==
    LET i == c.caller
        s == rf[i]
        voted == IF c.reply.VoteGranted /\ c.reply.Term = s.currentTerm THEN gainVote(s) ELSE s
    IN
    /\ up(i) /\ c.stage = "reply"
    /\ \/ /\ c.reply.Term > s.currentTerm
          /\ rf' = [rf EXCEPT ![i] = becomeFollower(s, c.reply.Term, Nil)]
       \/ /\ c.reply.Term <= s.currentTerm
          /\ rf' = [rf EXCEPT ![i] = checkElectionStatus(voted)]
    /\ voteCalls' = voteCalls \ {c}
    /\ UNCHANGED <<applyCh, service, fatal, voteTasks, snapTasks, appendCalls, snapCalls, crashes>>

(* request or reply lost: Call returns false, which only logs *)
loseRequestVote(c) ==
    /\ voteCalls' = voteCalls \ {c}
    /\ UNCHANGED <<rf, applyCh, service, fatal, voteTasks, snapTasks, appendCalls,
                   snapCalls, crashes>>

-----------------------------------------------------------------------------
(* appendEntities.go, sender side *)

createAppendEntriesArgs(s, me, j) ==
    LET prev == s.nextIndex[j] - 1 IN
    [Term         |-> s.currentTerm,
     LeaderId     |-> me,
     PrevLogIndex |-> prev,
     PrevLogTerm  |-> getLogTermAtIndex(s, prev),
     Entries      |-> getLogEntryStartingAt(s, prev + 1),
     LeaderCommit |-> s.commitIndex]

(* nextIndex is at least 1 (see TypeOK), so getLogIndexBeforeIndex's case -1 and
   the -1 cases of logMatches and removeLogFromIndex do not arise. *)
(* Any number of goroutines may be pending once i has led: the ticker spawns one
   per peer every 25ms and none is ever cancelled.  nextIndex is nil before. *)
handleSendAppendEntries(i, j, id) ==
    LET s == rf[i] IN
    /\ up(i) /\ j # i /\ s.nextIndex # Nil
    /\ \/ /\ s.nextIndex[j] < s.snapshotEntriesAmount
          /\ snapTasks[i][j] < Slots
          /\ rf' = [rf EXCEPT ![i].nextIndex[j] = s.snapshotEntriesAmount]
          /\ snapTasks' = [snapTasks EXCEPT ![i][j] = snapTasks[i][j] + 1]
          /\ UNCHANGED <<appendCalls, fatal>>
       \/ /\ s.nextIndex[j] >= s.snapshotEntriesAmount
          /\ s.status = Leader
          /\ freeSlot(appendCalls, i, j, id)
          /\ IF termIsKnown(s, s.nextIndex[j] - 1)
             THEN /\ appendCalls' = appendCalls \cup
                        {request(i, j, id, createAppendEntriesArgs(s, i, j))}
                  /\ UNCHANGED fatal
             ELSE /\ fatal' = fatal \cup {i}
                  /\ UNCHANGED appendCalls
          /\ UNCHANGED <<rf, snapTasks>>
    /\ UNCHANGED <<applyCh, service, voteTasks, voteCalls, snapCalls, crashes>>

-----------------------------------------------------------------------------
(* appendEntities.go, receiver side *)

appendReply(term, success, inSnapshot, amount) ==
    [Term |-> term, Success |-> success, InSnapshot |-> inSnapshot, SnapshotAmount |-> amount]

inSnapshot(s, args) == args.PrevLogIndex < s.snapshotEntriesAmount - 1

logMatches(s, args) ==
    /\ args.PrevLogIndex <= getLastLogEntryIndex(s)
    /\ getLogTermAtIndex(s, args.PrevLogIndex) = args.PrevLogTerm

(* removeLogFromIndex; appendEntries; commitIndex; persist *)
accept(s, args) ==
    persist([s EXCEPT
        !.logs        = removeLogFromIndex(s, args.PrevLogIndex) \o args.Entries,
        !.commitIndex = IF s.commitIndex < args.LeaderCommit
                        THEN args.LeaderCommit ELSE s.commitIndex])

AppendEntriesWithLock(c) ==
    LET i == c.callee
        s == rf[i]
        f == becomeFollower(s, c.args.Term, Nil)
    IN
    /\ up(i) /\ c.stage = "request"
    /\ \/ /\ s.currentTerm > c.args.Term
          /\ appendCalls' = answer(appendCalls, c, appendReply(s.currentTerm, FALSE, FALSE, 0))
          /\ UNCHANGED rf
       \/ /\ s.currentTerm <= c.args.Term
          /\ inSnapshot(f, c.args)
          /\ rf' = [rf EXCEPT ![i] = f]
          /\ appendCalls' = answer(appendCalls, c,
                    appendReply(c.args.Term, FALSE, TRUE, s.snapshotEntriesAmount))
       \/ /\ s.currentTerm <= c.args.Term
          /\ ~inSnapshot(f, c.args) /\ ~logMatches(f, c.args)
          /\ rf' = [rf EXCEPT ![i] = f]
          /\ appendCalls' = answer(appendCalls, c, appendReply(c.args.Term, FALSE, FALSE, 0))
       \/ /\ s.currentTerm <= c.args.Term
          /\ ~inSnapshot(f, c.args) /\ logMatches(f, c.args)
          /\ rf' = [rf EXCEPT ![i] = accept(f, c.args)]
          /\ appendCalls' = move(appendCalls, c, "serveCommit",
                                 appendReply(c.args.Term, TRUE, FALSE, 0))
    /\ UNCHANGED <<applyCh, service, fatal, voteTasks, snapTasks, voteCalls, snapCalls, crashes>>

(* the server whose goroutine is inside commitToApplyChannel on behalf of c *)
threadOf(c) == IF c.stage \in {"serveCommit", "serveApply"} THEN c.callee ELSE c.caller

(* commitToApplyChannel returned: the AppendEntries handler replies, the
   leader's goroutine ends *)
finish(c) ==
    IF c.stage \in {"serveCommit", "serveApply"}
    THEN answer(appendCalls, c, c.reply)
    ELSE appendCalls \ {c}

(* commitToApplyChannel, called without rf.mu by the AppendEntries handler and
   by the leader's reply handler: applyMu is free when applyCh[i] is empty; the
   goroutine keeps it until the service has received every message. *)
commitToApplyChannel(c) ==
    LET i == threadOf(c)
        s == rf[i]
    IN
    /\ up(i) /\ c.stage \in {"serveCommit", "leadCommit"}
    /\ applyCh[i] = <<>>
    /\ \/ /\ nothingToApply(s)
          /\ rf' = [rf EXCEPT ![i] = persist(s)]
          /\ appendCalls' = finish(c)
          /\ UNCHANGED <<applyCh, fatal>>
       \/ /\ ~nothingToApply(s) /\ applyIsInLog(s)
          /\ rf' = [rf EXCEPT ![i] = applied(s)]
          /\ applyCh' = [applyCh EXCEPT ![i] = applyMsgs(s)]
          /\ appendCalls' = move(appendCalls, c,
                IF c.stage = "serveCommit" THEN "serveApply" ELSE "leadApply", c.reply)
          /\ UNCHANGED fatal
       \/ /\ ~nothingToApply(s) /\ ~applyIsInLog(s)
          /\ fatal' = fatal \cup {i}
          /\ UNCHANGED <<rf, applyCh, appendCalls>>
    /\ UNCHANGED <<service, voteTasks, snapTasks, voteCalls, snapCalls, crashes>>

(* applyCh is unbuffered: the goroutine's send and the service's receive are
   one step.  A snapshot replaces the service's state. *)
receiveApplyMsg(c) ==
    LET i == threadOf(c)
        m == Head(applyCh[i])
    IN
    /\ up(i) /\ c.stage \in {"serveApply", "leadApply"}
    /\ applyCh[i] # <<>>
    /\ service' = [service EXCEPT ![i] =
            IF m.SnapshotValid THEN m.Snapshot ELSE Append(service[i], m.Command)]
    /\ applyCh' = [applyCh EXCEPT ![i] = Tail(applyCh[i])]
    /\ appendCalls' = IF Tail(applyCh[i]) = <<>> THEN finish(c) ELSE appendCalls
    /\ UNCHANGED <<rf, fatal, voteTasks, snapTasks, voteCalls, snapCalls, crashes>>

-----------------------------------------------------------------------------
(* appendEntities.go: the rest of handleSendAppendEntries, Call returned true. *)
(* Neither the term the call was made in nor the log at that time is compared  *)
(* with the present ones.                                                      *)

(* variant: the snapshot does not limit the decrement *)
decrementedBelow(s, j) ==
    LET n == s.nextIndex[j] - 1 IN IF n < 1 THEN 1 ELSE n

(* nextIndex after its decrement and the two lower limits *)
decremented(s, j) ==
    LET n == s.nextIndex[j] - 1
        m == IF n < s.snapshotEntriesAmount THEN s.snapshotEntriesAmount ELSE n
    IN IF m < 1 THEN 1 ELSE m

(* the indexes at which the loop over one term's entries stops; it goes down
   from pre, so it ends at the largest *)
backoffStops(s, pre) ==
    {k \in 0 .. pre : \/ k <= 1
                      \/ k <= s.snapshotEntriesAmount
                      \/ getLogEntryAtIndex(s, k).Term # getLogTermAtIndex(s, pre)}

handleAppendEntriesReply(c) ==
    LET i == c.caller
        j == c.callee
        s == rf[i]
        matched == c.args.PrevLogIndex + Len(c.args.Entries)
        pre == decremented(s, j) - 1
        failed == ~c.reply.Success /\ ~c.reply.InSnapshot
    IN
    /\ up(i) /\ c.stage = "reply"
    /\ \/ /\ s.status # Leader
          /\ appendCalls' = appendCalls \ {c}
          /\ UNCHANGED <<rf, snapTasks, fatal>>
       \/ /\ s.status = Leader /\ c.reply.Success
          /\ LET t == [s EXCEPT !.nextIndex[j] = matched + 1, !.matchIndex[j] = matched] IN
             \E k \in commitCandidates(t, i) :
                /\ isMax(k, commitCandidates(t, i))
                /\ rf' = [rf EXCEPT ![i] = [t EXCEPT !.commitIndex = k]]
          /\ appendCalls' = move(appendCalls, c, "leadCommit", c.reply)
          /\ UNCHANGED <<snapTasks, fatal>>
       \/ /\ s.status = Leader /\ c.reply.InSnapshot
          /\ rf' = [rf EXCEPT ![i].nextIndex[j] = c.reply.SnapshotAmount]
          /\ appendCalls' = appendCalls \ {c}
          /\ UNCHANGED <<snapTasks, fatal>>
       \/ /\ s.status = Leader /\ failed /\ s.currentTerm < c.reply.Term
          /\ rf' = [rf EXCEPT ![i] = becomeFollower(s, c.reply.Term, Nil)]
          /\ appendCalls' = appendCalls \ {c}
          /\ UNCHANGED <<snapTasks, fatal>>
       \/ /\ s.status = Leader /\ failed /\ s.currentTerm >= c.reply.Term
          /\ appendCalls' = appendCalls \ {c}
          /\ IF termIsKnown(s, pre)
             THEN \E k \in backoffStops(s, pre) :
                    /\ isMax(k, backoffStops(s, pre))
                    /\ rf' = [rf EXCEPT ![i].nextIndex[j] = k + 1]
                    /\ IF k + 1 <= s.snapshotEntriesAmount
                       THEN /\ snapTasks[i][j] < Slots
                            /\ snapTasks' = [snapTasks EXCEPT ![i][j] = snapTasks[i][j] + 1]
                       ELSE UNCHANGED snapTasks
                    /\ UNCHANGED fatal
             ELSE /\ fatal' = fatal \cup {i}
                  /\ UNCHANGED <<rf, snapTasks>>
    /\ UNCHANGED <<applyCh, service, voteTasks, voteCalls, snapCalls, crashes>>

(* request or reply lost, or the handler is still running when the caller gives
   up: Call returns false, which only logs *)
loseAppendEntries(c) ==
    /\ \/ /\ c.stage \in {"request", "reply"}
          /\ appendCalls' = appendCalls \ {c}
       \/ /\ c.stage \in {"serveCommit", "serveApply"} /\ c.live
          /\ appendCalls' = (appendCalls \ {c}) \cup {[c EXCEPT !.live = FALSE]}
    /\ UNCHANGED <<rf, applyCh, service, fatal, voteTasks, snapTasks, voteCalls, snapCalls, crashes>>

-----------------------------------------------------------------------------
(* installSnapshot.go *)

(* variant: entries after the snapshot are dropped with those it holds *)
trimAll(s, index, term) ==
    [s EXCEPT !.lastSnapshotTerm      = term,
              !.logs                  = <<>>,
              !.snapshotEntriesAmount = index + 1]

trim(s, index, term) ==
    [s EXCEPT !.lastSnapshotTerm      = term,
              !.logs                  = getLogEntryStartingAt(s, index + 1),
              !.snapshotEntriesAmount = index + 1]

(* The service snapshots the state it has after the last command it received.
   Calls that return early change nothing and are not steps. *)
Snapshot(i) ==
    LET s == rf[i]
        index == Len(service[i]) - 1
        t == trim(s, index, getLogEntryAtIndex(s, index).Term)
    IN
    /\ Snapshots /\ up(i)
    /\ index > 0
    /\ ~(s.snapshotEntriesAmount - 1 >= index \/ index > s.commitIndex)
    /\ \/ /\ logIndexCheck(s, index)
          /\ rf' = [rf EXCEPT ![i] = persistAndSnapshot(
                [t EXCEPT !.lastApplied = IF index > s.lastApplied THEN index ELSE s.lastApplied],
                service[i])]
          /\ UNCHANGED fatal
       \/ /\ ~logIndexCheck(s, index)
          /\ fatal' = fatal \cup {i}
          /\ UNCHANGED rf
    /\ UNCHANGED <<applyCh, service, network, crashes>>

createInstallSnapshotArgs(s, me) ==
    [Term              |-> s.currentTerm,
     LeaderId          |-> me,
     LastIncludedIndex |-> s.snapshotEntriesAmount - 1,
     LastIncludedTerm  |-> s.lastSnapshotTerm,
     Data              |-> s.persister.snapshot]

(* The goroutine runs whatever the status of i is by then. *)
handleSendInstallSnapshot(i, j, id) ==
    /\ up(i) /\ snapTasks[i][j] > 0
    /\ freeSlot(snapCalls, i, j, id)
    /\ snapTasks' = [snapTasks EXCEPT ![i][j] = snapTasks[i][j] - 1]
    /\ snapCalls' = snapCalls \cup {request(i, j, id, createInstallSnapshotArgs(rf[i], i))}
    /\ UNCHANGED <<rf, applyCh, service, fatal, voteTasks, voteCalls, appendCalls, crashes>>

(* the handler holds applyMu and rf.mu throughout *)
InstallSnapshot(c) ==
    LET i == c.callee
        s == rf[i]
        f == becomeFollower(s, c.args.Term, Nil)
        last == c.args.LastIncludedIndex
    IN
    /\ up(i) /\ c.stage = "request"
    /\ applyCh[i] = <<>>
    /\ \/ /\ c.args.Term < s.currentTerm
          /\ snapCalls' = answer(snapCalls, c, [Term |-> s.currentTerm])
          /\ UNCHANGED rf
       \/ /\ c.args.Term >= s.currentTerm /\ s.snapshotEntriesAmount > last
          /\ rf' = [rf EXCEPT ![i] = f]
          /\ snapCalls' = answer(snapCalls, c, [Term |-> c.args.Term])
       \/ /\ c.args.Term >= s.currentTerm /\ s.snapshotEntriesAmount <= last
          /\ rf' = [rf EXCEPT ![i] =
                persistAndSnapshot(trim(f, last, c.args.LastIncludedTerm), c.args.Data)]
          /\ snapCalls' = answer(snapCalls, c, [Term |-> c.args.Term])
    /\ UNCHANGED <<applyCh, service, fatal, voteTasks, snapTasks, voteCalls, appendCalls, crashes>>

(* the rest of handleSendInstallSnapshot, Call returned true *)
handleInstallSnapshotReply(c) ==
    LET i == c.caller
        s == rf[i]
    IN
    /\ up(i) /\ c.stage = "reply"
    /\ rf' = [rf EXCEPT ![i] = IF s.currentTerm < c.reply.Term
                               THEN becomeFollower(s, c.reply.Term, Nil) ELSE s]
    /\ snapCalls' = snapCalls \ {c}
    /\ UNCHANGED <<applyCh, service, fatal, voteTasks, snapTasks, voteCalls, appendCalls, crashes>>

(* the rest of handleSendInstallSnapshot, Call returned false: the peer is
   taken to have the snapshot.  A request whose handler is waiting for applyMu
   when the caller's link goes down is still executed. *)
handleInstallSnapshotFailure(c) ==
    LET i == c.caller
        last == c.args.LastIncludedIndex
    IN
    /\ up(i) /\ c.live
    /\ rf' = [rf EXCEPT ![i].nextIndex[c.callee] = last + 1,
                        ![i].matchIndex[c.callee] = last]
    /\ \/ snapCalls' = snapCalls \ {c}
       \/ /\ c.stage = "request"
          /\ snapCalls' = (snapCalls \ {c}) \cup {[c EXCEPT !.live = FALSE]}
    /\ UNCHANGED <<applyCh, service, fatal, voteTasks, snapTasks, voteCalls, appendCalls, crashes>>

(* a request of a killed instance is lost *)
loseOrphan(c) ==
    /\ ~c.live /\ c.stage = "request"
    /\ snapCalls' = snapCalls \ {c}
    /\ UNCHANGED <<rf, applyCh, service, fatal, voteTasks, snapTasks, voteCalls, appendCalls, crashes>>

-----------------------------------------------------------------------------
(* Kill, then Make with the persister's contents (raft/config.go crash1 and    *)
(* start1).  Goroutines of the killed instance are gone, and so are the calls  *)
(* it was waiting for or serving; requests already sent stay in the network.   *)

goneWith(c, i) ==
    \/ c.caller = i /\ c.stage \in {"reply", "lost", "leadCommit", "leadApply"}
    \/ c.callee = i /\ c.stage \in {"serveCommit", "serveApply"}

orphaned(calls, i) ==
    {[c EXCEPT !.live = c.live /\ c.caller # i] : c \in {d \in calls : ~goneWith(d, i)}}

restart(i, persister) ==
    /\ crashes < MaxCrashes
    /\ crashes' = crashes + 1
    /\ rf' = [rf EXCEPT ![i] = Make(persister)]
    /\ applyCh' = [applyCh EXCEPT ![i] = <<>>]
    /\ service' = [service EXCEPT ![i] = <<>>]
    /\ fatal' = fatal \ {i}
    /\ voteTasks' = [voteTasks EXCEPT ![i] = [j \in Server |-> 0]]
    /\ snapTasks' = [snapTasks EXCEPT ![i] = [j \in Server |-> 0]]
    /\ voteCalls' = orphaned(voteCalls, i)

crash1(i) ==
    /\ restart(i, rf[i].persister)
    /\ appendCalls' = orphaned(appendCalls, i)
    /\ snapCalls' = orphaned(snapCalls, i)

(* Both handlers persist twice: in becomeFollower and at their end.  The
   instance is killed between the two. *)
midHandler(c) ==
    becomeFollower(rf[c.callee], c.args.Term, Nil).persister

crashInAppendEntries(c) ==
    /\ up(c.callee) /\ c.stage = "request" /\ c.args.Term >= rf[c.callee].currentTerm
    /\ restart(c.callee, midHandler(c))
    /\ appendCalls' = orphaned(appendCalls \ {c}, c.callee)
    /\ snapCalls' = orphaned(snapCalls, c.callee)

crashInInstallSnapshot(c) ==
    /\ up(c.callee) /\ c.stage = "request" /\ c.args.Term >= rf[c.callee].currentTerm
    /\ applyCh[c.callee] = <<>>
    /\ restart(c.callee, midHandler(c))
    /\ appendCalls' = orphaned(appendCalls, c.callee)
    /\ snapCalls' = orphaned(IF c.live THEN move(snapCalls, c, "lost", Nil)
                                       ELSE snapCalls \ {c}, c.callee)

-----------------------------------------------------------------------------
Init ==
    /\ rf = [i \in Server |-> Make(MakePersister)]
    /\ applyCh = [i \in Server |-> <<>>]
    /\ service = [i \in Server |-> <<>>]
    /\ fatal = {}
    /\ voteTasks = [i \in Server |-> [j \in Server |-> 0]]
    /\ snapTasks = [i \in Server |-> [j \in Server |-> 0]]
    /\ voteCalls = {} /\ appendCalls = {} /\ snapCalls = {}
    /\ crashes = 0

Next ==
    \/ \E i \in Contenders : startElection(i)
    \/ \E i \in Server : Snapshot(i) \/ crash1(i)
    \/ \E i \in Server, command \in Value : Start(i, command)
    \/ \E i, j \in Server, id \in 1 .. Slots :
          \/ handleSendRequestVote(i, j, id)
          \/ handleSendAppendEntries(i, j, id)
          \/ handleSendInstallSnapshot(i, j, id)
    \/ \E c \in voteCalls :
          RequestVote(c) \/ handleRequestVoteReply(c) \/ loseRequestVote(c)
    \/ \E c \in appendCalls :
          \/ AppendEntriesWithLock(c) \/ commitToApplyChannel(c) \/ receiveApplyMsg(c)
          \/ handleAppendEntriesReply(c) \/ loseAppendEntries(c) \/ crashInAppendEntries(c)
    \/ \E c \in snapCalls :
          \/ InstallSnapshot(c) \/ handleInstallSnapshotReply(c)
          \/ handleInstallSnapshotFailure(c) \/ loseOrphan(c) \/ crashInInstallSnapshot(c)

Spec == Init /\ [][Next]_vars

(***************************************************************************)
(* Properties                                                              *)
(***************************************************************************)
Term == Nat \cup {-1}
Entry == [Term : Term, Action : Value \cup {Nil}]

PersistData ==
    [currentTerm : Nat, votedFor : Server \cup {Nil}, logs : Seq(Entry),
     snapshotEntriesAmount : Nat, lastSnapshotTerm : Term]

(* an empty persister is told from a saved state, a nil slice from a made one *)
ASSUME NilIsNoState == Nil \notin PersistData /\ Nil \notin [Server -> Nat \ {0}]

PersisterState ==
    [raftstate : PersistData \cup {Nil}, snapshot : Seq(Value \cup {Nil})]

RaftState ==
    [status : {Follower, Candidate, Leader}, currentTerm : Nat,
     votedFor : Server \cup {Nil}, numVoteGathered : Nat, logs : Seq(Entry),
     snapshotEntriesAmount : Nat, lastSnapshotTerm : Term,
     commitIndex : Nat \cup {-1}, lastApplied : Nat \cup {-1},
     nextIndex : [Server -> Nat \ {0}] \cup {Nil},
     matchIndex : [Server -> Nat \cup {-1}] \cup {Nil},
     persister : PersisterState]

ApplyMsg ==
    [CommandValid : BOOLEAN, SnapshotValid : BOOLEAN, Index : Nat,
     Command : Value \cup {Nil}, Snapshot : Seq(Value \cup {Nil})]

Call(stages, args, replies) ==
    [id : Nat, caller : Server, callee : Server, live : BOOLEAN,
     stage : stages, args : args, reply : replies \cup {Nil}]

VoteCall == Call({"request", "reply"},
    [Term : Nat, CandidateId : Server, LastLogTerm : Term, LastLogIndex : Nat],
    [Term : Nat, VoteGranted : BOOLEAN])

AppendCall == Call({"request", "serveCommit", "serveApply", "reply", "leadCommit", "leadApply"},
    [Term : Nat, LeaderId : Server, PrevLogIndex : Nat, PrevLogTerm : Term,
     Entries : Seq(Entry), LeaderCommit : Nat \cup {-1}],
    [Term : Nat, Success : BOOLEAN, InSnapshot : BOOLEAN, SnapshotAmount : Nat])

SnapCall == Call({"request", "reply", "lost"},
    [Term : Nat, LeaderId : Server, LastIncludedIndex : Nat, LastIncludedTerm : Term,
     Data : Seq(Value \cup {Nil})],
    [Term : Nat])

(* Every index stays in the range the code assumes: nextIndex at least 1,
   PrevLogIndex and LastIncludedIndex never -1, the rest of the fields typed. *)
TypeOK ==
    /\ rf \in [Server -> RaftState]
    /\ applyCh \in [Server -> Seq(ApplyMsg)]
    /\ service \in [Server -> Seq(Value \cup {Nil})]
    /\ fatal \subseteq Server
    /\ voteTasks \in [Server -> [Server -> Nat]]
    /\ snapTasks \in [Server -> [Server -> Nat]]
    /\ voteCalls \subseteq VoteCall
    /\ appendCalls \subseteq AppendCall
    /\ snapCalls \subseteq SnapCall
    /\ crashes \in Nat

(* What a restart would read back is what the peer holds: every handler has
   persisted each change of the five persistent fields when it gives up rf.mu
   (getPersistData, readPersist, and the persist() calls of all handlers). *)
Durable ==
    \A i \in Server : getPersistData(Make(rf[i].persister)) = getPersistData(rf[i])

(* The saved snapshot holds as many entries as the log was trimmed of, so log and
   snapshot together lose or repeat no index, also across a crash
   (SaveStateAndSnapshot, Snapshot, InstallSnapshotLocked).  It counts them: that
   they are the same entries is not said here. *)
SnapshotCoversTrimmedLog ==
    \A i \in Server : Len(rf[i].persister.snapshot) = rf[i].snapshotEntriesAmount

(* The next message on applyCh continues what the service has: a command has the
   next index, a snapshot holds the index it claims and never takes the service
   back (commitToApplyChannelWithLock; config.go's "applied index %d but expected
   %d").  Handlers, reply handlers and Snapshot race for lastApplied. *)
ApplyInOrder ==
    \A i \in Server : applyCh[i] # <<>> =>
        LET m == Head(applyCh[i]) IN
        IF m.SnapshotValid
        THEN Len(m.Snapshot) = m.Index + 1 /\ m.Index >= Len(service[i])
        ELSE m.Index = Len(service[i])

(* No two servers lead in the same term (config.go checkOneLeader). *)
ElectionSafety ==
    \A i, j \in Server :
        /\ rf[i].status = Leader /\ rf[j].status = Leader
        /\ rf[i].currentTerm = rf[j].currentTerm
        => i = j

(* Two logs that hold an entry of the same index and term agree up to there
   (what logMatches and the unconditional truncation are to maintain). *)
LogMatching ==
    \A i, j \in Server :
        \A n \in DOMAIN rf[i].logs \cap DOMAIN rf[j].logs :
            rf[i].logs[n].Term = rf[j].logs[n].Term =>
                SubSeq(rf[i].logs, 1, n) = SubSeq(rf[j].logs, 1, n)

(* the follower has accepted the entries of c *)
acked(c) == c.stage \in {"serveCommit", "serveApply", "reply"} /\ c.reply.Success

(* the follower's persister has the entries of c, in the log or in the snapshot,
   or a later term *)
ackIsKept(c) ==
    LET s == Make(rf[c.callee].persister) IN
    \/ s.currentTerm > c.args.Term
    \/ \A n \in DOMAIN c.args.Entries :
          LET k == c.args.PrevLogIndex + n IN
          \/ k < s.snapshotEntriesAmount
          \/ logIndexCheck(s, k) /\ getLogEntryAtIndex(s, k) = c.args.Entries[n]

sameCall(c, d) ==
    c.id = d.id /\ c.caller = d.caller /\ c.callee = d.callee /\ c.args = d.args

(* d is a call of the same leadership to the same follower that was sent when the
   leader's log was shorter, and arrives after c *)
overtaken(d, c) ==
    /\ d.caller = c.caller /\ d.callee = c.callee /\ d.args.Term = c.args.Term
    /\ d.args.PrevLogIndex + Len(d.args.Entries) < c.args.PrevLogIndex + Len(c.args.Entries)

(* Entries a follower acknowledged, which leaderUpdateCommit counts, leave its
   persister within the term in one way only: an AppendEntries the same leader sent
   earlier arrives late, and removeLogFromIndex cuts the log at its PrevLogIndex.
   No kill between two persists, snapshot, trimmed log, retry, reply or call of
   another server loses them. *)
AcksLostToOlderCallsOnly ==
    [][\A c \in appendCalls' : acked(c) /\ ~ackIsKept(c)' =>
          \/ \E d \in appendCalls : sameCall(c, d) /\ acked(d) /\ ~ackIsKept(d)
          \/ \E d \in appendCalls : AppendEntriesWithLock(d) /\ overtaken(d, c)]_vars

(* Services that applied the same index applied the same command there
   (config.go checkConsistency). *)
StateMachineSafety ==
    \A i, j \in Server :
        \A n \in DOMAIN service[i] \cap DOMAIN service[j] : service[i][n] = service[j][n]

(* No logIndexCheck or other log.Fatalf ends a server (logUtils.go). *)
NeverFatal == fatal = {}

(* A server that ended in log.Fatalf had a commitIndex or a nextIndex past the end of
   its log: no goroutine ever looks up an index the log was trimmed of, although
   nextIndex, commitIndex and the service's index were all computed before the
   trimming (logIndexCheck, getLogTermAtIndex, the lower limits of
   handleSendAppendEntries and of commitToApplyChannelWithLock). *)
FatalOnlyPastTheEnd ==
    \A i \in fatal :
        LET past == getLastLogEntryIndex(rf[i]) + 1 IN
        \/ rf[i].commitIndex >= past
        \/ rf[i].nextIndex # Nil /\ \E j \in Server : rf[i].nextIndex[j] > past

(* No step takes a server back to an earlier term, a kill and restart at any
   point of a handler included (becomeFollower, readPersist). *)
TermsNeverRegress ==
    [][\A i \in Server : rf'[i].currentTerm >= rf[i].currentTerm]_vars
=============================================================================
