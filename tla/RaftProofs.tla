----------------------------- MODULE RaftProofs -----------------------------
(***************************************************************************)
(* Invariants of Raft for every set of servers and every bound.  Inv is    *)
(* inductive.  Its core is PeerOK, a predicate on one Raft struct that     *)
(* every method preserves; the other parts tie the struct to the calls and *)
(* goroutines in flight and to the apply channel.                          *)
(* SafeInv adds what elections and logs need: at most one leader in a term *)
(* and logs that agree, for at most three servers without snapshots.       *)
(* AckInv adds what acknowledgements need when no two calls overlap.       *)
(***************************************************************************)
EXTENDS Raft, TLAPS, SequenceTheorems, Induction, FiniteSetTheorems

Action == Value \cup {Nil}

(* nextIndex and matchIndex exist: the instance has been leader *)
HasLed(s) ==
    /\ s.nextIndex \in [Server -> Nat \ {0}]
    /\ s.matchIndex \in [Server -> Nat \cup {-1}]

(* what a struct satisfies also in the middle of a method *)
Shape(s) ==
    /\ s \in RaftState
    /\ Len(s.logs) + s.snapshotEntriesAmount > 0
    /\ Len(s.persister.snapshot) = s.snapshotEntriesAmount
    /\ s.status = Leader => HasLed(s)
    /\ s.nextIndex # Nil => HasLed(s)

(* what the persister holds is the present persistent state *)
Saved(s) ==
    /\ s.persister.raftstate # Nil => s.persister.raftstate = getPersistData(s)
    /\ s.persister.raftstate = Nil =>
          getPersistData(s) = getPersistData(bootstrap(s.persister))

PeerOK(s) == Shape(s) /\ Saved(s)

(* what every step but a restart keeps of a struct *)
Keeps(s, u) ==
    /\ HasLed(s) => HasLed(u)
    /\ u.snapshotEntriesAmount >= s.snapshotEntriesAmount
    /\ u.currentTerm >= s.currentTerm

-----------------------------------------------------------------------------
(* persist changes the persister only, and brings it up to date. *)
LEMMA PersistOK ==
    ASSUME NEW s, Shape(s)
    PROVE  /\ PeerOK(persist(s))
           /\ persist(s).lastApplied = s.lastApplied
           /\ persist(s).currentTerm = s.currentTerm
           /\ persist(s).snapshotEntriesAmount = s.snapshotEntriesAmount
           /\ persist(s).logs = s.logs
           /\ persist(s).nextIndex = s.nextIndex
           /\ persist(s).matchIndex = s.matchIndex
           /\ persist(s).commitIndex = s.commitIndex
           /\ persist(s).status = s.status
<1> DEFINE d == getPersistData(s)
           u == persist(s)
<1>1. s \in RaftState
  BY DEF Shape
<1>2. d \in PersistData
  BY <1>1 DEF getPersistData, RaftState, PersistData
<1>3. s.persister \in PersisterState
  BY <1>1 DEF RaftState
<1>4. u = [s EXCEPT !.persister = [s.persister EXCEPT !.raftstate = d]]
  BY <1>1, <1>3 DEF persist, RaftState, PersisterState
<1>5. [s.persister EXCEPT !.raftstate = d] \in PersisterState
  BY <1>2, <1>3 DEF PersisterState
<1> DEFINE p == [s.persister EXCEPT !.raftstate = d]
<1>6. p \in PersisterState /\ p.raftstate = d /\ p.snapshot = s.persister.snapshot
  BY <1>3, <1>5 DEF PersisterState
<1> HIDE DEF p, d, u
<1>7. u \in RaftState /\ u = [s EXCEPT !.persister = p]
  BY <1>1, <1>4, <1>6 DEF RaftState, p
<1>8. /\ u.lastApplied = s.lastApplied
      /\ u.currentTerm = s.currentTerm
      /\ u.snapshotEntriesAmount = s.snapshotEntriesAmount
      /\ u.logs = s.logs
      /\ u.nextIndex = s.nextIndex
      /\ u.matchIndex = s.matchIndex
      /\ u.commitIndex = s.commitIndex
      /\ u.status = s.status
      /\ u.votedFor = s.votedFor
      /\ u.lastSnapshotTerm = s.lastSnapshotTerm
      /\ u.persister = p
  BY <1>1, <1>7 DEF RaftState
<1>9. getPersistData(u) = d
  BY <1>8 DEF getPersistData, d
<1>10. Saved(u)
  BY <1>2, <1>6, <1>8, <1>9, NilIsNoState DEF Saved
<1>11. Shape(u)
  BY <1>6, <1>7, <1>8 DEF Shape, HasLed
<1> QED
  BY <1>8, <1>10, <1>11 DEF PeerOK, u

(* becomeFollower in the same or a later term keeps log, snapshot and indexes. *)
LEMMA BecomeFollowerOK ==
    ASSUME NEW s, Shape(s), NEW t \in Nat, t >= s.currentTerm,
           NEW v \in Server \cup {Nil}
    PROVE  LET u == becomeFollower(s, t, v) IN
           /\ PeerOK(u) /\ Keeps(s, u)
           /\ u.lastApplied = s.lastApplied
           /\ u.commitIndex = s.commitIndex
           /\ u.snapshotEntriesAmount = s.snapshotEntriesAmount
           /\ u.logs = s.logs
           /\ u.currentTerm = t
           /\ u.nextIndex = s.nextIndex
           /\ u.matchIndex = s.matchIndex
<1> DEFINE w == [s EXCEPT !.currentTerm     = t,
                          !.votedFor        = v,
                          !.status          = Follower,
                          !.numVoteGathered = 0]
<1>1. s \in RaftState
  BY DEF Shape
<1>2. /\ w \in RaftState
      /\ w.status = Follower
      /\ w.currentTerm = t
      /\ w.lastApplied = s.lastApplied
      /\ w.commitIndex = s.commitIndex
      /\ w.snapshotEntriesAmount = s.snapshotEntriesAmount
      /\ w.logs = s.logs
      /\ w.nextIndex = s.nextIndex
      /\ w.matchIndex = s.matchIndex
      /\ w.persister = s.persister
  BY <1>1 DEF RaftState
<1>3. becomeFollower(s, t, v) = persist(w)
  BY DEF becomeFollower
<1> HIDE DEF w
<1>4. Shape(w)
  BY <1>2 DEF Shape, HasLed, Follower, Leader
<1>5. s.snapshotEntriesAmount \in Nat
  BY <1>1 DEF RaftState
<1> QED
  BY <1>2, <1>3, <1>4, <1>5, PersistOK DEF Keeps, HasLed

(* becomeCandidate *)
LEMMA BecomeCandidateOK ==
    ASSUME NEW s, Shape(s), NEW me \in Server
    PROVE  LET u == becomeCandidate(s, me) IN
           PeerOK(u) /\ Keeps(s, u) /\ u.lastApplied = s.lastApplied
<1> DEFINE nt == s.currentTerm + 1
           w == [s EXCEPT !.currentTerm     = nt,
                          !.status          = Candidate,
                          !.votedFor        = me,
                          !.numVoteGathered = 1]
<1>1. s \in RaftState /\ s.currentTerm \in Nat
  BY DEF Shape, RaftState
<1>0. nt \in Nat /\ nt >= s.currentTerm
  BY <1>1
<1> HIDE DEF nt
<1>2. /\ w \in RaftState
      /\ w.status = Candidate
      /\ w.currentTerm = nt
      /\ w.lastApplied = s.lastApplied
      /\ w.snapshotEntriesAmount = s.snapshotEntriesAmount
      /\ w.logs = s.logs
      /\ w.nextIndex = s.nextIndex
      /\ w.matchIndex = s.matchIndex
      /\ w.persister = s.persister
  BY <1>0, <1>1 DEF RaftState
<1>3. becomeCandidate(s, me) = persist(w)
  BY DEF becomeCandidate, nt
<1> HIDE DEF w
<1>4. Shape(w)
  BY <1>2 DEF Shape, HasLed, Candidate, Leader
<1>5. s.snapshotEntriesAmount \in Nat
  BY <1>1 DEF RaftState
<1> QED
  BY <1>0, <1>1, <1>2, <1>3, <1>4, <1>5, PersistOK DEF Keeps, HasLed

(* becomeLeader: nextIndex is at least 1 because the log is never empty *)
LEMMA BecomeLeaderOK ==
    ASSUME NEW s, Shape(s)
    PROVE  LET u == becomeLeader(s) IN
           PeerOK(u) /\ Keeps(s, u) /\ u.lastApplied = s.lastApplied
<1> DEFINE nt == s.currentTerm + 1
           ni == [j \in Server |-> getLastLogEntryIndex(s) + 1]
           mi == [j \in Server |-> -1]
           w == [s EXCEPT !.status          = Leader,
                          !.currentTerm     = nt,
                          !.votedFor        = Nil,
                          !.numVoteGathered = 0,
                          !.nextIndex       = ni,
                          !.matchIndex      = mi]
<1>1. /\ s \in RaftState /\ s.currentTerm \in Nat
      /\ s.logs \in Seq(Entry) /\ s.snapshotEntriesAmount \in Nat
  BY DEF Shape, RaftState
<1>2. getLastLogEntryIndex(s) + 1 \in Nat \ {0}
  <2>1. Len(s.logs) \in Nat
    BY <1>1
  <2> QED
    BY <1>1, <2>1 DEF getLastLogEntryIndex, Shape
<1>3. ni \in [Server -> Nat \ {0}] /\ mi \in [Server -> Nat \cup {-1}]
  BY <1>2
<1>0. nt \in Nat /\ nt >= s.currentTerm
  BY <1>1
<1> HIDE DEF ni, mi, nt
<1>4. /\ w \in RaftState
      /\ w.currentTerm = nt
      /\ w.lastApplied = s.lastApplied
      /\ w.snapshotEntriesAmount = s.snapshotEntriesAmount
      /\ w.logs = s.logs
      /\ w.nextIndex = ni
      /\ w.matchIndex = mi
      /\ w.persister = s.persister
  BY <1>0, <1>1, <1>3 DEF RaftState
<1>5. becomeLeader(s) = persist(w)
  BY DEF becomeLeader, ni, mi, nt
<1> HIDE DEF w
<1>6. Shape(w)
  BY <1>3, <1>4 DEF Shape, HasLed
<1> QED
  BY <1>0, <1>1, <1>3, <1>4, <1>5, <1>6, PersistOK DEF Keeps, HasLed

(* gainVote and checkElectionStatus *)
LEMMA CountVoteOK ==
    ASSUME NEW s, PeerOK(s)
    PROVE  /\ LET u == checkElectionStatus(s) IN
              PeerOK(u) /\ Keeps(s, u) /\ u.lastApplied = s.lastApplied
           /\ LET u == checkElectionStatus(gainVote(s)) IN
              PeerOK(u) /\ Keeps(s, u) /\ u.lastApplied = s.lastApplied
<1>1. \A r : PeerOK(r) => LET u == checkElectionStatus(r) IN
                 PeerOK(u) /\ Keeps(r, u) /\ u.lastApplied = r.lastApplied
  <2> SUFFICES ASSUME NEW r, PeerOK(r)
               PROVE  LET u == checkElectionStatus(r) IN
                      PeerOK(u) /\ Keeps(r, u) /\ u.lastApplied = r.lastApplied
    OBVIOUS
  <2>1. r.snapshotEntriesAmount \in Nat /\ r.currentTerm \in Nat
    BY DEF PeerOK, Shape, RaftState
  <2> QED
    BY <2>1, BecomeLeaderOK DEF checkElectionStatus, PeerOK, Keeps
<1> DEFINE w == [s EXCEPT !.numVoteGathered = s.numVoteGathered + 1]
<1>2. s \in RaftState
  BY DEF PeerOK, Shape
<1>3. /\ w \in RaftState
      /\ w.status = s.status
      /\ w.currentTerm = s.currentTerm
      /\ w.votedFor = s.votedFor
      /\ w.lastApplied = s.lastApplied
      /\ w.snapshotEntriesAmount = s.snapshotEntriesAmount
      /\ w.lastSnapshotTerm = s.lastSnapshotTerm
      /\ w.logs = s.logs
      /\ w.nextIndex = s.nextIndex
      /\ w.matchIndex = s.matchIndex
      /\ w.persister = s.persister
  BY <1>2 DEF RaftState
<1>4. gainVote(s) = w \/ gainVote(s) = s
  BY DEF gainVote
<1> HIDE DEF w
<1>5. getPersistData(w) = getPersistData(s)
  BY <1>3 DEF getPersistData
<1>6. PeerOK(w)
  BY <1>3, <1>5 DEF PeerOK, Shape, Saved, HasLed
<1>7. s.snapshotEntriesAmount \in Nat /\ s.currentTerm \in Nat
  BY <1>2 DEF RaftState
<1>8. \A u : Keeps(w, u) => Keeps(s, u)
  BY <1>3 DEF Keeps, HasLed
<1> QED
  BY <1>1, <1>3, <1>4, <1>6, <1>8

(* Replacing the log by a non-empty one (with the snapshot), then persist:
   Start and AppendEntriesWithLock. *)
LEMMA ReplaceLogOK ==
    ASSUME NEW s, Shape(s), NEW l \in Seq(Entry), NEW ci \in Nat \cup {-1},
           Len(l) + s.snapshotEntriesAmount > 0
    PROVE  LET u == persist([s EXCEPT !.logs = l, !.commitIndex = ci]) IN
           PeerOK(u) /\ Keeps(s, u) /\ u.lastApplied = s.lastApplied
<1> DEFINE w == [s EXCEPT !.logs = l, !.commitIndex = ci]
<1>1. s \in RaftState /\ s.snapshotEntriesAmount \in Nat /\ s.currentTerm \in Nat
  BY DEF Shape, RaftState
<1>2. /\ w \in RaftState
      /\ w.status = s.status
      /\ w.currentTerm = s.currentTerm
      /\ w.lastApplied = s.lastApplied
      /\ w.snapshotEntriesAmount = s.snapshotEntriesAmount
      /\ w.logs = l
      /\ w.nextIndex = s.nextIndex
      /\ w.matchIndex = s.matchIndex
      /\ w.persister = s.persister
  BY <1>1 DEF RaftState
<1> HIDE DEF w
<1>3. Shape(w)
  BY <1>2 DEF Shape, HasLed
<1>4. PeerOK(persist(w)) /\ Keeps(s, persist(w)) /\ persist(w).lastApplied = s.lastApplied
  BY <1>1, <1>2, <1>3, PersistOK DEF Keeps, HasLed
<1> QED
  BY <1>4 DEF w

(* AppendEntriesWithLock's last case: PrevLogIndex is the last index of the
   snapshot or an index of the log. *)
LEMMA AcceptOK ==
    ASSUME NEW s, Shape(s), NEW args,
           args.PrevLogIndex \in Nat, args.Entries \in Seq(Entry),
           args.LeaderCommit \in Nat \cup {-1},
           ~inSnapshot(s, args), args.PrevLogIndex <= getLastLogEntryIndex(s)
    PROVE  LET u == accept(s, args) IN
           PeerOK(u) /\ Keeps(s, u) /\ u.lastApplied = s.lastApplied
<1> DEFINE n == getOffsetIndex(s, args.PrevLogIndex) + 1
           cut == removeLogFromIndex(s, args.PrevLogIndex)
           ci == IF s.commitIndex < args.LeaderCommit THEN args.LeaderCommit ELSE s.commitIndex
<1>1. /\ s \in RaftState /\ s.logs \in Seq(Entry) /\ s.snapshotEntriesAmount \in Nat
      /\ s.commitIndex \in Nat \cup {-1}
  BY DEF Shape, RaftState
<1>2. Len(s.logs) \in Nat
  BY <1>1
<1>3. n \in 0 .. Len(s.logs) /\ n + s.snapshotEntriesAmount = args.PrevLogIndex + 1
  BY <1>1, <1>2 DEF inSnapshot, getLastLogEntryIndex, getOffsetIndex
<1>4. cut = SubSeq(s.logs, 1, n)
  BY DEF removeLogFromIndex
<1>5. cut \in Seq(Entry) /\ Len(cut) = n
  <2> HIDE DEF n
  <2>1. \A i \in 1 .. n : s.logs[i] \in Entry
    BY <1>1, <1>3
  <2>2. /\ SubSeq(s.logs, 1, n) \in Seq(Entry)
        /\ Len(SubSeq(s.logs, 1, n)) = IF 1 <= n THEN n - 1 + 1 ELSE 0
    BY <1>3, <2>1, SubSeqProperties
  <2> QED
    BY <1>3, <1>4, <2>2
<1>6. ci \in Nat \cup {-1}
  BY <1>1
<1> HIDE DEF n, cut, ci
<1>7. cut \o args.Entries \in Seq(Entry) /\ Len(cut \o args.Entries) = n + Len(args.Entries)
  BY <1>5, ConcatProperties
<1>8. Len(cut \o args.Entries) + s.snapshotEntriesAmount > 0
  <2>1. Len(args.Entries) \in Nat
    OBVIOUS
  <2> QED
    BY <1>1, <1>3, <1>7, <2>1
<1>9. accept(s, args) = persist([s EXCEPT !.logs = cut \o args.Entries, !.commitIndex = ci])
  BY DEF accept, cut, ci
<1> DEFINE l == cut \o args.Entries
<1>10. l \in Seq(Entry) /\ Len(l) + s.snapshotEntriesAmount > 0
  BY <1>7, <1>8
<1>11. accept(s, args) = persist([s EXCEPT !.logs = l, !.commitIndex = ci])
  BY <1>9
<1> HIDE DEF l
<1> DEFINE v == persist([s EXCEPT !.logs = l, !.commitIndex = ci])
<1>12. PeerOK(v) /\ Keeps(s, v) /\ v.lastApplied = s.lastApplied
  BY <1>6, <1>10, ReplaceLogOK
<1> HIDE DEF v
<1>13. accept(s, args) = v
  BY <1>11 DEF v
<1> QED
  BY <1>12, <1>13

(* applied: commitToApplyChannelWithLock's change of lastApplied *)
LEMMA AppliedOK ==
    ASSUME NEW s, Shape(s)
    PROVE  LET u == applied(s) IN
           /\ PeerOK(u) /\ Keeps(s, u)
           /\ u.lastApplied = IF snapshotAhead(s) THEN s.snapshotEntriesAmount - 1
                                                 ELSE s.commitIndex
<1> DEFINE la == IF snapshotAhead(s) THEN s.snapshotEntriesAmount - 1 ELSE s.commitIndex
           w == [s EXCEPT !.lastApplied = la]
<1>1. /\ s \in RaftState /\ s.snapshotEntriesAmount \in Nat /\ s.currentTerm \in Nat
      /\ s.commitIndex \in Nat \cup {-1}
  BY DEF Shape, RaftState
<1>2. la \in Nat \cup {-1}
  BY <1>1
<1> HIDE DEF la
<1>3. /\ w \in RaftState
      /\ w.status = s.status
      /\ w.currentTerm = s.currentTerm
      /\ w.lastApplied = la
      /\ w.snapshotEntriesAmount = s.snapshotEntriesAmount
      /\ w.logs = s.logs
      /\ w.nextIndex = s.nextIndex
      /\ w.matchIndex = s.matchIndex
      /\ w.persister = s.persister
  BY <1>1, <1>2 DEF RaftState
<1> HIDE DEF w
<1>4. Shape(w)
  BY <1>3 DEF Shape, HasLed
<1>5. PeerOK(persist(w)) /\ Keeps(s, persist(w)) /\ persist(w).lastApplied = la
  BY <1>1, <1>3, <1>4, PersistOK DEF Keeps, HasLed
<1>6. applied(s) = persist(w)
  BY DEF applied, w, la
<1> QED
  BY <1>5, <1>6 DEF la

(* SaveStateAndSnapshot of a snapshot that covers what the log was trimmed of *)
LEMMA PersistAndSnapshotOK ==
    ASSUME NEW s \in RaftState, NEW data \in Seq(Action),
           Len(data) = s.snapshotEntriesAmount,
           Len(s.logs) + s.snapshotEntriesAmount > 0,
           s.status = Leader => HasLed(s),
           s.nextIndex # Nil => HasLed(s)
    PROVE  LET u == persistAndSnapshot(s, data) IN
           /\ PeerOK(u)
           /\ u.lastApplied = s.lastApplied
           /\ u.currentTerm = s.currentTerm
           /\ u.snapshotEntriesAmount = s.snapshotEntriesAmount
           /\ u.nextIndex = s.nextIndex
           /\ u.matchIndex = s.matchIndex
<1> DEFINE d == getPersistData(s)
           p == [raftstate |-> d, snapshot |-> data]
           u == persistAndSnapshot(s, data)
<1>1. d \in PersistData
  BY DEF getPersistData, RaftState, PersistData
<1>2. p \in PersisterState /\ p.raftstate = d /\ p.snapshot = data
  BY <1>1 DEF PersisterState, Action
<1>3. u = [s EXCEPT !.persister = p]
  BY DEF persistAndSnapshot
<1> HIDE DEF p, d, u
<1>4. /\ u \in RaftState
      /\ u.status = s.status
      /\ u.currentTerm = s.currentTerm
      /\ u.votedFor = s.votedFor
      /\ u.lastApplied = s.lastApplied
      /\ u.snapshotEntriesAmount = s.snapshotEntriesAmount
      /\ u.lastSnapshotTerm = s.lastSnapshotTerm
      /\ u.logs = s.logs
      /\ u.nextIndex = s.nextIndex
      /\ u.matchIndex = s.matchIndex
      /\ u.persister = p
  BY <1>2, <1>3 DEF RaftState
<1>5. getPersistData(u) = d
  BY <1>4 DEF getPersistData, d
<1>6. Saved(u)
  BY <1>1, <1>2, <1>4, <1>5, NilIsNoState DEF Saved
<1>7. Shape(u)
  BY <1>2, <1>4 DEF Shape, HasLed
<1> QED
  BY <1>4, <1>6, <1>7 DEF PeerOK, u

snapshotted(s, index, term, la, data) ==
    persistAndSnapshot([trim(s, index, term) EXCEPT !.lastApplied = la], data)

installed(s, index, term, data) == persistAndSnapshot(trim(s, index, term), data)

(* Trimming the log up to index and saving the snapshot up to index: Snapshot
   (which also raises lastApplied to la) and InstallSnapshotLocked. *)
LEMMA TrimOK ==
    ASSUME NEW s, Shape(s), NEW index \in Nat, index >= s.snapshotEntriesAmount,
           NEW term \in Term, NEW data \in Seq(Action), Len(data) = index + 1,
           NEW la \in Nat \cup {-1}
    PROVE  /\ LET u == snapshotted(s, index, term, la, data) IN
              PeerOK(u) /\ Keeps(s, u) /\ u.lastApplied = la
           /\ LET u == installed(s, index, term, data) IN
              PeerOK(u) /\ Keeps(s, u) /\ u.lastApplied = s.lastApplied
<1> DEFINE k == index + 1
           l == getLogEntryStartingAt(s, index + 1)
           t == trim(s, index, term)
           w == [t EXCEPT !.lastApplied = la]
<1>1. /\ s \in RaftState /\ s.logs \in Seq(Entry) /\ s.snapshotEntriesAmount \in Nat
      /\ s.currentTerm \in Nat
  BY DEF Shape, RaftState
<1>2. Len(s.logs) \in Nat
  BY <1>1
<1>3. l \in Seq(Entry) /\ Len(l) \in Nat
  <2> DEFINE m == getOffsetIndex(s, index + 1) + 1
  <2>1. m \in Nat /\ m >= 1
    BY <1>1 DEF getOffsetIndex
  <2>2. l = SubSeq(s.logs, m, Len(s.logs))
    BY DEF getLogEntryStartingAt
  <2> HIDE DEF m, l
  <2>3. \A i \in m .. Len(s.logs) : s.logs[i] \in Entry
    BY <1>1, <1>2, <2>1
  <2>4. SubSeq(s.logs, m, Len(s.logs)) \in Seq(Entry)
    BY <1>2, <2>1, <2>3, SubSeqProperties
  <2> QED
    BY <2>2, <2>4
<1>4. k \in Nat /\ k > 0 /\ k >= s.snapshotEntriesAmount /\ Len(data) = k
  BY <1>1
<1>5. t = [s EXCEPT !.lastSnapshotTerm = term, !.logs = l, !.snapshotEntriesAmount = k]
  BY DEF trim
<1> HIDE DEF k, l, t
<1>6. /\ t \in RaftState
      /\ t.status = s.status
      /\ t.currentTerm = s.currentTerm
      /\ t.lastApplied = s.lastApplied
      /\ t.snapshotEntriesAmount = k
      /\ t.logs = l
      /\ t.nextIndex = s.nextIndex
      /\ t.matchIndex = s.matchIndex
  BY <1>1, <1>3, <1>4, <1>5 DEF RaftState
<1>7. /\ w \in RaftState
      /\ w.status = s.status
      /\ w.currentTerm = s.currentTerm
      /\ w.lastApplied = la
      /\ w.snapshotEntriesAmount = k
      /\ w.logs = l
      /\ w.nextIndex = s.nextIndex
      /\ w.matchIndex = s.matchIndex
  BY <1>6 DEF RaftState
<1> HIDE DEF w
<1>8. Len(l) + k > 0
  BY <1>3, <1>4
<1>9. s.status = Leader => HasLed(s)
  BY DEF Shape
<1>10. s.nextIndex # Nil => HasLed(s)
  BY DEF Shape
<1>11. LET u == persistAndSnapshot(w, data) IN
       PeerOK(u) /\ Keeps(s, u) /\ u.lastApplied = la
  <2>1. LET u == persistAndSnapshot(w, data) IN
        /\ PeerOK(u) /\ u.lastApplied = w.lastApplied /\ u.currentTerm = w.currentTerm
        /\ u.snapshotEntriesAmount = w.snapshotEntriesAmount
        /\ u.nextIndex = w.nextIndex /\ u.matchIndex = w.matchIndex
    BY <1>4, <1>7, <1>8, <1>9, <1>10, PersistAndSnapshotOK DEF HasLed
  <2> QED
    BY <1>1, <1>4, <1>7, <2>1 DEF Keeps, HasLed
<1>12. LET u == persistAndSnapshot(t, data) IN
       PeerOK(u) /\ Keeps(s, u) /\ u.lastApplied = s.lastApplied
  <2>1. LET u == persistAndSnapshot(t, data) IN
        /\ PeerOK(u) /\ u.lastApplied = t.lastApplied /\ u.currentTerm = t.currentTerm
        /\ u.snapshotEntriesAmount = t.snapshotEntriesAmount
        /\ u.nextIndex = t.nextIndex /\ u.matchIndex = t.matchIndex
    BY <1>4, <1>6, <1>8, <1>9, <1>10, PersistAndSnapshotOK DEF HasLed
  <2> QED
    BY <1>1, <1>4, <1>6, <2>1 DEF Keeps, HasLed
<1> QED
  BY <1>11, <1>12 DEF w, t, snapshotted, installed

(* Make restores exactly the persistent state the killed instance had *)
LEMMA MakeOK ==
    ASSUME NEW s, PeerOK(s)
    PROVE  LET u == Make(s.persister) IN
           /\ PeerOK(u)
           /\ getPersistData(u) = getPersistData(s)
           /\ u.currentTerm = s.currentTerm
           /\ u.lastApplied = -1
<1> DEFINE p == s.persister
           b == bootstrap(p)
           d == p.raftstate
           u == Make(p)
<1>1. s \in RaftState
  BY DEF PeerOK, Shape
<1>2. p \in PersisterState
  BY <1>1 DEF RaftState
<1>3. <<filler>> \in Seq(Entry) /\ Len(<<filler>>) = 1
  <2>1. filler \in Entry
    BY DEF filler, Entry, Term
  <2> QED
    BY <2>1
<1> HIDE DEF p
<1>4. /\ b \in RaftState /\ b.status = Follower /\ b.nextIndex = Nil /\ b.matchIndex = Nil
      /\ b.lastApplied = -1 /\ b.persister = p /\ b.logs = <<filler>>
      /\ b.snapshotEntriesAmount = 0 /\ b.currentTerm = 0
  BY <1>2, <1>3 DEF bootstrap, RaftState, Term
<1>5. CASE d = Nil
  <2>1. u = b
    BY <1>4, <1>5 DEF Make, readPersist
  <2>2. getPersistData(s) = getPersistData(b)
    BY <1>5 DEF PeerOK, Saved, p
  <2>3. s.snapshotEntriesAmount = 0 /\ s.currentTerm = 0
    BY <2>2, <1>4 DEF getPersistData
  <2>4. Len(p.snapshot) = 0
    BY <2>3 DEF PeerOK, Shape, p
  <2>5. Shape(b)
    BY <1>3, <1>4, <2>4 DEF Shape, Follower, Leader
  <2>6. Saved(b)
    BY <1>4, <1>5 DEF Saved
  <2> QED
    BY <1>4, <2>1, <2>2, <2>3, <2>5, <2>6 DEF PeerOK, p
<1>6. CASE d # Nil
  <2>1. d = getPersistData(s)
    BY <1>6 DEF PeerOK, Saved, p
  <2>2. d \in PersistData
    BY <1>2, <1>6 DEF PersisterState
  <2> HIDE DEF b, d
  <2>3. u = [b EXCEPT !.currentTerm           = d.currentTerm,
                      !.votedFor              = d.votedFor,
                      !.logs                  = d.logs,
                      !.snapshotEntriesAmount = d.snapshotEntriesAmount,
                      !.lastSnapshotTerm      = d.lastSnapshotTerm]
    BY <1>4, <1>6 DEF Make, readPersist, b, d
  <2> HIDE DEF u
  <2>4. /\ u \in RaftState /\ u.status = Follower /\ u.nextIndex = Nil
        /\ u.lastApplied = -1 /\ u.persister = p
        /\ u.currentTerm = d.currentTerm /\ u.votedFor = d.votedFor /\ u.logs = d.logs
        /\ u.snapshotEntriesAmount = d.snapshotEntriesAmount
        /\ u.lastSnapshotTerm = d.lastSnapshotTerm
    BY <1>4, <2>2, <2>3 DEF RaftState, PersistData
  <2>5. getPersistData(u) = d
    BY <2>1, <2>4 DEF getPersistData
  <2>6. Saved(u)
    BY <1>6, <2>4, <2>5 DEF Saved, d
  <2>7. /\ d.logs = s.logs /\ d.snapshotEntriesAmount = s.snapshotEntriesAmount
        /\ d.currentTerm = s.currentTerm
    BY <2>1 DEF getPersistData
  <2>8. Shape(u)
    BY <2>4, <2>7 DEF Shape, PeerOK, Follower, Leader, p
  <2> QED
    BY <2>1, <2>4, <2>5, <2>6, <2>7, <2>8 DEF PeerOK, u, p
<1> QED
  BY <1>5, <1>6

-----------------------------------------------------------------------------
(* The inductive invariant: each part is a predicate on one server or one call. *)

PeersOK == rf \in [Server -> RaftState] /\ \A i \in Server : PeerOK(rf[i])

(* what is on its way to the service of one peer: q is applyCh, n the number of
   commands the service has, la is lastApplied *)
ChannelOK(q, n, la) ==
    /\ q = <<>> => la = n - 1
    /\ q # <<>> => LET m == Head(q) IN
          IF m.SnapshotValid
          THEN /\ Len(q) = 1 /\ m.Index = la
               /\ Len(m.Snapshot) = m.Index + 1 /\ m.Index >= n
          ELSE /\ la = n + Len(q) - 1
               /\ \A k \in 1 .. Len(q) : q[k].Index = n + k - 1 /\ ~q[k].SnapshotValid

ApplyOK ==
    /\ applyCh \in [Server -> Seq(ApplyMsg)]
    /\ service \in [Server -> Seq(Action)]
    /\ \A i \in Server : ChannelOK(applyCh[i], Len(service[i]), rf[i].lastApplied)

(* a goroutine that is to send a snapshot belongs to an instance that has led
   and has a snapshot *)
TasksOK ==
    /\ fatal \subseteq Server /\ crashes \in Nat
    /\ voteTasks \in [Server -> [Server -> Nat]]
    /\ snapTasks \in [Server -> [Server -> Nat]]
    /\ \A i, j \in Server :
          snapTasks[i][j] > 0 => HasLed(rf[i]) /\ rf[i].snapshotEntriesAmount > 0

VoteOK(c) ==
    /\ c \in VoteCall
    /\ c.stage = "reply" => c.reply \in [Term : Nat, VoteGranted : BOOLEAN]

AppendOK(c) ==
    /\ c \in AppendCall
    /\ c.stage # "request" =>
          /\ c.reply \in [Term : Nat, Success : BOOLEAN, InSnapshot : BOOLEAN, SnapshotAmount : Nat]
          /\ c.reply.InSnapshot => c.reply.SnapshotAmount > 0

SnapOK(c) ==
    /\ c \in SnapCall
    /\ Len(c.args.Data) = c.args.LastIncludedIndex + 1
    /\ c.stage = "reply" => c.reply \in [Term : Nat]

CallsOK ==
    /\ \A c \in voteCalls : VoteOK(c)
    /\ \A c \in appendCalls : AppendOK(c)
    /\ \A c \in snapCalls : SnapOK(c)

(* the caller of an InstallSnapshot call has the indexes its failure overwrites *)
CallersOK == \A c \in snapCalls : c.live => HasLed(rf[c.caller])

Inv == PeersOK /\ ApplyOK /\ TasksOK /\ CallsOK /\ CallersOK

(* what a step that is no restart does to the peers *)
KeepsAll == \A i \in Server : Keeps(rf[i], rf'[i])

AppliesNone == \A i \in Server : rf'[i].lastApplied = rf[i].lastApplied

-----------------------------------------------------------------------------
(* One peer's struct is replaced by a good one. *)
LEMMA UpdateOK ==
    ASSUME PeersOK, NEW i \in Server, NEW u, PeerOK(u), Keeps(rf[i], u),
           rf' = [rf EXCEPT ![i] = u]
    PROVE  /\ PeersOK' /\ KeepsAll
           /\ rf'[i] = u
           /\ \A j \in Server : j # i => rf'[j] = rf[j]
           /\ u.lastApplied = rf[i].lastApplied => AppliesNone
<1>1. rf \in [Server -> RaftState] /\ u \in RaftState
  BY DEF PeersOK, PeerOK, Shape
<1>2. rf' \in [Server -> RaftState] /\ rf'[i] = u
  BY <1>1
<1>3. \A j \in Server : j # i => rf'[j] = rf[j]
  BY <1>1
<1>4. \A j \in Server : Keeps(rf[j], rf[j])
  <2> TAKE j \in Server
  <2>1. rf[j].snapshotEntriesAmount \in Nat /\ rf[j].currentTerm \in Nat
    BY <1>1 DEF RaftState
  <2> QED
    BY <2>1 DEF Keeps
<1>5. PeersOK'
  BY <1>2, <1>3 DEF PeersOK, PeerOK, Shape, Saved, HasLed
<1> QED
  BY <1>2, <1>3, <1>4, <1>5 DEF KeepsAll, AppliesNone

(* No peer's struct changes. *)
LEMMA UnchangedOK ==
    ASSUME PeersOK, UNCHANGED rf
    PROVE  PeersOK' /\ KeepsAll /\ AppliesNone
<1>1. \A j \in Server : Keeps(rf[j], rf[j])
  <2> TAKE j \in Server
  <2>1. rf[j].snapshotEntriesAmount \in Nat /\ rf[j].currentTerm \in Nat
    BY DEF PeersOK, RaftState
  <2> QED
    BY <2>1 DEF Keeps
<1> QED
  BY <1>1 DEF PeersOK, KeepsAll, AppliesNone

(* The apply channels are left alone. *)
LEMMA ApplyKept ==
    ASSUME ApplyOK, AppliesNone, UNCHANGED <<applyCh, service>>
    PROVE  ApplyOK'
BY DEF ApplyOK, AppliesNone

(* The pending goroutines are left alone. *)
LEMMA TasksKept ==
    ASSUME PeersOK, TasksOK, KeepsAll, PeersOK', fatal' \subseteq Server,
           UNCHANGED <<voteTasks, snapTasks, crashes>>
    PROVE  TasksOK'
<1>1. \A i \in Server : /\ rf[i].snapshotEntriesAmount \in Nat
                        /\ rf'[i].snapshotEntriesAmount \in Nat
  BY DEF PeersOK, RaftState
<1>2. \A i \in Server : /\ HasLed(rf[i]) => HasLed(rf'[i])
                        /\ rf'[i].snapshotEntriesAmount >= rf[i].snapshotEntriesAmount
  BY DEF KeepsAll, Keeps
<1>3. \A i, j \in Server : snapTasks'[i][j] > 0 =>
         HasLed(rf'[i]) /\ rf'[i].snapshotEntriesAmount > 0
  <2> SUFFICES ASSUME NEW i \in Server, NEW j \in Server, snapTasks[i][j] > 0
               PROVE  HasLed(rf'[i]) /\ rf'[i].snapshotEntriesAmount > 0
    OBVIOUS
  <2>1. HasLed(rf[i]) /\ rf[i].snapshotEntriesAmount > 0
    BY DEF TasksOK
  <2> QED
    BY <1>1, <1>2, <2>1
<1> QED
  BY <1>3 DEF TasksOK, HasLed

(* No InstallSnapshot call is made. *)
LEMMA CallersKept ==
    ASSUME CallersOK, CallsOK, KeepsAll, snapCalls' \subseteq snapCalls
    PROVE  CallersOK'
<1> SUFFICES ASSUME NEW c \in snapCalls', c.live
             PROVE  HasLed(rf'[c.caller])
  BY DEF CallersOK, HasLed
<1>1. c.caller \in Server
  BY DEF CallsOK, SnapOK, SnapCall, Call
<1> QED
  BY <1>1 DEF CallersOK, KeepsAll, Keeps

setIndexes(s, ni, mi, ci) ==
    [s EXCEPT !.nextIndex = ni, !.matchIndex = mi, !.commitIndex = ci]

(* Indexes of a leader: nextIndex, matchIndex and commitIndex are not persistent. *)
LEMMA IndexesOK ==
    ASSUME NEW s, PeerOK(s), HasLed(s),
           NEW ni \in [Server -> Nat \ {0}], NEW mi \in [Server -> Nat \cup {-1}],
           NEW ci \in Nat \cup {-1}
    PROVE  LET u == setIndexes(s, ni, mi, ci) IN
           /\ PeerOK(u) /\ Keeps(s, u) /\ HasLed(u)
           /\ u.lastApplied = s.lastApplied
           /\ u.snapshotEntriesAmount = s.snapshotEntriesAmount
<1> DEFINE u == [s EXCEPT !.nextIndex = ni, !.matchIndex = mi, !.commitIndex = ci]
<1>1. s \in RaftState /\ s.snapshotEntriesAmount \in Nat /\ s.currentTerm \in Nat
  BY DEF PeerOK, Shape, RaftState
<1>2. /\ u \in RaftState
      /\ u.status = s.status
      /\ u.currentTerm = s.currentTerm
      /\ u.votedFor = s.votedFor
      /\ u.lastApplied = s.lastApplied
      /\ u.snapshotEntriesAmount = s.snapshotEntriesAmount
      /\ u.lastSnapshotTerm = s.lastSnapshotTerm
      /\ u.logs = s.logs
      /\ u.nextIndex = ni
      /\ u.matchIndex = mi
      /\ u.persister = s.persister
  BY <1>1 DEF RaftState
<1>0. setIndexes(s, ni, mi, ci) = u
  BY DEF setIndexes
<1> HIDE DEF u
<1>3. getPersistData(u) = getPersistData(s)
  BY <1>2 DEF getPersistData
<1>4. HasLed(u)
  BY <1>2 DEF HasLed
<1>5. Shape(u)
  BY <1>2, <1>4 DEF PeerOK, Shape
<1>6. Saved(u)
  BY <1>2, <1>3 DEF PeerOK, Saved
<1>7. Keeps(s, u)
  BY <1>1, <1>2, <1>4 DEF Keeps
<1> QED
  BY <1>0, <1>2, <1>4, <1>5, <1>6, <1>7 DEF PeerOK

(* the last entry's index and term, also when the whole log is in the snapshot *)
LEMMA LastEntryOK ==
    ASSUME NEW s, Shape(s)
    PROVE  getLastLogEntryIndex(s) \in Nat /\ getLastLogEntryTerm(s) \in Term
<1>1. /\ s.logs \in Seq(Entry) /\ s.snapshotEntriesAmount \in Nat
      /\ s.lastSnapshotTerm \in Term
  BY DEF Shape, RaftState
<1>2. Len(s.logs) \in Nat
  BY <1>1
<1>3. getLastLogEntryIndex(s) \in Nat
  BY <1>1, <1>2 DEF getLastLogEntryIndex, Shape
<1>4. s.logs # <<>> => s.logs[Len(s.logs)] \in Entry
  <2> SUFFICES ASSUME s.logs # <<>>
               PROVE  s.logs[Len(s.logs)] \in Entry
    OBVIOUS
  <2>1. Len(s.logs) \in 1 .. Len(s.logs)
    BY <1>1, <1>2
  <2> QED
    BY <1>1, <2>1
<1> QED
  BY <1>1, <1>3, <1>4 DEF getLastLogEntryTerm, Entry

(* the term of an entry the code accepts to look at *)
LEMMA KnownTermOK ==
    ASSUME NEW s, Shape(s), NEW index \in Nat, termIsKnown(s, index)
    PROVE  getLogTermAtIndex(s, index) \in Term
<1>1. /\ s.logs \in Seq(Entry) /\ s.snapshotEntriesAmount \in Nat
      /\ s.lastSnapshotTerm \in Term
  BY DEF Shape, RaftState
<1>2. CASE index + 1 = s.snapshotEntriesAmount
  BY <1>1, <1>2 DEF getLogTermAtIndex
<1>3. CASE index + 1 # s.snapshotEntriesAmount
  <2> DEFINE n == getOffsetIndex(s, index) + 1
  <2>1. logIndexCheck(s, index) /\ Len(s.logs) \in Nat
    BY <1>1, <1>3 DEF termIsKnown
  <2>2. n \in 1 .. Len(s.logs)
    BY <1>1, <2>1 DEF logIndexCheck, getLastLogEntryIndex, getOffsetIndex
  <2> HIDE DEF n
  <2>3. s.logs[n] \in Entry
    BY <1>1, <2>2
  <2> QED
    BY <1>3, <2>3 DEF getLogTermAtIndex, getLogEntryAtIndex, n, Entry
<1> QED
  BY <1>2, <1>3

(* RequestVote calls: the reply is put into the call. *)
LEMMA AnswerVoteOK ==
    ASSUME \A d \in voteCalls : VoteOK(d), NEW c \in voteCalls,
           NEW t \in Nat, NEW g \in BOOLEAN,
           voteCalls' = answer(voteCalls, c, [Term |-> t, VoteGranted |-> g])
    PROVE  \A d \in voteCalls' : VoteOK(d)
<1> DEFINE r == [Term |-> t, VoteGranted |-> g]
           e == [c EXCEPT !.stage = "reply", !.reply = r]
<1>1. r \in [Term : Nat, VoteGranted : BOOLEAN]
  OBVIOUS
<1>2. c \in VoteCall
  BY DEF VoteOK
<1> HIDE DEF r
<1>3. e \in VoteCall /\ e.reply = r
  BY <1>1, <1>2 DEF VoteCall, Call
<1>4. VoteOK(e)
  BY <1>1, <1>3 DEF VoteOK
<1> QED
  BY <1>4 DEF answer, r

(* AppendEntries calls: the handler's or the reply handler's next stage. *)
LEMMA MoveAppendOK ==
    ASSUME NEW c, AppendOK(c), NEW r,
           NEW st \in {"serveCommit", "serveApply", "reply", "leadCommit", "leadApply"},
           r \in [Term : Nat, Success : BOOLEAN, InSnapshot : BOOLEAN, SnapshotAmount : Nat],
           r.InSnapshot => r.SnapshotAmount > 0
    PROVE  AppendOK([c EXCEPT !.stage = st, !.reply = r])
<1> DEFINE e == [c EXCEPT !.stage = st, !.reply = r]
<1>1. c \in AppendCall
  BY DEF AppendOK
<1>2. e \in AppendCall /\ e.reply = r
  BY <1>1 DEF AppendCall, Call
<1> QED
  BY <1>2 DEF AppendOK

(* An answer to an InstallSnapshot call leaves the other calls as they were. *)
LEMMA AnswerSnapOK ==
    ASSUME \A d \in snapCalls : SnapOK(d), NEW c \in snapCalls, NEW t \in Nat,
           CallersOK, KeepsAll,
           snapCalls' = answer(snapCalls, c, [Term |-> t])
    PROVE  (\A d \in snapCalls' : SnapOK(d)) /\ CallersOK'
<1> DEFINE r == [Term |-> t]
           e == [c EXCEPT !.stage = "reply", !.reply = r]
<1>1. r \in [Term : Nat]
  OBVIOUS
<1>2. c \in SnapCall /\ Len(c.args.Data) = c.args.LastIncludedIndex + 1
  BY DEF SnapOK
<1> HIDE DEF r
<1>3. /\ e \in SnapCall /\ e.reply = r /\ e.args = c.args
      /\ e.live = c.live /\ e.caller = c.caller
  BY <1>1, <1>2 DEF SnapCall, Call
<1>4. SnapOK(e)
  BY <1>1, <1>2, <1>3 DEF SnapOK
<1>5. snapCalls' \subseteq snapCalls \cup {e}
  BY DEF answer, r
<1> HIDE DEF e
<1>6. \A d \in snapCalls' : d.live => HasLed(rf'[d.caller])
  <2> SUFFICES ASSUME NEW d \in snapCalls', d.live
               PROVE  HasLed(rf'[d.caller])
    OBVIOUS
  <2>1. PICK b \in snapCalls : b.live /\ b.caller = d.caller
    BY <1>3, <1>5
  <2>2. b.caller \in Server
    BY DEF SnapOK, SnapCall, Call
  <2> QED
    BY <2>1, <2>2 DEF CallersOK, KeepsAll, Keeps
<1> QED
  BY <1>4, <1>5, <1>6 DEF CallersOK, HasLed

-----------------------------------------------------------------------------
(* Every action keeps Inv and, unless it restarts a peer, KeepsAll. *)

(* Freshly made peers and an empty network satisfy the invariant. *)
LEMMA InitOK == Init => Inv
<1> SUFFICES ASSUME Init PROVE Inv
  OBVIOUS
<1> DEFINE s == Make(MakePersister)
<1>1. /\ s = bootstrap(MakePersister)
      /\ MakePersister \in PersisterState /\ MakePersister.raftstate = Nil
      /\ MakePersister.snapshot = <<>>
  BY DEF Make, readPersist, MakePersister, bootstrap, PersisterState
<1>2. <<filler>> \in Seq(Entry) /\ Len(<<filler>>) = 1
  <2>1. filler \in Entry
    BY DEF filler, Entry, Term
  <2> QED
    BY <2>1
<1>3. /\ s \in RaftState /\ s.status = Follower /\ s.nextIndex = Nil
      /\ s.lastApplied = -1 /\ s.persister = MakePersister /\ s.logs = <<filler>>
      /\ s.snapshotEntriesAmount = 0
  BY <1>1, <1>2 DEF bootstrap, RaftState, Term
<1>4. PeerOK(s)
  <2>1. Shape(s)
    BY <1>1, <1>2, <1>3 DEF Shape, Follower, Leader
  <2>2. Saved(s)
    BY <1>1, <1>3 DEF Saved
  <2> QED
    BY <2>1, <2>2 DEF PeerOK
<1> HIDE DEF s
<1>5. rf = [i \in Server |-> s]
  BY DEF Init, s
<1>6. PeersOK
  BY <1>3, <1>4, <1>5 DEF PeersOK
<1>7. ApplyOK
  <2>1. applyCh \in [Server -> Seq(ApplyMsg)] /\ service \in [Server -> Seq(Action)]
    BY DEF Init
  <2>2. \A i \in Server : applyCh[i] = <<>> /\ Len(service[i]) = 0 /\ rf[i].lastApplied = -1
    BY <1>3, <1>5 DEF Init
  <2> QED
    BY <2>1, <2>2 DEF ApplyOK, ChannelOK
<1>8. TasksOK
  BY DEF Init, TasksOK
<1> QED
  BY <1>6, <1>7, <1>8 DEF Init, Inv, CallsOK, CallersOK

(* startElection persists the new term and vote. *)
LEMMA startElectionOK ==
    ASSUME Inv, NEW i \in Server, startElection(i)
    PROVE  Inv' /\ KeepsAll
<1> USE DEF Inv
<1>1. Shape(rf[i])
  BY DEF PeersOK, PeerOK
<1>2. /\ PeerOK(becomeCandidate(rf[i], i)) /\ Keeps(rf[i], becomeCandidate(rf[i], i))
      /\ becomeCandidate(rf[i], i).lastApplied = rf[i].lastApplied
  BY <1>1, BecomeCandidateOK
<1>3. PeersOK' /\ KeepsAll /\ AppliesNone
  BY <1>2, UpdateOK DEF startElection
<1>4. ApplyOK'
  BY <1>3, ApplyKept DEF startElection
<1>5. voteTasks' \in [Server -> [Server -> Nat]]
  <2> DEFINE row == [j \in Server |-> IF j = i THEN 0 ELSE voteTasks[i][j] + 1]
  <2>1. row \in [Server -> Nat]
    BY DEF TasksOK
  <2> HIDE DEF row
  <2>2. voteTasks' = [voteTasks EXCEPT ![i] = row]
    BY DEF startElection, row
  <2> QED
    BY <2>1, <2>2 DEF TasksOK
<1>6. TasksOK'
  <2>1. \A k \in Server : rf[k].snapshotEntriesAmount \in Nat /\ rf'[k].snapshotEntriesAmount \in Nat
    BY <1>3 DEF PeersOK, RaftState
  <2>2. \A k, j \in Server : snapTasks'[k][j] > 0 =>
            HasLed(rf'[k]) /\ rf'[k].snapshotEntriesAmount > 0
    BY <1>3, <2>1 DEF startElection, TasksOK, KeepsAll, Keeps
  <2> QED
    BY <1>5, <2>2 DEF startElection, TasksOK, HasLed
<1>7. CallsOK'
  BY DEF startElection, CallsOK, VoteOK, AppendOK, SnapOK
<1>8. CallersOK'
  BY <1>3, CallersKept DEF startElection
<1> QED
  BY <1>3, <1>4, <1>6, <1>7, <1>8

(* Start appends in memory and persists before it replies. *)
LEMMA StartOK ==
    ASSUME Inv, NEW i \in Server, NEW command \in Value, Start(i, command)
    PROVE  Inv' /\ KeepsAll
<1> USE DEF Inv
<1> DEFINE s == rf[i]
           l == Append(s.logs, [Term |-> s.currentTerm, Action |-> command])
           w == [s EXCEPT !.logs = l]
<1>1. Shape(s) /\ s \in RaftState
  BY DEF PeersOK, PeerOK
<1>2. /\ s.logs \in Seq(Entry) /\ s.currentTerm \in Nat /\ s.snapshotEntriesAmount \in Nat
      /\ s.commitIndex \in Nat \cup {-1}
  BY <1>1 DEF RaftState
<1>3. [Term |-> s.currentTerm, Action |-> command] \in Entry
  BY <1>2 DEF Entry, Term
<1>4. l \in Seq(Entry) /\ Len(l) = Len(s.logs) + 1
  BY <1>2, <1>3, AppendProperties
<1>5. Len(l) + s.snapshotEntriesAmount > 0
  <2>1. Len(s.logs) \in Nat
    BY <1>2
  <2> QED
    BY <1>2, <1>4, <2>1
<1>6. rf' = [rf EXCEPT ![i] = persist(w)]
  BY DEF Start
<1> HIDE DEF l, s
<1>7. w = [s EXCEPT !.logs = l, !.commitIndex = s.commitIndex]
  BY <1>1 DEF RaftState
<1>8. PeerOK(persist(w)) /\ Keeps(s, persist(w)) /\ persist(w).lastApplied = s.lastApplied
  <2>1. LET u == persist([s EXCEPT !.logs = l, !.commitIndex = s.commitIndex]) IN
        PeerOK(u) /\ Keeps(s, u) /\ u.lastApplied = s.lastApplied
    BY <1>1, <1>2, <1>4, <1>5, ReplaceLogOK
  <2> HIDE DEF w
  <2> QED
    BY <1>7, <2>1
<1> HIDE DEF w
<1>9. PeersOK' /\ KeepsAll /\ AppliesNone
  BY <1>6, <1>8, UpdateOK DEF s
<1>10. ApplyOK'
  BY <1>9, ApplyKept DEF Start
<1>11. TasksOK'
  BY <1>9, TasksKept DEF Start, network, TasksOK
<1>12. CallsOK'
  BY DEF Start, network, CallsOK, VoteOK, AppendOK, SnapOK
<1>13. CallersOK'
  BY <1>9, CallersKept DEF Start, network
<1> QED
  BY <1>9, <1>10, <1>11, <1>12, <1>13

(* A late vote goroutine sends the term its candidate has by then. *)
LEMMA handleSendRequestVoteOK ==
    ASSUME Inv, NEW i \in Server, NEW j \in Server, NEW id \in 1 .. Slots,
           handleSendRequestVote(i, j, id)
    PROVE  Inv' /\ KeepsAll
<1> USE DEF Inv
<1> DEFINE args == getRequestVoteArgs(rf[i], i)
           c == request(i, j, id, args)
<1>1. PeersOK' /\ KeepsAll /\ AppliesNone
  BY UnchangedOK DEF handleSendRequestVote
<1>2. ApplyOK'
  BY <1>1, ApplyKept DEF handleSendRequestVote
<1>3. voteTasks' \in [Server -> [Server -> Nat]]
  <2> DEFINE n == voteTasks[i][j] - 1
  <2>1. n \in Nat
    BY DEF handleSendRequestVote, TasksOK
  <2> HIDE DEF n
  <2>2. voteTasks' = [voteTasks EXCEPT ![i][j] = n]
    BY DEF handleSendRequestVote, n
  <2> QED
    BY <2>1, <2>2 DEF TasksOK
<1>4. TasksOK'
  BY <1>3 DEF handleSendRequestVote, TasksOK, HasLed
<1>5. args \in [Term : Nat, CandidateId : Server, LastLogTerm : Term, LastLogIndex : Nat]
  <2>1. Shape(rf[i]) /\ rf[i].currentTerm \in Nat
    BY DEF PeersOK, PeerOK, RaftState
  <2> QED
    BY <2>1, LastEntryOK DEF getRequestVoteArgs
<1>6. VoteOK(c)
  <2> HIDE DEF args
  <2>1. c \in VoteCall /\ c.stage = "request"
    BY <1>5, BoundAssumption DEF request, VoteCall, Call
  <2> QED
    BY <2>1 DEF VoteOK
<1>7. voteCalls' = voteCalls \cup {c}
  BY DEF handleSendRequestVote
<1> HIDE DEF c
<1>8. CallsOK'
  BY <1>6, <1>7 DEF handleSendRequestVote, CallsOK, VoteOK, AppendOK, SnapOK
<1>9. CallersOK'
  BY <1>1, CallersKept DEF handleSendRequestVote
<1> QED
  BY <1>1, <1>2, <1>4, <1>8, <1>9

(* A step that changes one peer, no channel, no goroutine and no InstallSnapshot
   call. *)
LEMMA PeerStepOK ==
    ASSUME Inv, NEW i \in Server, NEW u, PeerOK(u), Keeps(rf[i], u),
           u.lastApplied = rf[i].lastApplied,
           rf' = [rf EXCEPT ![i] = u],
           UNCHANGED <<applyCh, service, voteTasks, snapTasks, crashes>>,
           fatal' \subseteq Server, snapCalls' \subseteq snapCalls
    PROVE  PeersOK' /\ KeepsAll /\ ApplyOK' /\ TasksOK' /\ CallersOK'
<1> USE DEF Inv
<1>1. PeersOK' /\ KeepsAll /\ AppliesNone
  BY UpdateOK
<1> QED
  BY <1>1, ApplyKept, TasksKept, CallersKept

(* A step that changes no peer. *)
LEMMA IdleStepOK ==
    ASSUME Inv, UNCHANGED <<rf, applyCh, service, voteTasks, snapTasks, crashes>>,
           fatal' \subseteq Server, snapCalls' \subseteq snapCalls
    PROVE  PeersOK' /\ KeepsAll /\ ApplyOK' /\ TasksOK' /\ CallersOK'
<1> USE DEF Inv
<1>1. PeersOK' /\ KeepsAll /\ AppliesNone
  BY UnchangedOK
<1> QED
  BY <1>1, ApplyKept, TasksKept, CallersKept

(* Seeing a higher term makes a follower of that term, which is persisted. *)
LEMMA SeenTermOK ==
    ASSUME NEW s, PeerOK(s), NEW c, VoteOK(c), s.currentTerm <= c.args.Term
    PROVE  LET u == seenTerm(s, c.args) IN
           /\ PeerOK(u) /\ Keeps(s, u) /\ u.lastApplied = s.lastApplied
           /\ u.currentTerm <= c.args.Term
<1>1. c.args.Term \in Nat /\ c.args.CandidateId \in Server
  BY DEF VoteOK, VoteCall, Call
<1>2. s.currentTerm \in Nat /\ s.snapshotEntriesAmount \in Nat /\ Shape(s)
  BY DEF PeerOK, Shape, RaftState
<1>3. CASE s.currentTerm < c.args.Term
  <2> DEFINE u == becomeFollower(s, c.args.Term, c.args.CandidateId)
  <2>1. c.args.Term >= s.currentTerm
    BY <1>1, <1>2, <1>3
  <2>2. PeerOK(u) /\ Keeps(s, u) /\ u.lastApplied = s.lastApplied /\ u.currentTerm = c.args.Term
    BY <1>1, <1>2, <2>1, BecomeFollowerOK
  <2>3. seenTerm(s, c.args) = u
    BY <1>3 DEF seenTerm
  <2> QED
    BY <1>1, <2>2, <2>3
<1>4. CASE ~(s.currentTerm < c.args.Term)
  <2>1. seenTerm(s, c.args) = s
    BY <1>4 DEF seenTerm
  <2> QED
    BY <1>2, <2>1 DEF Keeps
<1> QED
  BY <1>3, <1>4

(* A vote is on disk before the reply is on its way. *)
LEMMA RequestVoteOK ==
    ASSUME Inv, NEW c \in voteCalls, RequestVote(c)
    PROVE  Inv' /\ KeepsAll
<1> USE DEF Inv
<1> DEFINE i == c.callee
           s == rf[i]
           seen == seenTerm(s, c.args)
           u == becomeFollower(seen, c.args.Term, c.args.CandidateId)
<1>1. /\ i \in Server /\ c.args.Term \in Nat /\ c.args.CandidateId \in Server
      /\ VoteOK(c)
  BY DEF CallsOK, VoteOK, VoteCall, Call
<1>2. PeerOK(s) /\ s.currentTerm \in Nat
  BY <1>1 DEF PeersOK, RaftState
<1>3. /\ UNCHANGED <<applyCh, service, fatal, voteTasks, snapTasks, crashes>>
      /\ UNCHANGED <<appendCalls, snapCalls>>
  BY DEF RequestVote
<1>4. fatal' \subseteq Server /\ snapCalls' \subseteq snapCalls
  BY <1>3 DEF TasksOK
<1>5. PeersOK' /\ KeepsAll /\ ApplyOK' /\ TasksOK' /\ CallersOK'
  <2>1. CASE UNCHANGED rf
    BY <1>3, <1>4, <2>1, IdleStepOK
  <2>2. CASE s.currentTerm <= c.args.Term /\ rf' = [rf EXCEPT ![i] = seen]
    <3>1. PeerOK(seen) /\ Keeps(s, seen) /\ seen.lastApplied = s.lastApplied
      BY <1>1, <1>2, <2>2, SeenTermOK
    <3> HIDE DEF seen
    <3> QED
      BY <1>1, <1>3, <1>4, <2>2, <3>1, PeerStepOK
  <2>3. CASE s.currentTerm <= c.args.Term /\ rf' = [rf EXCEPT ![i] = u]
    <3>1. /\ PeerOK(seen) /\ Keeps(s, seen) /\ seen.lastApplied = s.lastApplied
          /\ seen.currentTerm <= c.args.Term
      BY <1>1, <1>2, <2>3, SeenTermOK
    <3>2. Shape(seen) /\ seen.currentTerm \in Nat
      BY <3>1 DEF PeerOK, Shape, RaftState
    <3> HIDE DEF seen
    <3>3. c.args.Term >= seen.currentTerm
      BY <1>1, <3>1, <3>2
    <3>4. /\ PeerOK(u) /\ Keeps(seen, u) /\ u.lastApplied = seen.lastApplied
      BY <1>1, <3>2, <3>3, BecomeFollowerOK
    <3>5. u.currentTerm \in Nat /\ u.snapshotEntriesAmount \in Nat /\ s.snapshotEntriesAmount \in Nat
          /\ seen.snapshotEntriesAmount \in Nat
      BY <1>2, <3>1, <3>4 DEF PeerOK, Shape, RaftState
    <3> HIDE DEF u
    <3>6. Keeps(s, u)
      BY <1>2, <3>1, <3>2, <3>4, <3>5 DEF Keeps
    <3> QED
      BY <1>1, <1>3, <1>4, <2>3, <3>1, <3>4, <3>6, PeerStepOK
  <2> QED
    BY <2>1, <2>2, <2>3 DEF RequestVote
<1>6. \A d \in voteCalls' : VoteOK(d)
  <2>1. \E t \in Nat, g \in BOOLEAN :
           voteCalls' = answer(voteCalls, c, [Term |-> t, VoteGranted |-> g])
    BY <1>1, <1>2 DEF RequestVote
  <2>2. PICK t \in Nat, g \in BOOLEAN :
           voteCalls' = answer(voteCalls, c, [Term |-> t, VoteGranted |-> g])
    BY <2>1
  <2> QED
    BY <2>2, AnswerVoteOK DEF CallsOK
<1> QED
  BY <1>3, <1>5, <1>6 DEF CallsOK, AppendOK, SnapOK, VoteOK

(* Counting a vote, or becoming leader by it, keeps the invariant. *)
LEMMA handleRequestVoteReplyOK ==
    ASSUME Inv, NEW c \in voteCalls, handleRequestVoteReply(c)
    PROVE  Inv' /\ KeepsAll
<1> USE DEF Inv
<1> DEFINE i == c.caller
           s == rf[i]
<1>1. i \in Server /\ c.reply.Term \in Nat /\ PeerOK(s) /\ Shape(s) /\ s.currentTerm \in Nat
  <2>1. i \in Server /\ c.stage = "reply"
    BY DEF CallsOK, VoteOK, VoteCall, Call, handleRequestVoteReply
  <2>2. c.reply.Term \in Nat
    BY <2>1 DEF CallsOK, VoteOK
  <2> QED
    BY <2>1, <2>2 DEF PeersOK, PeerOK, RaftState
<1>2. \E u : /\ PeerOK(u) /\ Keeps(s, u) /\ u.lastApplied = s.lastApplied
             /\ rf' = [rf EXCEPT ![i] = u]
  <2>1. CASE c.reply.Term > s.currentTerm /\ rf' = [rf EXCEPT ![i] = becomeFollower(s, c.reply.Term, Nil)]
    <3>1. c.reply.Term >= s.currentTerm
      BY <1>1, <2>1
    <3>2. LET u == becomeFollower(s, c.reply.Term, Nil) IN
          PeerOK(u) /\ Keeps(s, u) /\ u.lastApplied = s.lastApplied
      BY <1>1, <3>1, BecomeFollowerOK
    <3> QED
      BY <2>1, <3>2
  <2>2. CASE rf' = [rf EXCEPT ![i] = checkElectionStatus(s)]
    BY <1>1, <2>2, CountVoteOK
  <2>3. CASE rf' = [rf EXCEPT ![i] = checkElectionStatus(gainVote(s))]
    BY <1>1, <2>3, CountVoteOK
  <2> QED
    BY <2>1, <2>2, <2>3 DEF handleRequestVoteReply
<1>3. PICK u : /\ PeerOK(u) /\ Keeps(s, u) /\ u.lastApplied = s.lastApplied
               /\ rf' = [rf EXCEPT ![i] = u]
  BY <1>2
<1>4. /\ UNCHANGED <<applyCh, service, fatal, voteTasks, snapTasks, crashes>>
      /\ UNCHANGED <<appendCalls, snapCalls>> /\ voteCalls' \subseteq voteCalls
  BY DEF handleRequestVoteReply
<1>5. fatal' \subseteq Server /\ snapCalls' \subseteq snapCalls
  BY <1>4 DEF TasksOK
<1>6. PeersOK' /\ KeepsAll /\ ApplyOK' /\ TasksOK' /\ CallersOK'
  BY <1>1, <1>3, <1>4, <1>5, PeerStepOK
<1> QED
  BY <1>4, <1>6 DEF CallsOK, AppendOK, SnapOK, VoteOK

(* A lost vote call takes only its goroutine with it. *)
LEMMA loseRequestVoteOK ==
    ASSUME Inv, NEW c \in voteCalls, loseRequestVote(c)
    PROVE  Inv' /\ KeepsAll
<1> USE DEF Inv
<1>1. fatal' \subseteq Server /\ snapCalls' \subseteq snapCalls
  BY DEF TasksOK, loseRequestVote
<1>2. PeersOK' /\ KeepsAll /\ ApplyOK' /\ TasksOK' /\ CallersOK'
  BY <1>1, IdleStepOK DEF loseRequestVote
<1> QED
  BY <1>2 DEF CallsOK, AppendOK, SnapOK, VoteOK, loseRequestVote

setNext(s, j, n) == [s EXCEPT !.nextIndex[j] = n]

setMatch(s, j, n, m) == [s EXCEPT !.nextIndex[j] = n, !.matchIndex[j] = m]

(* nextIndex, and matchIndex, of one peer are set *)
LEMMA SetIndexOK ==
    ASSUME NEW s, PeerOK(s), HasLed(s), NEW j \in Server,
           NEW n \in Nat \ {0}, NEW m \in Nat \cup {-1}
    PROVE  /\ LET u == setNext(s, j, n) IN
              /\ PeerOK(u) /\ Keeps(s, u) /\ HasLed(u)
              /\ u.lastApplied = s.lastApplied
              /\ u.snapshotEntriesAmount = s.snapshotEntriesAmount
           /\ LET u == setMatch(s, j, n, m) IN
              /\ PeerOK(u) /\ Keeps(s, u) /\ HasLed(u)
              /\ u.lastApplied = s.lastApplied
              /\ u.snapshotEntriesAmount = s.snapshotEntriesAmount
<1> DEFINE ni == [s.nextIndex EXCEPT ![j] = n]
           mi == [s.matchIndex EXCEPT ![j] = m]
           ma == s.matchIndex
           ci == s.commitIndex
<1>1. /\ s \in RaftState /\ ci \in Nat \cup {-1} /\ ma \in [Server -> Nat \cup {-1}]
      /\ ni \in [Server -> Nat \ {0}] /\ mi \in [Server -> Nat \cup {-1}]
  BY DEF PeerOK, Shape, RaftState, HasLed
<1>2. setNext(s, j, n) = [s EXCEPT !.nextIndex = ni] /\
      setMatch(s, j, n, m) = [s EXCEPT !.nextIndex = ni, !.matchIndex = mi]
  BY DEF setNext, setMatch
<1>3. [s EXCEPT !.nextIndex = ni] = setIndexes(s, ni, ma, ci)
  <2> HIDE DEF ni
  <2> QED
    BY <1>1 DEF RaftState, setIndexes
<1>4. [s EXCEPT !.nextIndex = ni, !.matchIndex = mi] =
      setIndexes(s, ni, mi, ci)
  <2> HIDE DEF ni, mi
  <2> QED
    BY <1>1 DEF RaftState, setIndexes
<1> HIDE DEF ni, mi, ma, ci
<1>5. LET u == setIndexes(s, ni, ma, ci) IN
      /\ PeerOK(u) /\ Keeps(s, u) /\ HasLed(u)
      /\ u.lastApplied = s.lastApplied
      /\ u.snapshotEntriesAmount = s.snapshotEntriesAmount
  BY <1>1, IndexesOK
<1>6. LET u == setIndexes(s, ni, mi, ci) IN
      /\ PeerOK(u) /\ Keeps(s, u) /\ HasLed(u)
      /\ u.lastApplied = s.lastApplied
      /\ u.snapshotEntriesAmount = s.snapshotEntriesAmount
  BY <1>1, IndexesOK
<1> QED
  BY <1>2, <1>3, <1>4, <1>5, <1>6

(* A goroutine that sends a snapshot is spawned. *)
LEMMA SpawnOK ==
    ASSUME PeersOK, PeersOK', TasksOK, KeepsAll, NEW i \in Server, NEW j \in Server,
           HasLed(rf'[i]), rf'[i].snapshotEntriesAmount > 0,
           snapTasks' = [snapTasks EXCEPT ![i][j] = snapTasks[i][j] + 1],
           UNCHANGED <<fatal, voteTasks, crashes>>
    PROVE  TasksOK'
<1> DEFINE n == snapTasks[i][j] + 1
<1>1. n \in Nat
  BY DEF TasksOK
<1>2. snapTasks' = [snapTasks EXCEPT ![i][j] = n]
  OBVIOUS
<1> HIDE DEF n
<1>3. snapTasks' \in [Server -> [Server -> Nat]]
  BY <1>1, <1>2 DEF TasksOK
<1>4. \A k \in Server : /\ rf[k].snapshotEntriesAmount \in Nat
                        /\ rf'[k].snapshotEntriesAmount \in Nat
  BY DEF PeersOK, RaftState
<1>5. \A k, h \in Server : snapTasks'[k][h] > 0 =>
         HasLed(rf'[k]) /\ rf'[k].snapshotEntriesAmount > 0
  <2> SUFFICES ASSUME NEW k \in Server, NEW h \in Server, snapTasks'[k][h] > 0, k # i
               PROVE  HasLed(rf'[k]) /\ rf'[k].snapshotEntriesAmount > 0
    OBVIOUS
  <2>1. snapTasks[k][h] > 0
    BY <1>2 DEF TasksOK
  <2>2. HasLed(rf[k]) /\ rf[k].snapshotEntriesAmount > 0
    BY <2>1 DEF TasksOK
  <2> QED
    BY <1>4, <2>2 DEF KeepsAll, Keeps
<1> QED
  BY <1>3, <1>5 DEF TasksOK, HasLed

(* The arguments of AppendEntries: PrevLogIndex is never -1. *)
LEMMA AppendArgsOK ==
    ASSUME NEW s, Shape(s), HasLed(s), NEW i \in Server, NEW j \in Server,
           s.nextIndex[j] >= s.snapshotEntriesAmount,
           termIsKnown(s, s.nextIndex[j] - 1)
    PROVE  createAppendEntriesArgs(s, i, j) \in
             [Term : Nat, LeaderId : Server, PrevLogIndex : Nat, PrevLogTerm : Term,
              Entries : Seq(Entry), LeaderCommit : Nat \cup {-1}]
<1> DEFINE prev == s.nextIndex[j] - 1
           m == getOffsetIndex(s, prev + 1) + 1
           l == SubSeq(s.logs, m, Len(s.logs))
<1>1. /\ s.currentTerm \in Nat /\ s.logs \in Seq(Entry) /\ s.snapshotEntriesAmount \in Nat
      /\ s.commitIndex \in Nat \cup {-1}
  BY DEF Shape, RaftState
<1>2. s.nextIndex[j] \in Nat \ {0}
  BY DEF HasLed
<1>3. prev \in Nat /\ m \in Nat /\ m >= 1
  BY <1>1, <1>2 DEF getOffsetIndex
<1>4. Len(s.logs) \in Nat
  BY <1>1
<1>5. getLogTermAtIndex(s, prev) \in Term
  BY <1>3, KnownTermOK
<1>6. l \in Seq(Entry)
  <2> HIDE DEF m, prev
  <2>1. \A k \in m .. Len(s.logs) : s.logs[k] \in Entry
    BY <1>1, <1>3, <1>4
  <2> QED
    BY <1>3, <1>4, <2>1, SubSeqProperties
<1>7. createAppendEntriesArgs(s, i, j) =
        [Term |-> s.currentTerm, LeaderId |-> i, PrevLogIndex |-> prev,
         PrevLogTerm |-> getLogTermAtIndex(s, prev), Entries |-> l,
         LeaderCommit |-> s.commitIndex]
  BY DEF createAppendEntriesArgs, getLogEntryStartingAt
<1> HIDE DEF prev, l
<1> QED
  BY <1>1, <1>3, <1>5, <1>6, <1>7

(* The entries sent are in the log; what the snapshot holds is not asked for. *)
LEMMA handleSendAppendEntriesOK ==
    ASSUME Inv, NEW i \in Server, NEW j \in Server, NEW id \in 1 .. Slots,
           handleSendAppendEntries(i, j, id)
    PROVE  Inv' /\ KeepsAll
<1> USE DEF Inv
<1> DEFINE s == rf[i]
<1>1. PeerOK(s) /\ Shape(s) /\ s \in RaftState /\ HasLed(s)
  BY DEF PeersOK, PeerOK, Shape, handleSendAppendEntries
<1>2. s.nextIndex[j] \in Nat \ {0} /\ s.snapshotEntriesAmount \in Nat
  BY <1>1 DEF HasLed, RaftState
<1>3. UNCHANGED <<applyCh, service, voteTasks, voteCalls, snapCalls, crashes>>
  BY DEF handleSendAppendEntries
<1>4. CASE /\ s.nextIndex[j] < s.snapshotEntriesAmount
           /\ rf' = [rf EXCEPT ![i].nextIndex[j] = s.snapshotEntriesAmount]
           /\ snapTasks' = [snapTasks EXCEPT ![i][j] = snapTasks[i][j] + 1]
           /\ UNCHANGED <<appendCalls, fatal>>
  <2>1. s.snapshotEntriesAmount \in Nat \ {0}
    BY <1>2, <1>4
  <2>2. PICK u : /\ PeerOK(u) /\ Keeps(s, u) /\ HasLed(u)
                 /\ u.lastApplied = s.lastApplied
                 /\ u.snapshotEntriesAmount = s.snapshotEntriesAmount
                 /\ rf' = [rf EXCEPT ![i] = u]
    <3> DEFINE u == setNext(s, j, s.snapshotEntriesAmount)
    <3>1. rf' = [rf EXCEPT ![i] = u]
      BY <1>4 DEF setNext
    <3>2. /\ PeerOK(u) /\ Keeps(s, u) /\ HasLed(u) /\ u.lastApplied = s.lastApplied
          /\ u.snapshotEntriesAmount = s.snapshotEntriesAmount
      BY <1>1, <2>1, SetIndexOK
    <3> HIDE DEF u
    <3> QED
      BY <3>1, <3>2
  <2>3. PeersOK' /\ KeepsAll /\ AppliesNone /\ rf'[i] = u
    BY <2>2, UpdateOK
  <2>4. ApplyOK' /\ CallersOK'
    BY <1>3, <2>3, ApplyKept, CallersKept
  <2>5. TasksOK'
    <3>1. HasLed(rf'[i]) /\ rf'[i].snapshotEntriesAmount > 0
      BY <2>1, <2>2, <2>3
    <3> QED
      BY <1>3, <1>4, <2>3, <3>1, SpawnOK
  <2> QED
    BY <1>3, <1>4, <2>3, <2>4, <2>5 DEF CallsOK, AppendOK, SnapOK, VoteOK
<1>5. CASE /\ s.nextIndex[j] >= s.snapshotEntriesAmount
           /\ termIsKnown(s, s.nextIndex[j] - 1)
           /\ appendCalls' = appendCalls \cup {request(i, j, id, createAppendEntriesArgs(s, i, j))}
           /\ UNCHANGED <<rf, snapTasks, fatal>>
  <2> DEFINE args == createAppendEntriesArgs(s, i, j)
             c == request(i, j, id, args)
  <2>1. args \in [Term : Nat, LeaderId : Server, PrevLogIndex : Nat, PrevLogTerm : Term,
                  Entries : Seq(Entry), LeaderCommit : Nat \cup {-1}]
    BY <1>1, <1>5, AppendArgsOK
  <2>2. appendCalls' = appendCalls \cup {c}
    BY <1>5
  <2> HIDE DEF args
  <2>3. c \in AppendCall /\ c.stage = "request"
    BY <2>1, BoundAssumption DEF request, AppendCall, Call
  <2>4. AppendOK(c)
    BY <2>3 DEF AppendOK
  <2> HIDE DEF c
  <2>5. fatal' \subseteq Server /\ snapCalls' \subseteq snapCalls
    BY <1>3, <1>5 DEF TasksOK
  <2>6. PeersOK' /\ KeepsAll /\ ApplyOK' /\ TasksOK' /\ CallersOK'
    BY <1>3, <1>5, <2>5, IdleStepOK
  <2> QED
    BY <1>3, <2>2, <2>4, <2>6 DEF CallsOK, AppendOK, SnapOK, VoteOK
<1>6. CASE fatal' = fatal \cup {i} /\ UNCHANGED <<appendCalls, rf, snapTasks>>
  <2>1. fatal' \subseteq Server /\ snapCalls' \subseteq snapCalls
    BY <1>3, <1>6 DEF TasksOK
  <2>2. PeersOK' /\ KeepsAll /\ ApplyOK' /\ TasksOK' /\ CallersOK'
    BY <1>3, <1>6, <2>1, IdleStepOK
  <2> QED
    BY <1>3, <1>6, <2>2 DEF CallsOK, AppendOK, SnapOK, VoteOK
<1> QED
  BY <1>4, <1>5, <1>6 DEF handleSendAppendEntries

(* The whole of AppendEntries: refusal, snapshot overlap, mismatch and acceptance. *)
LEMMA AppendEntriesWithLockOK ==
    ASSUME Inv, NEW c \in appendCalls, AppendEntriesWithLock(c)
    PROVE  Inv' /\ KeepsAll
<1> USE DEF Inv
<1> DEFINE i == c.callee
           s == rf[i]
           f == becomeFollower(s, c.args.Term, Nil)
           Reply == [Term : Nat, Success : BOOLEAN, InSnapshot : BOOLEAN, SnapshotAmount : Nat]
<1>1. /\ i \in Server /\ c.args.Term \in Nat /\ c.args.PrevLogIndex \in Nat
      /\ c.args.Entries \in Seq(Entry) /\ c.args.LeaderCommit \in Nat \cup {-1}
      /\ AppendOK(c)
  BY DEF CallsOK, AppendOK, AppendCall, Call
<1>2. PeerOK(s) /\ Shape(s) /\ s.currentTerm \in Nat /\ s.snapshotEntriesAmount \in Nat
  BY <1>1 DEF PeersOK, PeerOK, RaftState
<1>3. UNCHANGED <<applyCh, service, fatal, voteTasks, snapTasks, voteCalls, snapCalls, crashes>>
  BY DEF AppendEntriesWithLock
<1>4. fatal' \subseteq Server /\ snapCalls' \subseteq snapCalls
  BY <1>3 DEF TasksOK
<1>5. s.currentTerm <= c.args.Term =>
        /\ PeerOK(f) /\ Shape(f) /\ Keeps(s, f) /\ f.lastApplied = s.lastApplied
        /\ f.snapshotEntriesAmount = s.snapshotEntriesAmount
        /\ f.currentTerm \in Nat
  <2> SUFFICES ASSUME s.currentTerm <= c.args.Term
               PROVE  /\ PeerOK(f) /\ Shape(f) /\ Keeps(s, f) /\ f.lastApplied = s.lastApplied
                      /\ f.snapshotEntriesAmount = s.snapshotEntriesAmount
                      /\ f.currentTerm \in Nat
    OBVIOUS
  <2>1. c.args.Term >= s.currentTerm
    BY <1>1, <1>2
  <2> QED
    BY <1>1, <1>2, <2>1, BecomeFollowerOK DEF PeerOK
<1> HIDE DEF f
<1>6. PeersOK' /\ KeepsAll /\ ApplyOK' /\ TasksOK' /\ CallersOK'
  <2>1. CASE UNCHANGED rf
    BY <1>3, <1>4, <2>1, IdleStepOK
  <2>2. CASE s.currentTerm <= c.args.Term /\ rf' = [rf EXCEPT ![i] = f]
    BY <1>1, <1>3, <1>4, <1>5, <2>2, PeerStepOK
  <2>3. CASE /\ s.currentTerm <= c.args.Term
             /\ ~inSnapshot(f, c.args) /\ logMatches(f, c.args)
             /\ rf' = [rf EXCEPT ![i] = accept(f, c.args)]
    <3> DEFINE u == accept(f, c.args)
    <3>1. PeerOK(u) /\ Keeps(f, u) /\ u.lastApplied = f.lastApplied
      BY <1>1, <1>5, <2>3, AcceptOK DEF logMatches
    <3>2. u.currentTerm \in Nat /\ u.snapshotEntriesAmount \in Nat
      BY <3>1 DEF PeerOK, Shape, RaftState
    <3> HIDE DEF u
    <3>3. Keeps(s, u) /\ u.lastApplied = s.lastApplied
      BY <1>2, <1>5, <2>3, <3>1, <3>2 DEF Keeps
    <3>4. rf' = [rf EXCEPT ![i] = u]
      BY <2>3 DEF u
    <3> QED
      BY <1>1, <1>3, <1>4, <3>1, <3>3, <3>4, PeerStepOK
  <2> QED
    BY <2>1, <2>2, <2>3 DEF AppendEntriesWithLock, f
<1>7. \E r \in Reply, st \in {"reply", "serveCommit"} :
         /\ r.InSnapshot => r.SnapshotAmount > 0
         /\ appendCalls' \subseteq appendCalls \cup {[c EXCEPT !.stage = st, !.reply = r]}
  <2>1. CASE appendCalls' = answer(appendCalls, c, appendReply(s.currentTerm, FALSE, FALSE, 0))
    <3>1. appendReply(s.currentTerm, FALSE, FALSE, 0) \in Reply
          /\ ~appendReply(s.currentTerm, FALSE, FALSE, 0).InSnapshot
      BY <1>2 DEF appendReply
    <3> QED
      BY <2>1, <3>1 DEF answer
  <2>2. CASE /\ inSnapshot(f, c.args) /\ s.currentTerm <= c.args.Term
             /\ appendCalls' = answer(appendCalls, c,
                    appendReply(c.args.Term, FALSE, TRUE, s.snapshotEntriesAmount))
    <3> DEFINE r == appendReply(c.args.Term, FALSE, TRUE, s.snapshotEntriesAmount)
    <3>1. s.snapshotEntriesAmount > 0
      BY <1>1, <1>2, <1>5, <2>2 DEF inSnapshot
    <3>2. r \in Reply /\ r.SnapshotAmount > 0
      BY <1>1, <1>2, <3>1 DEF appendReply
    <3> QED
      BY <2>2, <3>2 DEF answer
  <2>3. CASE appendCalls' = answer(appendCalls, c, appendReply(c.args.Term, FALSE, FALSE, 0))
    <3>1. appendReply(c.args.Term, FALSE, FALSE, 0) \in Reply
          /\ ~appendReply(c.args.Term, FALSE, FALSE, 0).InSnapshot
      BY <1>1 DEF appendReply
    <3> QED
      BY <2>3, <3>1 DEF answer
  <2>4. CASE appendCalls' = move(appendCalls, c, "serveCommit", appendReply(c.args.Term, TRUE, FALSE, 0))
    <3>1. appendReply(c.args.Term, TRUE, FALSE, 0) \in Reply
          /\ ~appendReply(c.args.Term, TRUE, FALSE, 0).InSnapshot
      BY <1>1 DEF appendReply
    <3> QED
      BY <2>4, <3>1 DEF move
  <2> QED
    BY <2>1, <2>2, <2>3, <2>4 DEF AppendEntriesWithLock, f
<1>8. \A d \in appendCalls' : AppendOK(d)
  <2>1. PICK r \in Reply, st \in {"reply", "serveCommit"} :
           /\ r.InSnapshot => r.SnapshotAmount > 0
           /\ appendCalls' \subseteq appendCalls \cup {[c EXCEPT !.stage = st, !.reply = r]}
    BY <1>7
  <2>2. AppendOK([c EXCEPT !.stage = st, !.reply = r])
    BY <1>1, <2>1, MoveAppendOK
  <2> QED
    BY <2>1, <2>2 DEF CallsOK
<1> QED
  BY <1>3, <1>6, <1>8 DEF CallsOK, AppendOK, SnapOK, VoteOK

(* commitToApplyChannel returns: the calls that remain are good. *)
LEMMA FinishOK ==
    ASSUME \A d \in appendCalls : AppendOK(d), NEW c \in appendCalls, c.stage # "request"
    PROVE  \A d \in finish(c) : AppendOK(d)
<1> DEFINE e == [c EXCEPT !.stage = "reply", !.reply = c.reply]
<1>1. AppendOK(e)
  BY MoveAppendOK DEF AppendOK
<1> QED
  BY <1>1 DEF finish, answer

(* The messages commitToApplyChannelWithLock is about to send. *)
LEMMA ApplyMsgsOK ==
    ASSUME NEW s, PeerOK(s), NEW n \in Nat, s.lastApplied = n - 1,
           ~nothingToApply(s), applyIsInLog(s)
    PROVE  /\ applyMsgs(s) \in Seq(ApplyMsg)
           /\ ChannelOK(applyMsgs(s), n, applied(s).lastApplied)
<1> DEFINE k == s.snapshotEntriesAmount
           q == applyMsgs(s)
           la == applied(s).lastApplied
<1>1. /\ Shape(s) /\ s.logs \in Seq(Entry) /\ k \in Nat /\ s.commitIndex \in Nat \cup {-1}
      /\ s.lastApplied \in Nat \cup {-1} /\ s.persister.snapshot \in Seq(Action)
      /\ Len(s.persister.snapshot) = k
  BY DEF PeerOK, Shape, RaftState, PersisterState, Action
<1>2. la = IF snapshotAhead(s) THEN k - 1 ELSE s.commitIndex
  BY <1>1, AppliedOK
<1>3. CASE snapshotAhead(s)
  <2> DEFINE m == snapshotMsg(s)
  <2>1. k - 1 \in Nat /\ k - 1 >= n
    BY <1>1, <1>3 DEF snapshotAhead
  <2>2. /\ m \in ApplyMsg /\ m.SnapshotValid /\ m.Index = k - 1
        /\ Len(m.Snapshot) = k
    BY <1>1, <2>1 DEF snapshotMsg, ApplyMsg, Action
  <2>3. q = <<m>>
    BY <1>3 DEF applyMsgs
  <2> HIDE DEF m
  <2>4. q \in Seq(ApplyMsg) /\ Len(q) = 1 /\ Head(q) = m /\ q # <<>>
    BY <2>2, <2>3
  <2> HIDE DEF q, la
  <2>5. m.Index = la /\ Len(m.Snapshot) = m.Index + 1 /\ m.Index >= n
    BY <1>1, <1>2, <1>3, <2>1, <2>2
  <2>6. ChannelOK(q, n, la)
    BY <2>2, <2>4, <2>5 DEF ChannelOK
  <2> QED
    BY <2>4, <2>6 DEF q, la
<1>4. CASE ~snapshotAhead(s)
  <2> DEFINE len == s.commitIndex - s.lastApplied
  <2>1. len \in Nat /\ len > 0 /\ s.commitIndex \in Nat /\ n >= k
    BY <1>1, <1>4 DEF nothingToApply, snapshotAhead
  <2>2. q = [h \in 1 .. len |-> commandMsg(s, s.lastApplied + h)]
    BY <1>4 DEF applyMsgs
  <2>3. \A h \in 1 .. len : /\ commandMsg(s, s.lastApplied + h) \in ApplyMsg
                            /\ commandMsg(s, s.lastApplied + h).Index = n + h - 1
                            /\ ~commandMsg(s, s.lastApplied + h).SnapshotValid
    <3> TAKE h \in 1 .. len
    <3> DEFINE x == s.lastApplied + h
               o == getOffsetIndex(s, x) + 1
    <3>1. x \in Nat /\ x = n + h - 1 /\ x >= k /\ x <= s.commitIndex
      BY <1>1, <2>1
    <3>2. s.commitIndex <= Len(s.logs) - 1 + k /\ Len(s.logs) \in Nat
      BY <1>1, <1>4 DEF applyIsInLog, logIndexCheck, getLastLogEntryIndex
    <3> HIDE DEF x
    <3>3. o \in 1 .. Len(s.logs)
      <4>1. o = x - k + 1
        BY DEF getOffsetIndex
      <4> HIDE DEF o, k
      <4> QED
        BY <1>1, <2>1, <3>1, <3>2, <4>1
    <3> HIDE DEF o
    <3>4. s.logs[o] \in Entry
      BY <1>1, <3>3
    <3>5. getLogEntryAtIndex(s, x).Action \in Value \cup {Nil}
      BY <3>4 DEF getLogEntryAtIndex, o, Entry
    <3>6. commandMsg(s, x) \in ApplyMsg /\ commandMsg(s, x).Index = x /\ ~commandMsg(s, x).SnapshotValid
      BY <3>1, <3>5 DEF commandMsg, ApplyMsg
    <3> QED
      BY <3>1, <3>6 DEF x
  <2> HIDE DEF q, la
  <2>4. q \in Seq(ApplyMsg) /\ Len(q) = len /\ \A h \in 1 .. len : q[h] = commandMsg(s, s.lastApplied + h)
    <3> HIDE DEF len
    <3>1. q \in [1 .. len -> ApplyMsg]
      BY <2>2, <2>3
    <3>2. q \in Seq(ApplyMsg) /\ Len(q) = len
      BY <2>1, <3>1
    <3> QED
      BY <2>2, <3>2
  <2>5. q # <<>> /\ Head(q) = q[1] /\ 1 \in 1 .. len
    BY <2>1, <2>4
  <2>6. ~Head(q).SnapshotValid
    BY <2>3, <2>4, <2>5
  <2>7. la = n + Len(q) - 1
    <3>1. la = s.commitIndex /\ Len(q) = s.commitIndex - s.lastApplied
      BY <1>2, <1>4, <2>4
    <3> QED
      BY <1>1, <2>1, <3>1
  <2>8. \A h \in 1 .. Len(q) : q[h].Index = n + h - 1 /\ ~q[h].SnapshotValid
    BY <2>3, <2>4
  <2>9. ChannelOK(q, n, la)
    BY <2>5, <2>6, <2>7, <2>8 DEF ChannelOK
  <2> QED
    BY <2>4, <2>9 DEF q, la
<1> QED
  BY <1>3, <1>4

(* The batch handed to the service follows on the last one. *)
LEMMA commitToApplyChannelOK ==
    ASSUME Inv, NEW c \in appendCalls, commitToApplyChannel(c)
    PROVE  Inv' /\ KeepsAll
<1> USE DEF Inv
<1> DEFINE i == threadOf(c)
           s == rf[i]
<1>1. i \in Server /\ AppendOK(c) /\ c.stage # "request"
  BY DEF CallsOK, AppendOK, AppendCall, Call, threadOf, commitToApplyChannel
<1>2. PeerOK(s) /\ Shape(s)
  BY <1>1 DEF PeersOK, PeerOK
<1>3. UNCHANGED <<service, voteTasks, snapTasks, voteCalls, snapCalls, crashes>>
  BY DEF commitToApplyChannel
<1> HIDE DEF i
<1>4. CASE /\ rf' = [rf EXCEPT ![i] = persist(s)]
           /\ appendCalls' = finish(c)
           /\ UNCHANGED <<applyCh, fatal>>
  <2>1. PeerOK(persist(s)) /\ Keeps(s, persist(s)) /\ persist(s).lastApplied = s.lastApplied
    <3>1. s.currentTerm \in Nat /\ s.snapshotEntriesAmount \in Nat
      BY <1>2 DEF Shape, RaftState
    <3> QED
      BY <1>2, <3>1, PersistOK DEF Keeps, HasLed
  <2>2. fatal' \subseteq Server /\ snapCalls' \subseteq snapCalls
    BY <1>3, <1>4 DEF TasksOK
  <2>3. PeersOK' /\ KeepsAll /\ ApplyOK' /\ TasksOK' /\ CallersOK'
    BY <1>1, <1>3, <1>4, <2>1, <2>2, PeerStepOK
  <2>4. \A d \in appendCalls' : AppendOK(d)
    BY <1>1, <1>4, FinishOK DEF CallsOK
  <2> QED
    BY <1>3, <2>3, <2>4 DEF CallsOK, AppendOK, SnapOK, VoteOK
<1>5. CASE /\ ~nothingToApply(s) /\ applyIsInLog(s)
           /\ applyCh[i] = <<>>
           /\ rf' = [rf EXCEPT ![i] = applied(s)]
           /\ applyCh' = [applyCh EXCEPT ![i] = applyMsgs(s)]
           /\ appendCalls' = move(appendCalls, c,
                 IF c.stage = "serveCommit" THEN "serveApply" ELSE "leadApply", c.reply)
           /\ UNCHANGED fatal
  <2> DEFINE n == Len(service[i])
             u == applied(s)
             q == applyMsgs(s)
  <2>1. n \in Nat /\ s.lastApplied = n - 1
    BY <1>1, <1>5 DEF ApplyOK, ChannelOK
  <2>2. q \in Seq(ApplyMsg) /\ ChannelOK(q, n, u.lastApplied)
    BY <1>2, <1>5, <2>1, ApplyMsgsOK
  <2>3. PeerOK(u) /\ Keeps(s, u)
    BY <1>2, AppliedOK
  <2>4. rf' = [rf EXCEPT ![i] = u] /\ applyCh' = [applyCh EXCEPT ![i] = q]
    BY <1>5
  <2> HIDE DEF u, q
  <2>5. PeersOK' /\ KeepsAll /\ rf'[i] = u /\ \A j \in Server : j # i => rf'[j] = rf[j]
    BY <1>1, <2>3, <2>4, UpdateOK
  <2>6. ApplyOK'
    <3>1. applyCh' \in [Server -> Seq(ApplyMsg)] /\ applyCh'[i] = q
          /\ \A j \in Server : j # i => applyCh'[j] = applyCh[j]
      BY <1>1, <2>2, <2>4 DEF ApplyOK
    <3>2. service' \in [Server -> Seq(Action)] /\ service' = service
      BY <1>3 DEF ApplyOK
    <3>3. ASSUME NEW j \in Server
          PROVE  ChannelOK(applyCh'[j], Len(service'[j]), rf'[j].lastApplied)
      BY <2>2, <2>5, <3>1, <3>2 DEF ApplyOK
    <3> QED
      BY <3>1, <3>2, <3>3 DEF ApplyOK
  <2>7. fatal' \subseteq Server /\ snapCalls' \subseteq snapCalls
    BY <1>3, <1>5 DEF TasksOK
  <2>8. TasksOK' /\ CallersOK'
    BY <1>3, <2>5, <2>7, TasksKept, CallersKept
  <2>9. \A d \in appendCalls' : AppendOK(d)
    <3> DEFINE st == IF c.stage = "serveCommit" THEN "serveApply" ELSE "leadApply"
    <3>1. st \in {"serveCommit", "serveApply", "reply", "leadCommit", "leadApply"}
      OBVIOUS
    <3>2. /\ c.reply \in [Term : Nat, Success : BOOLEAN, InSnapshot : BOOLEAN, SnapshotAmount : Nat]
          /\ c.reply.InSnapshot => c.reply.SnapshotAmount > 0
      BY <1>1 DEF AppendOK
    <3>3. AppendOK([c EXCEPT !.stage = st, !.reply = c.reply])
      <4> HIDE DEF st
      <4> QED
        BY <1>1, <3>1, <3>2, MoveAppendOK
    <3> QED
      BY <1>5, <3>3 DEF move, CallsOK
  <2> QED
    BY <1>3, <2>5, <2>6, <2>8, <2>9 DEF CallsOK, AppendOK, SnapOK, VoteOK
<1>6. CASE fatal' = fatal \cup {i} /\ UNCHANGED <<rf, applyCh, appendCalls>>
  <2>1. fatal' \subseteq Server /\ snapCalls' \subseteq snapCalls
    BY <1>1, <1>3, <1>6 DEF TasksOK
  <2>2. PeersOK' /\ KeepsAll /\ ApplyOK' /\ TasksOK' /\ CallersOK'
    BY <1>3, <1>6, <2>1, IdleStepOK
  <2> QED
    BY <1>3, <1>6, <2>2 DEF CallsOK, AppendOK, SnapOK, VoteOK
<1> QED
  BY <1>4, <1>5, <1>6 DEF commitToApplyChannel, i

(* The service receives the next index, or a snapshot that is ahead of it. *)
LEMMA receiveApplyMsgOK ==
    ASSUME Inv, NEW c \in appendCalls, receiveApplyMsg(c)
    PROVE  Inv' /\ KeepsAll
<1> USE DEF Inv
<1> DEFINE i == threadOf(c)
           q == applyCh[i]
           m == Head(q)
           n == Len(service[i])
           la == rf[i].lastApplied
           sv == IF m.SnapshotValid THEN m.Snapshot ELSE Append(service[i], m.Command)
<1>1. i \in Server /\ c.stage # "request" /\ q # <<>>
  BY DEF CallsOK, AppendOK, AppendCall, Call, threadOf, receiveApplyMsg
<1>2. UNCHANGED <<rf, fatal, voteTasks, snapTasks, voteCalls, snapCalls, crashes>>
  BY DEF receiveApplyMsg
<1>3. PeersOK' /\ KeepsAll
  BY <1>2, UnchangedOK
<1>4. TasksOK' /\ CallersOK'
  <2>1. fatal' \subseteq Server /\ snapCalls' \subseteq snapCalls
    BY <1>2 DEF TasksOK
  <2> QED
    BY <1>2, <1>3, <2>1, TasksKept, CallersKept
<1>5. \A d \in appendCalls' : AppendOK(d)
  <2>1. appendCalls' = finish(c) \/ appendCalls' = appendCalls
    BY DEF receiveApplyMsg
  <2> QED
    BY <1>1, <2>1, FinishOK DEF CallsOK
<1>6. /\ service' = [service EXCEPT ![i] = sv]
      /\ applyCh' = [applyCh EXCEPT ![i] = Tail(q)]
  BY DEF receiveApplyMsg
<1>7. q \in Seq(ApplyMsg) /\ service[i] \in Seq(Action) /\ n \in Nat /\ ChannelOK(q, n, la)
  BY <1>1 DEF ApplyOK
<1> HIDE DEF i
<1>8. m \in ApplyMsg /\ Tail(q) \in Seq(ApplyMsg) /\ Len(Tail(q)) = Len(q) - 1
      /\ Len(q) \in Nat /\ Len(q) > 0
      /\ \A k \in 1 .. Len(Tail(q)) : Tail(q)[k] = q[k + 1]
  BY <1>1, <1>7, HeadTailProperties
<1>9. sv \in Seq(Action) /\ ChannelOK(Tail(q), Len(sv), la)
  <2>1. m.Snapshot \in Seq(Action) /\ m.Command \in Action /\ m.Index \in Nat
    BY <1>8 DEF ApplyMsg, Action
  <2>2. CASE m.SnapshotValid
    <3>1. Len(q) = 1 /\ m.Index = la /\ Len(m.Snapshot) = m.Index + 1
      BY <1>1, <1>7, <2>2 DEF ChannelOK
    <3>2. sv = m.Snapshot
      BY <2>2
    <3>3. Len(Tail(q)) = 0
      BY <1>8, <3>1
    <3> DEFINE t == Tail(q)
    <3>4. t = <<>>
      <4> HIDE DEF t
      <4> QED
        BY <1>8, <3>3, EmptySeq DEF t
    <3>5. Len(sv) - 1 = la
      <4>1. Len(sv) = la + 1 /\ la \in Nat
        BY <2>1, <3>1, <3>2
      <4> HIDE DEF sv, la
      <4> QED
        BY <4>1
    <3> HIDE DEF t, sv, la
    <3>6. ChannelOK(t, Len(sv), la)
      BY <3>4, <3>5 DEF ChannelOK
    <3> QED
      BY <2>1, <3>2, <3>6 DEF t
  <2>3. CASE ~m.SnapshotValid
    <3>1. /\ la = n + Len(q) - 1
          /\ \A k \in 1 .. Len(q) : q[k].Index = n + k - 1 /\ ~q[k].SnapshotValid
      BY <1>1, <1>7, <2>3 DEF ChannelOK
    <3>2. sv \in Seq(Action) /\ Len(sv) = n + 1
      BY <1>7, <2>1, <2>3, AppendProperties
    <3> DEFINE t == Tail(q)
    <3>3. t = <<>> => la = Len(sv) - 1
      <4> SUFFICES ASSUME t = <<>> PROVE la = Len(sv) - 1
        OBVIOUS
      <4>1. Len(t) = 0
        BY EmptySeq
      <4>2. Len(q) = 1
        BY <1>8, <4>1
      <4> HIDE DEF sv, n, la, q
      <4> QED
        BY <1>7, <3>1, <3>2, <4>2
    <3>4. \A k \in 1 .. Len(t) : /\ k + 1 \in 1 .. Len(q) /\ t[k] = q[k + 1]
      BY <1>8
    <3>5. \A k \in 1 .. Len(t) : t[k].Index = Len(sv) + k - 1 /\ ~t[k].SnapshotValid
      <4> TAKE k \in 1 .. Len(t)
      <4>1. t[k] = q[k + 1] /\ q[k + 1].Index = n + (k + 1) - 1 /\ ~q[k + 1].SnapshotValid
        BY <3>1, <3>4
      <4>2. n + (k + 1) - 1 = (n + 1) + k - 1
        BY <1>7
      <4> QED
        BY <3>2, <4>1, <4>2
    <3>6. la = Len(sv) + Len(t) - 1
      <4>1. Len(t) = Len(q) - 1 /\ Len(q) \in Nat
        BY <1>8
      <4> HIDE DEF sv, n, la, q, t
      <4> QED
        BY <1>7, <3>1, <3>2, <4>1
    <3>7. t # <<>> => ~Head(t).SnapshotValid
      <4> SUFFICES ASSUME t # <<>> PROVE ~Head(t).SnapshotValid
        OBVIOUS
      <4>1. 1 \in 1 .. Len(t) /\ Head(t) = t[1]
        BY <1>8
      <4> QED
        BY <3>5, <4>1
    <3> HIDE DEF t, sv, la
    <3>8. ChannelOK(t, Len(sv), la)
      BY <3>3, <3>5, <3>6, <3>7 DEF ChannelOK
    <3> QED
      BY <3>2, <3>8 DEF t
  <2> QED
    BY <2>2, <2>3
<1> HIDE DEF sv
<1>10. ApplyOK'
  <2>1. applyCh' \in [Server -> Seq(ApplyMsg)] /\ applyCh'[i] = Tail(q)
        /\ \A j \in Server : j # i => applyCh'[j] = applyCh[j]
    BY <1>1, <1>6, <1>8 DEF ApplyOK
  <2>2. service' \in [Server -> Seq(Action)] /\ service'[i] = sv
        /\ \A j \in Server : j # i => service'[j] = service[j]
    BY <1>1, <1>6, <1>9 DEF ApplyOK
  <2>3. ASSUME NEW j \in Server
        PROVE  ChannelOK(applyCh'[j], Len(service'[j]), rf'[j].lastApplied)
    BY <1>2, <1>9, <2>1, <2>2 DEF ApplyOK
  <2> QED
    BY <2>1, <2>2, <2>3 DEF ApplyOK
<1> QED
  BY <1>2, <1>3, <1>4, <1>5, <1>10 DEF CallsOK, AppendOK, SnapOK, VoteOK

(* The back-off of nextIndex never falls below 1. *)
LEMMA DecrementedOK ==
    ASSUME NEW s, Shape(s), HasLed(s), NEW j \in Server
    PROVE  decremented(s, j) - 1 \in Nat
<1>1. s.nextIndex[j] \in Nat /\ s.snapshotEntriesAmount \in Nat
  BY DEF HasLed, Shape, RaftState
<1> QED
  BY <1>1 DEF decremented

(* A leader's reply handler: each branch of handleAppendEntriesReply that stays
   leader changes indexes only. *)
LEMMA LeaderReplyOK ==
    ASSUME NEW s, PeerOK(s), HasLed(s), NEW i \in Server, NEW j \in Server, NEW n \in Nat,
           NEW k \in commitCandidates(setMatch(s, j, n + 1, n), i)
    PROVE  LET u == [setMatch(s, j, n + 1, n) EXCEPT !.commitIndex = k] IN
           PeerOK(u) /\ Keeps(s, u) /\ u.lastApplied = s.lastApplied
<1> DEFINE t == setMatch(s, j, n + 1, n)
           ni == t.nextIndex
           mi == t.matchIndex
           u == [t EXCEPT !.commitIndex = k]
<1>1. n + 1 \in Nat \ {0}
  OBVIOUS
<1>2. PeerOK(t) /\ Keeps(s, t) /\ HasLed(t) /\ t.lastApplied = s.lastApplied
  BY <1>1, SetIndexOK
<1> HIDE DEF t
<1>3. /\ t \in RaftState /\ t.logs \in Seq(Entry) /\ t.snapshotEntriesAmount \in Nat
      /\ t.commitIndex \in Nat \cup {-1} /\ t.currentTerm \in Nat
      /\ ni \in [Server -> Nat \ {0}] /\ mi \in [Server -> Nat \cup {-1}]
      /\ s.currentTerm \in Nat /\ s.snapshotEntriesAmount \in Nat
  BY <1>2 DEF PeerOK, Shape, RaftState, HasLed
<1>4. k \in Nat \cup {-1}
  <2>1. k \in commitCandidates(t, i)
    BY DEF t
  <2>2. Len(t.logs) \in Nat
    BY <1>3
  <2> QED
    BY <1>3, <2>1, <2>2 DEF commitCandidates, getLastLogEntryIndex
<1>5. u = setIndexes(t, ni, mi, k)
  BY <1>3 DEF RaftState, setIndexes
<1> HIDE DEF ni, mi
<1>6. PeerOK(u) /\ Keeps(t, u) /\ u.lastApplied = t.lastApplied
  <2>1. LET v == setIndexes(t, ni, mi, k) IN
        PeerOK(v) /\ Keeps(t, v) /\ v.lastApplied = t.lastApplied
    BY <1>2, <1>3, <1>4, IndexesOK
  <2> HIDE DEF u
  <2> QED
    BY <1>5, <2>1
<1> HIDE DEF u
<1>7. u.currentTerm \in Nat /\ u.snapshotEntriesAmount \in Nat
  BY <1>6 DEF PeerOK, Shape, RaftState
<1>8. Keeps(s, u)
  BY <1>2, <1>3, <1>6, <1>7 DEF Keeps
<1> QED
  BY <1>2, <1>6, <1>8 DEF u, t

(* A reply, late or not, moves nextIndex, matchIndex and commitIndex within the log. *)
LEMMA handleAppendEntriesReplyOK ==
    ASSUME Inv, NEW c \in appendCalls, handleAppendEntriesReply(c)
    PROVE  Inv' /\ KeepsAll
<1> USE DEF Inv
<1> DEFINE i == c.caller
           j == c.callee
           s == rf[i]
           matched == c.args.PrevLogIndex + Len(c.args.Entries)
           pre == decremented(s, j) - 1
           failed == ~c.reply.Success /\ ~c.reply.InSnapshot
           t == [s EXCEPT !.nextIndex[j] = matched + 1, !.matchIndex[j] = matched]
<1>1. /\ i \in Server /\ j \in Server /\ AppendOK(c) /\ c.stage = "reply"
      /\ c.args.PrevLogIndex \in Nat /\ c.args.Entries \in Seq(Entry)
  BY DEF CallsOK, AppendOK, AppendCall, Call, handleAppendEntriesReply
<1>2. /\ c.reply.Term \in Nat /\ c.reply.SnapshotAmount \in Nat
      /\ c.reply.InSnapshot => c.reply.SnapshotAmount > 0
  BY <1>1 DEF AppendOK
<1>3. /\ PeerOK(s) /\ Shape(s) /\ s.currentTerm \in Nat /\ s.snapshotEntriesAmount \in Nat
      /\ s.status = Leader => HasLed(s)
  BY <1>1 DEF PeersOK, PeerOK, Shape, RaftState
<1>4. matched \in Nat
  BY <1>1
<1>5. UNCHANGED <<applyCh, service, voteTasks, voteCalls, snapCalls, crashes>>
  BY DEF handleAppendEntriesReply
<1>6. snapCalls' \subseteq snapCalls
  BY <1>5
<1>7. CASE UNCHANGED <<rf, snapTasks>> /\ fatal' \subseteq Server /\ appendCalls' \subseteq appendCalls
  <2>1. PeersOK' /\ KeepsAll /\ ApplyOK' /\ TasksOK' /\ CallersOK'
    BY <1>5, <1>6, <1>7, IdleStepOK
  <2> QED
    BY <1>5, <1>7, <2>1 DEF CallsOK, AppendOK, SnapOK, VoteOK
<1>8. CASE /\ s.status = Leader
           /\ \E k \in commitCandidates(t, i) : rf' = [rf EXCEPT ![i] = [t EXCEPT !.commitIndex = k]]
           /\ appendCalls' = move(appendCalls, c, "leadCommit", c.reply)
           /\ UNCHANGED <<snapTasks, fatal>>
  <2> HIDE DEF matched
  <2>1. t = setMatch(s, j, matched + 1, matched)
    BY DEF setMatch
  <2>2. PICK k \in commitCandidates(t, i) : rf' = [rf EXCEPT ![i] = [t EXCEPT !.commitIndex = k]]
    BY <1>8
  <2> HIDE DEF t
  <2> DEFINE u == [t EXCEPT !.commitIndex = k]
  <2>3. PeerOK(u) /\ Keeps(s, u) /\ u.lastApplied = s.lastApplied
    BY <1>1, <1>3, <1>4, <1>8, <2>1, LeaderReplyOK
  <2>4. rf' = [rf EXCEPT ![i] = u]
    BY <2>2
  <2> HIDE DEF u
  <2>5. fatal' \subseteq Server
    BY <1>8 DEF TasksOK
  <2>6. PeersOK' /\ KeepsAll /\ ApplyOK' /\ TasksOK' /\ CallersOK'
    BY <1>1, <1>5, <1>6, <1>8, <2>3, <2>4, <2>5, PeerStepOK
  <2>7. AppendOK([c EXCEPT !.stage = "leadCommit", !.reply = c.reply])
    BY <1>1, MoveAppendOK DEF AppendOK
  <2>8. \A d \in appendCalls' : AppendOK(d)
    BY <1>8, <2>7 DEF move, CallsOK
  <2> QED
    BY <1>5, <2>6, <2>8 DEF CallsOK, AppendOK, SnapOK, VoteOK
<1>9. ASSUME s.status = Leader, NEW n \in Nat \ {0},
             rf' = [rf EXCEPT ![i].nextIndex[j] = n],
             appendCalls' \subseteq appendCalls, UNCHANGED fatal,
             \/ UNCHANGED snapTasks
             \/ /\ n <= s.snapshotEntriesAmount
                /\ snapTasks' = [snapTasks EXCEPT ![i][j] = snapTasks[i][j] + 1]
      PROVE  Inv' /\ KeepsAll
  <2> DEFINE u == setNext(s, j, n)
  <2>1. /\ PeerOK(u) /\ Keeps(s, u) /\ HasLed(u) /\ u.lastApplied = s.lastApplied
        /\ u.snapshotEntriesAmount = s.snapshotEntriesAmount
    BY <1>1, <1>3, <1>9, SetIndexOK
  <2>2. rf' = [rf EXCEPT ![i] = u]
    BY <1>9 DEF setNext
  <2> HIDE DEF u
  <2>3. PeersOK' /\ KeepsAll /\ AppliesNone /\ rf'[i] = u
    BY <1>1, <2>1, <2>2, UpdateOK
  <2>4. ApplyOK' /\ CallersOK'
    BY <1>5, <1>6, <2>3, ApplyKept, CallersKept
  <2>5. TasksOK'
    <3>1. CASE UNCHANGED snapTasks
      <4>1. fatal' \subseteq Server
        BY <1>9 DEF TasksOK
      <4> QED
        BY <1>5, <2>3, <3>1, <4>1, TasksKept
    <3>2. CASE /\ n <= s.snapshotEntriesAmount
               /\ snapTasks' = [snapTasks EXCEPT ![i][j] = snapTasks[i][j] + 1]
      <4>1. s.snapshotEntriesAmount > 0
        BY <1>3, <3>2
      <4> HIDE DEF s
      <4>2. HasLed(rf'[i]) /\ rf'[i].snapshotEntriesAmount > 0
        BY <2>1, <2>3, <4>1
      <4> QED
        BY <1>1, <1>5, <1>9, <2>3, <3>2, <4>2, SpawnOK
    <3> QED
      BY <1>9, <3>1, <3>2
  <2> QED
    BY <1>5, <1>9, <2>3, <2>4, <2>5 DEF CallsOK, AppendOK, SnapOK, VoteOK
<1>10. CASE /\ s.currentTerm < c.reply.Term
            /\ rf' = [rf EXCEPT ![i] = becomeFollower(s, c.reply.Term, Nil)]
            /\ appendCalls' \subseteq appendCalls /\ UNCHANGED <<snapTasks, fatal>>
  <2> DEFINE u == becomeFollower(s, c.reply.Term, Nil)
  <2>1. c.reply.Term >= s.currentTerm
    BY <1>2, <1>3, <1>10
  <2>2. PeerOK(u) /\ Keeps(s, u) /\ u.lastApplied = s.lastApplied
    BY <1>2, <1>3, <2>1, BecomeFollowerOK
  <2>3. rf' = [rf EXCEPT ![i] = u] /\ fatal' \subseteq Server
    BY <1>10 DEF TasksOK
  <2> HIDE DEF u
  <2>4. PeersOK' /\ KeepsAll /\ ApplyOK' /\ TasksOK' /\ CallersOK'
    BY <1>1, <1>5, <1>6, <1>10, <2>2, <2>3, PeerStepOK
  <2> QED
    BY <1>5, <1>10, <2>4 DEF CallsOK, AppendOK, SnapOK, VoteOK
<1>11. CASE s.status = Leader /\ c.reply.InSnapshot
            /\ rf' = [rf EXCEPT ![i].nextIndex[j] = c.reply.SnapshotAmount]
            /\ appendCalls' \subseteq appendCalls /\ UNCHANGED <<snapTasks, fatal>>
  <2>1. c.reply.SnapshotAmount \in Nat \ {0}
    BY <1>2, <1>11
  <2> QED
    BY <1>9, <1>11, <2>1
<1>12. CASE /\ s.status = Leader /\ appendCalls' \subseteq appendCalls
            /\ \E k \in backoffStops(s, pre) :
                  /\ rf' = [rf EXCEPT ![i].nextIndex[j] = k + 1]
                  /\ \/ UNCHANGED snapTasks
                     \/ /\ k + 1 <= s.snapshotEntriesAmount
                        /\ snapTasks' = [snapTasks EXCEPT ![i][j] = snapTasks[i][j] + 1]
            /\ UNCHANGED fatal
  <2>1. PICK k \in backoffStops(s, pre) :
                  /\ rf' = [rf EXCEPT ![i].nextIndex[j] = k + 1]
                  /\ \/ UNCHANGED snapTasks
                     \/ /\ k + 1 <= s.snapshotEntriesAmount
                        /\ snapTasks' = [snapTasks EXCEPT ![i][j] = snapTasks[i][j] + 1]
    BY <1>12
  <2>2. pre \in Nat
    BY <1>1, <1>3, <1>12, DecrementedOK
  <2> HIDE DEF pre
  <2>3. k \in Nat
    BY <2>2 DEF backoffStops
  <2>4. k + 1 \in Nat \ {0}
    BY <2>3
  <2> DEFINE n == k + 1
  <2>5. /\ n \in Nat \ {0} /\ rf' = [rf EXCEPT ![i].nextIndex[j] = n]
        /\ \/ UNCHANGED snapTasks
           \/ /\ n <= s.snapshotEntriesAmount
              /\ snapTasks' = [snapTasks EXCEPT ![i][j] = snapTasks[i][j] + 1]
    BY <2>1, <2>4
  <2> HIDE DEF n
  <2> QED
    BY <1>9, <1>12, <2>5
<1>13. \/ UNCHANGED <<rf, snapTasks>> /\ fatal' \subseteq Server /\ appendCalls' \subseteq appendCalls
       \/ /\ s.status = Leader
          /\ \E k \in commitCandidates(t, i) : rf' = [rf EXCEPT ![i] = [t EXCEPT !.commitIndex = k]]
          /\ appendCalls' = move(appendCalls, c, "leadCommit", c.reply)
          /\ UNCHANGED <<snapTasks, fatal>>
       \/ /\ s.currentTerm < c.reply.Term
          /\ rf' = [rf EXCEPT ![i] = becomeFollower(s, c.reply.Term, Nil)]
          /\ appendCalls' \subseteq appendCalls /\ UNCHANGED <<snapTasks, fatal>>
       \/ /\ s.status = Leader /\ c.reply.InSnapshot
          /\ rf' = [rf EXCEPT ![i].nextIndex[j] = c.reply.SnapshotAmount]
          /\ appendCalls' \subseteq appendCalls /\ UNCHANGED <<snapTasks, fatal>>
       \/ /\ s.status = Leader /\ appendCalls' \subseteq appendCalls
          /\ \E k \in backoffStops(s, pre) :
                /\ rf' = [rf EXCEPT ![i].nextIndex[j] = k + 1]
                /\ \/ UNCHANGED snapTasks
                   \/ /\ k + 1 <= s.snapshotEntriesAmount
                      /\ snapTasks' = [snapTasks EXCEPT ![i][j] = snapTasks[i][j] + 1]
          /\ UNCHANGED fatal
  <2>1. fatal \cup {i} \subseteq Server /\ fatal \subseteq Server
    BY <1>1 DEF TasksOK
  <2>2. appendCalls \ {c} \subseteq appendCalls
    OBVIOUS
  <2>3. CASE s.status # Leader
    BY <2>1, <2>2, <2>3 DEF handleAppendEntriesReply
  <2>4. CASE s.status = Leader /\ c.reply.Success /\ ~c.reply.InSnapshot
    BY <2>4 DEF handleAppendEntriesReply
  <2>5. CASE s.status = Leader /\ c.reply.InSnapshot
    BY <2>2, <2>5 DEF handleAppendEntriesReply
  <2>6. CASE s.status = Leader /\ failed /\ s.currentTerm < c.reply.Term
    <3>1. ~(s.currentTerm >= c.reply.Term)
      BY <1>2, <1>3, <2>6
    <3>2. /\ rf' = [rf EXCEPT ![i] = becomeFollower(s, c.reply.Term, Nil)]
          /\ appendCalls' = appendCalls \ {c} /\ UNCHANGED <<snapTasks, fatal>>
      BY <2>6, <3>1 DEF handleAppendEntriesReply
    <3> QED
      BY <2>2, <2>6, <3>2
  <2>7. CASE s.status = Leader /\ failed /\ ~(s.currentTerm < c.reply.Term)
    <3>1. CASE termIsKnown(s, pre)
      <4>1. \E k \in backoffStops(s, pre) :
               /\ rf' = [rf EXCEPT ![i].nextIndex[j] = k + 1]
               /\ IF k + 1 <= s.snapshotEntriesAmount
                  THEN snapTasks' = [snapTasks EXCEPT ![i][j] = snapTasks[i][j] + 1]
                  ELSE UNCHANGED snapTasks
        BY <2>7, <3>1 DEF handleAppendEntriesReply
      <4>2. \E k \in backoffStops(s, pre) :
               /\ rf' = [rf EXCEPT ![i].nextIndex[j] = k + 1]
               /\ \/ UNCHANGED snapTasks
                  \/ /\ k + 1 <= s.snapshotEntriesAmount
                     /\ snapTasks' = [snapTasks EXCEPT ![i][j] = snapTasks[i][j] + 1]
        BY <4>1
      <4>3. appendCalls' = appendCalls \ {c} /\ UNCHANGED fatal
        BY <2>7, <3>1 DEF handleAppendEntriesReply
      <4> QED
        BY <2>2, <2>7, <4>2, <4>3
    <3>2. CASE ~termIsKnown(s, pre)
      BY <2>1, <2>2, <2>7, <3>2 DEF handleAppendEntriesReply
    <3> QED
      BY <3>1, <3>2
  <2> QED
    BY <2>3, <2>4, <2>5, <2>6, <2>7
<1> QED
  BY <1>7, <1>8, <1>10, <1>11, <1>12, <1>13

(* A lost AppendEntries call changes nothing else. *)
LEMMA loseAppendEntriesOK ==
    ASSUME Inv, NEW c \in appendCalls, loseAppendEntries(c)
    PROVE  Inv' /\ KeepsAll
<1> USE DEF Inv
<1> DEFINE e == [c EXCEPT !.live = FALSE]
<1>1. fatal' \subseteq Server /\ snapCalls' \subseteq snapCalls
  BY DEF TasksOK, loseAppendEntries
<1>2. PeersOK' /\ KeepsAll /\ ApplyOK' /\ TasksOK' /\ CallersOK'
  BY <1>1, IdleStepOK DEF loseAppendEntries
<1>3. AppendOK(e)
  <2>1. AppendOK(c)
    BY DEF CallsOK
  <2>2. e \in AppendCall /\ e.stage = c.stage /\ e.reply = c.reply
    BY <2>1 DEF AppendOK, AppendCall, Call
  <2> QED
    BY <2>1, <2>2 DEF AppendOK
<1>4. \A d \in appendCalls' : AppendOK(d)
  BY <1>3 DEF loseAppendEntries, CallsOK
<1> QED
  BY <1>2, <1>4 DEF CallsOK, AppendOK, SnapOK, VoteOK, loseAppendEntries

(* The service's snapshot replaces what is trimmed, in one write to the persister. *)
LEMMA SnapshotOK ==
    ASSUME Inv, NEW i \in Server, Snapshot(i)
    PROVE  Inv' /\ KeepsAll
<1> USE DEF Inv
<1> DEFINE s == rf[i]
           n == Len(service[i])
           index == n - 1
           term == getLogEntryAtIndex(s, index).Term
           la == IF index > s.lastApplied THEN index ELSE s.lastApplied
           u == snapshotted(s, index, term, la, service[i])
<1>1. /\ PeerOK(s) /\ Shape(s) /\ s.snapshotEntriesAmount \in Nat /\ s.logs \in Seq(Entry)
      /\ s.lastApplied \in Nat \cup {-1}
  BY DEF PeersOK, PeerOK, RaftState
<1>2. service[i] \in Seq(Action) /\ n \in Nat /\ ChannelOK(applyCh[i], n, s.lastApplied)
  BY DEF ApplyOK
<1>3. index \in Nat /\ index >= s.snapshotEntriesAmount /\ Len(service[i]) = index + 1
  BY <1>1, <1>2 DEF Snapshot
<1>4. UNCHANGED <<applyCh, service, voteTasks, snapTasks, voteCalls, appendCalls, snapCalls, crashes>>
  BY DEF Snapshot, network
<1>5. la = s.lastApplied
  <2>1. index <= s.lastApplied
    <3>1. CASE applyCh[i] = <<>>
      BY <1>1, <1>2, <3>1 DEF ChannelOK
    <3>2. CASE applyCh[i] # <<>>
      <4> DEFINE q == applyCh[i]
                 m == Head(q)
      <4>1. q \in Seq(ApplyMsg) /\ Len(q) \in Nat /\ Len(q) > 0
        BY <3>2 DEF ApplyOK
      <4>2. m.SnapshotValid => m.Index = s.lastApplied /\ m.Index >= n
        BY <1>2, <3>2 DEF ChannelOK
      <4>3. ~m.SnapshotValid => s.lastApplied = n + Len(q) - 1
        BY <1>2, <3>2 DEF ChannelOK
      <4> HIDE DEF q, m, n
      <4> QED
        BY <1>1, <1>2, <4>1, <4>2, <4>3
    <3> QED
      BY <3>1, <3>2
  <2> QED
    BY <1>1, <1>3, <2>1
<1>6. CASE logIndexCheck(s, index) /\ rf' = [rf EXCEPT ![i] = u] /\ UNCHANGED fatal
  <2>1. term \in Term
    <3> DEFINE o == getOffsetIndex(s, index) + 1
    <3>1. Len(s.logs) \in Nat
      BY <1>1
    <3>2. o \in 1 .. Len(s.logs)
      BY <1>1, <1>3, <1>6, <3>1 DEF logIndexCheck, getLastLogEntryIndex, getOffsetIndex
    <3> HIDE DEF o
    <3>3. s.logs[o] \in Entry
      BY <1>1, <3>2
    <3> QED
      BY <3>3 DEF getLogEntryAtIndex, o, Entry
  <2> HIDE DEF index, term
  <2>2. la \in Nat \cup {-1}
    BY <1>1, <1>5
  <2> HIDE DEF la
  <2>3. PeerOK(u) /\ Keeps(s, u) /\ u.lastApplied = la
    BY <1>1, <1>2, <1>3, <2>1, <2>2, TrimOK
  <2> HIDE DEF u
  <2>4. fatal' \subseteq Server /\ snapCalls' \subseteq snapCalls
    BY <1>4, <1>6 DEF TasksOK
  <2>5. PeersOK' /\ KeepsAll /\ ApplyOK' /\ TasksOK' /\ CallersOK'
    BY <1>4, <1>5, <1>6, <2>3, <2>4, PeerStepOK
  <2> QED
    BY <1>4, <2>5 DEF CallsOK, AppendOK, SnapOK, VoteOK
<1>7. CASE fatal' = fatal \cup {i} /\ UNCHANGED rf
  <2>1. fatal' \subseteq Server /\ snapCalls' \subseteq snapCalls
    BY <1>4, <1>7 DEF TasksOK
  <2>2. PeersOK' /\ KeepsAll /\ ApplyOK' /\ TasksOK' /\ CallersOK'
    BY <1>4, <1>7, <2>1, IdleStepOK
  <2> QED
    BY <1>4, <2>2 DEF CallsOK, AppendOK, SnapOK, VoteOK
<1> QED
  BY <1>6, <1>7 DEF Snapshot, snapshotted

(* The snapshot sent is the one in the persister. *)
LEMMA handleSendInstallSnapshotOK ==
    ASSUME Inv, NEW i \in Server, NEW j \in Server, NEW id \in 1 .. Slots,
           handleSendInstallSnapshot(i, j, id)
    PROVE  Inv' /\ KeepsAll
<1> USE DEF Inv
<1> DEFINE s == rf[i]
           last == s.snapshotEntriesAmount - 1
           args == createInstallSnapshotArgs(s, i)
           c == request(i, j, id, args)
           n == snapTasks[i][j] - 1
<1>1. /\ Shape(s) /\ s.snapshotEntriesAmount \in Nat /\ s.currentTerm \in Nat
      /\ s.lastSnapshotTerm \in Term /\ s.persister.snapshot \in Seq(Action)
      /\ Len(s.persister.snapshot) = s.snapshotEntriesAmount
  BY DEF PeersOK, PeerOK, Shape, RaftState, PersisterState, Action
<1>2. /\ snapTasks[i][j] \in Nat /\ snapTasks[i][j] > 0
      /\ HasLed(s) /\ s.snapshotEntriesAmount > 0
  BY DEF handleSendInstallSnapshot, TasksOK
<1>3. UNCHANGED <<rf, applyCh, service, fatal, voteTasks, voteCalls, appendCalls, crashes>>
  BY DEF handleSendInstallSnapshot
<1>4. PeersOK' /\ KeepsAll /\ AppliesNone
  BY <1>3, UnchangedOK
<1>5. ApplyOK'
  BY <1>3, <1>4, ApplyKept
<1>6. TasksOK'
  <2>1. n \in Nat
    BY <1>2
  <2>2. snapTasks' = [snapTasks EXCEPT ![i][j] = n]
    BY DEF handleSendInstallSnapshot
  <2>3. \A k, h \in Server : snapTasks[k][h] \in Nat
    BY DEF TasksOK
  <2>4. n < snapTasks[i][j]
    BY <1>2
  <2> HIDE DEF n
  <2>5. snapTasks' \in [Server -> [Server -> Nat]]
    BY <2>1, <2>2 DEF TasksOK
  <2>6. \A k, h \in Server : snapTasks'[k][h] > 0 => snapTasks[k][h] > 0
    <3> TAKE k, h \in Server
    <3>1. CASE k = i /\ h = j
      BY <1>2, <3>1
    <3>2. CASE ~(k = i /\ h = j)
      <4>1. snapTasks'[k][h] = snapTasks[k][h]
        BY <2>2, <3>2 DEF TasksOK
      <4> QED
        BY <4>1
    <3> QED
      BY <3>1, <3>2
  <2> QED
    BY <1>3, <2>5, <2>6 DEF TasksOK, HasLed
<1>7. args \in [Term : Nat, LeaderId : Server, LastIncludedIndex : Nat, LastIncludedTerm : Term,
                Data : Seq(Value \cup {Nil})]
      /\ Len(args.Data) = args.LastIncludedIndex + 1
  <2>1. last \in Nat /\ last + 1 = s.snapshotEntriesAmount
    BY <1>1, <1>2
  <2>2. args = [Term |-> s.currentTerm, LeaderId |-> i, LastIncludedIndex |-> last,
                LastIncludedTerm |-> s.lastSnapshotTerm, Data |-> s.persister.snapshot]
    BY DEF createInstallSnapshotArgs
  <2> HIDE DEF last, args
  <2> QED
    BY <1>1, <2>1, <2>2 DEF Action
<1>8. snapCalls' = snapCalls \cup {c}
  BY DEF handleSendInstallSnapshot
<1> HIDE DEF args
<1>9. SnapOK(c) /\ c.caller = i
  <2>1. c \in SnapCall /\ c.stage = "request" /\ c.args = args /\ c.caller = i
    BY <1>7, BoundAssumption DEF request, SnapCall, Call
  <2> QED
    BY <1>7, <2>1 DEF SnapOK
<1> HIDE DEF c
<1>10. CallsOK'
  BY <1>3, <1>8, <1>9 DEF CallsOK, AppendOK, SnapOK, VoteOK
<1>11. CallersOK'
  BY <1>2, <1>3, <1>8, <1>9 DEF CallersOK, HasLed
<1> QED
  BY <1>4, <1>5, <1>6, <1>10, <1>11

(* The receiver's snapshot replaces what is trimmed; the service hears of it later. *)
LEMMA InstallSnapshotOK ==
    ASSUME Inv, NEW c \in snapCalls, InstallSnapshot(c)
    PROVE  Inv' /\ KeepsAll
<1> USE DEF Inv
<1> DEFINE i == c.callee
           s == rf[i]
           f == becomeFollower(s, c.args.Term, Nil)
           last == c.args.LastIncludedIndex
           u == installed(f, last, c.args.LastIncludedTerm, c.args.Data)
<1>1. /\ i \in Server /\ c.args.Term \in Nat /\ last \in Nat
      /\ c.args.LastIncludedTerm \in Term /\ c.args.Data \in Seq(Action)
      /\ Len(c.args.Data) = last + 1
  BY DEF CallsOK, SnapOK, SnapCall, Call, Action
<1>2. PeerOK(s) /\ Shape(s) /\ s.currentTerm \in Nat /\ s.snapshotEntriesAmount \in Nat
  BY <1>1 DEF PeersOK, PeerOK, RaftState
<1>3. UNCHANGED <<applyCh, service, fatal, voteTasks, snapTasks, voteCalls, appendCalls, crashes>>
  BY DEF InstallSnapshot
<1>4. fatal' \subseteq Server
  BY <1>3 DEF TasksOK
<1>5. c.args.Term >= s.currentTerm =>
        /\ PeerOK(f) /\ Shape(f) /\ Keeps(s, f) /\ f.lastApplied = s.lastApplied
        /\ f.snapshotEntriesAmount = s.snapshotEntriesAmount
        /\ f.currentTerm \in Nat
  BY <1>1, <1>2, BecomeFollowerOK DEF PeerOK
<1> HIDE DEF f
<1>6. PeersOK' /\ KeepsAll /\ AppliesNone
  <2>1. CASE UNCHANGED rf
    BY <2>1, UnchangedOK
  <2>2. CASE c.args.Term >= s.currentTerm /\ rf' = [rf EXCEPT ![i] = f]
    BY <1>1, <1>5, <2>2, UpdateOK
  <2>3. CASE /\ c.args.Term >= s.currentTerm /\ s.snapshotEntriesAmount <= last
             /\ rf' = [rf EXCEPT ![i] = u]
    <3>1. last >= f.snapshotEntriesAmount
      BY <1>1, <1>2, <1>5, <2>3
    <3> HIDE DEF last
    <3>4. f.lastApplied \in Nat \cup {-1}
      BY <1>5, <2>3 DEF Shape, RaftState
    <3>2. PeerOK(u) /\ Keeps(f, u) /\ u.lastApplied = f.lastApplied
      BY <1>1, <1>5, <2>3, <3>1, <3>4, TrimOK
    <3>3. u.currentTerm \in Nat /\ u.snapshotEntriesAmount \in Nat
      BY <3>2 DEF PeerOK, Shape, RaftState
    <3> HIDE DEF u
    <3>5. Keeps(s, u) /\ u.lastApplied = s.lastApplied
      BY <1>2, <1>5, <2>3, <3>2, <3>3 DEF Keeps
    <3> QED
      BY <1>1, <2>3, <3>2, <3>5, UpdateOK
  <2> QED
    BY <2>1, <2>2, <2>3 DEF InstallSnapshot, installed, f
<1>7. ApplyOK' /\ TasksOK'
  BY <1>3, <1>4, <1>6, ApplyKept, TasksKept
<1>8. \E t \in Nat : snapCalls' = answer(snapCalls, c, [Term |-> t])
  BY <1>1, <1>2 DEF InstallSnapshot
<1>9. PICK t \in Nat : snapCalls' = answer(snapCalls, c, [Term |-> t])
  BY <1>8
<1>10. (\A d \in snapCalls' : SnapOK(d)) /\ CallersOK'
  BY <1>6, <1>9, AnswerSnapOK DEF CallsOK
<1> QED
  BY <1>3, <1>6, <1>7, <1>10 DEF CallsOK, AppendOK, SnapOK, VoteOK

(* After a snapshot the leader goes on right behind it. *)
LEMMA handleInstallSnapshotReplyOK ==
    ASSUME Inv, NEW c \in snapCalls, handleInstallSnapshotReply(c)
    PROVE  Inv' /\ KeepsAll
<1> USE DEF Inv
<1> DEFINE i == c.caller
           s == rf[i]
           f == becomeFollower(s, c.reply.Term, Nil)
           u == IF s.currentTerm < c.reply.Term THEN f ELSE s
<1>1. i \in Server /\ c.stage = "reply" /\ c.reply.Term \in Nat
  BY DEF handleInstallSnapshotReply, CallsOK, SnapOK, SnapCall, Call
<1>2. PeerOK(s) /\ Shape(s) /\ s.currentTerm \in Nat /\ s.snapshotEntriesAmount \in Nat
  BY <1>1 DEF PeersOK, PeerOK, RaftState
<1>3. PeerOK(u) /\ Keeps(s, u) /\ u.lastApplied = s.lastApplied
  <2>1. CASE s.currentTerm < c.reply.Term
    <3>1. c.reply.Term >= s.currentTerm
      BY <1>1, <1>2, <2>1
    <3>2. PeerOK(f) /\ Keeps(s, f) /\ f.lastApplied = s.lastApplied
      BY <1>1, <1>2, <3>1, BecomeFollowerOK
    <3> QED
      BY <2>1, <3>2
  <2>2. CASE ~(s.currentTerm < c.reply.Term)
    BY <1>2, <2>2 DEF Keeps
  <2> QED
    BY <2>1, <2>2
<1>4. rf' = [rf EXCEPT ![i] = u]
  BY DEF handleInstallSnapshotReply
<1> HIDE DEF u
<1>5. /\ UNCHANGED <<applyCh, service, fatal, voteTasks, snapTasks, voteCalls, appendCalls, crashes>>
      /\ snapCalls' \subseteq snapCalls
  BY DEF handleInstallSnapshotReply
<1>6. fatal' \subseteq Server
  BY <1>5 DEF TasksOK
<1>7. PeersOK' /\ KeepsAll /\ ApplyOK' /\ TasksOK' /\ CallersOK'
  BY <1>1, <1>3, <1>4, <1>5, <1>6, PeerStepOK
<1> QED
  BY <1>5, <1>7 DEF CallsOK, AppendOK, SnapOK, VoteOK

(* After a failed call too: the leader believes the snapshot was installed. *)
LEMMA handleInstallSnapshotFailureOK ==
    ASSUME Inv, NEW c \in snapCalls, handleInstallSnapshotFailure(c)
    PROVE  Inv' /\ KeepsAll
<1> USE DEF Inv
<1> DEFINE i == c.caller
           j == c.callee
           s == rf[i]
           last == c.args.LastIncludedIndex
           u == setMatch(s, j, last + 1, last)
           e == [c EXCEPT !.live = FALSE]
<1>1. i \in Server /\ j \in Server /\ last \in Nat /\ SnapOK(c) /\ c.live
  BY DEF handleInstallSnapshotFailure, CallsOK, SnapOK, SnapCall, Call
<1>2. PeerOK(s) /\ HasLed(s) /\ last + 1 \in Nat \ {0}
  BY <1>1 DEF PeersOK, CallersOK
<1>3. PeerOK(u) /\ Keeps(s, u) /\ u.lastApplied = s.lastApplied
  <2> DEFINE n == last + 1
  <2>1. n \in Nat \ {0} /\ last \in Nat \cup {-1}
    BY <1>1
  <2> HIDE DEF n, last
  <2>2. LET v == setMatch(s, j, n, last) IN
        PeerOK(v) /\ Keeps(s, v) /\ v.lastApplied = s.lastApplied
    BY <1>1, <1>2, <2>1, SetIndexOK
  <2> QED
    BY <2>2 DEF n
<1>4. rf' = [rf EXCEPT ![i] = u]
  <2>1. rf \in [Server -> RaftState]
    BY DEF PeersOK
  <2>2. rf' = [rf EXCEPT ![i].nextIndex[j] = last + 1, ![i].matchIndex[j] = last]
    BY DEF handleInstallSnapshotFailure
  <2> HIDE DEF last
  <2> QED
    BY <1>1, <2>1, <2>2 DEF setMatch, RaftState
<1> HIDE DEF u
<1>5. UNCHANGED <<applyCh, service, fatal, voteTasks, snapTasks, voteCalls, appendCalls, crashes>>
  BY DEF handleInstallSnapshotFailure
<1>6. PeersOK' /\ KeepsAll /\ AppliesNone
  BY <1>1, <1>3, <1>4, UpdateOK
<1>7. fatal' \subseteq Server
  BY <1>5 DEF TasksOK
<1>8. ApplyOK' /\ TasksOK'
  BY <1>5, <1>6, <1>7, ApplyKept, TasksKept
<1>9. SnapOK(e) /\ ~e.live
  <2>1. c \in SnapCall
    BY <1>1 DEF SnapOK
  <2>2. e \in SnapCall /\ e.stage = c.stage /\ e.reply = c.reply /\ e.args = c.args /\ ~e.live
    BY <2>1 DEF SnapCall, Call
  <2> QED
    BY <1>1, <2>2 DEF SnapOK
<1>10. snapCalls' \subseteq snapCalls \cup {e}
  BY DEF handleInstallSnapshotFailure
<1> HIDE DEF e
<1>11. CallsOK'
  BY <1>5, <1>9, <1>10 DEF CallsOK, AppendOK, SnapOK, VoteOK
<1>12. CallersOK'
  <2> SUFFICES ASSUME NEW d \in snapCalls', d.live
               PROVE  HasLed(rf'[d.caller])
    BY DEF CallersOK, HasLed
  <2>1. d \in snapCalls
    BY <1>9, <1>10
  <2>2. d.caller \in Server
    BY <2>1 DEF CallsOK, SnapOK, SnapCall, Call
  <2> QED
    BY <1>6, <2>1, <2>2 DEF CallersOK, KeepsAll, Keeps
<1> QED
  BY <1>6, <1>8, <1>11, <1>12

(* A request of a killed instance is lost without a trace. *)
LEMMA loseOrphanOK ==
    ASSUME Inv, NEW c \in snapCalls, loseOrphan(c)
    PROVE  Inv' /\ KeepsAll
<1> USE DEF Inv
<1>1. fatal' \subseteq Server /\ snapCalls' \subseteq snapCalls
  BY DEF TasksOK, loseOrphan
<1>2. PeersOK' /\ KeepsAll /\ ApplyOK' /\ TasksOK' /\ CallersOK'
  BY <1>1, IdleStepOK DEF loseOrphan
<1> QED
  BY <1>1, <1>2 DEF CallsOK, AppendOK, SnapOK, VoteOK, loseOrphan

-----------------------------------------------------------------------------
(* Restarts *)

TermStep == \A i \in Server : rf'[i].currentTerm >= rf[i].currentTerm

(* A step that Keeps every peer lowers no term. *)
LEMMA KeepsTerms ==
    ASSUME KeepsAll
    PROVE  TermStep
BY DEF KeepsAll, Keeps, TermStep

(* What orphaned keeps of every call. *)
LEMMA OrphanedOK ==
    ASSUME NEW calls, NEW i \in Server, NEW d \in orphaned(calls, i),
           NEW C \in {VoteCall, AppendCall, SnapCall}, calls \subseteq C
    PROVE  \E c \in calls : /\ d \in C
                            /\ d.stage = c.stage /\ d.reply = c.reply /\ d.args = c.args
                            /\ d.caller = c.caller
                            /\ d.live => c.live /\ c.caller # i
<1>1. PICK c \in calls : d = [c EXCEPT !.live = c.live /\ c.caller # i]
  BY DEF orphaned
<1> DEFINE l == c.live /\ c.caller # i
<1>2. c \in C /\ l \in BOOLEAN /\ d = [c EXCEPT !.live = l]
  BY <1>1 DEF VoteCall, AppendCall, SnapCall, Call
<1> HIDE DEF l
<1>3. /\ d \in C /\ d.live = l
      /\ d.stage = c.stage /\ d.reply = c.reply /\ d.args = c.args /\ d.caller = c.caller
  <2>1. CASE C = VoteCall
    BY <1>2, <2>1 DEF VoteCall, Call
  <2>2. CASE C = AppendCall
    BY <1>2, <2>2 DEF AppendCall, Call
  <2>3. CASE C = SnapCall
    BY <1>2, <2>3 DEF SnapCall, Call
  <2> QED
    BY <2>1, <2>2, <2>3
<1> QED
  BY <1>3 DEF l

(* A restart from the persister of a good struct w that the killed instance had
   before the kill or in the middle of a handler. *)
LEMMA RestartOK ==
    ASSUME Inv, NEW i \in Server, NEW w, PeerOK(w), w.currentTerm >= rf[i].currentTerm,
           restart(i, w.persister),
           NEW ac, \A c \in ac : AppendOK(c), appendCalls' = orphaned(ac, i),
           NEW sc, \A c \in sc : SnapOK(c), snapCalls' = orphaned(sc, i),
           \A c \in sc : c.live => HasLed(rf[c.caller])
    PROVE  Inv' /\ TermStep
<1> USE DEF Inv
<1> DEFINE u == Make(w.persister)
<1>1. PeerOK(u) /\ u.currentTerm = w.currentTerm /\ u.lastApplied = -1
  BY MakeOK
<1>2. rf' = [rf EXCEPT ![i] = u]
  BY DEF restart
<1> HIDE DEF u
<1>3. /\ rf' \in [Server -> RaftState] /\ rf'[i] = u
      /\ \A j \in Server : j # i => rf'[j] = rf[j]
  <2>1. rf \in [Server -> RaftState] /\ u \in RaftState
    BY <1>1 DEF PeersOK, PeerOK, Shape
  <2> QED
    BY <1>2, <2>1
<1>4. PeersOK'
  <2>1. \A j \in Server : PeerOK(rf'[j])
    BY <1>1, <1>3 DEF PeersOK
  <2> QED
    BY <1>3, <2>1 DEF PeersOK, PeerOK, Shape, Saved, HasLed
<1>5. TermStep
  <2>1. \A j \in Server : rf[j].currentTerm \in Nat
    BY DEF PeersOK, RaftState
  <2> QED
    BY <1>1, <1>3, <2>1 DEF TermStep
<1>6. ApplyOK'
  <2>1. /\ applyCh' \in [Server -> Seq(ApplyMsg)] /\ applyCh'[i] = <<>>
        /\ \A j \in Server : j # i => applyCh'[j] = applyCh[j]
    BY DEF restart, ApplyOK
  <2>2. /\ service' \in [Server -> Seq(Action)] /\ Len(service'[i]) = 0
        /\ \A j \in Server : j # i => service'[j] = service[j]
    BY DEF restart, ApplyOK
  <2>3. ASSUME NEW j \in Server
        PROVE  ChannelOK(applyCh'[j], Len(service'[j]), rf'[j].lastApplied)
    <3>1. CASE j = i
      BY <1>1, <1>3, <2>1, <2>2, <3>1 DEF ChannelOK
    <3>2. CASE j # i
      BY <1>3, <2>1, <2>2, <3>2 DEF ApplyOK
    <3> QED
      BY <3>1, <3>2
  <2> QED
    BY <2>1, <2>2, <2>3 DEF ApplyOK
<1>7. TasksOK'
  <2>1. /\ fatal' \subseteq Server /\ crashes' \in Nat
    BY DEF restart, TasksOK
  <2>2. /\ voteTasks' \in [Server -> [Server -> Nat]]
        /\ snapTasks' \in [Server -> [Server -> Nat]]
    BY DEF restart, TasksOK
  <2>3. \A j, k \in Server : snapTasks'[j][k] > 0 => j # i /\ snapTasks[j][k] > 0
    BY DEF restart, TasksOK
  <2>4. \A j, k \in Server : snapTasks'[j][k] > 0 =>
            HasLed(rf'[j]) /\ rf'[j].snapshotEntriesAmount > 0
    BY <1>3, <2>3 DEF TasksOK
  <2> QED
    BY <2>1, <2>2, <2>4 DEF TasksOK, HasLed
<1>8. \A d \in voteCalls' : VoteOK(d)
  <2> TAKE d \in voteCalls'
  <2>1. d \in orphaned(voteCalls, i) /\ voteCalls \subseteq VoteCall
    BY DEF restart, CallsOK, VoteOK
  <2>2. PICK c \in voteCalls : d \in VoteCall /\ d.stage = c.stage /\ d.reply = c.reply
    BY <2>1, OrphanedOK
  <2> QED
    BY <2>2 DEF CallsOK, VoteOK
<1>9. \A d \in appendCalls' : AppendOK(d)
  <2> TAKE d \in appendCalls'
  <2>1. d \in orphaned(ac, i) /\ ac \subseteq AppendCall
    BY DEF AppendOK
  <2>2. PICK c \in ac : d \in AppendCall /\ d.stage = c.stage /\ d.reply = c.reply
    BY <2>1, OrphanedOK
  <2> QED
    BY <2>2 DEF AppendOK
<1>10. \A d \in snapCalls' : SnapOK(d) /\ (d.live => HasLed(rf'[d.caller]))
  <2> TAKE d \in snapCalls'
  <2>1. d \in orphaned(sc, i) /\ sc \subseteq SnapCall
    BY DEF SnapOK
  <2>2. PICK c \in sc : /\ d \in SnapCall /\ d.stage = c.stage /\ d.reply = c.reply
                        /\ d.args = c.args /\ d.caller = c.caller
                        /\ d.live => c.live /\ c.caller # i
    BY <2>1, OrphanedOK
  <2>3. SnapOK(d)
    BY <2>2 DEF SnapOK
  <2>4. d.caller \in Server
    BY <2>2 DEF SnapCall, Call
  <2> QED
    BY <1>3, <2>2, <2>3, <2>4
<1> QED
  BY <1>4, <1>5, <1>6, <1>7, <1>8, <1>9, <1>10 DEF CallsOK, CallersOK, AppendOK, SnapOK, VoteOK, HasLed

(* A restart from the persister yields a state that could have been made. *)
LEMMA crash1OK ==
    ASSUME Inv, NEW i \in Server, crash1(i)
    PROVE  Inv' /\ TermStep
<1>1. PeerOK(rf[i]) /\ rf[i].currentTerm >= rf[i].currentTerm
  BY DEF Inv, PeersOK, RaftState
<1>2. \A c \in snapCalls : c.live => HasLed(rf[c.caller])
  BY DEF Inv, CallersOK
<1>3. (\A c \in appendCalls : AppendOK(c)) /\ (\A c \in snapCalls : SnapOK(c))
  BY DEF Inv, CallsOK
<1> QED
  BY <1>1, <1>2, <1>3, RestartOK DEF crash1

(* the struct between becomeFollower's persist and the handler's last one *)
LEMMA MidHandlerOK ==
    ASSUME Inv, NEW i \in Server, NEW t \in Nat, t >= rf[i].currentTerm
    PROVE  LET w == becomeFollower(rf[i], t, Nil) IN
           PeerOK(w) /\ w.currentTerm >= rf[i].currentTerm
<1>1. Shape(rf[i])
  BY DEF Inv, PeersOK, PeerOK
<1> QED
  BY <1>1, BecomeFollowerOK

(* A crash between the two persist calls of AppendEntries leaves a proper disk. *)
LEMMA crashInAppendEntriesOK ==
    ASSUME Inv, NEW c \in appendCalls, crashInAppendEntries(c)
    PROVE  Inv' /\ TermStep
<1> DEFINE i == c.callee
           w == becomeFollower(rf[i], c.args.Term, Nil)
           ac == appendCalls \ {c}
<1>1. i \in Server /\ c.args.Term \in Nat
  BY DEF Inv, CallsOK, AppendOK, AppendCall, Call
<1>2. PeerOK(w) /\ w.currentTerm >= rf[i].currentTerm
  BY <1>1, MidHandlerOK DEF crashInAppendEntries
<1>3. (\A d \in ac : AppendOK(d)) /\ (\A d \in snapCalls : SnapOK(d))
  BY DEF Inv, CallsOK
<1>4. \A d \in snapCalls : d.live => HasLed(rf[d.caller])
  BY DEF Inv, CallersOK
<1>5. /\ restart(i, w.persister)
      /\ appendCalls' = orphaned(ac, i) /\ snapCalls' = orphaned(snapCalls, i)
  BY DEF crashInAppendEntries, midHandler
<1> HIDE DEF ac, w, i
<1> QED
  BY <1>1, <1>2, <1>3, <1>4, <1>5, RestartOK

(* A crash between the two persist calls of InstallSnapshot leaves a proper disk. *)
LEMMA crashInInstallSnapshotOK ==
    ASSUME Inv, NEW c \in snapCalls, crashInInstallSnapshot(c)
    PROVE  Inv' /\ TermStep
<1> DEFINE i == c.callee
           w == becomeFollower(rf[i], c.args.Term, Nil)
           e == [c EXCEPT !.stage = "lost", !.reply = Nil]
           sc == IF c.live THEN move(snapCalls, c, "lost", Nil) ELSE snapCalls \ {c}
<1>1. i \in Server /\ c.args.Term \in Nat /\ c \in SnapCall /\ SnapOK(c)
  BY DEF Inv, CallsOK, SnapOK, SnapCall, Call
<1>2. PeerOK(w) /\ w.currentTerm >= rf[i].currentTerm
  BY <1>1, MidHandlerOK DEF crashInInstallSnapshot
<1>3. \A d \in appendCalls : AppendOK(d)
  BY DEF Inv, CallsOK
<1>4. /\ SnapOK(e) /\ e.caller = c.caller /\ e.live = c.live
  <2>1. /\ e \in SnapCall /\ e.args = c.args /\ e.stage = "lost"
        /\ e.caller = c.caller /\ e.live = c.live
    BY <1>1 DEF SnapCall, Call
  <2> QED
    BY <1>1, <2>1 DEF SnapOK
<1>5. sc \subseteq snapCalls \cup {e}
  BY DEF move
<1>6. /\ restart(i, w.persister)
      /\ appendCalls' = orphaned(appendCalls, i) /\ snapCalls' = orphaned(sc, i)
  BY DEF crashInInstallSnapshot, midHandler
<1> HIDE DEF sc, w, i, e
<1>7. \A d \in sc : SnapOK(d) /\ (d.live => HasLed(rf[d.caller]))
  BY <1>4, <1>5 DEF Inv, CallsOK, CallersOK
<1> QED
  BY <1>1, <1>2, <1>3, <1>6, <1>7, RestartOK

-----------------------------------------------------------------------------
(* Inv is inductive, and no step takes a peer back to an earlier term. *)
LEMMA NextOK ==
    ASSUME Inv, [Next]_vars
    PROVE  Inv' /\ (vars' # vars => TermStep)
<1>1. CASE UNCHANGED vars
  BY <1>1 DEF vars, Inv, PeersOK, ApplyOK, TasksOK, CallsOK, CallersOK, VoteOK, AppendOK, SnapOK, HasLed
<1>2. ASSUME NEW i \in Contenders, startElection(i)
      PROVE  Inv' /\ TermStep
  BY <1>2, startElectionOK, KeepsTerms, BoundAssumption
<1>3. ASSUME NEW i \in Server, Snapshot(i) \/ crash1(i)
      PROVE  Inv' /\ TermStep
  BY <1>3, SnapshotOK, crash1OK, KeepsTerms
<1>4. ASSUME NEW i \in Server, NEW command \in Value, Start(i, command)
      PROVE  Inv' /\ TermStep
  BY <1>4, StartOK, KeepsTerms
<1>5. ASSUME NEW i \in Server, NEW j \in Server, NEW id \in 1 .. Slots,
             \/ handleSendRequestVote(i, j, id)
             \/ handleSendAppendEntries(i, j, id)
             \/ handleSendInstallSnapshot(i, j, id)
      PROVE  Inv' /\ TermStep
  BY <1>5, handleSendRequestVoteOK, handleSendAppendEntriesOK, handleSendInstallSnapshotOK,
     KeepsTerms
<1>6. ASSUME NEW c \in voteCalls,
             RequestVote(c) \/ handleRequestVoteReply(c) \/ loseRequestVote(c)
      PROVE  Inv' /\ TermStep
  BY <1>6, RequestVoteOK, handleRequestVoteReplyOK, loseRequestVoteOK, KeepsTerms
<1>7. ASSUME NEW c \in appendCalls,
             \/ AppendEntriesWithLock(c) \/ commitToApplyChannel(c) \/ receiveApplyMsg(c)
             \/ handleAppendEntriesReply(c) \/ loseAppendEntries(c) \/ crashInAppendEntries(c)
      PROVE  Inv' /\ TermStep
  BY <1>7, AppendEntriesWithLockOK, commitToApplyChannelOK, receiveApplyMsgOK,
     handleAppendEntriesReplyOK, loseAppendEntriesOK, crashInAppendEntriesOK, KeepsTerms
<1>8. ASSUME NEW c \in snapCalls,
             \/ InstallSnapshot(c) \/ handleInstallSnapshotReply(c)
             \/ handleInstallSnapshotFailure(c) \/ loseOrphan(c) \/ crashInInstallSnapshot(c)
      PROVE  Inv' /\ TermStep
  BY <1>8, InstallSnapshotOK, handleInstallSnapshotReplyOK, handleInstallSnapshotFailureOK,
     loseOrphanOK, crashInInstallSnapshotOK, KeepsTerms
<1>9. CASE Next
  BY <1>9, <1>2, <1>3, <1>4, <1>5, <1>6, <1>7, <1>8 DEF Next
<1> QED
  BY <1>1, <1>9

(* The inductive invariant holds in every reachable state. *)
LEMMA Invariant == Spec => []Inv
<1>1. Inv /\ [Next]_vars => Inv'
  BY NextOK
<1> QED
  BY InitOK, <1>1, PTL DEF Spec

(* Every field of every peer, channel and call keeps its type; in particular
   nextIndex is at least 1 and PrevLogIndex and LastIncludedIndex are never -1, so
   the guards of getLogIndexBeforeIndex and logMatches for -1 are never taken. *)
THEOREM Types == Spec => []TypeOK
<1>1. Inv => TypeOK
  BY DEF Inv, PeersOK, ApplyOK, TasksOK, CallsOK, VoteOK, AppendOK, SnapOK, TypeOK, Action
<1> QED
  BY Invariant, <1>1, PTL

(* A restart at any point between two critical sections gives back term, vote, log
   and snapshot boundary exactly as they were. *)
THEOREM Durability == Spec => []Durable
<1>1. Inv => Durable
  <2> SUFFICES ASSUME Inv, NEW i \in Server
               PROVE  getPersistData(Make(rf[i].persister)) = getPersistData(rf[i])
    BY DEF Durable
  <2>1. PeerOK(rf[i])
    BY DEF Inv, PeersOK
  <2> QED
    BY <2>1, MakeOK
<1> QED
  BY Invariant, <1>1, PTL

(* Log and saved snapshot always meet without gap or overlap. *)
THEOREM SnapshotCover == Spec => []SnapshotCoversTrimmedLog
<1>1. Inv => SnapshotCoversTrimmedLog
  BY DEF Inv, PeersOK, PeerOK, Shape, SnapshotCoversTrimmedLog
<1> QED
  BY Invariant, <1>1, PTL

(* The service receives every index exactly once and in order, with any number of
   handlers, reply handlers, snapshots and restarts racing. *)
THEOREM ApplyOrder == Spec => []ApplyInOrder
<1>1. Inv => ApplyInOrder
  <2> SUFFICES ASSUME Inv, NEW i \in Server, applyCh[i] # <<>>
               PROVE  LET m == Head(applyCh[i]) IN
                      IF m.SnapshotValid
                      THEN Len(m.Snapshot) = m.Index + 1 /\ m.Index >= Len(service[i])
                      ELSE m.Index = Len(service[i])
    BY DEF ApplyInOrder
  <2> DEFINE q == applyCh[i]
             n == Len(service[i])
  <2>1. ChannelOK(q, n, rf[i].lastApplied) /\ q \in Seq(ApplyMsg) /\ n \in Nat
    BY DEF Inv, ApplyOK
  <2>2. 1 \in 1 .. Len(q) /\ Head(q) = q[1]
    BY <2>1
  <2> HIDE DEF n
  <2>3. ~Head(q).SnapshotValid => Head(q).Index = n + 1 - 1
    BY <2>1, <2>2 DEF ChannelOK
  <2>4. ~Head(q).SnapshotValid => Head(q).Index = n
    BY <2>1, <2>3
  <2>5. Head(q).SnapshotValid => Len(Head(q).Snapshot) = Head(q).Index + 1 /\ Head(q).Index >= n
    BY <2>1 DEF ChannelOK
  <2> QED
    BY <2>4, <2>5 DEF n
<1> QED
  BY Invariant, <1>1, PTL

(* No peer ever goes back to an earlier term, whatever is lost, reordered or
   killed. *)
THEOREM TermsMonotonic == Spec => TermsNeverRegress
<1> DEFINE Up == \A i \in Server : rf'[i].currentTerm >= rf[i].currentTerm
<1>1. Inv /\ [Next]_vars => [Up]_vars
  BY NextOK DEF TermStep
<1>2. Spec => [][Up]_vars
  BY Invariant, <1>1, PTL DEF Spec
<1> QED
  BY <1>2 DEF TermsNeverRegress

-----------------------------------------------------------------------------
(* Servers that end in log.Fatalf *)

(* an index that s is about to look up is past the end of its log *)
PastTheEnd(s) ==
    LET past == getLastLogEntryIndex(s) + 1 IN
    \/ s.commitIndex >= past
    \/ s.nextIndex # Nil /\ \E j \in Server : s.nextIndex[j] > past

(* a server that is dead after the step did nothing in it but die *)
FatalStep == \A k \in fatal' :
    k \in Server /\ rf'[k] = rf[k] /\ (k \in fatal \/ PastTheEnd(rf[k]))

(* A step of one server that is up *)
LEMMA AloneStep ==
    ASSUME Inv, NEW i, up(i), \A k \in Server \ {i} : rf'[k] = rf[k], fatal' \subseteq fatal
    PROVE  FatalStep
BY DEF FatalStep, up, Inv, TasksOK

(* A server dies. *)
LEMMA DeathStep ==
    ASSUME Inv, NEW i \in Server, PastTheEnd(rf[i]), UNCHANGED rf, fatal' = fatal \cup {i}
    PROVE  FatalStep
BY DEF FatalStep, Inv, TasksOK

(* A restart *)
LEMMA RestartStep ==
    ASSUME Inv, NEW i, NEW p, restart(i, p)
    PROVE  FatalStep
<1>1. \A k \in Server \ {i} : rf'[k] = rf[k]
  BY DEF restart, Inv, PeersOK
<1>2. fatal' = fatal \ {i}
  BY DEF restart
<1> QED
  BY <1>1, <1>2 DEF FatalStep, Inv, TasksOK

(* An index at or after the end of the snapshot that is not in the log is past its
   end. *)
LEMMA NotInLog ==
    ASSUME NEW s \in RaftState, NEW k \in Int, k >= s.snapshotEntriesAmount - 1,
           ~termIsKnown(s, k)
    PROVE  k > getLastLogEntryIndex(s)
<1> DEFINE a == s.snapshotEntriesAmount
           l == getLastLogEntryIndex(s)
<1>1. a \in Nat /\ l \in Int
  BY DEF RaftState, getLastLogEntryIndex
<1>2. k >= a - 1 /\ k + 1 # a /\ ~(k >= a /\ k <= l)
  BY DEF termIsKnown, logIndexCheck
<1> HIDE DEF a, l
<1>3. k > l
  BY <1>1, <1>2
<1> QED
  BY <1>3 DEF l

(* Snapshot *)
LEMMA SnapshotDeath ==
    ASSUME Inv, NEW i \in Server, Snapshot(i)
    PROVE  FatalStep
<1> DEFINE s == rf[i]
           index == Len(service[i]) - 1
           a == s.snapshotEntriesAmount
           l == getLastLogEntryIndex(s)
           m == s.commitIndex
<1>1. /\ s \in RaftState /\ a \in Nat /\ m \in Int /\ l \in Int
      /\ index \in Int /\ rf \in [Server -> RaftState]
  BY DEF Inv, PeersOK, ApplyOK, RaftState, getLastLogEntryIndex
<1>2. /\ up(i) /\ ~(a - 1 >= index \/ index > m)
      /\ \/ fatal' = fatal /\ \E u : rf' = [rf EXCEPT ![i] = u]
         \/ ~logIndexCheck(s, index) /\ fatal' = fatal \cup {i} /\ rf' = rf
  BY Zenon DEF Snapshot
<1>3. CASE fatal' = fatal /\ \E u : rf' = [rf EXCEPT ![i] = u]
  BY <1>1, <1>2, <1>3, AloneStep
<1>4. CASE ~logIndexCheck(s, index) /\ fatal' = fatal \cup {i} /\ rf' = rf
  <2>1. ~(index >= a /\ index <= l)
    BY <1>4 DEF logIndexCheck
  <2> HIDE DEF a, l, m, index
  <2>2. m >= l + 1
    BY <1>1, <1>2, <2>1
  <2>3. PastTheEnd(s)
    BY <2>2 DEF PastTheEnd, l, m
  <2> QED
    BY <1>4, <2>3, DeathStep
<1> QED
  BY <1>2, <1>3, <1>4

(* handleSendAppendEntries *)
LEMMA handleSendAppendEntriesDeath ==
    ASSUME Inv, NEW i \in Server, NEW j \in Server, NEW id, handleSendAppendEntries(i, j, id)
    PROVE  FatalStep
<1> DEFINE s == rf[i]
           n == s.nextIndex[j]
           l == getLastLogEntryIndex(s)
<1>1. /\ s \in RaftState /\ rf \in [Server -> RaftState] /\ l \in Int
      /\ s.snapshotEntriesAmount \in Nat
  BY DEF Inv, PeersOK, RaftState, getLastLogEntryIndex
<1>2. up(i) /\ s.nextIndex # Nil
  BY DEF handleSendAppendEntries
<1>3. n \in Nat
  BY <1>1, <1>2 DEF RaftState
<1>4. CASE fatal' = fatal /\ \A k \in Server \ {i} : rf'[k] = rf[k]
  BY <1>2, <1>4, AloneStep
<1>5. CASE /\ n >= s.snapshotEntriesAmount /\ ~termIsKnown(s, n - 1)
           /\ fatal' = fatal \cup {i} /\ rf' = rf
  <2>1. n - 1 \in Int /\ n - 1 >= s.snapshotEntriesAmount - 1
    <3> HIDE DEF n
    <3> QED
      BY <1>1, <1>3, <1>5
  <2>2. n - 1 > l
    BY <1>1, <1>5, <2>1, NotInLog
  <2>3. n > l + 1
    <3> HIDE DEF n, l
    <3> QED
      BY <1>1, <1>3, <2>2
  <2>4. PastTheEnd(s)
    BY <1>2, <2>3 DEF PastTheEnd
  <2> QED
    BY <1>5, <2>4, DeathStep
<1> QED
  <2>1. \/ rf' = [rf EXCEPT ![i].nextIndex[j] = s.snapshotEntriesAmount] /\ fatal' = fatal
        \/ rf' = rf /\ fatal' = fatal
        \/ /\ n >= s.snapshotEntriesAmount /\ ~termIsKnown(s, n - 1)
           /\ fatal' = fatal \cup {i} /\ rf' = rf
    BY Zenon DEF handleSendAppendEntries
  <2> QED
    BY <1>1, <1>4, <1>5, <2>1

(* commitToApplyChannel *)
LEMMA commitToApplyChannelDeath ==
    ASSUME Inv, NEW c \in appendCalls, commitToApplyChannel(c)
    PROVE  FatalStep
<1> DEFINE i == threadOf(c)
           s == rf[i]
           a == s.snapshotEntriesAmount
           l == getLastLogEntryIndex(s)
           m == s.commitIndex
           n == s.lastApplied
<1>1. i \in Server
  BY DEF Inv, CallsOK, AppendOK, AppendCall, Call, threadOf
<1>2. /\ s \in RaftState /\ rf \in [Server -> RaftState]
      /\ a \in Nat /\ l \in Int /\ m \in Int /\ n \in Int
  BY <1>1 DEF Inv, PeersOK, RaftState, getLastLogEntryIndex
<1>3. /\ up(i)
      /\ \/ fatal' = fatal /\ \E u : rf' = [rf EXCEPT ![i] = u]
         \/ ~nothingToApply(s) /\ ~applyIsInLog(s) /\ fatal' = fatal \cup {i} /\ rf' = rf
  BY Zenon DEF commitToApplyChannel
<1>4. CASE fatal' = fatal /\ \E u : rf' = [rf EXCEPT ![i] = u]
  BY <1>2, <1>3, <1>4, AloneStep
<1>5. CASE ~nothingToApply(s) /\ ~applyIsInLog(s) /\ fatal' = fatal \cup {i} /\ rf' = rf
  <2>1. ~(n + 1 < a) /\ ~(n >= m) /\ ~(m >= a /\ m <= l)
    BY <1>5 DEF nothingToApply, applyIsInLog, snapshotAhead, logIndexCheck
  <2> HIDE DEF a, l, m, n
  <2>2. m >= l + 1
    BY <1>2, <2>1
  <2>3. PastTheEnd(s)
    BY <2>2 DEF PastTheEnd, l, m
  <2> QED
    BY <1>1, <1>5, <2>3, DeathStep
<1> QED
  BY <1>3, <1>4, <1>5

(* handleAppendEntriesReply *)
LEMMA handleAppendEntriesReplyDeath ==
    ASSUME Inv, NEW c \in appendCalls, handleAppendEntriesReply(c)
    PROVE  FatalStep
<1> DEFINE i == c.caller
           j == c.callee
           s == rf[i]
           a == s.snapshotEntriesAmount
           l == getLastLogEntryIndex(s)
           n == s.nextIndex[j]
           d == decremented(s, j)
<1>1. i \in Server /\ j \in Server
  BY DEF Inv, CallsOK, AppendOK, AppendCall, Call
<1>2. /\ s \in RaftState /\ rf \in [Server -> RaftState] /\ Shape(s)
      /\ a \in Nat /\ Len(s.logs) \in Nat
  BY <1>1 DEF Inv, PeersOK, PeerOK, RaftState
<1>3. l \in Int /\ l + 1 >= a /\ l + 1 >= 1
  BY <1>2 DEF Shape, getLastLogEntryIndex
<1>4. /\ up(i)
      /\ \/ fatal' = fatal /\ \A k \in Server \ {i} : rf'[k] = rf[k]
         \/ /\ s.status = Leader /\ ~termIsKnown(s, d - 1)
            /\ fatal' = fatal \cup {i} /\ rf' = rf
  BY <1>1, <1>2 DEF handleAppendEntriesReply
<1>5. CASE fatal' = fatal /\ \A k \in Server \ {i} : rf'[k] = rf[k]
  BY <1>4, <1>5, AloneStep
<1>6. CASE /\ s.status = Leader /\ ~termIsKnown(s, d - 1)
           /\ fatal' = fatal \cup {i} /\ rf' = rf
  <2>1. s.nextIndex # Nil /\ n \in Nat
    <3>1. HasLed(s)
      BY <1>2, <1>6, Zenon DEF Shape
    <3> HIDE DEF s
    <3> QED
      BY <1>1, <3>1, NilIsNoState DEF HasLed
  <2>2. d \in Nat /\ d >= a /\ d >= 1 /\ (d = n - 1 \/ d = a \/ d = 1)
    <3> DEFINE m == IF n - 1 < a THEN a ELSE n - 1
    <3>1. d = IF m < 1 THEN 1 ELSE m
      BY Zenon DEF decremented
    <3> HIDE DEF d, n, a
    <3> QED
      BY <1>2, <2>1, <3>1
  <2>3. d - 1 > l
    <3>1. d - 1 \in Int /\ d - 1 >= a - 1
      <4> HIDE DEF a, d
      <4> QED
        BY <1>2, <2>2
    <3> QED
      BY <1>2, <1>6, <3>1, NotInLog
  <2>4. n > l + 1
    <3> HIDE DEF a, d, l, n
    <3> QED
      BY <1>2, <1>3, <2>1, <2>2, <2>3
  <2>5. PastTheEnd(s)
    BY <1>1, <2>1, <2>4 DEF PastTheEnd
  <2> QED
    BY <1>1, <1>6, <2>5, DeathStep
<1> QED
  BY <1>4, <1>5, <1>6

(* Every step leaves the dead alone, and a server dies only past the end of its log. *)
LEMMA NextDeath ==
    ASSUME Inv, [Next]_vars
    PROVE  FatalStep
<1>1. rf \in [Server -> RaftState] /\ Server \cap fatal = fatal
  BY DEF Inv, PeersOK, TasksOK
<1>2. ASSUME UNCHANGED <<rf, fatal>> PROVE FatalStep
  BY <1>1, <1>2 DEF FatalStep
<1>3. ASSUME NEW i, up(i), fatal' = fatal, NEW u, rf' = [rf EXCEPT ![i] = u]
      PROVE  FatalStep
  BY <1>1, <1>3, AloneStep
<1>4. CASE UNCHANGED vars
  BY <1>2, <1>4 DEF vars
<1>5. ASSUME NEW i \in Contenders, startElection(i) PROVE FatalStep
  BY <1>3, <1>5 DEF startElection
<1>6. ASSUME NEW i \in Server, Snapshot(i) \/ crash1(i) PROVE FatalStep
  BY <1>6, SnapshotDeath, RestartStep DEF crash1
<1>7. ASSUME NEW i \in Server, NEW command \in Value, Start(i, command) PROVE FatalStep
  BY <1>3, <1>7 DEF Start
<1>8. ASSUME NEW i \in Server, NEW j \in Server, NEW id \in 1 .. Slots,
             \/ handleSendRequestVote(i, j, id)
             \/ handleSendAppendEntries(i, j, id)
             \/ handleSendInstallSnapshot(i, j, id)
      PROVE  FatalStep
  BY <1>2, <1>8, handleSendAppendEntriesDeath
     DEF handleSendRequestVote, handleSendInstallSnapshot
<1>9. ASSUME NEW c \in voteCalls,
             RequestVote(c) \/ handleRequestVoteReply(c) \/ loseRequestVote(c)
      PROVE  FatalStep
  <2>1. CASE RequestVote(c)
    BY <1>2, <1>3, <2>1 DEF RequestVote
  <2>2. CASE handleRequestVoteReply(c)
    BY <1>3, <2>2 DEF handleRequestVoteReply
  <2>3. CASE loseRequestVote(c)
    BY <1>2, <2>3 DEF loseRequestVote
  <2> QED
    BY <1>9, <2>1, <2>2, <2>3
<1>10. ASSUME NEW c \in appendCalls,
             \/ AppendEntriesWithLock(c) \/ commitToApplyChannel(c) \/ receiveApplyMsg(c)
             \/ handleAppendEntriesReply(c) \/ loseAppendEntries(c) \/ crashInAppendEntries(c)
      PROVE  FatalStep
  <2>1. CASE AppendEntriesWithLock(c)
    BY <1>2, <1>3, <2>1 DEF AppendEntriesWithLock
  <2>2. CASE receiveApplyMsg(c) \/ loseAppendEntries(c)
    BY <1>2, <2>2 DEF receiveApplyMsg, loseAppendEntries
  <2>3. CASE crashInAppendEntries(c)
    BY <2>3, RestartStep DEF crashInAppendEntries
  <2> QED
    BY <1>10, <2>1, <2>2, <2>3, commitToApplyChannelDeath, handleAppendEntriesReplyDeath
<1>11. ASSUME NEW c \in snapCalls,
             \/ InstallSnapshot(c) \/ handleInstallSnapshotReply(c)
             \/ handleInstallSnapshotFailure(c) \/ loseOrphan(c) \/ crashInInstallSnapshot(c)
      PROVE  FatalStep
  <2>1. CASE InstallSnapshot(c)
    BY <1>2, <1>3, <2>1 DEF InstallSnapshot
  <2>2. CASE handleInstallSnapshotReply(c)
    BY <1>3, <2>2 DEF handleInstallSnapshotReply
  <2>3. CASE handleInstallSnapshotFailure(c)
    <3>1. up(c.caller) /\ fatal' = fatal /\ \A k \in Server \ {c.caller} : rf'[k] = rf[k]
      BY <1>1, <2>3 DEF handleInstallSnapshotFailure
    <3> QED
      BY <3>1, AloneStep
  <2>4. CASE loseOrphan(c)
    BY <1>2, <2>4 DEF loseOrphan
  <2>5. CASE crashInInstallSnapshot(c)
    BY <2>5, RestartStep DEF crashInInstallSnapshot
  <2> QED
    BY <1>11, <2>1, <2>2, <2>3, <2>4, <2>5
<1> QED
  BY <1>4, <1>5, <1>6, <1>7, <1>8, <1>9, <1>10, <1>11 DEF Next

(* Whatever ends a server in log.Fatalf, it is never an index that was trimmed into
   the snapshot: commitIndex or a nextIndex is past the end of its log. *)
THEOREM FatalCause == Spec => []FatalOnlyPastTheEnd
<1>1. Init => FatalOnlyPastTheEnd
  BY DEF Init, FatalOnlyPastTheEnd
<1>2. ASSUME Inv, FatalOnlyPastTheEnd, [Next]_vars PROVE FatalOnlyPastTheEnd'
  <2>1. FatalStep
    BY <1>2, NextDeath
  <2>2. \A i \in fatal : PastTheEnd(rf[i])
    BY <1>2, Zenon DEF FatalOnlyPastTheEnd, PastTheEnd
  <2>3. \A i \in fatal' : PastTheEnd(rf'[i])
    BY <2>1, <2>2 DEF FatalStep
  <2> QED
    BY <2>3, Zenon DEF FatalOnlyPastTheEnd, PastTheEnd
<1> QED
  BY <1>1, <1>2, Invariant, PTL DEF Spec

-----------------------------------------------------------------------------
(* Elections.  A candidate counts its own vote and becomes leader of the NEXT   *)
(* term at a majority.  What follows holds for at most three servers without    *)
(* snapshots: there one vote of another server makes a majority.                *)

(* i can no longer win the election of term t *)
Done(i, t) ==
    \/ rf[i].currentTerm > t
    \/ rf[i].currentTerm = t /\ rf[i].status # Candidate

(* k's vote of term t went to j, or k is past that term *)
Blocked(k, j, t) ==
    \/ rf[k].currentTerm > t
    \/ rf[k].currentTerm = t /\ rf[k].votedFor = j

(* a vote on its way to the candidate *)
Grant(c) == c.stage = "reply" /\ c.reply.VoteGranted

(* j won the election of term t: whoever can still win it has no vote on its way
   and can get none *)
Won(t, j) ==
    /\ rf[j].currentTerm > t
    /\ \A c \in appendCalls : c.caller = j => c.args.Term # t
    /\ \A i \in Server \ {j} : ~Done(i, t) =>
          /\ \A c \in voteCalls : Grant(c) /\ c.caller = i => c.reply.Term # t
          /\ \A k \in Server \ {i, j} : Blocked(k, j, t)

VotesOne == \A i \in Server : rf[i].status = Candidate => rf[i].numVoteGathered = 1

VotesFit == \A c \in voteCalls :
    c.caller # c.callee /\ c.args.CandidateId = c.caller

AppendsFit == \A c \in appendCalls :
    c.caller # c.callee /\ Done(c.caller, c.args.Term)

(* a vote that can still decide: its giver is no rival, and no rival can get it *)
GrantsFit == \A c \in voteCalls : Grant(c) /\ ~Done(c.caller, c.reply.Term) =>
    /\ Done(c.callee, c.reply.Term)
    /\ \A i \in Server \ {c.caller, c.callee} :
          Done(i, c.reply.Term) \/ Blocked(c.callee, c.caller, c.reply.Term)

(* of two votes of one server in one term at most one can still decide *)
OneGrant == \A c, d \in voteCalls :
    /\ Grant(c) /\ Grant(d) /\ c.callee = d.callee
    /\ c.reply.Term = d.reply.Term /\ c.caller # d.caller
    => Done(c.caller, c.reply.Term) \/ Done(d.caller, c.reply.Term)

LeadersWon == \A i \in Server : rf[i].status = Leader =>
    rf[i].currentTerm > 0 /\ Won(rf[i].currentTerm - 1, i)

BallotInv ==
    /\ VotesOne /\ VotesFit /\ AppendsFit /\ GrantsFit /\ OneGrant
    /\ LeadersWon /\ ElectionSafety

-----------------------------------------------------------------------------
(* What a step does to term, vote and role, and to the calls: nothing else of  *)
(* Next matters to an election.                                                *)

Same(s, u) ==
    /\ u.currentTerm = s.currentTerm /\ u.votedFor = s.votedFor
    /\ u.status = s.status /\ u.numVoteGathered = s.numVoteGathered

Stands(s, u) ==
    /\ u.status = Candidate /\ u.numVoteGathered = 1
    /\ u.currentTerm = s.currentTerm + 1

(* a follower that keeps the term: it restarted, hears of a leader or votes *)
Stays(i, s, u) ==
    /\ u.status = Follower /\ u.currentTerm = s.currentTerm
    /\ \/ u.votedFor = s.votedFor
       \/ \E c \in appendCalls : c.callee = i /\ c.args.Term = s.currentTerm
       \/ s.votedFor \in {Nil, i, u.votedFor}

Wins(i, s, u) ==
    /\ s.status = Candidate /\ u.status = Leader
    /\ u.currentTerm = s.currentTerm + 1
    /\ \E c \in voteCalls : Grant(c) /\ c.caller = i /\ c.reply.Term = s.currentTerm

Turn(i, s, u) ==
    \/ Same(s, u) \/ Stands(s, u) \/ Stays(i, s, u) \/ Wins(i, s, u)
    \/ u.status = Follower /\ u.currentTerm > s.currentTerm

OldVote(c) == \E d \in voteCalls :
    /\ c.caller = d.caller /\ c.callee = d.callee /\ c.args = d.args
    /\ Grant(c) => Grant(d) /\ c.reply = d.reply

NewRequest(c) ==
    c.caller # c.callee /\ c.args.CandidateId = c.caller /\ c.stage = "request"

(* the callee votes for the caller in this step *)
NewGrant(c) ==
    LET s == rf[c.callee]
        u == rf'[c.callee]
    IN
    /\ c.caller # c.callee /\ c.args.CandidateId = c.caller
    /\ u.currentTerm = c.reply.Term /\ u.status = Follower /\ u.votedFor = c.caller
    /\ \/ s.currentTerm < c.reply.Term
       \/ s.currentTerm = c.reply.Term /\ s.votedFor \in {Nil, c.callee, c.caller}

OldAppend(c) == \E d \in appendCalls :
    c.caller = d.caller /\ c.callee = d.callee /\ c.args = d.args

NewAppend(c) ==
    /\ c.caller # c.callee
    /\ rf[c.caller].status = Leader /\ c.args.Term = rf[c.caller].currentTerm

BallotStep ==
    /\ \A i \in Server : Turn(i, rf[i], rf'[i])
    /\ \A c \in voteCalls' : OldVote(c) \/ NewRequest(c) \/ NewGrant(c)
    /\ \A c \in appendCalls' : OldAppend(c) \/ NewAppend(c)

(* what the election argument needs of the types *)
BallotTypes ==
    /\ Nil \notin Server
    /\ \A i \in Server : rf[i].currentTerm \in Nat
    /\ \A c \in voteCalls :
          /\ c.caller \in Server /\ c.callee \in Server
          /\ Grant(c) => c.reply.Term \in Nat
    /\ \A c \in appendCalls :
          c.caller \in Server /\ c.callee \in Server /\ c.args.Term \in Nat

(* Any three different servers are all there are. *)
LEMMA ThreeServers ==
    ASSUME Cardinality(Server) <= 3, NEW i \in Server, NEW j \in Server, NEW k \in Server,
           i # j, i # k, j # k
    PROVE  Server = {i, j, k}
<1> DEFINE T == {i, j, k}
<1>1. IsFiniteSet(T) /\ Cardinality(T) = 3
  <2>2. IsFiniteSet({i}) /\ Cardinality({i}) = 1
    BY FS_Singleton
  <2>3. {i} \cup {j} = {i, j} /\ {i, j} \cup {k} = T
    OBVIOUS
  <2>4. IsFiniteSet({i, j}) /\ Cardinality({i, j}) = 2
    BY <2>2, <2>3, FS_AddElement
  <2> QED
    BY <2>3, <2>4, FS_AddElement
<1>2. T \subseteq Server /\ IsFiniteSet(Server)
  BY ServerAssumption
<1>3. Cardinality(Server) \in Nat
  BY <1>2, FS_CardinalityType
<1> HIDE DEF T
<1>4. Cardinality(T) <= Cardinality(Server) /\ (Cardinality(Server) = Cardinality(T) => Server = T)
  BY <1>2, FS_Subset
<1> QED
  BY <1>1, <1>3, <1>4 DEF T

(* Where two servers are, one vote is no majority, and of at most three two are. *)
LEMMA MajorityIsTwo ==
    ASSUME Cardinality(Server) <= 3, NEW i \in Server, NEW j \in Server, i # j
    PROVE  ~isMajority(1) /\ isMajority(2)
<1>1. IsFiniteSet({i, j}) /\ Cardinality({i, j}) = 2
  <2>1. IsFiniteSet({i}) /\ Cardinality({i}) = 1
    BY FS_Singleton
  <2>2. {i} \cup {j} = {i, j}
    OBVIOUS
  <2> QED
    BY <2>1, <2>2, FS_AddElement
<1>2. Cardinality(Server) \in Nat /\ Cardinality({i, j}) <= Cardinality(Server)
  BY ServerAssumption, FS_CardinalityType, FS_Subset
<1>3. Cardinality(Server) = 2 \/ Cardinality(Server) = 3
  BY <1>1, <1>2
<1> QED
  BY <1>3 DEF isMajority

(* No server gets back a chance it no longer has. *)
LEMMA DoneStays ==
    ASSUME BallotTypes, BallotTypes', BallotStep, NEW i \in Server, NEW t \in Nat, Done(i, t)
    PROVE  Done(i, t)'
<1>1. rf[i].currentTerm \in Nat /\ rf'[i].currentTerm \in Nat
  BY DEF BallotTypes
<1>2. Turn(i, rf[i], rf'[i])
  BY DEF BallotStep
<1> QED
  BY <1>1, <1>2 DEF Done, Turn, Same, Stands, Stays, Wins, Follower, Candidate, Leader

(* A vote given stays given, unless a leader's message of that term erases it. *)
LEMMA BlockedStays ==
    ASSUME BallotTypes, BallotTypes', BallotStep,
           NEW k \in Server, NEW j \in Server, k # j, NEW t \in Nat, Blocked(k, j, t),
           \A c \in appendCalls : c.callee = k => c.args.Term # t
    PROVE  Blocked(k, j, t)'
<1>1. rf[k].currentTerm \in Nat /\ rf'[k].currentTerm \in Nat /\ j # Nil
  BY DEF BallotTypes
<1>2. Turn(k, rf[k], rf'[k])
  BY DEF BallotStep
<1> QED
  BY <1>1, <1>2 DEF Blocked, Turn, Same, Stands, Stays, Wins

(* The terms of every server only grow. *)
LEMMA TermStays ==
    ASSUME BallotTypes, BallotTypes', BallotStep, NEW i \in Server
    PROVE  rf'[i].currentTerm >= rf[i].currentTerm
<1>1. rf[i].currentTerm \in Nat /\ rf'[i].currentTerm \in Nat
  BY DEF BallotTypes
<1>2. Turn(i, rf[i], rf'[i])
  BY DEF BallotStep
<1> QED
  BY <1>1, <1>2 DEF Turn, Same, Stands, Stays, Wins

(* A vote for a rival of the winner j is not given: the third server is blocked. *)
LEMMA NoNewGrant ==
    ASSUME BallotTypes, BallotTypes', BallotStep, BallotInv, Cardinality(Server) <= 3,
           NEW t \in Nat, NEW j \in Server, Won(t, j),
           NEW i \in Server, i # j, ~Done(i, t),
           NEW c \in voteCalls', NewGrant(c), c.caller = i
    PROVE  c.reply.Term # t
<1>1. c.callee \in Server /\ c.callee # i /\ j # Nil
  BY DEF BallotTypes, NewGrant
<1> SUFFICES ASSUME c.reply.Term = t PROVE FALSE
  OBVIOUS
<1>2. \A k \in Server : rf[k].currentTerm \in Nat
  BY DEF BallotTypes
<1>3. c.callee # j
  BY <1>1, <1>2 DEF Won, NewGrant
<1>4. Blocked(c.callee, j, t)
  BY <1>1, <1>3 DEF Won
<1> QED
  BY <1>1, <1>2, <1>3, <1>4 DEF Blocked, NewGrant

(* A won election stays won. *)
LEMMA WonStays ==
    ASSUME BallotTypes, BallotTypes', BallotStep, BallotInv, Cardinality(Server) <= 3,
           NEW t \in Nat, NEW j \in Server, Won(t, j)
    PROVE  Won(t, j)'
<1>1. rf'[j].currentTerm > t
  <2>1. rf[j].currentTerm \in Nat /\ rf'[j].currentTerm \in Nat
    BY DEF BallotTypes
  <2> QED
    BY <2>1, TermStays DEF Won
<1>2. ASSUME NEW c \in appendCalls', c.caller = j
      PROVE  c.args.Term # t
  <2>1. rf[j].currentTerm \in Nat
    BY DEF BallotTypes
  <2>2. OldAppend(c) \/ NewAppend(c)
    BY DEF BallotStep
  <2> QED
    BY <1>2, <2>1, <2>2 DEF OldAppend, NewAppend, Won
<1>3. ASSUME NEW i \in Server \ {j}, ~Done(i, t)'
      PROVE  /\ \A c \in voteCalls' : Grant(c) /\ c.caller = i => c.reply.Term # t
             /\ \A k \in Server \ {i, j} : Blocked(k, j, t)'
  <2>1. ~Done(i, t)
    BY <1>3, DoneStays
  <2>2. ASSUME NEW c \in voteCalls', Grant(c), c.caller = i
        PROVE  c.reply.Term # t
    <3>1. CASE OldVote(c)
      BY <2>1, <2>2, <3>1 DEF OldVote, Won
    <3>2. CASE NewGrant(c)
      BY <2>1, <2>2, <3>2, NoNewGrant
    <3>3. ~NewRequest(c)
      BY <2>2 DEF NewRequest, Grant
    <3> QED
      BY <3>1, <3>2, <3>3 DEF BallotStep
  <2>3. ASSUME NEW k \in Server \ {i, j}
        PROVE  Blocked(k, j, t)'
    <3>1. ASSUME NEW c \in appendCalls, c.callee = k
          PROVE  c.args.Term # t
      <4>1. c.caller \in Server /\ c.caller # k
        BY <3>1 DEF BallotTypes, BallotInv, AppendsFit
      <4>2. Server = {i, j, k}
        BY <1>3, <2>3, ThreeServers
      <4>3. CASE c.caller = j
        BY <4>3 DEF Won
      <4>4. CASE c.caller = i
        BY <2>1, <4>4 DEF BallotInv, AppendsFit
      <4> QED
        BY <4>1, <4>2, <4>3, <4>4
    <3>2. Blocked(k, j, t)
      BY <2>1 DEF Won
    <3> QED
      BY <3>1, <3>2, BlockedStays
  <2> QED
    BY <2>2, <2>3
<1> QED
  BY <1>1, <1>2, <1>3 DEF Won, Grant

(* Who wins had a vote that no rival of the same term can outdo. *)
LEMMA WinnerWon ==
    ASSUME BallotTypes, BallotTypes', BallotStep, BallotInv, Cardinality(Server) <= 3,
           NEW i \in Server, Wins(i, rf[i], rf'[i]),
           NEW t \in Nat, t = rf[i].currentTerm
    PROVE  /\ rf'[i].currentTerm = t + 1
           /\ Won(t, i)'
           /\ \A j \in Server : ~Won(t, j)
<1>1. /\ t \in Nat /\ rf'[i].currentTerm = t + 1
      /\ rf[i].status = Candidate /\ ~Done(i, t)
  BY DEF BallotTypes, Wins, Done
<1>2. PICK c \in voteCalls : Grant(c) /\ c.caller = i /\ c.reply.Term = t
  BY DEF Wins
<1> DEFINE k == c.callee
<1>3. k \in Server /\ k # i /\ Done(k, t)
  BY <1>1, <1>2 DEF BallotTypes, BallotInv, VotesFit, GrantsFit
<1>4. \A j \in Server : ~Won(t, j)
  <2> SUFFICES ASSUME NEW j \in Server, Won(t, j) PROVE FALSE
    OBVIOUS
  <2>1. rf[j].currentTerm > t
    BY DEF Won
  <2>2. j # i
    BY <1>1, <2>1
  <2> QED
    BY <1>1, <1>2, <2>2 DEF Won
<1>5. ASSUME NEW d \in appendCalls', d.caller = i
      PROVE  d.args.Term # t
  <2>1. OldAppend(d) \/ NewAppend(d)
    BY DEF BallotStep
  <2>2. ~NewAppend(d)
    BY <1>1, <1>5 DEF NewAppend, Candidate, Leader
  <2> QED
    BY <1>1, <1>5, <2>1, <2>2 DEF OldAppend, BallotInv, AppendsFit
<1>6. ASSUME NEW m \in Server \ {i}, ~Done(m, t)'
      PROVE  /\ \A d \in voteCalls' : Grant(d) /\ d.caller = m => d.reply.Term # t
             /\ \A h \in Server \ {m, i} : Blocked(h, i, t)'
  <2>1. ~Done(m, t) /\ m # k
    BY <1>1, <1>3, <1>6, DoneStays
  <2>2. Server = {i, m, k}
    BY <1>3, <2>1, ThreeServers
  <2>3. Blocked(k, i, t)
    BY <1>1, <1>2, <1>3, <2>1 DEF BallotInv, GrantsFit
  <2>4. ASSUME NEW d \in appendCalls, d.callee = k
        PROVE  d.args.Term # t
    <3>1. d.caller \in Server /\ d.caller # k /\ Done(d.caller, d.args.Term)
      BY <2>4 DEF BallotTypes, BallotInv, AppendsFit
    <3> QED
      BY <1>1, <2>1, <2>2, <3>1
  <2>5. Blocked(k, i, t)'
    BY <1>1, <1>3, <2>3, <2>4, BlockedStays
  <2>6. ASSUME NEW d \in voteCalls, Grant(d), d.caller = m
        PROVE  d.reply.Term # t
    <3>1. d.callee \in Server /\ d.callee # m
      BY <2>6 DEF BallotTypes, BallotInv, VotesFit
    <3>2. CASE d.callee = i
      BY <1>1, <2>1, <2>6, <3>2 DEF BallotInv, GrantsFit
    <3>3. CASE d.callee = k
      BY <1>1, <1>2, <2>1, <2>6, <3>3 DEF BallotInv, OneGrant
    <3> QED
      BY <2>2, <3>1, <3>2, <3>3
  <2>7. ASSUME NEW d \in voteCalls', Grant(d), d.caller = m
        PROVE  d.reply.Term # t
    <3>1. CASE OldVote(d)
      BY <2>6, <2>7, <3>1 DEF OldVote
    <3>2. CASE NewGrant(d) /\ d.reply.Term = t
      <4>1. d.callee \in Server /\ d.callee # m /\ i # Nil
        BY <2>7, <3>2 DEF BallotTypes, NewGrant
      <4>2. CASE d.callee = i
        BY <1>1, <3>2, <4>2 DEF NewGrant
      <4>3. CASE d.callee = k
        <5>1. rf[k].currentTerm \in Nat
          BY <1>3 DEF BallotTypes
        <5> QED
          BY <1>1, <1>3, <2>3, <2>7, <3>2, <4>1, <4>3, <5>1 DEF NewGrant, Blocked
      <4> QED
        BY <2>2, <4>1, <4>2, <4>3
    <3>3. ~NewRequest(d)
      BY <2>7 DEF NewRequest, Grant
    <3> QED
      BY <3>1, <3>2, <3>3 DEF BallotStep
  <2> QED
    BY <2>2, <2>5, <2>7
<1>7. rf'[i].currentTerm > t
  BY <1>1
<1>8. Won(t, i)'
  BY <1>5, <1>6, <1>7 DEF Won, Grant
<1> QED
  BY <1>1, <1>4, <1>8

(* A vote on its way stays as hard to contest as it was. *)
LEMMA GrantsFitStays ==
    ASSUME BallotTypes, BallotTypes', BallotStep, BallotInv, Cardinality(Server) <= 3
    PROVE  GrantsFit'
<1> SUFFICES ASSUME NEW c \in voteCalls', Grant(c), NEW t, t = c.reply.Term,
                    NEW a, a = c.caller, NEW k, k = c.callee, ~Done(a, t)'
             PROVE  /\ Done(k, t)'
                    /\ \A i \in Server \ {a, k} : Done(i, t)' \/ Blocked(k, a, t)'
  BY DEF GrantsFit, Grant
<1>1. t \in Nat /\ a \in Server /\ k \in Server
  BY DEF BallotTypes, Grant
<1>2. ~Done(a, t)
  BY <1>1, DoneStays
<1>3. CASE OldVote(c)
  <2>1. PICK d \in voteCalls : /\ a = d.caller /\ k = d.callee /\ Grant(d) /\ t = d.reply.Term
    BY <1>3 DEF OldVote
  <2>2. Done(k, t) /\ k # a
    BY <1>2, <2>1 DEF BallotInv, GrantsFit, VotesFit
  <2>3. ASSUME NEW i \in Server \ {a, k}, ~Done(i, t)'
        PROVE  Blocked(k, a, t)'
    <3>1. ~Done(i, t)
      BY <1>1, <2>3, DoneStays
    <3>2. Blocked(k, a, t)
      BY <1>2, <2>1, <3>1 DEF BallotInv, GrantsFit
    <3>3. Server = {a, k, i}
      BY <1>1, <2>2, ThreeServers
    <3>4. ASSUME NEW e \in appendCalls, e.callee = k
          PROVE  e.args.Term # t
      <4>1. e.caller \in Server /\ e.caller # k /\ Done(e.caller, e.args.Term)
        BY <3>4 DEF BallotTypes, BallotInv, AppendsFit
      <4> QED
        BY <1>2, <3>1, <3>3, <4>1
    <3> QED
      BY <1>1, <2>2, <3>2, <3>4, BlockedStays
  <2>4. Done(k, t)'
    BY <1>1, <2>2, DoneStays
  <2> QED
    BY <2>3, <2>4
<1>4. CASE NewGrant(c)
  BY <1>1, <1>4 DEF NewGrant, Done, Blocked, Follower, Candidate
<1>5. ~NewRequest(c)
  BY DEF NewRequest, Grant
<1> QED
  BY <1>3, <1>4, <1>5 DEF BallotStep

(* A server whose vote can still decide gives no second one in that term. *)
LEMMA OneGrantStays ==
    ASSUME BallotTypes, BallotTypes', BallotStep, BallotInv, Cardinality(Server) <= 3
    PROVE  OneGrant'
<1>1. ASSUME NEW c \in voteCalls', NEW d \in voteCalls', NEW t, Grant(c), Grant(d),
             c.callee = d.callee, c.reply.Term = t, d.reply.Term = t, c.caller # d.caller,
             OldVote(d), ~Done(d.caller, t)
      PROVE  NewGrant(c) => Done(c.caller, t)
  <2> SUFFICES ASSUME NewGrant(c), ~Done(c.caller, t) PROVE FALSE
    OBVIOUS
  <2>1. PICK e \in voteCalls : /\ d.caller = e.caller /\ d.callee = e.callee
                               /\ Grant(e) /\ e.reply.Term = t
    BY <1>1 DEF OldVote
  <2>2. /\ c.caller \in Server /\ d.caller \in Server /\ c.callee \in Server
        /\ t \in Nat /\ d.caller # Nil /\ d.caller # d.callee
        /\ rf[c.callee].currentTerm \in Nat
    BY <1>1, <2>1 DEF BallotTypes, BallotInv, VotesFit, Grant
  <2>3. c.caller # c.callee
    BY DEF NewGrant
  <2>4. Blocked(d.callee, d.caller, t)
    BY <1>1, <2>1, <2>2, <2>3 DEF BallotInv, GrantsFit
  <2> QED
    BY <1>1, <2>2, <2>4 DEF NewGrant, Blocked
<1> SUFFICES ASSUME NEW c \in voteCalls', NEW d \in voteCalls', NEW t, Grant(c), Grant(d),
                    c.callee = d.callee, c.reply.Term = t, d.reply.Term = t,
                    c.caller # d.caller
             PROVE  Done(c.caller, t)' \/ Done(d.caller, t)'
  BY DEF OneGrant, Grant
<1>2. t \in Nat /\ c.caller \in Server /\ d.caller \in Server
  BY DEF BallotTypes, Grant
<1>3. Done(c.caller, t) \/ Done(d.caller, t)
  <2>1. CASE OldVote(c) /\ OldVote(d)
    BY <2>1 DEF OldVote, BallotInv, OneGrant
  <2>2. CASE NewGrant(c) /\ NewGrant(d)
    BY <2>2 DEF NewGrant
  <2>3. CASE NewGrant(c) /\ OldVote(d)
    BY <1>1, <2>3
  <2>4. CASE NewGrant(d) /\ OldVote(c)
    BY <1>1, <2>4
  <2>5. ~NewRequest(c) /\ ~NewRequest(d)
    BY DEF NewRequest, Grant
  <2>6. (OldVote(c) \/ NewGrant(c)) /\ (OldVote(d) \/ NewGrant(d))
    BY <2>5 DEF BallotStep
  <2> QED
    BY <2>1, <2>2, <2>3, <2>4, <2>6
<1> QED
  BY <1>2, <1>3, DoneStays

(* Two rivals do not both have the vote they need. *)
LEMMA OneWinner ==
    ASSUME BallotTypes, BallotInv, Cardinality(Server) <= 3,
           NEW i \in Server, NEW j \in Server, Wins(i, rf[i], rf'[i]), Wins(j, rf[j], rf'[j]),
           rf[i].currentTerm = rf[j].currentTerm
    PROVE  i = j
<1> SUFFICES ASSUME i # j PROVE FALSE
  OBVIOUS
<1>1. PICK t \in Nat : t = rf[i].currentTerm /\ t = rf[j].currentTerm
  BY DEF BallotTypes
<1>2. ~Done(i, t) /\ ~Done(j, t)
  BY <1>1 DEF Wins, Done
<1>3. PICK c \in voteCalls : Grant(c) /\ c.caller = i /\ c.reply.Term = t
  BY <1>1 DEF Wins
<1>4. PICK d \in voteCalls : Grant(d) /\ d.caller = j /\ d.reply.Term = t
  BY <1>1 DEF Wins
<1>5. c.callee \in Server \ {i, j} /\ d.callee \in Server \ {i, j}
  BY <1>2, <1>3, <1>4 DEF BallotTypes, BallotInv, VotesFit, GrantsFit
<1>6. c.callee = d.callee
  BY <1>5, ThreeServers
<1> QED
  BY <1>2, <1>3, <1>4, <1>6 DEF BallotInv, OneGrant

(* Who leads after a step has won: before it, or in it. *)
LEMMA LeaderStep ==
    ASSUME BallotTypes, BallotTypes', BallotStep, BallotInv, Cardinality(Server) <= 3,
           NEW i \in Server, rf'[i].status = Leader
    PROVE  \E t \in Nat :
              /\ rf'[i].currentTerm = t + 1 /\ Won(t, i)'
              /\ \/ rf[i].status = Leader /\ rf[i].currentTerm = t + 1 /\ Won(t, i)
                 \/ /\ Wins(i, rf[i], rf'[i]) /\ rf[i].currentTerm = t
                    /\ \A j \in Server : ~Won(t, j)
<1>1. Turn(i, rf[i], rf'[i]) /\ rf[i].currentTerm \in Nat
  BY DEF BallotStep, BallotTypes
<1>2. CASE Same(rf[i], rf'[i])
  <2>1. rf[i].status = Leader /\ rf'[i].currentTerm = rf[i].currentTerm
    BY <1>2 DEF Same
  <2>2. PICK t \in Nat : rf[i].currentTerm = t + 1 /\ t = rf[i].currentTerm - 1
    BY <1>1, <2>1 DEF BallotInv, LeadersWon
  <2>3. Won(t, i)
    BY <2>1, <2>2 DEF BallotInv, LeadersWon
  <2>4. Won(t, i)'
    BY <2>3, WonStays
  <2> QED
    BY <2>1, <2>2, <2>3, <2>4
<1>3. CASE Wins(i, rf[i], rf'[i])
  <2>1. PICK t \in Nat : t = rf[i].currentTerm
    BY <1>1
  <2> QED
    BY <1>3, <2>1, WinnerWon
<1> QED
  BY <1>1, <1>2, <1>3 DEF Turn, Stands, Stays, Follower, Candidate, Leader

(* The election invariant is inductive. *)
LEMMA BallotInvStays ==
    ASSUME BallotTypes, BallotTypes', BallotStep, BallotInv, Cardinality(Server) <= 3
    PROVE  BallotInv'
<1>1. VotesOne'
  <2> SUFFICES ASSUME NEW i \in Server, rf'[i].status = Candidate
               PROVE  rf'[i].numVoteGathered = 1
    BY DEF VotesOne
  <2>1. Turn(i, rf[i], rf'[i])
    BY DEF BallotStep
  <2> QED
    BY <2>1 DEF Turn, Same, Stands, Stays, Wins, Follower, Candidate, Leader, BallotInv, VotesOne
<1>2. VotesFit'
  <2> SUFFICES ASSUME NEW c \in voteCalls'
               PROVE  c.caller # c.callee /\ c.args.CandidateId = c.caller
    BY DEF VotesFit
  <2> QED
    BY DEF BallotStep, OldVote, NewRequest, NewGrant, BallotInv, VotesFit
<1>3. AppendsFit'
  <2> SUFFICES ASSUME NEW c \in appendCalls'
               PROVE  c.caller # c.callee /\ Done(c.caller, c.args.Term)'
    BY DEF AppendsFit
  <2>1. c.caller \in Server /\ c.args.Term \in Nat /\ rf[c.caller].currentTerm \in Nat
    BY DEF BallotTypes
  <2>2. c.caller # c.callee /\ Done(c.caller, c.args.Term)
    <3>1. CASE OldAppend(c)
      BY <3>1 DEF OldAppend, BallotInv, AppendsFit
    <3>2. CASE NewAppend(c)
      BY <2>1, <3>2 DEF NewAppend, Done, Leader, Candidate
    <3> QED
      BY <3>1, <3>2 DEF BallotStep
  <2> QED
    BY <2>1, <2>2, DoneStays
<1>4. LeadersWon'
  <2> SUFFICES ASSUME NEW i \in Server, rf'[i].status = Leader
               PROVE  rf'[i].currentTerm > 0 /\ Won(rf[i].currentTerm - 1, i)'
    BY DEF LeadersWon
  <2>1. PICK t \in Nat : rf'[i].currentTerm = t + 1 /\ Won(t, i)'
    BY LeaderStep
  <2>2. rf'[i].currentTerm > 0 /\ rf'[i].currentTerm - 1 = t
    BY <2>1
  <2> QED
    BY <2>1, <2>2
<1>5. ElectionSafety'
  <2> SUFFICES ASSUME NEW i \in Server, NEW j \in Server,
                      rf'[i].status = Leader, rf'[j].status = Leader,
                      rf'[i].currentTerm = rf'[j].currentTerm, i # j
               PROVE  FALSE
    BY DEF ElectionSafety
  <2>1. PICK t \in Nat :
              /\ rf'[i].currentTerm = t + 1
              /\ \/ rf[i].status = Leader /\ rf[i].currentTerm = t + 1 /\ Won(t, i)
                 \/ /\ Wins(i, rf[i], rf'[i]) /\ rf[i].currentTerm = t
                    /\ \A h \in Server : ~Won(t, h)
    BY LeaderStep
  <2>2. PICK v \in Nat :
              /\ rf'[j].currentTerm = v + 1
              /\ \/ rf[j].status = Leader /\ rf[j].currentTerm = v + 1 /\ Won(v, j)
                 \/ /\ Wins(j, rf[j], rf'[j]) /\ rf[j].currentTerm = v
                    /\ \A h \in Server : ~Won(v, h)
    BY LeaderStep
  <2>3. v = t
    <3>1. v + 1 = t + 1
      BY <2>1, <2>2
    <3> QED
      BY <3>1
  <2>4. CASE /\ rf[i].status = Leader /\ rf[j].status = Leader
             /\ rf[i].currentTerm = rf[j].currentTerm
    BY <2>4 DEF BallotInv, ElectionSafety
  <2>5. CASE Wins(i, rf[i], rf'[i]) /\ Wins(j, rf[j], rf'[j])
    BY <2>1, <2>2, <2>3, <2>4, <2>5, OneWinner
  <2> QED
    BY <2>1, <2>2, <2>3, <2>4, <2>5
<1> QED
  BY <1>1, <1>2, <1>3, <1>4, <1>5, GrantsFitStays, OneGrantStays DEF BallotInv

-----------------------------------------------------------------------------
(* The steps of the model, without snapshots, as far as elections and logs go. *)

(* no snapshot is taken or sent, and no server asks itself for its vote *)
NoSnapshots ==
    /\ snapCalls = {}
    /\ \A i, j \in Server : snapTasks[i][j] = 0
    /\ \A i \in Server : rf[i].snapshotEntriesAmount = 0 /\ voteTasks[i][i] = 0

(* the entry before those of args is in the log l *)
Fits(l, args) ==
    /\ args.PrevLogIndex + 1 \in 1 .. Len(l)
    /\ l[args.PrevLogIndex + 1].Term = args.PrevLogTerm

(* args is the rest of l from some index on *)
SentFrom(l, args) ==
    Fits(l, args) /\ args.Entries = SubSeq(l, args.PrevLogIndex + 2, Len(l))

LogTurn(i, s, u) ==
    \/ u.logs = s.logs
    \/ /\ s.status = Leader
       /\ \E e \in Entry : e.Term = s.currentTerm /\ u.logs = Append(s.logs, e)
    \/ /\ u.status = Follower
       /\ \E c \in appendCalls :
             /\ AppendEntriesWithLock(c)
             /\ c.callee = i /\ c.stage = "request" /\ c.args.Term = u.currentTerm
             /\ Fits(s.logs, c.args)
             /\ u.logs = SubSeq(s.logs, 1, c.args.PrevLogIndex + 1) \o c.args.Entries

PeerTurn(i, s, u) ==
    Turn(i, s, u) /\ LogTurn(i, s, u) /\ u.snapshotEntriesAmount = 0

VotesStay == \A c \in voteCalls' : OldVote(c)

AppendsStay == \A c \in appendCalls' : OldAppend(c)

RaftStep ==
    /\ \A i \in Server : PeerTurn(i, rf[i], rf'[i])
    /\ \A c \in voteCalls' : OldVote(c) \/ NewRequest(c) \/ NewGrant(c)
    /\ \A c \in appendCalls' :
          \/ OldAppend(c)
          \/ NewAppend(c) /\ SentFrom(rf[c.caller].logs, c.args)

(* nothing an election or a log depends on is different *)
Alike(s, u) ==
    Same(s, u) /\ u.logs = s.logs /\ u.snapshotEntriesAmount = s.snapshotEntriesAmount

(* persist *)
LEMMA PersistAlike ==
    ASSUME NEW s \in RaftState
    PROVE  Alike(s, persist(s))
<1> DEFINE p == [s.persister EXCEPT !.raftstate = getPersistData(s)]
<1>1. persist(s) = [s EXCEPT !.persister = p]
  BY DEF persist, RaftState
<1> HIDE DEF p
<1> QED
  BY <1>1 DEF RaftState, Alike, Same

(* becomeFollower *)
LEMMA FollowerFields ==
    ASSUME NEW s \in RaftState, NEW t \in Nat, NEW v \in Server \cup {Nil}
    PROVE  LET u == becomeFollower(s, t, v) IN
           /\ u.status = Follower /\ u.currentTerm = t /\ u.votedFor = v
           /\ u.logs = s.logs /\ u.snapshotEntriesAmount = s.snapshotEntriesAmount
<1> DEFINE w == [s EXCEPT !.currentTerm     = t,
                          !.votedFor        = v,
                          !.status          = Follower,
                          !.numVoteGathered = 0]
<1>1. /\ w \in RaftState /\ w.status = Follower /\ w.currentTerm = t /\ w.votedFor = v
      /\ w.logs = s.logs /\ w.snapshotEntriesAmount = s.snapshotEntriesAmount
  BY DEF RaftState
<1>2. becomeFollower(s, t, v) = persist(w)
  BY DEF becomeFollower
<1> HIDE DEF w
<1> QED
  BY <1>1, <1>2, PersistAlike DEF Alike, Same

(* becomeCandidate *)
LEMMA CandidateFields ==
    ASSUME NEW s \in RaftState, NEW i \in Server
    PROVE  LET u == becomeCandidate(s, i) IN
           /\ Stands(s, u)
           /\ u.logs = s.logs /\ u.snapshotEntriesAmount = s.snapshotEntriesAmount
<1> DEFINE nt == s.currentTerm + 1
           w == [s EXCEPT !.currentTerm     = nt,
                          !.status          = Candidate,
                          !.votedFor        = i,
                          !.numVoteGathered = 1]
<1>0. nt \in Nat
  BY DEF RaftState
<1> HIDE DEF nt
<1>1. /\ w \in RaftState /\ w.status = Candidate /\ w.currentTerm = nt
      /\ w.numVoteGathered = 1
      /\ w.logs = s.logs /\ w.snapshotEntriesAmount = s.snapshotEntriesAmount
  BY <1>0 DEF RaftState
<1>2. becomeCandidate(s, i) = persist(w)
  BY DEF becomeCandidate, nt
<1> HIDE DEF w
<1> QED
  BY <1>1, <1>2, PersistAlike DEF Alike, Same, Stands, nt

(* becomeLeader *)
LEMMA LeaderFields ==
    ASSUME NEW s, Shape(s)
    PROVE  LET u == becomeLeader(s) IN
           /\ u.status = Leader /\ u.currentTerm = s.currentTerm + 1
           /\ u.logs = s.logs /\ u.snapshotEntriesAmount = s.snapshotEntriesAmount
<1> DEFINE nt == s.currentTerm + 1
           ni == [j \in Server |-> getLastLogEntryIndex(s) + 1]
           mi == [j \in Server |-> -1]
           w == [s EXCEPT !.status          = Leader,
                          !.currentTerm     = nt,
                          !.votedFor        = Nil,
                          !.numVoteGathered = 0,
                          !.nextIndex       = ni,
                          !.matchIndex      = mi]
           p == [w.persister EXCEPT !.raftstate = getPersistData(w)]
<1>1. s \in RaftState
  BY DEF Shape
<1>2. becomeLeader(s) = [w EXCEPT !.persister = p]
  BY <1>1 DEF becomeLeader, persist, RaftState
<1> HIDE DEF nt, ni, mi, p
<1>3. /\ w = [s EXCEPT !.status = Leader, !.currentTerm = nt, !.votedFor = Nil,
                       !.numVoteGathered = 0, !.nextIndex = ni, !.matchIndex = mi]
      /\ w.status = Leader /\ w.currentTerm = nt
      /\ w.logs = s.logs /\ w.snapshotEntriesAmount = s.snapshotEntriesAmount
      /\ DOMAIN w = DOMAIN s
  BY <1>1 DEF RaftState
<1>4. \A f \in {"status", "currentTerm", "logs", "snapshotEntriesAmount"} :
        [w EXCEPT !.persister = p][f] = w[f]
  <2>1. {"status", "currentTerm", "logs", "snapshotEntriesAmount"} \subseteq DOMAIN w
    BY <1>1, <1>3 DEF RaftState
  <2> HIDE DEF w
  <2> QED
    BY <2>1
<1> HIDE DEF w
<1> QED
  BY <1>2, <1>3, <1>4 DEF nt

(* gainVote *)
LEMMA GainFields ==
    ASSUME NEW s, Shape(s), s.status = Candidate
    PROVE  LET w == gainVote(s) IN
           /\ Shape(w)
           /\ w.numVoteGathered = s.numVoteGathered + 1
           /\ w.status = s.status /\ w.currentTerm = s.currentTerm
           /\ w.logs = s.logs /\ w.snapshotEntriesAmount = s.snapshotEntriesAmount
<1> DEFINE n == s.numVoteGathered + 1
           w == [s EXCEPT !.numVoteGathered = n]
<1>1. gainVote(s) = w
  BY DEF gainVote
<1>2. s \in RaftState /\ n \in Nat
  BY DEF Shape, RaftState
<1> HIDE DEF n
<1>3. /\ w \in RaftState /\ w.numVoteGathered = n
      /\ w.status = s.status /\ w.currentTerm = s.currentTerm
      /\ w.logs = s.logs /\ w.snapshotEntriesAmount = s.snapshotEntriesAmount
      /\ w.nextIndex = s.nextIndex /\ w.matchIndex = s.matchIndex
      /\ w.persister = s.persister
  BY <1>2 DEF RaftState
<1> HIDE DEF w
<1>4. Shape(w)
  BY <1>3 DEF Shape, HasLed
<1> QED
  BY <1>1, <1>3, <1>4 DEF n

(* nextIndex, matchIndex, commitIndex and lastApplied are set *)
LEMMA IndexFields ==
    ASSUME NEW s \in RaftState, NEW j, NEW n, NEW m, NEW k
    PROVE  /\ Alike(s, [s EXCEPT !.nextIndex[j] = n])
           /\ Alike(s, [[s EXCEPT !.nextIndex[j] = n, !.matchIndex[j] = m] EXCEPT !.commitIndex = k])
<1> DEFINE ni == [s.nextIndex EXCEPT ![j] = n]
           mi == [s.matchIndex EXCEPT ![j] = m]
<1>1. /\ [s EXCEPT !.nextIndex[j] = n] = [s EXCEPT !.nextIndex = ni]
      /\ [s EXCEPT !.nextIndex[j] = n, !.matchIndex[j] = m]
           = [s EXCEPT !.nextIndex = ni, !.matchIndex = mi]
  BY DEF RaftState
<1> HIDE DEF ni, mi
<1>2. Alike(s, [s EXCEPT !.nextIndex = ni])
  BY DEF RaftState, Alike, Same
<1>3. Alike(s, [[s EXCEPT !.nextIndex = ni, !.matchIndex = mi] EXCEPT !.commitIndex = k])
  BY DEF RaftState, Alike, Same
<1> QED
  BY <1>1, <1>2, <1>3

(* applied *)
LEMMA AppliedFields ==
    ASSUME NEW s \in RaftState
    PROVE  Alike(s, applied(s))
<1> DEFINE la == IF snapshotAhead(s) THEN s.snapshotEntriesAmount - 1 ELSE s.commitIndex
           w == [s EXCEPT !.lastApplied = la]
<1>1. la \in Nat \cup {-1}
  BY DEF RaftState
<1> HIDE DEF la
<1>2. w \in RaftState /\ Alike(s, w)
  BY <1>1 DEF RaftState, Alike, Same
<1>3. applied(s) = persist(w)
  BY DEF applied, la
<1> HIDE DEF w
<1> QED
  BY <1>2, <1>3, PersistAlike DEF Alike, Same

\* The log is replaced, then persist, as Start does it.
LEMMA ReplaceFields ==
    ASSUME NEW s \in RaftState, NEW l \in Seq(Entry)
    PROVE  LET u == persist([s EXCEPT !.logs = l]) IN
           Same(s, u) /\ u.logs = l /\ u.snapshotEntriesAmount = s.snapshotEntriesAmount
<1> DEFINE w == [s EXCEPT !.logs = l]
<1>1. /\ w \in RaftState /\ Same(s, w) /\ w.logs = l
      /\ w.snapshotEntriesAmount = s.snapshotEntriesAmount
  BY DEF RaftState, Same
<1> HIDE DEF w
<1>2. Alike(w, persist(w))
  BY <1>1, PersistAlike
<1>3. /\ Same(s, persist(w)) /\ persist(w).logs = l
      /\ persist(w).snapshotEntriesAmount = s.snapshotEntriesAmount
  BY <1>1, <1>2 DEF Alike, Same
<1> QED
  BY <1>3 DEF w

\* The state of a server whose log and commit index accept replaced.
Accepted(s, l, ci) == persist([s EXCEPT !.logs = l, !.commitIndex = ci])

\* What accept leaves alone, and the log it leaves.
LEMMA AcceptedFields ==
    ASSUME NEW s \in RaftState, NEW l \in Seq(Entry), NEW ci \in Nat \cup {-1}
    PROVE  LET u == Accepted(s, l, ci) IN
           Same(s, u) /\ u.logs = l /\ u.snapshotEntriesAmount = s.snapshotEntriesAmount
<1> DEFINE w == [s EXCEPT !.logs = l, !.commitIndex = ci]
<1>1. /\ w \in RaftState /\ Same(s, w) /\ w.logs = l
      /\ w.snapshotEntriesAmount = s.snapshotEntriesAmount
  BY DEF RaftState, Same
<1>2. Accepted(s, l, ci) = persist(w)
  BY DEF Accepted
<1> HIDE DEF w
<1>3. Alike(w, persist(w))
  BY <1>1, PersistAlike
<1> QED
  BY <1>1, <1>2, <1>3 DEF Alike, Same

\* What accept does to a struct whose log has the entry before those of the call.
LEMMA AcceptFields ==
    ASSUME NEW f \in RaftState, f.snapshotEntriesAmount = 0,
           NEW args, args.PrevLogIndex \in Nat, args.Entries \in Seq(Entry),
           args.LeaderCommit \in Nat \cup {-1}, logMatches(f, args)
    PROVE  /\ Same(f, accept(f, args)) /\ accept(f, args).snapshotEntriesAmount = 0
           /\ Fits(f.logs, args)
           /\ accept(f, args).logs = SubSeq(f.logs, 1, args.PrevLogIndex + 1) \o args.Entries
<1> DEFINE p == args.PrevLogIndex
           cut == SubSeq(f.logs, 1, p + 1)
           l == cut \o args.Entries
           ci == IF f.commitIndex < args.LeaderCommit
                 THEN args.LeaderCommit ELSE f.commitIndex
<1>1. /\ p \in Nat /\ f.logs \in Seq(Entry) /\ Len(f.logs) \in Nat
      /\ getOffsetIndex(f, p) + 1 = p + 1
  BY DEF getOffsetIndex, RaftState
<1>2. p + 1 \in 1 .. Len(f.logs)
  BY <1>1 DEF logMatches, getLastLogEntryIndex
<1>3. Fits(f.logs, args)
  <2>1. getLogTermAtIndex(f, p) = f.logs[p + 1].Term
    BY <1>1 DEF getLogTermAtIndex, getLogEntryAtIndex
  <2> QED
    BY <1>2, <2>1 DEF logMatches, Fits
<1>4. cut \in Seq(Entry)
  <2>1. \A k \in 1 .. p + 1 : f.logs[k] \in Entry
    BY <1>1, <1>2
  <2> QED
    BY <1>1, <1>2, <2>1, SubSeqProperties
<1>5. l \in Seq(Entry) /\ ci \in Nat \cup {-1}
  BY <1>4 DEF RaftState
<1>6. accept(f, args) = persist([f EXCEPT !.logs = l, !.commitIndex = ci])
  BY <1>1 DEF accept, removeLogFromIndex
<1>7. accept(f, args) = Accepted(f, l, ci)
  BY <1>6, Zenon DEF Accepted
<1> DEFINE u == accept(f, args)
<1> HIDE DEF l, ci
<1>8. Same(f, u) /\ u.logs = l /\ u.snapshotEntriesAmount = f.snapshotEntriesAmount
  BY <1>5, <1>7, AcceptedFields
<1>9. u.snapshotEntriesAmount = 0
  BY <1>8, Zenon
<1> QED
  BY <1>3, <1>8, <1>9, Zenon DEF l

\* m is the log r with the entries x after it, entry by entry.
Joins(m, r, x) ==
    /\ Len(m) = Len(r) + Len(x)
    /\ \A n \in 1 .. Len(r) + Len(x) : m[n] = IF n <= Len(r) THEN r[n] ELSE x[n - Len(r)]

\* The entries of a log that is two logs one after the other, as append(rf.logs, entries...) makes it.
LEMMA JoinLogs ==
    ASSUME NEW r \in Seq(Entry), NEW x \in Seq(Entry)
    PROVE  Joins(r \o x, r, x)
BY ConcatProperties DEF Joins

(* Make *)
LEMMA MakeFields ==
    ASSUME NEW s, PeerOK(s)
    PROVE  LET u == Make(s.persister) IN
           /\ u.status = Follower
           /\ u.currentTerm = s.currentTerm /\ u.votedFor = s.votedFor
           /\ u.logs = s.logs /\ u.snapshotEntriesAmount = s.snapshotEntriesAmount
<1> DEFINE p == s.persister
           u == Make(p)
<1>1. getPersistData(u) = getPersistData(s)
  BY MakeOK
<1>2. u.status = Follower
  BY DEF Make, readPersist, bootstrap
<1> HIDE DEF u
<1> QED
  BY <1>1, <1>2 DEF getPersistData, u

-----------------------------------------------------------------------------
(* Every action is such a step. *)

(* One struct is replaced. *)
LEMMA OneTurn ==
    ASSUME Inv, NoSnapshots, NEW i \in Server, NEW u, PeerTurn(i, rf[i], u),
           rf' = [rf EXCEPT ![i] = u]
    PROVE  \A j \in Server : PeerTurn(j, rf[j], rf'[j])
<1>1. rf'[i] = u /\ \A j \in Server : j # i => rf'[j] = rf[j]
  BY DEF Inv, PeersOK
<1>2. \A j \in Server : PeerTurn(j, rf[j], rf[j])
  BY DEF PeerTurn, Turn, Same, LogTurn, NoSnapshots
<1> QED
  BY <1>1, <1>2

(* No struct is replaced. *)
LEMMA NoTurn ==
    ASSUME NoSnapshots, UNCHANGED rf
    PROVE  \A j \in Server : PeerTurn(j, rf[j], rf'[j])
BY DEF PeerTurn, Turn, Same, LogTurn, NoSnapshots

(* A struct that is alike, or a follower of a later term with the same log *)
LEMMA EasyTurn ==
    ASSUME NEW i, NEW s, NEW u, s.snapshotEntriesAmount = 0,
           \/ Alike(s, u)
           \/ /\ u.status = Follower /\ u.currentTerm > s.currentTerm
              /\ u.logs = s.logs /\ u.snapshotEntriesAmount = s.snapshotEntriesAmount
    PROVE  PeerTurn(i, s, u)
BY DEF PeerTurn, Turn, LogTurn, Alike

(* The goroutines and the InstallSnapshot calls are left alone. *)
LEMMA StillNoSnapshots ==
    ASSUME NoSnapshots, \A i \in Server : PeerTurn(i, rf[i], rf'[i]),
           UNCHANGED <<voteTasks, snapTasks, snapCalls>>
    PROVE  NoSnapshots'
BY DEF NoSnapshots, PeerTurn

(* Calls are taken out, or left alone. *)
LEMMA FewerCalls ==
    /\ voteCalls' \subseteq voteCalls => VotesStay
    /\ appendCalls' \subseteq appendCalls => AppendsStay
BY DEF VotesStay, OldVote, AppendsStay, OldAppend

(* A call gets on: another stage and reply, or its caller is gone. *)
LEMMA AppendGetsOn ==
    ASSUME CallsOK, NEW c \in appendCalls, NEW st, NEW r, NEW l,
           appendCalls' \subseteq appendCalls \cup
              {[c EXCEPT !.stage = st, !.reply = r], [c EXCEPT !.live = l]}
    PROVE  AppendsStay
<1> DEFINE e == [c EXCEPT !.stage = st, !.reply = r]
           f == [c EXCEPT !.live = l]
<1>1. c \in AppendCall
  BY DEF CallsOK, AppendOK
<1>2. e.caller = c.caller /\ e.callee = c.callee /\ e.args = c.args
  BY <1>1 DEF AppendCall, Call
<1>3. f.caller = c.caller /\ f.callee = c.callee /\ f.args = c.args
  BY <1>1 DEF AppendCall, Call
<1>4. appendCalls' \subseteq appendCalls \cup {e, f}
  OBVIOUS
<1> HIDE DEF e, f
<1> QED
  BY <1>2, <1>3, <1>4 DEF AppendsStay, OldAppend

(* finish(c) *)
LEMMA FinishStays ==
    ASSUME CallsOK, NEW c \in appendCalls, appendCalls' = finish(c)
    PROVE  AppendsStay
<1>1. appendCalls' \subseteq appendCalls \cup
        {[c EXCEPT !.stage = "reply", !.reply = c.reply], [c EXCEPT !.live = FALSE]}
  BY DEF finish, answer
<1> QED
  BY <1>1, AppendGetsOn

(* A step that leaves votes and appends as they are *)
LEMMA StayStep ==
    ASSUME \A i \in Server : PeerTurn(i, rf[i], rf'[i]), VotesStay, AppendsStay
    PROVE  RaftStep
BY DEF RaftStep, VotesStay, AppendsStay

(* startElection *)
LEMMA startElectionTurn ==
    ASSUME Inv, NoSnapshots, NEW i \in Server, startElection(i)
    PROVE  RaftStep /\ NoSnapshots'
<1> DEFINE u == becomeCandidate(rf[i], i)
<1>1. rf[i] \in RaftState /\ rf[i].snapshotEntriesAmount = 0
  BY DEF Inv, PeersOK, NoSnapshots
<1>2. PeerTurn(i, rf[i], u)
  BY <1>1, CandidateFields DEF PeerTurn, Turn, LogTurn
<1>3. rf' = [rf EXCEPT ![i] = u]
  BY DEF startElection
<1> HIDE DEF u
<1>4. \A j \in Server : PeerTurn(j, rf[j], rf'[j])
  BY <1>2, <1>3, OneTurn
<1>5. VotesStay /\ AppendsStay
  BY FewerCalls DEF startElection
<1>6. \A j \in Server : voteTasks'[j][j] = 0
  BY DEF startElection, NoSnapshots, Inv, TasksOK
<1> QED
  BY <1>4, <1>5, <1>6, StayStep DEF startElection, NoSnapshots, PeerTurn

(* Start *)
LEMMA StartTurn ==
    ASSUME Inv, NoSnapshots, NEW i \in Server, NEW command \in Value, Start(i, command)
    PROVE  RaftStep /\ NoSnapshots'
<1> DEFINE e == [Term |-> rf[i].currentTerm, Action |-> command]
           l == Append(rf[i].logs, e)
           u == persist([rf[i] EXCEPT !.logs = l])
<1>1. /\ rf[i] \in RaftState /\ rf[i].snapshotEntriesAmount = 0
      /\ rf[i].logs \in Seq(Entry) /\ rf[i].currentTerm \in Nat
  BY DEF Inv, PeersOK, NoSnapshots, RaftState
<1>2. e \in Entry /\ e.Term = rf[i].currentTerm
  BY <1>1 DEF Entry, Term
<1>3. rf' = [rf EXCEPT ![i] = u] /\ rf[i].status = Leader
  BY DEF Start
<1> HIDE DEF e
<1>4. l \in Seq(Entry)
  BY <1>1, <1>2
<1> DEFINE k == l
<1>5. k = Append(rf[i].logs, e) /\ k \in Seq(Entry) /\ u = persist([rf[i] EXCEPT !.logs = k])
  BY <1>4
<1> HIDE DEF k, u
<1>6. Same(rf[i], u) /\ u.logs = k /\ u.snapshotEntriesAmount = rf[i].snapshotEntriesAmount
  BY <1>1, <1>5, ReplaceFields
<1>7. PeerTurn(i, rf[i], u)
  BY <1>1, <1>2, <1>3, <1>5, <1>6 DEF PeerTurn, Turn, LogTurn
<1>8. \A j \in Server : PeerTurn(j, rf[j], rf'[j])
  BY <1>3, <1>7, OneTurn
<1>9. VotesStay /\ AppendsStay
  BY FewerCalls DEF Start, network
<1> QED
  BY <1>8, <1>9, StayStep, StillNoSnapshots DEF Start, network

(* handleSendRequestVote *)
LEMMA handleSendRequestVoteTurn ==
    ASSUME Inv, NoSnapshots, NEW i \in Server, NEW j \in Server, NEW id \in 1 .. Slots,
           handleSendRequestVote(i, j, id)
    PROVE  RaftStep /\ NoSnapshots'
<1> DEFINE c == request(i, j, id, getRequestVoteArgs(rf[i], i))
<1>1. i # j
  BY DEF handleSendRequestVote, NoSnapshots
<1>2. NewRequest(c)
  BY <1>1 DEF NewRequest, request, getRequestVoteArgs
<1>3. voteCalls' = voteCalls \cup {c}
  BY DEF handleSendRequestVote
<1> HIDE DEF c
<1>4. \A d \in voteCalls' : OldVote(d) \/ NewRequest(d)
  BY <1>2, <1>3 DEF OldVote
<1>5. \A h \in Server : PeerTurn(h, rf[h], rf'[h])
  BY NoTurn DEF handleSendRequestVote
<1>6. AppendsStay
  BY FewerCalls DEF handleSendRequestVote
<1>7. \A h \in Server : voteTasks'[h][h] = 0
  BY <1>1 DEF handleSendRequestVote, NoSnapshots, Inv, TasksOK
<1>8. NoSnapshots'
  BY <1>5, <1>7 DEF handleSendRequestVote, NoSnapshots, PeerTurn
<1> QED
  BY <1>4, <1>5, <1>6, <1>8 DEF RaftStep, AppendsStay

(* A vote call is answered. *)
LEMMA VoteAnswered ==
    ASSUME Inv, NEW c \in voteCalls, NEW t \in Nat, NEW g \in BOOLEAN,
           voteCalls' = answer(voteCalls, c, [Term |-> t, VoteGranted |-> g]),
           NEW d \in voteCalls'
    PROVE  \/ OldVote(d)
           \/ /\ g /\ d.caller = c.caller /\ d.callee = c.callee /\ d.args = c.args
              /\ d.reply.Term = t
<1> DEFINE r == [Term |-> t, VoteGranted |-> g]
           e == [c EXCEPT !.stage = "reply", !.reply = r]
<1>1. c \in VoteCall
  BY DEF Inv, CallsOK, VoteOK
<1>2. r.Term = t /\ r.VoteGranted = g
  OBVIOUS
<1>3. d \in voteCalls \/ d = e
  BY DEF answer
<1> HIDE DEF r
<1>4. e.caller = c.caller /\ e.callee = c.callee /\ e.args = c.args /\ e.reply = r
  BY <1>1 DEF VoteCall, Call
<1> HIDE DEF e
<1>5. CASE d \in voteCalls
  BY <1>5 DEF OldVote
<1>6. CASE d = e /\ ~g
  <2>1. ~Grant(e)
    BY <1>2, <1>4, <1>6 DEF Grant
  <2> QED
    BY <1>4, <1>6, <2>1 DEF OldVote
<1>7. CASE d = e /\ g
  BY <1>2, <1>4, <1>7
<1> QED
  BY <1>3, <1>5, <1>6, <1>7

(* RequestVote *)
LEMMA RequestVoteTurn ==
    ASSUME Inv, NoSnapshots, VotesFit, NEW c \in voteCalls, RequestVote(c)
    PROVE  RaftStep /\ NoSnapshots'
<1> DEFINE i == c.callee
           s == rf[i]
           T == c.args.Term
           a == c.caller
           seen == seenTerm(s, c.args)
           u == becomeFollower(seen, T, a)
<1>1. /\ i \in Server /\ a \in Server /\ T \in Nat /\ a # i /\ c.args.CandidateId = a
      /\ VoteOK(c)
  BY DEF Inv, CallsOK, VoteOK, VoteCall, Call, VotesFit
<1>2. s \in RaftState /\ s.snapshotEntriesAmount = 0 /\ s.currentTerm \in Nat /\ PeerOK(s)
  BY <1>1 DEF Inv, PeersOK, NoSnapshots, RaftState
<1>3. UNCHANGED <<voteTasks, snapTasks, snapCalls, appendCalls>>
  BY DEF RequestVote
<1>4. AppendsStay
  BY <1>3, FewerCalls
<1>5. ASSUME s.currentTerm <= T
      PROVE  /\ seen \in RaftState /\ seen.logs = s.logs /\ seen.snapshotEntriesAmount = 0
             /\ \/ seen = s
                \/ /\ s.currentTerm < T
                   /\ seen.status = Follower /\ seen.currentTerm = T /\ seen.votedFor = a
  <2>1. seen \in RaftState
    BY <1>1, <1>2, <1>5, SeenTermOK DEF PeerOK, Shape
  <2>2. CASE s.currentTerm < T
    BY <1>1, <1>2, <2>1, <2>2, FollowerFields DEF seenTerm
  <2>3. CASE ~(s.currentTerm < T)
    BY <1>2, <2>1, <2>3 DEF seenTerm
  <2> QED
    BY <2>2, <2>3
<1> HIDE DEF seen
<1>6. CASE UNCHANGED rf /\ voteCalls' = answer(voteCalls, c, [Term |-> s.currentTerm, VoteGranted |-> FALSE])
  <2>1. VotesStay
    BY <1>2, <1>6, VoteAnswered DEF VotesStay
  <2>2. \A h \in Server : PeerTurn(h, rf[h], rf'[h])
    BY <1>6, NoTurn
  <2> QED
    BY <1>3, <1>4, <2>1, <2>2, StayStep, StillNoSnapshots
<1>7. CASE /\ s.currentTerm <= T /\ rf' = [rf EXCEPT ![i] = seen]
           /\ voteCalls' = answer(voteCalls, c, [Term |-> s.currentTerm, VoteGranted |-> FALSE])
  <2>1. VotesStay
    BY <1>2, <1>7, VoteAnswered DEF VotesStay
  <2>2. PeerTurn(i, s, seen)
    BY <1>1, <1>2, <1>5, <1>7 DEF PeerTurn, Turn, Same, LogTurn
  <2>3. \A h \in Server : PeerTurn(h, rf[h], rf'[h])
    BY <1>1, <1>7, <2>2, OneTurn
  <2> QED
    BY <1>3, <1>4, <2>1, <2>3, StayStep, StillNoSnapshots
<1>8. CASE /\ s.currentTerm <= T /\ mayVote(seen, i, c.args)
           /\ rf' = [rf EXCEPT ![i] = becomeFollower(seen, c.args.Term, c.args.CandidateId)]
           /\ voteCalls' = answer(voteCalls, c, [Term |-> T, VoteGranted |-> TRUE])
  <2>1. /\ u.status = Follower /\ u.currentTerm = T /\ u.votedFor = a
        /\ u.logs = s.logs /\ u.snapshotEntriesAmount = 0
    BY <1>1, <1>5, <1>8, FollowerFields
  <2>2. rf' = [rf EXCEPT ![i] = u]
    BY <1>1, <1>8
  <2> HIDE DEF u
  <2>3. \/ s.currentTerm < T
        \/ s.currentTerm = T /\ s.votedFor \in {Nil, i, a}
    BY <1>1, <1>2, <1>5, <1>8 DEF mayVote
  <2>4. PeerTurn(i, s, u)
    BY <1>1, <1>2, <2>1, <2>3 DEF PeerTurn, Turn, Stays, LogTurn
  <2>5. \A h \in Server : PeerTurn(h, rf[h], rf'[h])
    BY <1>1, <2>2, <2>4, OneTurn
  <2>6. rf'[i] = u
    BY <1>1, <2>2 DEF Inv, PeersOK
  <2>7. ASSUME NEW d \in voteCalls', ~OldVote(d)
        PROVE  NewGrant(d)
    <3>1. d.caller = a /\ d.callee = i /\ d.args = c.args /\ d.reply.Term = T
      BY <1>1, <1>8, <2>7, VoteAnswered
    <3> QED
      BY <1>1, <2>1, <2>3, <2>6, <3>1 DEF NewGrant
  <2>8. RaftStep
    BY <1>4, <2>5, <2>7 DEF RaftStep, AppendsStay
  <2> QED
    BY <1>3, <2>5, <2>8, StillNoSnapshots
<1> QED
  BY <1>6, <1>7, <1>8 DEF RequestVote, seen

(* handleRequestVoteReply *)
LEMMA handleRequestVoteReplyTurn ==
    ASSUME Inv, NoSnapshots, VotesFit, VotesOne, Cardinality(Server) <= 3,
           NEW c \in voteCalls, handleRequestVoteReply(c)
    PROVE  RaftStep /\ NoSnapshots'
<1> DEFINE i == c.caller
           s == rf[i]
<1>1. i \in Server /\ c.callee \in Server /\ c.stage = "reply" /\ i # c.callee
  BY DEF Inv, CallsOK, VoteOK, VoteCall, Call, VotesFit, handleRequestVoteReply
<1>2. c.reply.Term \in Nat /\ c.reply.VoteGranted \in BOOLEAN
  BY <1>1 DEF Inv, CallsOK, VoteOK
<1>3. /\ s \in RaftState /\ s.snapshotEntriesAmount = 0 /\ s.currentTerm \in Nat
      /\ Shape(s) /\ PeerOK(s)
  BY <1>1 DEF Inv, PeersOK, NoSnapshots, RaftState, PeerOK
<1>4. ~isMajority(1) /\ isMajority(2)
  BY <1>1, MajorityIsTwo
<1>5. s.status = Candidate => s.numVoteGathered = 1
  BY <1>1 DEF VotesOne
<1>6. \A h \in Server : PeerTurn(h, rf[h], rf'[h])
  <2>1. CASE /\ c.reply.Term > s.currentTerm
             /\ rf' = [rf EXCEPT ![i] = becomeFollower(s, c.reply.Term, Nil)]
    <3> DEFINE u == becomeFollower(s, c.reply.Term, Nil)
    <3>1. PeerTurn(i, s, u)
      BY <1>2, <1>3, <2>1, FollowerFields, EasyTurn
    <3> HIDE DEF u
    <3> QED
      BY <1>1, <2>1, <3>1, OneTurn DEF u
  <2>2. CASE rf' = [rf EXCEPT ![i] = checkElectionStatus(s)]
    <3>1. checkElectionStatus(s) = s
      BY <1>4, <1>5 DEF checkElectionStatus
    <3>2. PeerTurn(i, s, s)
      BY <1>3, EasyTurn DEF Alike, Same
    <3>3. rf' = [rf EXCEPT ![i] = s]
      BY <2>2, <3>1
    <3> QED
      BY <1>1, <3>2, <3>3, OneTurn
  <2>3. CASE /\ c.reply.VoteGranted /\ c.reply.Term = s.currentTerm
             /\ rf' = [rf EXCEPT ![i] = checkElectionStatus(gainVote(s))]
    <3>1. CASE s.status # Candidate
      <4>1. gainVote(s) = s
        BY <3>1 DEF gainVote
      <4> QED
        BY <2>2, <2>3, <4>1
    <3>2. CASE s.status = Candidate
      <4> DEFINE w == gainVote(s)
                 u == becomeLeader(w)
      <4>1. /\ w.numVoteGathered = 2 /\ w.status = Candidate
            /\ w.currentTerm = s.currentTerm
            /\ w.logs = s.logs /\ w.snapshotEntriesAmount = 0
        BY <1>3, <1>5, <3>2, GainFields
      <4>2. Shape(w)
        BY <1>3, <3>2, GainFields
      <4>3. checkElectionStatus(w) = u
        BY <1>4, <4>1 DEF checkElectionStatus
      <4> HIDE DEF w
      <4>4. /\ u.status = Leader /\ u.currentTerm = s.currentTerm + 1
            /\ u.logs = s.logs /\ u.snapshotEntriesAmount = 0
        BY <4>1, <4>2, LeaderFields
      <4> HIDE DEF u
      <4>5. Grant(c)
        BY <1>1, <2>3 DEF Grant
      <4>6. PeerTurn(i, s, u)
        BY <2>3, <3>2, <4>4, <4>5 DEF PeerTurn, Turn, Wins, LogTurn
      <4>7. rf' = [rf EXCEPT ![i] = u]
        BY <2>3, <4>3 DEF w
      <4> QED
        BY <1>1, <4>6, <4>7, OneTurn
    <3> QED
      BY <3>1, <3>2
  <2> QED
    BY <2>1, <2>2, <2>3 DEF handleRequestVoteReply
<1>7. VotesStay /\ AppendsStay
  BY FewerCalls DEF handleRequestVoteReply
<1> QED
  BY <1>6, <1>7, StayStep, StillNoSnapshots DEF handleRequestVoteReply

(* loseRequestVote *)
LEMMA loseRequestVoteTurn ==
    ASSUME Inv, NoSnapshots, NEW c \in voteCalls, loseRequestVote(c)
    PROVE  RaftStep /\ NoSnapshots'
<1>1. \A h \in Server : PeerTurn(h, rf[h], rf'[h])
  BY NoTurn DEF loseRequestVote
<1>2. VotesStay /\ AppendsStay
  BY FewerCalls DEF loseRequestVote
<1> QED
  BY <1>1, <1>2, StayStep, StillNoSnapshots DEF loseRequestVote

(* handleSendAppendEntries: what is sent is the rest of the leader's log. *)
LEMMA handleSendAppendEntriesTurn ==
    ASSUME Inv, NoSnapshots, NEW i \in Server, NEW j \in Server, NEW id \in 1 .. Slots,
           handleSendAppendEntries(i, j, id)
    PROVE  RaftStep /\ NoSnapshots'
<1> DEFINE s == rf[i]
           n == s.nextIndex[j]
<1>1. /\ s \in RaftState /\ s.snapshotEntriesAmount = 0 /\ HasLed(s)
      /\ s.logs \in Seq(Entry) /\ i # j
  BY DEF Inv, PeersOK, PeerOK, Shape, NoSnapshots, RaftState, handleSendAppendEntries
<1>2. n \in Nat \ {0} /\ Len(s.logs) \in Nat
  BY <1>1 DEF HasLed
<1>3. ~(n < s.snapshotEntriesAmount)
  BY <1>1, <1>2
<1>4. UNCHANGED <<rf, voteTasks, voteCalls, snapTasks, snapCalls>>
  BY <1>3 DEF handleSendAppendEntries
<1>5. \A h \in Server : PeerTurn(h, rf[h], rf'[h])
  BY <1>4, NoTurn
<1>6. VotesStay
  BY <1>4, FewerCalls
<1>7. CASE UNCHANGED appendCalls
  BY <1>4, <1>5, <1>6, <1>7, FewerCalls, StayStep, StillNoSnapshots
<1>8. CASE /\ s.status = Leader /\ termIsKnown(s, n - 1)
           /\ appendCalls' = appendCalls \cup {request(i, j, id, createAppendEntriesArgs(s, i, j))}
  <2> DEFINE args == createAppendEntriesArgs(s, i, j)
             c == request(i, j, id, args)
  <2>1. /\ args.Term = s.currentTerm /\ args.PrevLogIndex = n - 1
        /\ args.PrevLogTerm = getLogTermAtIndex(s, n - 1)
        /\ args.Entries = getLogEntryStartingAt(s, n)
    <3>1. n - 1 + 1 = n
      BY <1>2
    <3> QED
      BY <3>1 DEF createAppendEntriesArgs
  <2>2. n \in 1 .. Len(s.logs)
    BY <1>1, <1>2, <1>8 DEF termIsKnown, logIndexCheck, getLastLogEntryIndex
  <2>3. args.PrevLogTerm = s.logs[n].Term
    <3>1. getLogTermAtIndex(s, n - 1) = getLogEntryAtIndex(s, n - 1).Term
      BY <1>1, <1>2 DEF getLogTermAtIndex
    <3>2. getOffsetIndex(s, n - 1) + 1 = n
      BY <1>1, <1>2 DEF getOffsetIndex
    <3> QED
      BY <2>1, <3>1, <3>2 DEF getLogEntryAtIndex
  <2>4. args.Entries = SubSeq(s.logs, n + 1, Len(s.logs))
    <3>1. getOffsetIndex(s, n) + 1 = n + 1
      BY <1>1, <1>2 DEF getOffsetIndex
    <3> QED
      BY <2>1, <3>1 DEF getLogEntryStartingAt
  <2> HIDE DEF args
  <2>5. args.PrevLogIndex + 1 = n /\ args.PrevLogIndex + 2 = n + 1
    BY <1>2, <2>1
  <2>6. SentFrom(s.logs, args)
    BY <2>2, <2>3, <2>4, <2>5 DEF SentFrom, Fits
  <2>7. c.caller = i /\ c.callee = j /\ c.args = args
    BY DEF request
  <2>8. NewAppend(c) /\ SentFrom(rf[c.caller].logs, c.args)
    BY <1>1, <1>8, <2>1, <2>6, <2>7 DEF NewAppend
  <2>9. appendCalls' = appendCalls \cup {c}
    BY <1>8 DEF args
  <2> HIDE DEF c
  <2>10. \A d \in appendCalls' : \/ OldAppend(d)
                                 \/ NewAppend(d) /\ SentFrom(rf[d.caller].logs, d.args)
    BY <2>8, <2>9 DEF OldAppend
  <2>11. RaftStep
    BY <1>5, <1>6, <2>10 DEF RaftStep, VotesStay
  <2> QED
    BY <1>4, <1>5, <2>11, StillNoSnapshots
<1> QED
  BY <1>3, <1>7, <1>8 DEF handleSendAppendEntries

(* AppendEntriesWithLock *)
LEMMA AppendEntriesWithLockTurn ==
    ASSUME Inv, NoSnapshots, NEW c \in appendCalls, AppendEntriesWithLock(c)
    PROVE  RaftStep /\ NoSnapshots'
<1> DEFINE i == c.callee
           s == rf[i]
           T == c.args.Term
           p == c.args.PrevLogIndex
           f == becomeFollower(s, T, Nil)
<1>1. /\ i \in Server /\ T \in Nat /\ p \in Nat /\ c.args.Entries \in Seq(Entry)
      /\ c.args.LeaderCommit \in Nat \cup {-1}
  BY DEF Inv, CallsOK, AppendOK, AppendCall, Call
<1>2. /\ s \in RaftState /\ s.snapshotEntriesAmount = 0 /\ s.currentTerm \in Nat
      /\ s.logs \in Seq(Entry) /\ Shape(s)
  BY <1>1 DEF Inv, PeersOK, PeerOK, NoSnapshots, RaftState
<1>3. UNCHANGED <<voteTasks, snapTasks, snapCalls, voteCalls>>
  BY DEF AppendEntriesWithLock
<1>4. VotesStay
  BY <1>3, FewerCalls
<1>5. AppendsStay
  <2>1. \E st, r : appendCalls' \subseteq appendCalls \cup
              {[c EXCEPT !.stage = st, !.reply = r], [c EXCEPT !.live = FALSE]}
    BY DEF AppendEntriesWithLock, answer, move
  <2> QED
    BY <2>1, AppendGetsOn DEF Inv
<1>6. ASSUME s.currentTerm <= T
      PROVE  /\ f \in RaftState
             /\ f.status = Follower /\ f.currentTerm = T /\ f.votedFor = Nil
             /\ f.logs = s.logs /\ f.snapshotEntriesAmount = 0
  <2>1. T >= s.currentTerm
    BY <1>1, <1>2, <1>6
  <2>2. f \in RaftState
    BY <1>1, <1>2, <2>1, BecomeFollowerOK DEF PeerOK, Shape
  <2> QED
    BY <1>1, <1>2, <2>2, FollowerFields
<1>7. ASSUME NEW u, s.currentTerm <= T, u.status = Follower, u.currentTerm = T
      PROVE  Turn(i, s, u)
  BY <1>1, <1>2, <1>7 DEF Turn, Stays
<1> HIDE DEF f
<1>8. \A h \in Server : PeerTurn(h, rf[h], rf'[h])
  <2>1. CASE UNCHANGED rf
    BY <2>1, NoTurn
  <2>2. CASE s.currentTerm <= T /\ rf' = [rf EXCEPT ![i] = f]
    <3>1. PeerTurn(i, s, f)
      BY <1>6, <1>7, <2>2 DEF PeerTurn, LogTurn
    <3> QED
      BY <1>1, <2>2, <3>1, OneTurn
  <2>3. CASE /\ s.currentTerm <= T /\ logMatches(f, c.args)
             /\ rf' = [rf EXCEPT ![i] = accept(f, c.args)]
    <3> DEFINE u == accept(f, c.args)
    <3>1. /\ f \in RaftState
          /\ f.status = Follower /\ f.currentTerm = T
          /\ f.logs = s.logs /\ f.snapshotEntriesAmount = 0
      BY <1>2, <1>6, <2>3
    <3>2. /\ Same(f, u) /\ u.snapshotEntriesAmount = 0
          /\ Fits(s.logs, c.args)
          /\ u.logs = SubSeq(s.logs, 1, p + 1) \o c.args.Entries
      BY <1>1, <2>3, <3>1, AcceptFields
    <3>3. rf' = [rf EXCEPT ![i] = u]
      BY <2>3
    <3> HIDE DEF u
    <3>4. Turn(i, s, u) /\ u.status = Follower
      BY <1>7, <2>3, <3>1, <3>2 DEF Same
    <3>5. LogTurn(i, s, u)
      <4>1. c.stage = "request" /\ u.currentTerm = T
        BY <3>1, <3>2 DEF AppendEntriesWithLock, Same
      <4> QED
        BY <3>2, <3>4, <4>1 DEF LogTurn
    <3>6. PeerTurn(i, s, u)
      BY <3>2, <3>4, <3>5 DEF PeerTurn
    <3> QED
      BY <1>1, <3>3, <3>6, OneTurn
  <2> QED
    BY <2>1, <2>2, <2>3 DEF AppendEntriesWithLock, f
<1> QED
  BY <1>3, <1>4, <1>5, <1>8, StayStep, StillNoSnapshots

(* commitToApplyChannel *)
LEMMA commitToApplyChannelTurn ==
    ASSUME Inv, NoSnapshots, NEW c \in appendCalls, commitToApplyChannel(c)
    PROVE  RaftStep /\ NoSnapshots'
<1> DEFINE i == threadOf(c)
           s == rf[i]
<1>1. i \in Server
  BY DEF threadOf, Inv, CallsOK, AppendOK, AppendCall, Call
<1>2. s \in RaftState /\ s.snapshotEntriesAmount = 0
  BY <1>1 DEF Inv, PeersOK, NoSnapshots
<1>3. UNCHANGED <<voteTasks, snapTasks, snapCalls, voteCalls>>
  BY DEF commitToApplyChannel
<1>4. VotesStay
  BY <1>3, FewerCalls
<1>5. AppendsStay
  <2>1. CASE appendCalls' = finish(c)
    BY <2>1, FinishStays DEF Inv
  <2>2. CASE \E st : appendCalls' = move(appendCalls, c, st, c.reply)
    <3>1. \E st : appendCalls' \subseteq appendCalls \cup
              {[c EXCEPT !.stage = st, !.reply = c.reply], [c EXCEPT !.live = FALSE]}
      BY <2>2 DEF move
    <3> QED
      BY <3>1, AppendGetsOn DEF Inv
  <2>3. CASE UNCHANGED appendCalls
    BY <2>3, FewerCalls
  <2> QED
    BY <2>1, <2>2, <2>3 DEF commitToApplyChannel
<1>6. PeerTurn(i, s, persist(s)) /\ PeerTurn(i, s, applied(s))
  BY <1>2, PersistAlike, AppliedFields, EasyTurn
<1>7. \/ UNCHANGED rf
      \/ rf' = [rf EXCEPT ![i] = persist(s)]
      \/ rf' = [rf EXCEPT ![i] = applied(s)]
  BY DEF commitToApplyChannel
<1>8. \A h \in Server : PeerTurn(h, rf[h], rf'[h])
  <2> HIDE DEF i
  <2> QED
    BY <1>1, <1>6, <1>7, NoTurn, OneTurn
<1> QED
  BY <1>3, <1>4, <1>5, <1>8, StayStep, StillNoSnapshots

(* receiveApplyMsg *)
LEMMA receiveApplyMsgTurn ==
    ASSUME Inv, NoSnapshots, NEW c \in appendCalls, receiveApplyMsg(c)
    PROVE  RaftStep /\ NoSnapshots'
<1>1. \A h \in Server : PeerTurn(h, rf[h], rf'[h])
  BY NoTurn DEF receiveApplyMsg
<1>2. VotesStay
  BY FewerCalls DEF receiveApplyMsg
<1>3. appendCalls' = finish(c) \/ appendCalls' = appendCalls
  BY DEF receiveApplyMsg
<1>4. AppendsStay
  BY <1>3, FinishStays, FewerCalls DEF Inv
<1> QED
  BY <1>1, <1>2, <1>4, StayStep, StillNoSnapshots DEF receiveApplyMsg

(* handleAppendEntriesReply *)
LEMMA handleAppendEntriesReplyTurn ==
    ASSUME Inv, NoSnapshots, NEW c \in appendCalls, handleAppendEntriesReply(c)
    PROVE  RaftStep /\ NoSnapshots'
<1> DEFINE i == c.caller
           j == c.callee
           s == rf[i]
           m == c.args.PrevLogIndex + Len(c.args.Entries)
<1>1. i \in Server /\ j \in Server /\ c.stage = "reply"
  BY DEF Inv, CallsOK, AppendOK, AppendCall, Call, handleAppendEntriesReply
<1>2. c.reply.Term \in Nat
  BY <1>1 DEF Inv, CallsOK, AppendOK
<1>3. s \in RaftState /\ s.snapshotEntriesAmount = 0 /\ s.currentTerm \in Nat
  BY <1>1 DEF Inv, PeersOK, NoSnapshots, RaftState
<1>4. UNCHANGED <<voteTasks, snapCalls, voteCalls>>
  BY DEF handleAppendEntriesReply
<1>5. UNCHANGED snapTasks
  <2>1. \A k \in Nat : ~(k + 1 <= s.snapshotEntriesAmount)
    BY <1>3
  <2>2. \A pre : backoffStops(s, pre) \subseteq Nat
    BY DEF backoffStops
  <2> QED
    BY <2>1, <2>2 DEF handleAppendEntriesReply
<1>6. AppendsStay
  <2>1. \/ appendCalls' \subseteq appendCalls
        \/ appendCalls' = move(appendCalls, c, "leadCommit", c.reply)
    BY DEF handleAppendEntriesReply
  <2>2. ASSUME appendCalls' = move(appendCalls, c, "leadCommit", c.reply)
        PROVE  appendCalls' \subseteq appendCalls \cup
              {[c EXCEPT !.stage = "leadCommit", !.reply = c.reply], [c EXCEPT !.live = FALSE]}
    BY <2>2 DEF move
  <2> QED
    BY <2>1, <2>2, AppendGetsOn, FewerCalls DEF Inv
<1>7. VotesStay
  BY <1>4, FewerCalls
<1>8. \A h \in Server : PeerTurn(h, rf[h], rf'[h])
  <2>1. CASE UNCHANGED rf
    BY <2>1, NoTurn
  <2>2. CASE \E n : rf' = [rf EXCEPT ![i].nextIndex[j] = n]
    <3>1. PICK n : rf' = [rf EXCEPT ![i] = [s EXCEPT !.nextIndex[j] = n]]
      BY <2>2
    <3>2. PeerTurn(i, s, [s EXCEPT !.nextIndex[j] = n])
      BY <1>3, IndexFields, EasyTurn
    <3> QED
      BY <1>1, <3>1, <3>2, OneTurn
  <2>3. CASE \E k : rf' = [rf EXCEPT ![i] =
                [[s EXCEPT !.nextIndex[j] = m + 1, !.matchIndex[j] = m] EXCEPT !.commitIndex = k]]
    <3> HIDE DEF m
    <3>1. PICK k : rf' = [rf EXCEPT ![i] =
                [[s EXCEPT !.nextIndex[j] = m + 1, !.matchIndex[j] = m] EXCEPT !.commitIndex = k]]
      BY <2>3
    <3> DEFINE u == [[s EXCEPT !.nextIndex[j] = m + 1, !.matchIndex[j] = m] EXCEPT !.commitIndex = k]
    <3>2. PeerTurn(i, s, u)
      BY <1>3, IndexFields, EasyTurn
    <3>3. rf' = [rf EXCEPT ![i] = u]
      BY <3>1
    <3> HIDE DEF u
    <3> QED
      BY <1>1, <3>2, <3>3, OneTurn
  <2>4. CASE /\ s.currentTerm < c.reply.Term
             /\ rf' = [rf EXCEPT ![i] = becomeFollower(s, c.reply.Term, Nil)]
    <3> DEFINE u == becomeFollower(s, c.reply.Term, Nil)
    <3>1. u.currentTerm > s.currentTerm
      BY <1>2, <1>3, <2>4, FollowerFields
    <3>2. PeerTurn(i, s, u)
      BY <1>2, <1>3, <3>1, FollowerFields, EasyTurn
    <3>3. rf' = [rf EXCEPT ![i] = u]
      BY <2>4
    <3> HIDE DEF u
    <3> QED
      BY <1>1, <3>2, <3>3, OneTurn
  <2> QED
    BY <2>1, <2>2, <2>3, <2>4 DEF handleAppendEntriesReply
<1> QED
  BY <1>4, <1>5, <1>6, <1>7, <1>8, StayStep, StillNoSnapshots

(* loseAppendEntries *)
LEMMA loseAppendEntriesTurn ==
    ASSUME Inv, NoSnapshots, NEW c \in appendCalls, loseAppendEntries(c)
    PROVE  RaftStep /\ NoSnapshots'
<1>1. \A h \in Server : PeerTurn(h, rf[h], rf'[h])
  BY NoTurn DEF loseAppendEntries
<1>2. VotesStay
  BY FewerCalls DEF loseAppendEntries
<1>3. appendCalls' \subseteq appendCalls \cup
        {[c EXCEPT !.stage = "reply", !.reply = c.reply], [c EXCEPT !.live = FALSE]}
  BY DEF loseAppendEntries
<1>4. AppendsStay
  BY <1>3, AppendGetsOn DEF Inv
<1> QED
  BY <1>1, <1>2, <1>4, StayStep, StillNoSnapshots DEF loseAppendEntries

(* What a kill leaves of the calls. *)
LEMMA OrphansStay ==
    ASSUME Inv, NEW i \in Server, voteCalls' = orphaned(voteCalls, i),
           NEW ac, ac \subseteq appendCalls, appendCalls' = orphaned(ac, i)
    PROVE  VotesStay /\ AppendsStay
<1>1. ASSUME NEW d \in voteCalls' PROVE OldVote(d)
  <2>1. PICK c \in voteCalls : d = [c EXCEPT !.live = c.live /\ c.caller # i]
    BY DEF orphaned
  <2> DEFINE l == c.live /\ c.caller # i
  <2>2. d = [c EXCEPT !.live = l] /\ c \in VoteCall
    BY <2>1 DEF Inv, CallsOK, VoteOK
  <2> HIDE DEF l
  <2>3. /\ d.caller = c.caller /\ d.callee = c.callee /\ d.args = c.args
        /\ d.stage = c.stage /\ d.reply = c.reply
    BY <2>2 DEF VoteCall, Call
  <2> QED
    BY <2>3 DEF OldVote, Grant
<1>2. ASSUME NEW d \in appendCalls' PROVE OldAppend(d)
  <2>1. PICK c \in ac : d = [c EXCEPT !.live = c.live /\ c.caller # i]
    BY DEF orphaned
  <2> DEFINE l == c.live /\ c.caller # i
  <2>2. d = [c EXCEPT !.live = l] /\ c \in AppendCall /\ c \in appendCalls
    BY <2>1 DEF Inv, CallsOK, AppendOK
  <2> HIDE DEF l
  <2>3. d.caller = c.caller /\ d.callee = c.callee /\ d.args = c.args
    BY <2>2 DEF AppendCall, Call
  <2> QED
    BY <2>2, <2>3 DEF OldAppend
<1> QED
  BY <1>1, <1>2 DEF VotesStay, AppendsStay

(* restart, from the persister of the struct w *)
LEMMA restartTurn ==
    ASSUME Inv, NoSnapshots, NEW i \in Server, NEW w, PeerOK(w),
           w.logs = rf[i].logs, w.snapshotEntriesAmount = 0,
           \/ w = rf[i]
           \/ w.currentTerm > rf[i].currentTerm
           \/ /\ w.currentTerm = rf[i].currentTerm
              /\ \E c \in appendCalls : c.callee = i /\ c.args.Term = w.currentTerm,
           restart(i, w.persister), snapCalls' = orphaned(snapCalls, i),
           NEW ac, ac \subseteq appendCalls, appendCalls' = orphaned(ac, i)
    PROVE  RaftStep /\ NoSnapshots'
<1> DEFINE u == Make(w.persister)
<1>1. /\ u.status = Follower
      /\ u.currentTerm = w.currentTerm /\ u.votedFor = w.votedFor
      /\ u.logs = w.logs /\ u.snapshotEntriesAmount = w.snapshotEntriesAmount
  BY MakeFields
<1>2. rf' = [rf EXCEPT ![i] = u] /\ voteCalls' = orphaned(voteCalls, i)
  BY DEF restart
<1> HIDE DEF u
<1>3. PeerTurn(i, rf[i], u)
  BY <1>1 DEF PeerTurn, Turn, Stays, LogTurn
<1>4. \A h \in Server : PeerTurn(h, rf[h], rf'[h])
  BY <1>2, <1>3, OneTurn
<1>5. VotesStay /\ AppendsStay
  BY <1>2, OrphansStay
<1>6. snapCalls' = {}
  BY DEF orphaned, NoSnapshots
<1>7. \A h, j \in Server : snapTasks'[h][j] = 0
  BY DEF restart, NoSnapshots, Inv, TasksOK
<1>8. \A h \in Server : voteTasks'[h][h] = 0
  BY DEF restart, NoSnapshots, Inv, TasksOK
<1> QED
  BY <1>4, <1>5, <1>6, <1>7, <1>8, StayStep DEF NoSnapshots, PeerTurn

(* crash1 *)
LEMMA crash1Turn ==
    ASSUME Inv, NoSnapshots, NEW i \in Server, crash1(i)
    PROVE  RaftStep /\ NoSnapshots'
<1>1. PeerOK(rf[i]) /\ rf[i].snapshotEntriesAmount = 0
  BY DEF Inv, PeersOK, NoSnapshots
<1> QED
  BY <1>1, restartTurn DEF crash1

(* crashInAppendEntries *)
LEMMA crashInAppendEntriesTurn ==
    ASSUME Inv, NoSnapshots, NEW c \in appendCalls, crashInAppendEntries(c)
    PROVE  RaftStep /\ NoSnapshots'
<1> DEFINE i == c.callee
           w == becomeFollower(rf[i], c.args.Term, Nil)
           ac == appendCalls \ {c}
<1>1. i \in Server /\ c.args.Term \in Nat
  BY DEF Inv, CallsOK, AppendOK, AppendCall, Call
<1>2. rf[i] \in RaftState /\ rf[i].snapshotEntriesAmount = 0 /\ rf[i].currentTerm \in Nat
  BY <1>1 DEF Inv, PeersOK, NoSnapshots, RaftState
<1>3. c.args.Term >= rf[i].currentTerm
  BY DEF crashInAppendEntries
<1>4. PeerOK(w)
  BY <1>1, <1>3, MidHandlerOK
<1>5. w.currentTerm = c.args.Term /\ w.logs = rf[i].logs /\ w.snapshotEntriesAmount = 0
  BY <1>1, <1>2, FollowerFields
<1>6. /\ restart(i, w.persister)
      /\ appendCalls' = orphaned(ac, i) /\ snapCalls' = orphaned(snapCalls, i)
      /\ ac \subseteq appendCalls
  BY DEF crashInAppendEntries, midHandler
<1>7. w.currentTerm > rf[i].currentTerm \/ w.currentTerm = rf[i].currentTerm
  BY <1>1, <1>2, <1>3, <1>5
<1> HIDE DEF ac, w
<1> QED
  BY <1>1, <1>4, <1>5, <1>6, <1>7, restartTurn

(* Without snapshots and with at most three servers every step is such a step. *)
LEMMA NextTurn ==
    ASSUME Inv, NoSnapshots, VotesFit, VotesOne, ~Snapshots, Cardinality(Server) <= 3,
           [Next]_vars
    PROVE  RaftStep /\ NoSnapshots'
<1>1. CASE UNCHANGED vars
  <2>1. \A h \in Server : PeerTurn(h, rf[h], rf'[h])
    BY <1>1, NoTurn DEF vars
  <2>2. VotesStay /\ AppendsStay
    BY <1>1, FewerCalls DEF vars
  <2> QED
    BY <1>1, <2>1, <2>2, StayStep, StillNoSnapshots DEF vars
<1>2. ASSUME NEW i \in Contenders, startElection(i)
      PROVE  RaftStep /\ NoSnapshots'
  BY <1>2, startElectionTurn, BoundAssumption
<1>3. ASSUME NEW i \in Server, Snapshot(i) \/ crash1(i)
      PROVE  RaftStep /\ NoSnapshots'
  BY <1>3, crash1Turn DEF Snapshot
<1>4. ASSUME NEW i \in Server, NEW command \in Value, Start(i, command)
      PROVE  RaftStep /\ NoSnapshots'
  BY <1>4, StartTurn
<1>5. ASSUME NEW i \in Server, NEW j \in Server, NEW id \in 1 .. Slots,
             \/ handleSendRequestVote(i, j, id)
             \/ handleSendAppendEntries(i, j, id)
             \/ handleSendInstallSnapshot(i, j, id)
      PROVE  RaftStep /\ NoSnapshots'
  <2>1. ~handleSendInstallSnapshot(i, j, id)
    BY DEF handleSendInstallSnapshot, NoSnapshots
  <2> QED
    BY <1>5, <2>1, handleSendRequestVoteTurn, handleSendAppendEntriesTurn
<1>6. ASSUME NEW c \in voteCalls,
             RequestVote(c) \/ handleRequestVoteReply(c) \/ loseRequestVote(c)
      PROVE  RaftStep /\ NoSnapshots'
  BY <1>6, RequestVoteTurn, handleRequestVoteReplyTurn, loseRequestVoteTurn
<1>7. ASSUME NEW c \in appendCalls,
             \/ AppendEntriesWithLock(c) \/ commitToApplyChannel(c) \/ receiveApplyMsg(c)
             \/ handleAppendEntriesReply(c) \/ loseAppendEntries(c) \/ crashInAppendEntries(c)
      PROVE  RaftStep /\ NoSnapshots'
  BY <1>7, AppendEntriesWithLockTurn, commitToApplyChannelTurn, receiveApplyMsgTurn,
     handleAppendEntriesReplyTurn, loseAppendEntriesTurn, crashInAppendEntriesTurn
<1>8. snapCalls = {}
  BY DEF NoSnapshots
<1>9. CASE Next
  BY <1>9, <1>2, <1>3, <1>4, <1>5, <1>6, <1>7, <1>8 DEF Next
<1> QED
  BY <1>1, <1>9

(* What the types give the election argument. *)
LEMMA TypesOfBallots == Inv => BallotTypes
<1> SUFFICES ASSUME Inv PROVE BallotTypes
  OBVIOUS
<1>1. \A i \in Server : rf[i].currentTerm \in Nat
  BY DEF Inv, PeersOK, RaftState
<1>2. \A c \in voteCalls : /\ c.caller \in Server /\ c.callee \in Server
                           /\ Grant(c) => c.reply.Term \in Nat
  BY DEF Inv, CallsOK, VoteOK, VoteCall, Call, Grant
<1>3. \A c \in appendCalls : c.caller \in Server /\ c.callee \in Server /\ c.args.Term \in Nat
  BY DEF Inv, CallsOK, AppendOK, AppendCall, Call
<1> QED
  BY <1>1, <1>2, <1>3, NilAssumption DEF BallotTypes

(* The struct every instance starts with. *)
LEMMA InitFields ==
    ASSUME Init, NEW i \in Server
    PROVE  /\ rf[i].status = Follower /\ rf[i].snapshotEntriesAmount = 0
           /\ rf[i].logs = <<filler>>
BY DEF Init, Make, readPersist, MakePersister, bootstrap

(* At first every log is the filler, nobody leads and nothing is on its way. *)
LEMMA InitBallots == Init => NoSnapshots /\ BallotInv
<1> SUFFICES ASSUME Init PROVE NoSnapshots /\ BallotInv
  OBVIOUS
<1>1. NoSnapshots
  BY InitFields DEF Init, NoSnapshots
<1>2. \A i \in Server : rf[i].status = Follower
  BY InitFields
<1>3. voteCalls = {} /\ appendCalls = {}
  BY DEF Init
<1> QED
  BY <1>1, <1>2, <1>3 DEF BallotInv, VotesOne, VotesFit, AppendsFit, GrantsFit, OneGrant,
     LeadersWon, ElectionSafety, Follower, Candidate, Leader

(* The part of a step the elections depend on. *)
LEMMA StepOfBallots ==
    ASSUME RaftStep
    PROVE  BallotStep
BY DEF RaftStep, PeerTurn, BallotStep

-----------------------------------------------------------------------------
(* Logs.  A link is an entry e at position p together with the term v of the    *)
(* entry before it, in a log or in the arguments of an AppendEntries call.      *)

LogLink(l, p, v, e) == p \in 2 .. Len(l) /\ v = l[p - 1].Term /\ e = l[p]

ArgsLink(args, p, v, e) ==
    \E n \in 1 .. Len(args.Entries) :
        /\ p = args.PrevLogIndex + 1 + n
        /\ v = IF n = 1 THEN args.PrevLogTerm ELSE args.Entries[n - 1].Term
        /\ e = args.Entries[n]

Link(p, v, e) ==
    \/ \E i \in Server : LogLink(rf[i].logs, p, v, e)
    \/ \E c \in appendCalls : ArgsLink(c.args, p, v, e)

(* position and term determine the entry and the term before it *)
LinksAgree == \A p, v, e, w, f :
    Link(p, v, e) /\ Link(p, w, f) /\ e.Term = f.Term => v = w /\ e = f

(* a leader's log is as long as anything that has its term *)
LeaderHasAll == \A i \in Server : rf[i].status = Leader =>
    \A p, v, e : Link(p, v, e) /\ e.Term = rf[i].currentTerm => p <= Len(rf[i].logs)

(* only who won an election has made entries of the term after it *)
TermsAreWon == \A p, v, e : Link(p, v, e) =>
    \E t \in Nat, j \in Server : e.Term = t + 1 /\ Won(t, j)

StartsWithFiller == \A i \in Server : Len(rf[i].logs) > 0 /\ rf[i].logs[1] = filler

LinkInv == LinksAgree /\ LeaderHasAll /\ TermsAreWon /\ StartsWithFiller

(* A call that is the rest of a log has no link the log has not. *)
LEMMA SentLinks ==
    ASSUME NEW l \in Seq(Entry), NEW args, args.PrevLogIndex \in Nat, SentFrom(l, args),
           NEW p, NEW v, NEW e, ArgsLink(args, p, v, e)
    PROVE  LogLink(l, p, v, e)
<1> DEFINE q == args.PrevLogIndex + 2
           r == SubSeq(l, q, Len(l))
<1>1. /\ args.Entries = r /\ Len(l) \in Nat /\ q \in 2 .. Len(l) + 1
      /\ l[q - 1].Term = args.PrevLogTerm
  <2>1. args.PrevLogIndex + 1 = q - 1
    OBVIOUS
  <2> QED
    BY <2>1 DEF SentFrom, Fits
<1>2. Len(r) = Len(l) - q + 1 /\ \A n \in 1 .. Len(l) - q + 1 : r[n] = l[q + n - 1]
  <2> HIDE DEF q
  <2>1. \A k \in q .. Len(l) : l[k] \in Entry
    BY <1>1
  <2>2. /\ Len(r) = IF q <= Len(l) THEN Len(l) - q + 1 ELSE 0
        /\ \A n \in 1 .. Len(l) - q + 1 : r[n] = l[q + n - 1]
    BY <1>1, <2>1, SubSeqProperties
  <2> QED
    BY <1>1, <2>2
<1>3. PICK n \in 1 .. Len(args.Entries) :
        /\ p = args.PrevLogIndex + 1 + n
        /\ v = IF n = 1 THEN args.PrevLogTerm ELSE args.Entries[n - 1].Term
        /\ e = args.Entries[n]
  BY DEF ArgsLink
<1> HIDE DEF r
<1>4. p = q + n - 1 /\ p \in 2 .. Len(l) /\ n \in 1 .. Len(l) - q + 1
  <2>1. p = q + n - 1
    BY <1>3
  <2> HIDE DEF q
  <2>2. n \in 1 .. Len(l) - q + 1
    BY <1>1, <1>2, <1>3
  <2> QED
    BY <1>1, <2>1, <2>2
<1> HIDE DEF q
<1>5. e = l[p]
  BY <1>1, <1>2, <1>3, <1>4
<1>6. v = l[p - 1].Term
  <2>1. CASE n = 1
    BY <1>1, <1>3, <1>4, <2>1
  <2>2. CASE n # 1
    <3>1. n - 1 \in 1 .. Len(l) - q + 1 /\ q + (n - 1) - 1 = p - 1
      BY <1>1, <1>4, <2>2
    <3> QED
      BY <1>1, <1>2, <1>3, <2>2, <3>1
  <2> QED
    BY <2>1, <2>2
<1> QED
  BY <1>4, <1>5, <1>6 DEF LogLink

(* m is l up to the entry before those of args, then those *)
Spliced(l, args, m) ==
    LET q == args.PrevLogIndex + 1
        k == Len(args.Entries)
    IN
    /\ Len(m) = q + k
    /\ \A n \in 1 .. q : m[n] = l[n]
    /\ \A n \in 1 .. k : m[q + n] = args.Entries[n]

(* What removeLogFromIndex and appendEntries leave in a log. *)
LEMMA SplicedLog ==
    ASSUME NEW l \in Seq(Entry), NEW args, args.PrevLogIndex \in Nat,
           args.Entries \in Seq(Entry), Fits(l, args),
           NEW m, m = SubSeq(l, 1, args.PrevLogIndex + 1) \o args.Entries
    PROVE  Spliced(l, args, m)
<1> DEFINE q == args.PrevLogIndex + 1
           r == SubSeq(l, 1, q)
           k == Len(args.Entries)
<1>1. /\ q \in 1 .. Len(l) /\ Len(l) \in Nat /\ k \in Nat
      /\ l[q].Term = args.PrevLogTerm
  BY DEF Fits
<1>2. r \in Seq(Entry) /\ Len(r) = q /\ \A n \in 1 .. q : r[n] = l[n]
  <2> HIDE DEF q
  <2>1. \A n \in 1 .. q : l[n] \in Entry
    BY <1>1
  <2>2. /\ r \in Seq(Entry)
        /\ Len(r) = IF 1 <= q THEN q - 1 + 1 ELSE 0
        /\ \A n \in 1 .. q - 1 + 1 : r[n] = l[1 + n - 1]
    BY <1>1, <2>1, SubSeqProperties
  <2> QED
    BY <1>1, <2>2
<1>3. m = r \o args.Entries
  OBVIOUS
<1> HIDE DEF r
<1>4. /\ Len(m) = q + k
      /\ \A n \in 1 .. q : m[n] = l[n]
      /\ \A n \in 1 .. k : m[q + n] = args.Entries[n]
  <2>1. /\ Len(m) = Len(r) + k
        /\ \A n \in 1 .. Len(r) + k :
              m[n] = IF n <= Len(r) THEN r[n] ELSE args.Entries[n - Len(r)]
    <3> DEFINE x == args.Entries
    <3>1. r \in Seq(Entry) /\ x \in Seq(Entry) /\ m = r \o x
      BY <1>2, <1>3
    <3>2. k = Len(x)
      OBVIOUS
    <3> HIDE DEF x, k, q
    <3>3. Joins(m, r, x)
      BY <3>1, JoinLogs, Zenon
    <3> QED
      BY <3>2, <3>3 DEF x, Joins
  <2> HIDE DEF q, k
  <2>2. \A n \in 1 .. k : /\ q + n \in 1 .. q + k /\ ~(q + n <= q)
                          /\ q + n - q = n
    BY <1>1
  <2>3. ASSUME NEW n \in 1 .. k
        PROVE  m[q + n] = args.Entries[n]
    <3> DEFINE h == q + n
    <3>1. h \in 1 .. Len(r) + k /\ ~(h <= Len(r)) /\ h - Len(r) = n
      BY <1>2, <2>2
    <3> HIDE DEF h
    <3>2. m[h] = args.Entries[h - Len(r)]
      BY <2>1, <3>1
    <3> QED
      BY <3>1, <3>2 DEF h
  <2>4. \A n \in 1 .. q : n \in 1 .. q + k /\ n <= q
    BY <1>1
  <2> QED
    BY <1>2, <2>1, <2>3, <2>4
<1> QED
  BY <1>4 DEF Spliced

(* A log that accepted a call has its own links and those of the call. *)
LEMMA AcceptLinks ==
    ASSUME NEW l \in Seq(Entry), NEW args, args.PrevLogIndex \in Nat,
           args.Entries \in Seq(Entry), Fits(l, args),
           NEW m, m = SubSeq(l, 1, args.PrevLogIndex + 1) \o args.Entries
    PROVE  /\ Len(m) > 0 /\ m[1] = l[1]
           /\ \A p, v, e : LogLink(m, p, v, e) =>
                 LogLink(l, p, v, e) \/ ArgsLink(args, p, v, e)
<1> DEFINE q == args.PrevLogIndex + 1
           k == Len(args.Entries)
<1>1. /\ q \in 1 .. Len(l) /\ Len(l) \in Nat /\ k \in Nat
      /\ l[q].Term = args.PrevLogTerm
  BY DEF Fits
<1>2. Spliced(l, args, m)
  BY SplicedLog
<1>3. /\ Len(m) = q + k
      /\ \A n \in 1 .. q : m[n] = l[n]
      /\ \A n \in 1 .. k : m[q + n] = args.Entries[n]
  BY <1>2 DEF Spliced
<1>4. ASSUME NEW p, NEW v, NEW e, LogLink(m, p, v, e)
      PROVE  LogLink(l, p, v, e) \/ ArgsLink(args, p, v, e)
  <2>1. p \in 2 .. q + k /\ v = m[p - 1].Term /\ e = m[p]
    BY <1>3, <1>4 DEF LogLink
  <2>2. CASE p <= q
    <3>1. p \in 1 .. q /\ p - 1 \in 1 .. q /\ p \in 2 .. Len(l)
      BY <1>1, <2>1, <2>2
    <3> QED
      BY <1>3, <2>1, <3>1 DEF LogLink
  <2>3. CASE ~(p <= q)
    <3> HIDE DEF q, k
    <3>1. PICK n \in 1 .. k : p = q + n
      <4>1. p - q \in 1 .. k /\ p = q + (p - q)
        BY <1>1, <2>1, <2>3
      <4> QED
        BY <4>1
    <3>2. e = args.Entries[n]
      BY <1>3, <2>1, <3>1
    <3>3. v = IF n = 1 THEN args.PrevLogTerm ELSE args.Entries[n - 1].Term
      <4>1. CASE n = 1
        <5>1. p - 1 = q /\ q \in 1 .. q
          BY <1>1, <3>1, <4>1
        <5> QED
          BY <1>1, <1>3, <2>1, <4>1, <5>1
      <4>2. CASE n # 1
        <5>1. p - 1 = q + (n - 1) /\ n - 1 \in 1 .. k
          BY <1>1, <3>1, <4>2
        <5> QED
          BY <1>3, <2>1, <4>2, <5>1
      <4> QED
        BY <4>1, <4>2
    <3>4. p = args.PrevLogIndex + 1 + n
      BY <3>1 DEF q
    <3> QED
      BY <3>2, <3>3, <3>4 DEF ArgsLink, k
  <2> QED
    BY <2>2, <2>3
<1> QED
  BY <1>1, <1>3, <1>4

(* the link that the leader i makes when it appends an entry of its term *)
MadeBy(i, p, e) ==
    /\ rf[i].status = Leader
    /\ p = Len(rf[i].logs) + 1 /\ e \in Entry /\ e.Term = rf[i].currentTerm
    /\ rf'[i].logs = Append(rf[i].logs, e)

(* Appending makes one link. *)
LEMMA AppendLinks ==
    ASSUME NEW l \in Seq(Entry), NEW g \in Entry, Len(l) > 0,
           NEW p, NEW v, NEW e, LogLink(Append(l, g), p, v, e)
    PROVE  \/ LogLink(l, p, v, e)
           \/ p = Len(l) + 1 /\ e = g /\ v = l[p - 1].Term
<1> DEFINE m == Append(l, g)
<1>1. /\ Len(l) \in Nat /\ Len(m) = Len(l) + 1 /\ m[Len(l) + 1] = g
      /\ \A n \in 1 .. Len(l) : m[n] = l[n]
  BY AppendProperties
<1>2. p \in 2 .. Len(l) + 1 /\ v = m[p - 1].Term /\ e = m[p]
  BY <1>1 DEF LogLink
<1>3. p - 1 \in 1 .. Len(l)
  BY <1>1, <1>2
<1>4. CASE p = Len(l) + 1
  BY <1>1, <1>2, <1>3, <1>4
<1>5. CASE p # Len(l) + 1
  <2>1. p \in 2 .. Len(l) /\ p \in 1 .. Len(l)
    BY <1>1, <1>2, <1>5
  <2> QED
    BY <1>1, <1>2, <1>3, <2>1 DEF LogLink
<1> QED
  BY <1>4, <1>5

(* Every link after a step was there before, or a leader just made it. *)
LEMMA LinkStep ==
    ASSUME Inv, Inv', RaftStep, StartsWithFiller, NEW p, NEW v, NEW e, Link(p, v, e)'
    PROVE  \/ Link(p, v, e)
           \/ \E i \in Server : MadeBy(i, p, e) /\ v = rf[i].logs[p - 1].Term
<1>1. \A i \in Server : rf[i].logs \in Seq(Entry)
  BY DEF Inv, PeersOK, RaftState
<1>2. \A c \in appendCalls : c.args.PrevLogIndex \in Nat /\ c.args.Entries \in Seq(Entry)
                             /\ c.caller \in Server
  BY DEF Inv, CallsOK, AppendOK, AppendCall, Call
<1>3. ASSUME NEW i \in Server, LogLink(rf'[i].logs, p, v, e)
      PROVE  Link(p, v, e) \/ (MadeBy(i, p, e) /\ v = rf[i].logs[p - 1].Term)
  <2>1. LogTurn(i, rf[i], rf'[i])
    BY DEF RaftStep, PeerTurn
  <2>2. CASE rf'[i].logs = rf[i].logs
    BY <1>3, <2>2 DEF Link
  <2>3. CASE /\ rf[i].status = Leader
             /\ \E f \in Entry : f.Term = rf[i].currentTerm /\ rf'[i].logs = Append(rf[i].logs, f)
    <3>1. PICK f \in Entry : f.Term = rf[i].currentTerm /\ rf'[i].logs = Append(rf[i].logs, f)
      BY <2>3
    <3>2. Len(rf[i].logs) > 0
      BY DEF StartsWithFiller
    <3>3. \/ LogLink(rf[i].logs, p, v, e)
          \/ p = Len(rf[i].logs) + 1 /\ e = f /\ v = rf[i].logs[p - 1].Term
      <4>1. LogLink(Append(rf[i].logs, f), p, v, e)
        BY <1>3, <3>1
      <4> QED
        BY <1>1, <3>2, <4>1, AppendLinks
    <3> QED
      BY <2>3, <3>1, <3>3 DEF Link, MadeBy
  <2>4. CASE \E c \in appendCalls :
             /\ Fits(rf[i].logs, c.args)
             /\ rf'[i].logs = SubSeq(rf[i].logs, 1, c.args.PrevLogIndex + 1) \o c.args.Entries
    <3>1. PICK c \in appendCalls :
             /\ Fits(rf[i].logs, c.args)
             /\ rf'[i].logs = SubSeq(rf[i].logs, 1, c.args.PrevLogIndex + 1) \o c.args.Entries
      BY <2>4
    <3>2. LogLink(rf[i].logs, p, v, e) \/ ArgsLink(c.args, p, v, e)
      BY <1>1, <1>2, <1>3, <3>1, AcceptLinks
    <3> QED
      BY <3>2 DEF Link
  <2> QED
    BY <2>1, <2>2, <2>3, <2>4 DEF LogTurn
<1>4. ASSUME NEW c \in appendCalls', ArgsLink(c.args, p, v, e)
      PROVE  Link(p, v, e)
  <2>1. CASE OldAppend(c)
    BY <1>4, <2>1 DEF OldAppend, Link
  <2>2. CASE NewAppend(c) /\ SentFrom(rf[c.caller].logs, c.args)
    <3>1. c.caller \in Server /\ c.args.PrevLogIndex \in Nat
      BY DEF Inv, CallsOK, AppendOK, AppendCall, Call
    <3>2. LogLink(rf[c.caller].logs, p, v, e)
      BY <1>1, <1>4, <2>2, <3>1, SentLinks
    <3> QED
      BY <3>1, <3>2 DEF Link
  <2> QED
    BY <2>1, <2>2 DEF RaftStep
<1> QED
  BY <1>3, <1>4 DEF Link

(* The log invariant is inductive. *)
LEMMA LinkInvStays ==
    ASSUME Inv, Inv', RaftStep, BallotInv, LinkInv, Cardinality(Server) <= 3
    PROVE  LinkInv'
<1>1. BallotTypes /\ BallotTypes' /\ BallotStep
  BY TypesOfBallots, StepOfBallots, PTL
<1>2. \A i \in Server : rf[i].logs \in Seq(Entry) /\ Len(rf[i].logs) \in Nat
  <2>1. \A i \in Server : rf[i].logs \in Seq(Entry)
    BY DEF Inv, PeersOK, RaftState
  <2> QED
    BY <2>1
<1>3. ASSUME NEW i \in Server, NEW p, NEW e, MadeBy(i, p, e)
      PROVE  \A w, f : ~(Link(p, w, f) /\ f.Term = e.Term)
  <2> SUFFICES ASSUME NEW w, NEW f, Link(p, w, f), f.Term = e.Term
               PROVE  FALSE
    OBVIOUS
  <2>1. p <= Len(rf[i].logs)
    BY <1>3 DEF LinkInv, LeaderHasAll, MadeBy
  <2> QED
    BY <1>2, <1>3, <2>1 DEF MadeBy
<1>4. LinksAgree'
  <2> SUFFICES ASSUME NEW p, NEW v, NEW e, NEW w, NEW f,
                      Link(p, v, e)', Link(p, w, f)', e.Term = f.Term
               PROVE  v = w /\ e = f
    BY DEF LinksAgree
  <2>1. \/ Link(p, v, e)
        \/ \E i \in Server : MadeBy(i, p, e) /\ v = rf[i].logs[p - 1].Term
    BY LinkStep DEF LinkInv
  <2>2. \/ Link(p, w, f)
        \/ \E i \in Server : MadeBy(i, p, f) /\ w = rf[i].logs[p - 1].Term
    BY LinkStep DEF LinkInv
  <2>3. CASE Link(p, v, e) /\ Link(p, w, f)
    BY <2>3 DEF LinkInv, LinksAgree
  <2>4. CASE \E i, j \in Server : /\ MadeBy(i, p, e) /\ v = rf[i].logs[p - 1].Term
                                  /\ MadeBy(j, p, f) /\ w = rf[j].logs[p - 1].Term
    <3>1. PICK i \in Server, j \in Server :
             /\ MadeBy(i, p, e) /\ v = rf[i].logs[p - 1].Term
             /\ MadeBy(j, p, f) /\ w = rf[j].logs[p - 1].Term
      BY <2>4
    <3>2. i = j
      BY <3>1 DEF MadeBy, BallotInv, ElectionSafety
    <3>3. Append(rf[i].logs, e) = Append(rf[i].logs, f)
      BY <3>1, <3>2 DEF MadeBy
    <3>4. e = f
      BY <1>2, <3>3
    <3> QED
      BY <3>1, <3>2, <3>4
  <2> QED
    BY <1>3, <2>1, <2>2, <2>3, <2>4
<1>5. LeaderHasAll'
  <2> SUFFICES ASSUME NEW i \in Server, rf'[i].status = Leader, NEW p, NEW v, NEW e,
                      Link(p, v, e)', e.Term = rf'[i].currentTerm
               PROVE  p <= Len(rf'[i].logs)
    BY DEF LeaderHasAll
  <2>1. PICK t \in Nat :
              /\ rf'[i].currentTerm = t + 1
              /\ \/ rf[i].status = Leader /\ rf[i].currentTerm = t + 1 /\ Won(t, i)
                 \/ \A j \in Server : ~Won(t, j)
    BY <1>1, LeaderStep
  <2>2. CASE Link(p, v, e)
    <3>1. \E j \in Server : Won(t, j)
      <4>1. PICK u \in Nat, j \in Server : e.Term = u + 1 /\ Won(u, j)
        BY <2>2 DEF LinkInv, TermsAreWon
      <4>2. u = t
        BY <2>1, <4>1
      <4> QED
        BY <4>1, <4>2
    <3>2. rf[i].status = Leader /\ rf[i].currentTerm = t + 1
      BY <2>1, <3>1
    <3>3. p <= Len(rf[i].logs)
      BY <2>1, <2>2, <3>2 DEF LinkInv, LeaderHasAll
    <3>4. LogTurn(i, rf[i], rf'[i])
      BY DEF RaftStep, PeerTurn
    <3>5. CASE rf'[i].logs = rf[i].logs
      BY <3>3, <3>5
    <3>6. CASE \E f \in Entry : rf'[i].logs = Append(rf[i].logs, f)
      <4>1. Len(rf'[i].logs) = Len(rf[i].logs) + 1
        BY <1>2, <3>6, AppendProperties
      <4>2. p \in Int
        <5>1. \A c \in appendCalls : c.args.PrevLogIndex \in Nat
          BY DEF Inv, CallsOK, AppendOK, AppendCall, Call
        <5>2. \A c \in appendCalls : ArgsLink(c.args, p, v, e) => p \in Int
          BY <5>1 DEF ArgsLink
        <5>3. \A j \in Server : LogLink(rf[j].logs, p, v, e) => p \in Int
          BY DEF LogLink
        <5> QED
          BY <2>2, <5>2, <5>3 DEF Link
      <4> QED
        BY <1>2, <3>3, <4>1, <4>2
    <3> QED
      BY <3>4, <3>5, <3>6 DEF LogTurn, Follower, Leader
  <2>3. CASE \E j \in Server : MadeBy(j, p, e)
    <3>1. PICK j \in Server : MadeBy(j, p, e)
      BY <2>3
    <3>2. rf[j].status = Leader /\ rf[j].currentTerm = t + 1
      BY <2>1, <3>1 DEF MadeBy
    <3>3. Won(t, j)
      <4>1. rf[j].currentTerm - 1 = t
        BY <3>2
      <4> QED
        BY <3>2, <4>1 DEF BallotInv, LeadersWon
    <3>4. i = j
      BY <2>1, <3>2, <3>3 DEF BallotInv, ElectionSafety
    <3>5. e \in Entry
      BY <3>1 DEF MadeBy
    <3>6. Len(rf'[i].logs) = p
      BY <1>2, <3>1, <3>4, <3>5, AppendProperties DEF MadeBy
    <3> QED
      BY <1>2, <3>1, <3>6 DEF MadeBy
  <2> QED
    BY <2>2, <2>3, LinkStep DEF LinkInv
<1>6. TermsAreWon'
  <2> SUFFICES ASSUME NEW p, NEW v, NEW e, Link(p, v, e)'
               PROVE  \E t \in Nat, j \in Server : e.Term = t + 1 /\ Won(t, j)'
    BY DEF TermsAreWon
  <2>1. CASE Link(p, v, e)
    <3>1. PICK t \in Nat, j \in Server : e.Term = t + 1 /\ Won(t, j)
      BY <2>1 DEF LinkInv, TermsAreWon
    <3> QED
      BY <1>1, <3>1, WonStays
  <2>2. CASE \E j \in Server : MadeBy(j, p, e)
    <3>1. PICK j \in Server : MadeBy(j, p, e)
      BY <2>2
    <3>2. rf[j].status = Leader /\ e.Term = rf[j].currentTerm /\ rf[j].currentTerm \in Nat
      BY <1>1, <3>1 DEF MadeBy, BallotTypes
    <3>3. PICK t \in Nat : rf[j].currentTerm = t + 1 /\ t = rf[j].currentTerm - 1
      BY <3>2 DEF BallotInv, LeadersWon
    <3>4. Won(t, j)
      BY <3>2, <3>3 DEF BallotInv, LeadersWon
    <3> QED
      BY <1>1, <3>2, <3>3, <3>4, WonStays
  <2> QED
    BY <2>1, <2>2, LinkStep DEF LinkInv
<1>7. StartsWithFiller'
  <2> SUFFICES ASSUME NEW i \in Server
               PROVE  Len(rf'[i].logs) > 0 /\ rf'[i].logs[1] = filler
    BY DEF StartsWithFiller
  <2>1. Len(rf[i].logs) > 0 /\ rf[i].logs[1] = filler
    BY DEF LinkInv, StartsWithFiller
  <2>2. LogTurn(i, rf[i], rf'[i])
    BY DEF RaftStep, PeerTurn
  <2>3. CASE rf'[i].logs = rf[i].logs
    BY <2>1, <2>3
  <2>4. CASE \E f \in Entry : rf'[i].logs = Append(rf[i].logs, f)
    <3>1. 1 \in 1 .. Len(rf[i].logs)
      BY <1>2, <2>1
    <3>2. Len(rf'[i].logs) = Len(rf[i].logs) + 1 /\ rf'[i].logs[1] = rf[i].logs[1]
      BY <1>2, <2>4, <3>1, AppendProperties
    <3> QED
      BY <1>2, <2>1, <3>2
  <2>5. CASE \E c \in appendCalls :
             /\ Fits(rf[i].logs, c.args)
             /\ rf'[i].logs = SubSeq(rf[i].logs, 1, c.args.PrevLogIndex + 1) \o c.args.Entries
    <3>1. PICK c \in appendCalls :
             /\ Fits(rf[i].logs, c.args)
             /\ rf'[i].logs = SubSeq(rf[i].logs, 1, c.args.PrevLogIndex + 1) \o c.args.Entries
      BY <2>5
    <3>2. c.args.PrevLogIndex \in Nat /\ c.args.Entries \in Seq(Entry)
      BY DEF Inv, CallsOK, AppendOK, AppendCall, Call
    <3>3. Len(rf'[i].logs) > 0 /\ rf'[i].logs[1] = rf[i].logs[1]
      BY <1>2, <3>1, <3>2, AcceptLinks
    <3> QED
      BY <2>1, <3>3
  <2> QED
    BY <2>2, <2>3, <2>4, <2>5 DEF LogTurn
<1> QED
  BY <1>4, <1>5, <1>6, <1>7 DEF LinkInv

(* In the initial state there are no links. *)
LEMMA InitLinks == Init => LinkInv
<1> SUFFICES ASSUME Init PROVE LinkInv
  OBVIOUS
<1>1. \A i \in Server : rf[i].logs = <<filler>> /\ rf[i].status = Follower
  BY InitFields
<1>2. Len(<<filler>>) = 1 /\ <<filler>>[1] = filler
  OBVIOUS
<1>3. \A i \in Server : Len(rf[i].logs) = 1 /\ rf[i].logs[1] = filler
  BY <1>1, <1>2
<1>4. ASSUME NEW p, NEW v, NEW e PROVE ~Link(p, v, e)
  <2>1. appendCalls = {}
    BY DEF Init
  <2>2. \A i \in Server : ~LogLink(rf[i].logs, p, v, e)
    BY <1>3 DEF LogLink
  <2> QED
    BY <2>1, <2>2 DEF Link
<1> QED
  BY <1>3, <1>4 DEF LinkInv, LinksAgree, LeaderHasAll, TermsAreWon, StartsWithFiller

\* Arithmetic of a walk back from the place where two logs first share a link.
LEMMA CountDown ==
    ASSUME NEW n \in Nat, NEW k \in Nat, k + 2 <= n
    PROVE  /\ n - k \in 1 .. n /\ n - k > 1 /\ n - (k + 1) = (n - k) - 1
           /\ n - (k + 1) \in 1 .. n /\ k + 1 \in 0 .. n - 1
OBVIOUS

(* Links that agree make logs that agree: from an entry of the same position and
   term down, one link after the other, to the filler. *)
LEMMA LinksMatch ==
    ASSUME Inv, LinkInv, NEW i \in Server, NEW j \in Server,
           NEW n \in 1 .. Len(rf[i].logs), n \in 1 .. Len(rf[j].logs),
           rf[i].logs[n].Term = rf[j].logs[n].Term
    PROVE  \A k \in 1 .. n : rf[i].logs[k] = rf[j].logs[k]
<1> DEFINE a == rf[i].logs
           b == rf[j].logs
           S == {k \in 0 .. n - 1 : a[n - k] = b[n - k]}
<1>1. Len(a) \in Nat /\ Len(b) \in Nat /\ n \in Nat \ {0} /\ n <= Len(a) /\ n <= Len(b)
  <2>1. a \in Seq(Entry) /\ b \in Seq(Entry)
    BY DEF Inv, PeersOK, RaftState
  <2> QED
    BY <2>1
<1>2. ASSUME NEW k \in 1 .. n, a[k].Term = b[k].Term
      PROVE  /\ a[k] = b[k]
             /\ k > 1 => a[k - 1].Term = b[k - 1].Term
  <2>1. CASE k = 1
    BY <2>1 DEF LinkInv, StartsWithFiller
  <2>2. CASE k > 1
    <3>1. k \in 2 .. Len(a) /\ k \in 2 .. Len(b)
      BY <1>1, <2>2
    <3>2. Link(k, a[k - 1].Term, a[k]) /\ Link(k, b[k - 1].Term, b[k])
      BY <3>1 DEF Link, LogLink
    <3> QED
      BY <1>2, <3>2 DEF LinkInv, LinksAgree
  <2>3. k = 1 \/ k > 1
    OBVIOUS
  <2> HIDE DEF a, b
  <2> QED
    BY <2>1, <2>2, <2>3, Zenon
<1>3. 0 \in S
  <2>1. n \in 1 .. n /\ n - 0 = n /\ 0 \in 0 .. n - 1
    BY <1>1
  <2> QED
    BY <1>2, <2>1
<1>4. ASSUME NEW k \in 0 .. (n - 1) - 1, k \in S PROVE k + 1 \in S
  <2>1. /\ n - k \in 1 .. n /\ n - k > 1 /\ n - (k + 1) = (n - k) - 1
        /\ n - (k + 1) \in 1 .. n /\ k + 1 \in 0 .. n - 1
    <3>1. n \in Nat /\ k \in Nat /\ k + 2 <= n
      BY <1>1
    <3> QED
      BY <3>1, CountDown
  <2>2. a[n - (k + 1)].Term = b[n - (k + 1)].Term
    BY <1>2, <1>4, <2>1
  <2>3. a[n - (k + 1)] = b[n - (k + 1)]
    BY <1>2, <2>1, <2>2
  <2> QED
    BY <2>1, <2>3
<1>5. n - 1 \in Nat
  BY <1>1
<1> HIDE DEF S
<1>6. \A k \in 0 .. n - 1 : k \in S
  BY <1>3, <1>4, <1>5, InductionUpTo
<1>7. ASSUME NEW k \in 1 .. n PROVE a[k] = b[k]
  <2>1. n - k \in 0 .. n - 1 /\ n - (n - k) = k
    BY <1>1
  <2> QED
    BY <1>6, <2>1 DEF S
<1> QED
  BY <1>7

(* The inductive invariant behind the two theorems below *)
SafeInv == Inv /\ NoSnapshots /\ BallotInv /\ LinkInv

\* A step keeps the whole invariant, between at most three servers that take no snapshots.
LEMMA SafeInvStays ==
    ASSUME ~Snapshots, Cardinality(Server) <= 3, SafeInv, [Next]_vars
    PROVE  SafeInv'
<1>1. Inv' /\ RaftStep /\ NoSnapshots'
  BY NextOK, NextTurn DEF SafeInv, BallotInv
<1>2. BallotTypes /\ BallotTypes'
  BY <1>1, TypesOfBallots, PTL DEF SafeInv
<1>3. BallotInv'
  BY <1>1, <1>2, StepOfBallots, BallotInvStays DEF SafeInv
<1>4. LinkInv'
  BY <1>1, LinkInvStays DEF SafeInv
<1> QED
  BY <1>1, <1>3, <1>4 DEF SafeInv

\* The invariant holds in every state that at most three servers without snapshots reach.
LEMMA SafeInvariant == ~Snapshots /\ Cardinality(Server) <= 3 => (Spec => []SafeInv)
<1> SUFFICES ASSUME ~Snapshots, Cardinality(Server) <= 3
             PROVE  Spec => []SafeInv
  OBVIOUS
<1>1. Init => SafeInv
  BY InitOK, InitBallots, InitLinks DEF SafeInv
<1>2. SafeInv /\ [Next]_vars => SafeInv'
  BY SafeInvStays
<1> QED
  BY <1>1, <1>2, PTL DEF Spec

(* No two servers lead in the same term, in a cluster of at most three that takes no
   snapshots, whatever is lost, delayed, reordered or killed.  Both hypotheses are
   needed: a vote counted twice, and a vote erased by InstallSnapshot, elect two. *)
THEOREM AtMostOneLeader ==
    ~Snapshots /\ Cardinality(Server) <= 3 => (Spec => []ElectionSafety)
<1>1. SafeInv => ElectionSafety
  BY DEF SafeInv, BallotInv
<1> QED
  BY <1>1, SafeInvariant, PTL

(* Logs that hold an entry of the same index and term are the same up to there, in
   such a cluster: the consistency check of AppendEntries does what it is for, though
   it truncates unconditionally. *)
THEOREM LogsMatch ==
    ~Snapshots /\ Cardinality(Server) <= 3 => (Spec => []LogMatching)
<1>1. SafeInv => LogMatching
  <2> SUFFICES ASSUME SafeInv, NEW i \in Server, NEW j \in Server,
                      NEW n \in DOMAIN rf[i].logs \cap DOMAIN rf[j].logs,
                      rf[i].logs[n].Term = rf[j].logs[n].Term
               PROVE  SubSeq(rf[i].logs, 1, n) = SubSeq(rf[j].logs, 1, n)
    BY DEF LogMatching
  <2> DEFINE a == rf[i].logs
             b == rf[j].logs
  <2>1. a \in Seq(Entry) /\ b \in Seq(Entry)
    BY DEF SafeInv, Inv, PeersOK, RaftState
  <2>2. n \in 1 .. Len(a) /\ n \in 1 .. Len(b) /\ Len(a) \in Nat /\ Len(b) \in Nat
    BY <2>1
  <2>3. \A k \in 1 .. n : a[k] = b[k]
    BY <2>2, LinksMatch DEF SafeInv
  <2> HIDE DEF a, b
  <2>4. SubSeq(a, 1, n) = [k \in 1 .. n |-> a[k]] /\ SubSeq(b, 1, n) = [k \in 1 .. n |-> b[k]]
    BY <2>1, <2>2
  <2>5. SubSeq(a, 1, n) = SubSeq(b, 1, n)
    BY <2>3, <2>4
  <2> QED
    BY <2>5 DEF a, b
<1> QED
  BY <1>1, SafeInvariant, PTL

-----------------------------------------------------------------------------
(* Acknowledged entries.  Any number of AppendEntries calls between the same two *)
(* servers may overlap and overtake each other.                                  *)

(* who sends in a term won the election before it *)
CallsWon == \A c \in appendCalls :
    \E t \in Nat : c.args.Term = t + 1 /\ Won(t, c.caller)

CallersLed == \A c \in appendCalls : \A i \in Server :
    rf[i].status = Leader /\ rf[i].currentTerm = c.args.Term => i = c.caller

CallersAgree == \A c, d \in appendCalls :
    c.args.Term = d.args.Term => c.caller = d.caller

(* the log l has the entries of args where they belong *)
Holds(l, args) == \A n \in 1 .. Len(args.Entries) :
    /\ args.PrevLogIndex + 1 + n \in 1 .. Len(l)
    /\ l[args.PrevLogIndex + 1 + n] = args.Entries[n]

(* where the entries of a and of b overlap they are the same *)
Agree(a, b) == \A n \in 1 .. Len(a.Entries), m \in 1 .. Len(b.Entries) :
    a.PrevLogIndex + n = b.PrevLogIndex + m => a.Entries[n] = b.Entries[m]

(* a leader still has what it sent in its term *)
CallsFromLeader == \A c \in appendCalls : \A i \in Server :
    rf[i].status = Leader /\ rf[i].currentTerm = c.args.Term => Holds(rf[i].logs, c.args)

CallsAgree == \A c, d \in appendCalls : c.args.Term = d.args.Term => Agree(c.args, d.args)

(* who acknowledged a call is in its term or past it *)
AckTerms == \A c \in appendCalls : acked(c) => rf[c.callee].currentTerm >= c.args.Term

AckInv ==
    CallsWon /\ CallersLed /\ CallersAgree /\ CallsFromLeader /\ CallsAgree /\ AckTerms

(* a call that was there: nothing was acknowledged in this step *)
OldCall(c) == \E d \in appendCalls : sameCall(c, d) /\ (acked(c) => acked(d))

(* the follower accepts the entries of c in this step *)
JustAcked(c) ==
    LET s == rf[c.callee]
        u == rf'[c.callee]
    IN
    /\ u.currentTerm = c.args.Term
    /\ Fits(s.logs, c.args)
    /\ u.logs = SubSeq(s.logs, 1, c.args.PrevLogIndex + 1) \o c.args.Entries

CallStep ==
    \A c \in appendCalls' : OldCall(c) \/ JustAcked(c) \/ c.stage = "request"

(* No call is added or changed. *)
LEMMA FewerSteps ==
    ASSUME appendCalls' \subseteq appendCalls
    PROVE  CallStep
BY DEF CallStep, OldCall, sameCall

(* One call gets on. *)
LEMMA CallGetsOn ==
    ASSUME NEW c \in appendCalls, NEW e, sameCall(e, c),
           acked(e) => acked(c) \/ JustAcked(e),
           appendCalls' \subseteq (appendCalls \ {c}) \cup {e}
    PROVE  CallStep
<1>1. OldCall(e) \/ JustAcked(e)
  BY DEF OldCall
<1>2. \A d \in appendCalls \ {c} : OldCall(d)
  BY DEF OldCall, sameCall
<1> QED
  BY <1>1, <1>2 DEF CallStep

(* c with another stage and reply *)
Moved(c, st, r) == [c EXCEPT !.stage = st, !.reply = r]

(* A call gets another stage and reply. *)
LEMMA CallMoves ==
    ASSUME CallsOK, NEW c \in appendCalls, NEW st, NEW r,
           \/ st \notin {"serveCommit", "serveApply", "reply"}
           \/ ~r.Success
           \/ r = c.reply /\ c.stage \in {"serveCommit", "serveApply", "reply"}
           \/ JustAcked(Moved(c, st, r)),
           appendCalls' \subseteq (appendCalls \ {c}) \cup {Moved(c, st, r)}
    PROVE  CallStep
<1> DEFINE e == Moved(c, st, r)
<1>1. c \in AppendCall
  BY DEF CallsOK, AppendOK
<1>2. /\ sameCall(e, c) /\ e.stage = st /\ e.reply = r
  BY <1>1 DEF AppendCall, Call, sameCall, Moved
<1>3. acked(e) => acked(c) \/ JustAcked(e)
  BY <1>2 DEF acked
<1> HIDE DEF e
<1>4. appendCalls' \subseteq (appendCalls \ {c}) \cup {e}
  BY DEF e
<1> QED
  BY <1>2, <1>3, <1>4, CallGetsOn

(* The caller of a call is gone. *)
LEMMA CallDies ==
    ASSUME CallsOK, NEW c \in appendCalls,
           appendCalls' \subseteq (appendCalls \ {c}) \cup {[c EXCEPT !.live = FALSE]}
    PROVE  CallStep
<1> DEFINE e == [c EXCEPT !.live = FALSE]
<1>1. c \in AppendCall
  BY DEF CallsOK, AppendOK
<1>2. sameCall(e, c) /\ e.stage = c.stage /\ e.reply = c.reply
  BY <1>1 DEF AppendCall, Call, sameCall
<1>3. acked(e) => acked(c)
  BY <1>2 DEF acked
<1> HIDE DEF e
<1>4. appendCalls' \subseteq (appendCalls \ {c}) \cup {e}
  BY DEF e
<1> QED
  BY <1>2, <1>3, <1>4, CallGetsOn

(* finish(c) *)
LEMMA FinishSteps ==
    ASSUME CallsOK, NEW c \in appendCalls, appendCalls' = finish(c)
    PROVE  CallStep
<1>1. CASE c.stage \in {"serveCommit", "serveApply"} /\ c.live
  <2>1. appendCalls' \subseteq (appendCalls \ {c}) \cup {Moved(c, "reply", c.reply)}
    BY <1>1, Zenon DEF finish, answer, Moved
  <2> QED
    BY <1>1, <2>1, CallMoves
<1>2. CASE ~(c.stage \in {"serveCommit", "serveApply"} /\ c.live)
  BY <1>2, FewerSteps DEF finish, answer
<1> QED
  BY <1>1, <1>2

(* What a kill leaves of the calls. *)
LEMMA OrphanSteps ==
    ASSUME CallsOK, NEW i, NEW ac, ac \subseteq appendCalls,
           appendCalls' = orphaned(ac, i)
    PROVE  CallStep
<1> SUFFICES ASSUME NEW d \in appendCalls'
             PROVE  \E c \in appendCalls : sameCall(d, c) /\ (acked(d) => acked(c))
  BY DEF CallStep, OldCall
<1>1. PICK c \in ac : d = [c EXCEPT !.live = c.live /\ c.caller # i]
  BY DEF orphaned
<1> DEFINE l == c.live /\ c.caller # i
<1>2. d = [c EXCEPT !.live = l] /\ c \in AppendCall /\ c \in appendCalls
  BY <1>1 DEF CallsOK, AppendOK
<1> HIDE DEF l
<1>3. sameCall(d, c) /\ d.stage = c.stage /\ d.reply = c.reply
  BY <1>2 DEF AppendCall, Call, sameCall
<1>4. acked(d) => acked(c)
  BY <1>3 DEF acked
<1> QED
  BY <1>2, <1>3, <1>4

(* handleSendAppendEntries *)
LEMMA handleSendAppendEntriesCalls ==
    ASSUME NEW i, NEW j, NEW id, handleSendAppendEntries(i, j, id)
    PROVE  CallStep
<1>1. CASE appendCalls' \subseteq appendCalls
  BY <1>1, FewerSteps
<1>2. CASE appendCalls' = appendCalls \cup
              {request(i, j, id, createAppendEntriesArgs(rf[i], i, j))}
  <2> DEFINE e == request(i, j, id, createAppendEntriesArgs(rf[i], i, j))
  <2>1. e.stage = "request"
    BY DEF request
  <2> HIDE DEF e
  <2>2. appendCalls' = appendCalls \cup {e}
    BY <1>2 DEF e
  <2>3. \A c \in appendCalls : OldCall(c)
    BY DEF OldCall, sameCall
  <2> QED
    BY <2>1, <2>2, <2>3 DEF CallStep
<1> QED
  BY <1>1, <1>2 DEF handleSendAppendEntries

(* AppendEntriesWithLock *)
LEMMA AppendEntriesWithLockCalls ==
    ASSUME Inv, NoSnapshots, NEW c \in appendCalls, AppendEntriesWithLock(c)
    PROVE  CallStep
<1> DEFINE i == c.callee
           s == rf[i]
           T == c.args.Term
           f == becomeFollower(s, T, Nil)
<1>1. CallsOK /\ c \in AppendCall
  BY DEF Inv, CallsOK, AppendOK
<1>2. ASSUME NEW r, ~r.Success, appendCalls' = answer(appendCalls, c, r)
      PROVE  CallStep
  <2>1. appendCalls' \subseteq (appendCalls \ {c}) \cup {Moved(c, "reply", r)}
    BY <1>2, Zenon DEF answer, Moved
  <2> QED
    BY <1>1, <1>2, <2>1, CallMoves
<1>3. \A t, b, n : ~appendReply(t, FALSE, b, n).Success
  BY DEF appendReply
<1>4. ASSUME s.currentTerm <= T, logMatches(f, c.args),
             rf' = [rf EXCEPT ![i] = accept(f, c.args)],
             NEW r, appendCalls' = move(appendCalls, c, "serveCommit", r)
      PROVE  CallStep
  <2> DEFINE u == accept(f, c.args)
             e == Moved(c, "serveCommit", r)
  <2>1. /\ i \in Server /\ T \in Nat /\ c.args.PrevLogIndex \in Nat
        /\ c.args.Entries \in Seq(Entry) /\ c.args.LeaderCommit \in Nat \cup {-1}
    BY <1>1 DEF AppendCall, Call
  <2>2. /\ s \in RaftState /\ s.snapshotEntriesAmount = 0 /\ s.currentTerm \in Nat
        /\ Shape(s)
    BY <2>1 DEF Inv, PeersOK, PeerOK, NoSnapshots, RaftState
  <2>3. f \in RaftState
    <3>1. T >= s.currentTerm
      BY <1>4, <2>1, <2>2
    <3> QED
      BY <2>1, <2>2, <3>1, BecomeFollowerOK DEF PeerOK, Shape
  <2>4. f.currentTerm = T /\ f.logs = s.logs /\ f.snapshotEntriesAmount = 0
    BY <2>1, <2>2, FollowerFields
  <2> HIDE DEF f
  <2>5. /\ u.currentTerm = T /\ Fits(s.logs, c.args)
        /\ u.logs = SubSeq(s.logs, 1, c.args.PrevLogIndex + 1) \o c.args.Entries
    <3>1. /\ Same(f, u) /\ Fits(f.logs, c.args)
          /\ u.logs = SubSeq(f.logs, 1, c.args.PrevLogIndex + 1) \o c.args.Entries
      BY <1>4, <2>1, <2>3, <2>4, AcceptFields, Zenon
    <3> HIDE DEF u
    <3> QED
      BY <2>4, <3>1 DEF Same
  <2> HIDE DEF u
  <2>6. rf'[i] = u
    BY <1>4, <2>1 DEF u, Inv, PeersOK
  <2>7. e.callee = i /\ e.args = c.args
    BY <1>1 DEF AppendCall, Call, Moved
  <2>8. JustAcked(e)
    BY <2>5, <2>6, <2>7 DEF JustAcked
  <2>9. appendCalls' \subseteq (appendCalls \ {c}) \cup {e}
    BY <1>4, Zenon DEF move, Moved
  <2> HIDE DEF i, s, T
  <2> QED
    BY <1>1, <2>8, <2>9, CallMoves DEF e
<1>5. \/ \E t, b, n : appendCalls' = answer(appendCalls, c, appendReply(t, FALSE, b, n))
      \/ /\ s.currentTerm <= T /\ logMatches(f, c.args)
         /\ rf' = [rf EXCEPT ![i] = accept(f, c.args)]
         /\ \E r : appendCalls' = move(appendCalls, c, "serveCommit", r)
  BY Zenon DEF AppendEntriesWithLock
<1> HIDE DEF f, i, s, T
<1> QED
  BY <1>2, <1>3, <1>4, <1>5, Zenon

(* commitToApplyChannel *)
LEMMA commitToApplyChannelCalls ==
    ASSUME Inv, NEW c \in appendCalls, commitToApplyChannel(c)
    PROVE  CallStep
<1>1. CASE appendCalls' = finish(c)
  BY <1>1, FinishSteps DEF Inv
<1>2. ASSUME NEW st, c.stage = "serveCommit" \/ st = "leadApply",
             appendCalls' = move(appendCalls, c, st, c.reply)
      PROVE  CallStep
  <2>1. appendCalls' \subseteq (appendCalls \ {c}) \cup {Moved(c, st, c.reply)}
    BY <1>2, Zenon DEF move, Moved
  <2> QED
    BY <1>2, <2>1, CallMoves DEF Inv
<1>3. CASE appendCalls' = move(appendCalls, c,
                IF c.stage = "serveCommit" THEN "serveApply" ELSE "leadApply", c.reply)
  BY <1>2, <1>3
<1>4. CASE appendCalls' = appendCalls
  BY <1>4, FewerSteps
<1> QED
  BY <1>1, <1>3, <1>4 DEF commitToApplyChannel

(* handleAppendEntriesReply *)
LEMMA handleAppendEntriesReplyCalls ==
    ASSUME Inv, NEW c \in appendCalls, handleAppendEntriesReply(c)
    PROVE  CallStep
<1>1. CASE appendCalls' = appendCalls \ {c}
  BY <1>1, FewerSteps
<1>2. CASE appendCalls' = move(appendCalls, c, "leadCommit", c.reply)
  <2>1. appendCalls' \subseteq (appendCalls \ {c}) \cup {Moved(c, "leadCommit", c.reply)}
    BY <1>2, Zenon DEF move, Moved
  <2> QED
    BY <2>1, CallMoves DEF Inv
<1> QED
  BY <1>1, <1>2 DEF handleAppendEntriesReply

(* loseAppendEntries *)
LEMMA loseAppendEntriesCalls ==
    ASSUME Inv, NEW c \in appendCalls, loseAppendEntries(c)
    PROVE  CallStep
<1>1. CASE appendCalls' = appendCalls \ {c}
  BY <1>1, FewerSteps
<1>2. CASE appendCalls' = (appendCalls \ {c}) \cup {[c EXCEPT !.live = FALSE]}
  BY <1>2, CallDies DEF Inv
<1> QED
  BY <1>1, <1>2 DEF loseAppendEntries

(* Every step is such a step. *)
LEMMA NextCalls ==
    ASSUME Inv, NoSnapshots, [Next]_vars
    PROVE  CallStep
<1>1. CASE appendCalls' \subseteq appendCalls
  BY <1>1, FewerSteps
<1>2. CASE UNCHANGED vars
  BY <1>1, <1>2 DEF vars
<1>3. ASSUME NEW i \in Contenders, startElection(i) PROVE CallStep
  BY <1>1, <1>3 DEF startElection
<1>4. ASSUME NEW i \in Server, Snapshot(i) PROVE CallStep
  BY <1>1, <1>4 DEF Snapshot, network
<1>5. ASSUME NEW i \in Server, crash1(i) PROVE CallStep
  BY <1>5, OrphanSteps DEF crash1, Inv
<1>6. ASSUME NEW i \in Server, NEW command \in Value, Start(i, command) PROVE CallStep
  BY <1>1, <1>6 DEF Start, network
<1>7. ASSUME NEW i \in Server, NEW j \in Server, NEW id \in 1 .. Slots,
             \/ handleSendRequestVote(i, j, id)
             \/ handleSendAppendEntries(i, j, id)
             \/ handleSendInstallSnapshot(i, j, id)
      PROVE  CallStep
  <2>1. CASE handleSendAppendEntries(i, j, id)
    BY <2>1, handleSendAppendEntriesCalls
  <2>2. CASE handleSendRequestVote(i, j, id)
    BY <1>1, <2>2 DEF handleSendRequestVote
  <2>3. CASE handleSendInstallSnapshot(i, j, id)
    BY <1>1, <2>3 DEF handleSendInstallSnapshot
  <2> QED
    BY <1>7, <2>1, <2>2, <2>3
<1>8. ASSUME NEW c \in voteCalls,
             RequestVote(c) \/ handleRequestVoteReply(c) \/ loseRequestVote(c)
      PROVE  CallStep
  BY <1>1, <1>8 DEF RequestVote, handleRequestVoteReply, loseRequestVote
<1>9. ASSUME NEW c \in appendCalls,
             \/ AppendEntriesWithLock(c) \/ commitToApplyChannel(c) \/ receiveApplyMsg(c)
             \/ handleAppendEntriesReply(c) \/ loseAppendEntries(c) \/ crashInAppendEntries(c)
      PROVE  CallStep
  <2>1. CASE AppendEntriesWithLock(c)
    BY <2>1, AppendEntriesWithLockCalls
  <2>2. CASE commitToApplyChannel(c)
    BY <2>2, commitToApplyChannelCalls
  <2>3. CASE receiveApplyMsg(c)
    BY <1>1, <2>3, FinishSteps DEF receiveApplyMsg, Inv
  <2>4. CASE handleAppendEntriesReply(c)
    BY <2>4, handleAppendEntriesReplyCalls
  <2>5. CASE loseAppendEntries(c)
    BY <2>5, loseAppendEntriesCalls
  <2>6. CASE crashInAppendEntries(c)
    <3>1. appendCalls \ {c} \subseteq appendCalls
      OBVIOUS
    <3> QED
      BY <2>6, <3>1, OrphanSteps DEF crashInAppendEntries, Inv
  <2> QED
    BY <1>9, <2>1, <2>2, <2>3, <2>4, <2>5, <2>6
<1>10. snapCalls = {}
  BY DEF NoSnapshots
<1> QED
  BY <1>2, <1>3, <1>4, <1>5, <1>6, <1>7, <1>8, <1>9, <1>10 DEF Next

(* Entries that are in a log are in it when it grows. *)
LEMMA HeldStays ==
    ASSUME NEW l \in Seq(Entry), NEW args, Holds(l, args), NEW e \in Entry
    PROVE  Holds(Append(l, e), args)
<1> DEFINE m == Append(l, e)
<1>1. Len(l) \in Nat /\ Len(m) = Len(l) + 1 /\ \A n \in 1 .. Len(l) : m[n] = l[n]
  BY AppendProperties
<1> HIDE DEF m
<1>2. \A n \in 1 .. Len(l) : n \in 1 .. Len(m)
  BY <1>1
<1>3. Holds(m, args)
  BY <1>1, <1>2 DEF Holds
<1> QED
  BY <1>3 DEF m

(* A follower that has just accepted entries holds them. *)
LEMMA AcceptedIsHeld ==
    ASSUME NEW l \in Seq(Entry), NEW args, args.PrevLogIndex \in Nat,
           args.Entries \in Seq(Entry), Fits(l, args),
           NEW m, m = SubSeq(l, 1, args.PrevLogIndex + 1) \o args.Entries
    PROVE  Holds(m, args)
<1> DEFINE q == args.PrevLogIndex + 1
           k == Len(args.Entries)
<1>1. Spliced(l, args, m)
  BY SplicedLog
<1>2. Len(m) = q + k /\ \A n \in 1 .. k : m[q + n] = args.Entries[n]
  BY <1>1 DEF Spliced
<1>3. q \in Nat /\ k \in Nat
  OBVIOUS
<1>4. \A n \in 1 .. k : q + n \in 1 .. q + k
  <2> HIDE DEF q, k
  <2> QED
    BY <1>3
<1> QED
  BY <1>2, <1>4 DEF Holds

(* The calls of a term come from the one server that won the election before it. *)
LEMMA CallersStay ==
    ASSUME BallotTypes, BallotTypes', BallotStep, BallotInv, Cardinality(Server) <= 3,
           CallsWon, CallersLed, CallersAgree
    PROVE  CallsWon' /\ CallersLed' /\ CallersAgree'
<1>1. ASSUME NEW i \in Server, rf[i].status = Leader
      PROVE  \E t \in Nat : rf[i].currentTerm = t + 1 /\ Won(t, i)
  <2>1. rf[i].currentTerm \in Nat /\ rf[i].currentTerm > 0 /\ Won(rf[i].currentTerm - 1, i)
    BY <1>1 DEF BallotTypes, BallotInv, LeadersWon
  <2>2. rf[i].currentTerm - 1 \in Nat /\ rf[i].currentTerm = (rf[i].currentTerm - 1) + 1
    BY <2>1
  <2> QED
    BY <2>1, <2>2
<1>2. ASSUME NEW c \in appendCalls'
      PROVE  /\ c.caller \in Server
             /\ \E t \in Nat : c.args.Term = t + 1 /\ Won(t, c.caller)
             /\ \A i \in Server :
                   rf[i].status = Leader /\ rf[i].currentTerm = c.args.Term => i = c.caller
  <2>1. c.caller \in Server
    BY DEF BallotTypes
  <2>2. CASE OldAppend(c)
    BY <2>1, <2>2 DEF OldAppend, CallsWon, CallersLed
  <2>3. CASE NewAppend(c)
    BY <1>1, <2>1, <2>3 DEF NewAppend, BallotInv, ElectionSafety
  <2> QED
    BY <2>1, <2>2, <2>3 DEF BallotStep
<1>3. CallsWon'
  <2> SUFFICES ASSUME NEW c \in appendCalls'
               PROVE  \E t \in Nat : c.args.Term = t + 1 /\ Won(t, c.caller)'
    BY DEF CallsWon
  <2>1. PICK t \in Nat : c.args.Term = t + 1 /\ Won(t, c.caller)
    BY <1>2
  <2>2. Won(t, c.caller)'
    BY <1>2, <2>1, WonStays
  <2> QED
    BY <2>1, <2>2
<1>4. CallersLed'
  <2> SUFFICES ASSUME NEW c \in appendCalls', NEW i \in Server,
                      rf'[i].status = Leader, rf'[i].currentTerm = c.args.Term
               PROVE  i = c.caller
    BY DEF CallersLed
  <2>1. PICK t \in Nat :
           /\ rf'[i].currentTerm = t + 1
           /\ \/ rf[i].status = Leader /\ rf[i].currentTerm = t + 1
              \/ \A j \in Server : ~Won(t, j)
    BY LeaderStep
  <2>2. PICK v \in Nat : c.args.Term = v + 1 /\ Won(v, c.caller)
    BY <1>2
  <2>3. v + 1 = t + 1
    BY <2>1, <2>2, Zenon
  <2>4. v = t
    BY <2>3
  <2> QED
    BY <1>2, <2>1, <2>2, <2>4
<1>5. CallersAgree'
  <2> SUFFICES ASSUME NEW c \in appendCalls', NEW d \in appendCalls',
                      c.args.Term = d.args.Term
               PROVE  c.caller = d.caller
    BY DEF CallersAgree
  <2>1. CASE NewAppend(c)
    BY <1>2, <2>1 DEF NewAppend
  <2>2. CASE NewAppend(d)
    BY <1>2, <2>2 DEF NewAppend
  <2>3. CASE OldAppend(c) /\ OldAppend(d)
    BY <2>3 DEF OldAppend, CallersAgree
  <2> QED
    BY <2>1, <2>2, <2>3 DEF BallotStep
<1> QED
  BY <1>3, <1>4, <1>5

(* What a leader sends is in its log. *)
LEMMA SentIsHeld ==
    ASSUME NEW l \in Seq(Entry), NEW args, args.PrevLogIndex \in Nat, SentFrom(l, args)
    PROVE  Holds(l, args)
<1> DEFINE q == args.PrevLogIndex + 1
           r == SubSeq(l, q + 1, Len(l))
<1>1. args.Entries = r /\ Len(l) \in Nat /\ q \in 1 .. Len(l)
  <2>1. args.PrevLogIndex + 2 = q + 1 /\ Len(l) \in Nat
    OBVIOUS
  <2>2. args.Entries = SubSeq(l, args.PrevLogIndex + 2, Len(l))
    BY DEF SentFrom
  <2>3. q \in 1 .. Len(l)
    BY DEF SentFrom, Fits
  <2> HIDE DEF q
  <2> QED
    BY <2>1, <2>2, <2>3
<1> HIDE DEF q
<1>2. Len(r) = Len(l) - q /\ \A n \in 1 .. Len(l) - q : r[n] = l[q + n]
  <2>1. \A k \in q + 1 .. Len(l) : l[k] \in Entry
    BY <1>1
  <2>2. /\ Len(r) = IF q + 1 <= Len(l) THEN Len(l) - (q + 1) + 1 ELSE 0
        /\ \A n \in 1 .. Len(l) - (q + 1) + 1 : r[n] = l[q + 1 + n - 1]
    BY <1>1, <2>1, SubSeqProperties
  <2>3. Len(r) = Len(l) - q /\ Len(l) - (q + 1) + 1 = Len(l) - q
    BY <1>1, <2>2
  <2>4. \A n \in 1 .. Len(l) - q : q + 1 + n - 1 = q + n
    BY <1>1
  <2> QED
    BY <2>2, <2>3, <2>4
<1> HIDE DEF r
<1>3. \A n \in 1 .. Len(l) - q : q + n \in 1 .. Len(l)
  BY <1>1
<1>4. \A n \in 1 .. Len(args.Entries) : q + n \in 1 .. Len(l) /\ l[q + n] = args.Entries[n]
  BY <1>1, <1>2, <1>3
<1> QED
  BY <1>4 DEF Holds, q

(* Two calls whose entries are in one log agree. *)
LEMMA HeldAgree ==
    ASSUME NEW l, NEW a, NEW b, a.PrevLogIndex \in Nat, a.Entries \in Seq(Entry),
           b.PrevLogIndex \in Nat, b.Entries \in Seq(Entry), Holds(l, a), Holds(l, b)
    PROVE  Agree(a, b)
<1> SUFFICES ASSUME NEW n \in 1 .. Len(a.Entries), NEW m \in 1 .. Len(b.Entries),
                    a.PrevLogIndex + n = b.PrevLogIndex + m
             PROVE  a.Entries[n] = b.Entries[m]
  BY DEF Agree
<1>1. a.PrevLogIndex + 1 + n = b.PrevLogIndex + 1 + m
  <2> DEFINE x == a.PrevLogIndex
             y == b.PrevLogIndex
  <2>1. x \in Nat /\ y \in Nat /\ n \in Nat /\ m \in Nat /\ x + n = y + m
    OBVIOUS
  <2> HIDE DEF x, y
  <2>2. x + 1 + n = y + 1 + m
    BY <2>1
  <2> QED
    BY <2>2 DEF x, y
<1>2. /\ l[a.PrevLogIndex + 1 + n] = a.Entries[n]
      /\ l[b.PrevLogIndex + 1 + m] = b.Entries[m]
  BY DEF Holds
<1> QED
  BY <1>1, <1>2

(* Entries a log has are in it after it accepted a call that agrees with them and
   does not end before them. *)
LEMMA HeldIsCovered ==
    ASSUME NEW l \in Seq(Entry), NEW a, NEW b,
           a.PrevLogIndex \in Nat, a.Entries \in Seq(Entry),
           b.PrevLogIndex \in Nat, b.Entries \in Seq(Entry),
           Fits(l, b), NEW m, m = SubSeq(l, 1, b.PrevLogIndex + 1) \o b.Entries,
           Holds(l, a), Agree(a, b),
           a.PrevLogIndex + Len(a.Entries) <= b.PrevLogIndex + Len(b.Entries)
    PROVE  Holds(m, a)
<1> SUFFICES ASSUME NEW n \in 1 .. Len(a.Entries)
             PROVE  /\ a.PrevLogIndex + 1 + n \in 1 .. Len(m)
                    /\ m[a.PrevLogIndex + 1 + n] = a.Entries[n]
  BY DEF Holds
<1> DEFINE p == a.PrevLogIndex + 1 + n
           q == b.PrevLogIndex + 1
           k == Len(b.Entries)
           g == Len(a.Entries)
           x == a.PrevLogIndex
           y == b.PrevLogIndex
<1>1. /\ Len(m) = q + k
      /\ \A h \in 1 .. q : m[h] = l[h]
      /\ \A h \in 1 .. k : m[q + h] = b.Entries[h]
  <2>1. Spliced(l, b, m)
    BY SplicedLog
  <2> QED
    BY <2>1, Zenon DEF Spliced
<1>2. p \in Nat /\ q \in Nat /\ k \in Nat /\ n \in 1 .. g /\ g \in Nat /\ n \in Nat
  OBVIOUS
<1>3. l[p] = a.Entries[n]
  BY DEF Holds
<1>4. p >= 1 /\ p <= q + k
  <2>1. x \in Nat /\ y \in Nat /\ p = x + 1 + n /\ q = y + 1 /\ x + g <= y + k
    OBVIOUS
  <2> HIDE DEF p, q, g, k, x, y
  <2> QED
    BY <1>2, <2>1
<1>5. CASE p <= q
  <2>1. p \in 1 .. q /\ p \in 1 .. q + k
    <3> HIDE DEF p, q, k
    <3> QED
      BY <1>2, <1>4, <1>5
  <2> QED
    BY <1>1, <1>3, <2>1
<1>6. CASE p > q
  <2>1. PICK h \in 1 .. k : p = q + h
    <3> HIDE DEF p, q, k
    <3>1. p - q \in 1 .. k /\ p = q + (p - q)
      BY <1>2, <1>4, <1>6
    <3> QED
      BY <3>1
  <2>2. a.PrevLogIndex + n = b.PrevLogIndex + h
    <3>1. x \in Nat /\ y \in Nat /\ h \in Nat /\ x + 1 + n = y + 1 + h
      BY <1>2, <2>1
    <3> HIDE DEF x, y
    <3>2. x + n = y + h
      BY <1>2, <3>1
    <3> QED
      BY <3>2 DEF x, y
  <2>3. a.Entries[n] = b.Entries[h]
    BY <2>1, <2>2 DEF Agree
  <2>4. p \in 1 .. q + k
    <3> HIDE DEF p, q, k
    <3> QED
      BY <1>2, <1>4
  <2> QED
    BY <1>1, <2>1, <2>3, <2>4
<1>7. p <= q \/ p > q
  <2> HIDE DEF p, q
  <2> QED
    BY <1>2
<1> QED
  BY <1>5, <1>6, <1>7

(* A leader keeps what it sent, so the calls of one term never contradict each other. *)
LEMMA CallLogsStay ==
    ASSUME Inv, Inv', RaftStep, BallotInv, Cardinality(Server) <= 3,
           CallsWon, CallsFromLeader, CallsAgree
    PROVE  CallsFromLeader' /\ CallsAgree'
<1>1. BallotTypes /\ BallotTypes' /\ BallotStep
  BY TypesOfBallots, StepOfBallots, PTL
<1>2. \A i \in Server : rf[i].logs \in Seq(Entry)
  BY DEF Inv, PeersOK, RaftState
<1>3. \A c \in appendCalls' : /\ c.caller \in Server /\ c.args.PrevLogIndex \in Nat
                              /\ c.args.Term \in Nat /\ c.args.Entries \in Seq(Entry)
  BY DEF Inv, CallsOK, AppendOK, AppendCall, Call
<1>4. \A c \in appendCalls' :
        OldAppend(c) \/ (NewAppend(c) /\ SentFrom(rf[c.caller].logs, c.args))
  BY DEF RaftStep
<1>5. ASSUME NEW c \in appendCalls', NEW i \in Server,
             rf[i].status = Leader, rf[i].currentTerm = c.args.Term
      PROVE  Holds(rf[i].logs, c.args)
  <2>1. CASE OldAppend(c)
    BY <1>5, <2>1 DEF OldAppend, CallsFromLeader
  <2>2. CASE NewAppend(c) /\ SentFrom(rf[c.caller].logs, c.args)
    <3>1. c.caller = i
      BY <1>3, <1>5, <2>2 DEF NewAppend, BallotInv, ElectionSafety
    <3> QED
      BY <1>2, <1>3, <2>2, <3>1, SentIsHeld
  <2> QED
    BY <1>4, <2>1, <2>2
<1>6. ASSUME NEW c \in appendCalls', NEW i \in Server,
             rf'[i].status = Leader, rf'[i].currentTerm = c.args.Term
      PROVE  rf[i].status = Leader /\ rf[i].currentTerm = c.args.Term
  <2>1. PICK t \in Nat :
           /\ rf'[i].currentTerm = t + 1
           /\ \/ rf[i].status = Leader /\ rf[i].currentTerm = t + 1
              \/ \A j \in Server : ~Won(t, j)
    BY <1>1, <1>6, LeaderStep
  <2>2. PICK v \in Nat : c.args.Term = v + 1 /\ Won(v, c.caller)
    <3>1. CASE OldAppend(c)
      BY <3>1 DEF OldAppend, CallsWon
    <3>2. CASE NewAppend(c)
      <4>1. /\ rf[c.caller].currentTerm \in Nat /\ rf[c.caller].currentTerm > 0
            /\ Won(rf[c.caller].currentTerm - 1, c.caller)
        BY <1>1, <1>3, <3>2 DEF NewAppend, BallotTypes, BallotInv, LeadersWon
      <4>2. /\ rf[c.caller].currentTerm - 1 \in Nat
            /\ c.args.Term = (rf[c.caller].currentTerm - 1) + 1
        BY <3>2, <4>1 DEF NewAppend
      <4> QED
        BY <4>1, <4>2
    <3> QED
      BY <1>4, <3>1, <3>2
  <2>3. v + 1 = t + 1
    BY <1>6, <2>1, <2>2, Zenon
  <2>4. v = t
    BY <2>3
  <2> QED
    BY <1>3, <1>6, <2>1, <2>2, <2>4
<1>7. CallsFromLeader'
  <2> SUFFICES ASSUME NEW c \in appendCalls', NEW i \in Server,
                      rf'[i].status = Leader, rf'[i].currentTerm = c.args.Term
               PROVE  Holds(rf'[i].logs, c.args)
    BY DEF CallsFromLeader, Holds
  <2>1. Holds(rf[i].logs, c.args)
    BY <1>5, <1>6
  <2>2. LogTurn(i, rf[i], rf'[i])
    BY DEF RaftStep, PeerTurn
  <2>3. ASSUME NEW e \in Entry, rf'[i].logs = Append(rf[i].logs, e)
        PROVE  Holds(rf'[i].logs, c.args)
    BY <1>2, <2>1, <2>3, HeldStays
  <2> QED
    BY <2>1, <2>2, <2>3 DEF LogTurn, Leader, Follower
<1>8. CallsAgree'
  <2> SUFFICES ASSUME NEW c \in appendCalls', NEW d \in appendCalls',
                      c.args.Term = d.args.Term
               PROVE  Agree(c.args, d.args)
    BY DEF CallsAgree
  <2>1. ASSUME NEW i \in Server, rf[i].status = Leader, rf[i].currentTerm = c.args.Term
        PROVE  Agree(c.args, d.args)
    <3>1. Holds(rf[i].logs, c.args) /\ Holds(rf[i].logs, d.args)
      BY <1>5, <2>1
    <3> QED
      BY <1>3, <3>1, HeldAgree
  <2>2. CASE NewAppend(c)
    BY <1>3, <2>1, <2>2 DEF NewAppend
  <2>3. CASE NewAppend(d)
    BY <1>3, <2>1, <2>3 DEF NewAppend
  <2>4. CASE OldAppend(c) /\ OldAppend(d)
    BY <2>4 DEF OldAppend, CallsAgree
  <2> QED
    BY <1>4, <2>2, <2>3, <2>4
<1> QED
  BY <1>7, <1>8

(* Who acknowledged a call never goes back behind its term. *)
LEMMA AckTermsStay ==
    ASSUME Inv, Inv', RaftStep, CallStep, AckTerms
    PROVE  AckTerms'
<1>1. BallotTypes /\ BallotTypes' /\ BallotStep
  BY TypesOfBallots, StepOfBallots, PTL
<1> SUFFICES ASSUME NEW c \in appendCalls', acked(c)
             PROVE  rf'[c.callee].currentTerm >= c.args.Term
  BY DEF AckTerms, acked
<1>2. PICK j \in Server : j = c.callee
  BY <1>1 DEF BallotTypes
<1>3. /\ rf[j].currentTerm \in Nat /\ rf'[j].currentTerm \in Nat /\ c.args.Term \in Nat
      /\ rf'[j].currentTerm >= rf[j].currentTerm
  BY <1>1, TermStays DEF BallotTypes
<1>4. CASE JustAcked(c)
  BY <1>2, <1>3, <1>4 DEF JustAcked
<1>5. CASE OldCall(c)
  <2>1. PICK d \in appendCalls : sameCall(c, d) /\ acked(d)
    BY <1>5 DEF OldCall
  <2>2. rf[j].currentTerm >= c.args.Term
    BY <1>2, <2>1 DEF AckTerms, sameCall
  <2> QED
    BY <1>2, <1>3, <2>2
<1> QED
  BY <1>4, <1>5 DEF CallStep, acked

(* What the persister holds is what the struct holds. *)
Kept(c) == rf[c.callee].currentTerm > c.args.Term \/ Holds(rf[c.callee].logs, c.args)

KeptAlike == \A c \in appendCalls : ackIsKept(c) <=> Kept(c)

LEMMA KeptMeans == Inv /\ NoSnapshots => KeptAlike
<1> SUFFICES ASSUME Inv, NoSnapshots, NEW c \in appendCalls
             PROVE  ackIsKept(c) <=> Kept(c)
  BY DEF KeptAlike
<1>1. /\ c.callee \in Server /\ c.args.Term \in Nat
      /\ c.args.PrevLogIndex \in Nat /\ c.args.Entries \in Seq(Entry)
  BY DEF Inv, CallsOK, AppendOK, AppendCall, Call
<1>2. PICK j \in Server : j = c.callee
  BY <1>1
<1>3. PeerOK(rf[j]) /\ rf[j].snapshotEntriesAmount = 0 /\ rf[j].logs \in Seq(Entry)
  BY DEF Inv, PeersOK, NoSnapshots, RaftState
<1> DEFINE s == Make(rf[j].persister)
           p == c.args.PrevLogIndex
<1>4. /\ s.currentTerm = rf[j].currentTerm /\ s.logs = rf[j].logs
      /\ s.snapshotEntriesAmount = 0
  BY <1>3, MakeFields
<1> HIDE DEF s, p
<1>5. ASSUME NEW n \in 1 .. Len(c.args.Entries)
      PROVE  /\ ~(p + n < s.snapshotEntriesAmount)
             /\ logIndexCheck(s, p + n) <=> p + 1 + n \in 1 .. Len(s.logs)
             /\ getLogEntryAtIndex(s, p + n) = s.logs[p + 1 + n]
  <2>1. n \in Nat /\ p \in Nat /\ Len(s.logs) \in Nat
    BY <1>1, <1>3, <1>4 DEF p
  <2>2. getOffsetIndex(s, p + n) + 1 = p + 1 + n
    BY <1>4, <2>1 DEF getOffsetIndex
  <2>3. logIndexCheck(s, p + n) <=> p + n >= 0 /\ p + n <= Len(s.logs) - 1 + 0
    BY <1>4 DEF logIndexCheck, getLastLogEntryIndex
  <2>4. /\ ~(p + n < 0)
        /\ (p + n >= 0 /\ p + n <= Len(s.logs) - 1 + 0) <=> p + 1 + n \in 1 .. Len(s.logs)
    BY <2>1
  <2>5. getLogEntryAtIndex(s, p + n) = s.logs[p + 1 + n]
    BY <2>2, Zenon DEF getLogEntryAtIndex
  <2> QED
    BY <1>4, <2>3, <2>4, <2>5
<1>6. DOMAIN c.args.Entries = 1 .. Len(c.args.Entries)
  BY <1>1
<1>7. ackIsKept(c) <=>
         \/ s.currentTerm > c.args.Term
         \/ \A n \in DOMAIN c.args.Entries :
               \/ p + n < s.snapshotEntriesAmount
               \/ /\ logIndexCheck(s, p + n)
                  /\ getLogEntryAtIndex(s, p + n) = c.args.Entries[n]
  BY <1>2, Zenon DEF ackIsKept, s, p
<1>8. Kept(c) <=>
         \/ s.currentTerm > c.args.Term
         \/ \A n \in 1 .. Len(c.args.Entries) :
               p + 1 + n \in 1 .. Len(s.logs) /\ s.logs[p + 1 + n] = c.args.Entries[n]
  BY <1>2, <1>4 DEF Kept, Holds, p
<1> QED
  BY <1>5, <1>6, <1>7, <1>8

(* An acknowledged call whose entries go missing loses them to an older call. *)
LEMMA AcksStep ==
    ASSUME Inv, Inv', NoSnapshots, NoSnapshots', RaftStep, CallStep,
           CallersAgree, CallsAgree, AckTerms,
           NEW c \in appendCalls', acked(c), ~ackIsKept(c)'
    PROVE  \/ \E d \in appendCalls : sameCall(c, d) /\ acked(d) /\ ~ackIsKept(d)
           \/ \E d \in appendCalls : AppendEntriesWithLock(d) /\ overtaken(d, c)
<1>1. BallotTypes /\ BallotTypes' /\ BallotStep
  BY TypesOfBallots, StepOfBallots, PTL
<1>2. KeptAlike /\ KeptAlike'
  BY KeptMeans, PTL
<1>3. \A i \in Server : rf[i].logs \in Seq(Entry)
  BY DEF Inv, PeersOK, RaftState
<1>4. /\ c.callee \in Server /\ c.args.Term \in Nat
      /\ c.args.PrevLogIndex \in Nat /\ c.args.Entries \in Seq(Entry)
  BY DEF Inv, CallsOK, AppendOK, AppendCall, Call
<1>5. PICK j \in Server : j = c.callee
  BY <1>4
<1>6. ~(rf'[j].currentTerm > c.args.Term) /\ ~Holds(rf'[j].logs, c.args)
  BY <1>2, <1>5 DEF KeptAlike, Kept, Holds
<1>7. ~JustAcked(c)
  BY <1>3, <1>4, <1>5, <1>6, AcceptedIsHeld DEF JustAcked
<1>8. PICK d \in appendCalls : sameCall(c, d) /\ acked(d)
  BY <1>7 DEF CallStep, OldCall, acked
<1>9. d.caller = c.caller /\ d.callee = j /\ d.args = c.args
  BY <1>5, <1>8 DEF sameCall
<1>10. CASE ~ackIsKept(d)
  BY <1>8, <1>10
<1>11. CASE ackIsKept(d)
  <2>1. rf[j].currentTerm > c.args.Term \/ Holds(rf[j].logs, c.args)
    BY <1>2, <1>9, <1>11 DEF KeptAlike, Kept
  <2>2. /\ rf[j].currentTerm \in Nat /\ rf'[j].currentTerm \in Nat
        /\ rf'[j].currentTerm >= rf[j].currentTerm
    BY <1>1, TermStays DEF BallotTypes
  <2>3. rf[j].currentTerm >= c.args.Term
    BY <1>8, <1>9 DEF AckTerms
  <2>4. rf'[j].currentTerm = c.args.Term /\ Holds(rf[j].logs, c.args)
    BY <1>4, <1>6, <2>1, <2>2, <2>3
  <2>5. LogTurn(j, rf[j], rf'[j])
    BY DEF RaftStep, PeerTurn
  <2>6. rf'[j].logs # rf[j].logs
    BY <1>6, <2>4
  <2>7. ~\E e \in Entry : rf'[j].logs = Append(rf[j].logs, e)
    BY <1>3, <1>6, <2>4, HeldStays
  <2>8. PICK e \in appendCalls :
           /\ AppendEntriesWithLock(e)
           /\ e.callee = j /\ e.args.Term = rf'[j].currentTerm
           /\ Fits(rf[j].logs, e.args)
           /\ rf'[j].logs = SubSeq(rf[j].logs, 1, e.args.PrevLogIndex + 1) \o e.args.Entries
    BY <2>5, <2>6, <2>7 DEF LogTurn
  <2>9. e.caller = c.caller /\ Agree(c.args, e.args)
    BY <1>9, <2>4, <2>8 DEF CallersAgree, CallsAgree
  <2>10. e.args.PrevLogIndex \in Nat /\ e.args.Entries \in Seq(Entry)
    BY DEF Inv, CallsOK, AppendOK, AppendCall, Call
  <2> DEFINE x == c.args.PrevLogIndex + Len(c.args.Entries)
             y == e.args.PrevLogIndex + Len(e.args.Entries)
  <2>11. x \in Nat /\ y \in Nat
    BY <1>4, <2>10
  <2>12. ~(x <= y)
    BY <1>3, <1>4, <1>6, <2>4, <2>8, <2>9, <2>10, HeldIsCovered
  <2>13. y < x
    <3> HIDE DEF x, y
    <3> QED
      BY <2>11, <2>12
  <2>14. overtaken(e, c)
    BY <1>5, <2>4, <2>8, <2>9, <2>13 DEF overtaken
  <2> QED
    BY <2>8, <2>14
<1> QED
  BY <1>10, <1>11

(* What a follower has acknowledged leaves its persister, in the term, only when an
   AppendEntries that the same leader sent earlier arrives late, in a cluster of at
   most three servers without snapshots: whatever else is lost, delayed, reordered or
   killed, and however many calls overlap. *)
THEOREM AcksSurvive ==
    ~Snapshots /\ Cardinality(Server) <= 3 => (Spec => AcksLostToOlderCallsOnly)
<1> SUFFICES ASSUME ~Snapshots, Cardinality(Server) <= 3
             PROVE  Spec => AcksLostToOlderCallsOnly
  OBVIOUS
<1> DEFINE AcksKept ==
        \A c \in appendCalls' : acked(c) /\ ~ackIsKept(c)' =>
          \/ \E d \in appendCalls : sameCall(c, d) /\ acked(d) /\ ~ackIsKept(d)
          \/ \E d \in appendCalls : AppendEntriesWithLock(d) /\ overtaken(d, c)
<1>1. Init => AckInv
  BY DEF Init, AckInv, CallsWon, CallersLed, CallersAgree, CallsFromLeader, CallsAgree, AckTerms
<1>2. ASSUME SafeInv, AckInv, [Next]_vars PROVE AckInv' /\ AcksKept
  <2>1. SafeInv'
    BY <1>2, SafeInvStays
  <2>2. Inv /\ Inv' /\ NoSnapshots /\ NoSnapshots' /\ BallotInv
    BY <1>2, <2>1 DEF SafeInv
  <2>3. RaftStep
    BY <1>2, NextTurn DEF SafeInv, BallotInv
  <2>4. CallStep
    BY <1>2, <2>2, NextCalls
  <2>5. BallotTypes /\ BallotTypes' /\ BallotStep
    BY <2>2, <2>3, TypesOfBallots, StepOfBallots, PTL
  <2>6. CallsWon' /\ CallersLed' /\ CallersAgree'
    BY <1>2, <2>2, <2>5, CallersStay DEF AckInv
  <2>7. CallsFromLeader' /\ CallsAgree'
    BY <1>2, <2>2, <2>3, CallLogsStay DEF AckInv
  <2>8. AckTerms'
    BY <1>2, <2>2, <2>3, <2>4, AckTermsStay DEF AckInv
  <2>9. AcksKept
    BY <1>2, <2>2, <2>3, <2>4, AcksStep DEF AckInv
  <2> QED
    BY <2>6, <2>7, <2>8, <2>9 DEF AckInv
<1>3. Spec => [][AcksKept]_vars
  BY <1>1, <1>2, SafeInvariant, PTL DEF Spec
<1> QED
  BY <1>3 DEF AcksLostToOlderCallsOnly
=============================================================================
