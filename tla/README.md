# A verification of cs651_raft

The repository is a set of Go programs that build on each other: a MapReduce, a
Raft library, a key/value service on top of Raft, a shard controller and a
sharded key/value service, all of them run by testers over a simulated network.
This directory holds TLA+ modules of its core, the TLC configurations that check
them on small instances, and proofs for instances of every size. All paths below
are relative to `src/code/src`.

## Inventory

### Raft (`raft/`)

*State.* One `Raft` struct per peer (`raft.go`): `currentTerm`, `votedFor`,
`logs`, `snapshotEntriesAmount` and `lastSnapshotTerm`, which are persisted;
`status`, `numVoteGathered`, `commitIndex`, `lastApplied`, `nextIndex` and
`matchIndex`, which are not; two mutexes, `mu` for the fields and `applyMu` for
the order of messages on `applyCh`; the `Persister` with the saved state and the
service's snapshot.

*Operations.* The ticker (an election when a timer has passed, heartbeats to all
peers when leader), `Start`, `Snapshot`, the RPC handlers `RequestVote`,
`AppendEntries` and `InstallSnapshot`, and the goroutines that send these calls
and use their replies.

*Interaction.* RPCs over `labrpc`; messages to the service over the unbuffered
`applyCh`; calls of `Start` and `Snapshot` by the service.

*Hard.* Each RPC takes three critical sections (send, serve, use the reply), and
everything may happen between two of them: another election, another leader, a
snapshot, a restart. Arguments are read when the goroutine first gets the lock,
not when it was started. Two locks, of which one is held during a blocking send.

*Correct if.* One leader per term; logs that agree where they have the same term;
what was acknowledged is on disk; services apply the same commands in the same
order; log and snapshot together lose nothing; indexes stay in the log (each miss
is a `log.Fatalf`); terms never go back.

### Key/value service (`kvraft/`)

*State.* Per server the values and the table of the last request of each client
(`State`), the map `startChannels` from a request to the channel of the handler
that waits for it, and the lock `kv.mu`; per clerk the number of its request and
the server it believes to lead.

*Operations.* The clerks' `Get`, `Put` and `Append` with their retry loops, the
handlers `Get` and `PutAppend` (create a channel, `Start`, wait for the channel or
the timeout, delete the channel), the apply ticker (apply, perhaps snapshot, signal
the handler), reading a snapshot.

*Hard.* A request may be at several servers at once and several times in the log.
Handlers of the same request replace and close each other's channels. The signal is
a send on an unbuffered channel with `kv.mu` held.

*Correct if.* The clients see a linearizable store, with every write done once;
every server's state is the log replayed; nobody waits for ever.

### MapReduce (`mr/`, `main/mrcoordinator.go`, `main/mrworker.go`)

*State.* The coordinator's status and time of each task and `isDone`; the files
`mr-i-j` and `mr-out-j`.

*Operations.* `HandleRequestTask` (hand out a task, a new one or one that has been
out for ten seconds, or accept a result), `Done`; the worker's loop with `DoMap` and
`DoReduce`.

*Hard.* Workers crash or stall anywhere, a task may be done by two workers at once,
and the first may report after the second.

*Correct if.* Reduce tasks find all of their input, the output is complete when a
process ends and does not change afterwards, the job ends.

### Shard controller (`shardctrler/`)

*State.* Per controller the sequence of configurations (shard to group, group to
servers) and the table of last requests (`State`), the same `startChannels` and lock
as in `kvraft`; a snapshot after every command.

*Operations.* The clerks' `Join`, `Leave`, `Move` and `Query`, which try the
controllers in turn, their handlers, the apply ticker. `Join` and `Leave` end with
`assignVoidShards` (shards without a group go to the groups in turn) and
`redistributeShards` (shards go from the largest to the smallest group until the
shares differ by at most one).

*Hard.* Retries and restarts as in `kvraft`, with requests numbered from 0; a snapshot
from Raft is received and dropped; `Move` may give a shard to a group that is not
there.

*Correct if.* All replicas have the configurations of the log, each request counted
once; a `Query` returns the configuration of a time between call and return; after a
`Join` or `Leave` every shard has a group that exists and the shares differ by at most
one; no more shards move than have to.

### Sharded key/value service (`shardkv/`)

*State.* Per server `State`: all configurations it has gone through, the values of each
shard, per shard the number of the configuration it is good for (`ShardTimestamp`), the
table of last requests; `startChannels` and the lock as in `kvraft`. Per clerk the
configuration it knows and the number of its request.

*Operations.* `shardConfigTicker` asks the controller for the next configuration when
all shards are there; `acquireShardTicker` starts a goroutine per missing shard, which
asks the servers of the owner in the second last configuration (`AcquireShards`); both
put the result through the group's log. The apply ticker installs a configuration,
takes a shard in or carries out a client's operation, after which it may snapshot. The
clerks' `Get`, `Put` and `Append` try the servers of a group and ask the controller for
a new configuration after each round.

*Interaction.* Each group has a Raft of its own; groups call each other, and the
controller through its clerk.

*Hard.* Groups go through the configurations at their own pace. Both tickers look at
the state under the lock and again without it. Fetches overlap, come late and are
repeated; a server answers from whatever it has. A restarted server runs its tickers on
an empty state until Raft has delivered the snapshot.

*Correct if.* No two groups serve a shard at the same time, no acknowledged write is
lost on the way, a request retried at the new owner is not carried out twice, and a
migration ends.

### The rest

- `labrpc/`: the network. Calls may be lost, delayed and reordered, a killed server's
  calls fail. Modelled as far as its users can see it, by the calls of `Raft` and
  `KVServer`; reflection, encoding and byte counts are left out.
- `raft/config.go`, `kvraft/config.go`, `shardctrler/config.go`, `shardkv/config.go`: the testers. Their crashes, restarts and
  services are part of the models, and several properties are what they check.
- `labgob/`: a wrapper of `encoding/gob`; a pure conversion.
- `porcupine/`, `models/`: a third-party linearizability checker of the tests.
- `mrapps/`: map and reduce functions of the tests. Pure, but for `crash.go`, whose
  crashes are an action of `MapReduce`.
- `mr/old_worker.go` is commented out; `main/` has a sequential MapReduce and stubs of
  other exercises beside the two commands above.

`PROJECT.json` lists these components, the hazards with their lines, and for each
definition the source lines it stands for.

## Modules

| Module | Models | Used by |
| --- | --- | --- |
| `Raft` | a cluster of Raft peers, the network, the services that read `applyCh`, restarts | `MCRaft`, `RaftProofs` |
| `KVStore` | abstract: one store, each call takes effect once between call and return | `KVServer` |
| `KVServer` | clerks, handlers and servers of `kvraft` over the log Raft promises | `MCKVServer`, `KVServerProofs`, `KVStoreProofs` |
| `ShardConfig` | configurations, and the assignment of shards by `Join`, `Leave` and `Move` | `ShardCtrler`, `ShardKV`, `ShardConfigProofs` |
| `ShardCtrler` | clerks and controllers of `shardctrler` over the log Raft promises | `MCShardCtrler`, `ShardCtrlerProofs` |
| `ShardKV` | groups, tickers, migration and clerks of `shardkv` over Raft and the controller | `MCShardKV`, `ShardKVProofs` |
| `MapReduce` | coordinator, workers and files of `mr` | `MCMapReduce`, `MapReduceProofs` |
| `Induction` | induction over numbers, for proofs about recursive functions | `KVStoreProofs`, `ShardConfigProofs`, `ShardCtrlerProofs` |

Definitions marked `variant` in a comment are not part of a specification. Each is
a plausible mistake in the definition that follows it; with the variant in its place
the property named under `mutants` in `PROJECT.json` is violated.

### `Raft`

`rf[i]` is the struct of peer `i`. Operators with a parameter `s` are methods: they
map the struct before to the struct after. Every action is one critical section of
`rf.mu`:

| Action | Code |
| --- | --- |
| `startElection`, `Start` | the ticker's election branch, `Start` |
| `handleSendX`, `X`, `handleXReply`, `loseX` | the sending goroutine up to `Call`, the handler, the goroutine after `Call`, a failed call, for `X` = `RequestVote`, `AppendEntries`, `InstallSnapshot` (the last has `handleInstallSnapshotFailure`, because a failed call changes state there) |
| `commitToApplyChannel`, `receiveApplyMsg` | the part of `AppendEntries` and of its reply handler that runs under `applyMu`: take the batch, then one step per message |
| `Snapshot` | the service's snapshot of what it has applied |
| `crash1`, `crashInAppendEntries`, `crashInInstallSnapshot` | `Kill` and `Make` on the same persister, between two critical sections or between the two `persist` calls of a handler |

A call is a record that goes through the stages of its handler and of its caller.
`live` becomes false when its caller is killed or gives up: the request may still be
executed, and its reply goes nowhere. `voteTasks` and `snapTasks` count goroutines
that were started and have not yet got the lock. A goroutine for `AppendEntries` may
exist at any time after the first leadership, as the ticker starts them every 25 ms
and none is cancelled, so no counter is needed.

What the service has applied is a sequence of commands, and a snapshot is such a
sequence. Commands are model values.

The election timer and the heartbeat timer are not modelled: an election may start at
any time unless the peer leads. `GetState` and the debugging output change nothing.

### `KVServer` and `KVStore`

Raft is represented by what it promises its users: a command given to `Start` enters
the one committed log at some later time or never (`commit`, `overwritten`), each
server is given the log in order, or a snapshot in place of a prefix
(`handleCommandApply`, `installSnapshot`, `raftInstallSnapshot`), and being the leader
may change between any two questions. The counterexample of the run
`raft_commit_lost`, and those of `MCRaftFatal.cfg` and `MCRaftFive.cfg` (see below), say
that the Raft of this repository does not always keep that promise, so the results for
`KVServer`, `ShardCtrler` and `ShardKV` hold as long as it does.

There is one key: requests to different keys share the table of requests, the
channels and the locks, and nothing else. A value is the sequence of the writes it is
made of, so that a lost, repeated or misplaced write shows.

`sending[i]` is the send of `signalStartCh`; while it lasts, `kv.mu` is held, and so
is every step that needs it. The handlers of `Get` and `PutAppend` are the same code
for another operation and are one set of actions here.

`KVStore` is the abstract store. Its state is the value, the pending call of each
client, whether it has taken effect, and the values there were since it began.
`KVServer` implements it under the mapping of `Store`: the value is the one after the
whole committed log (`valueNow`), a call has taken effect when its first entry is
committed (`tookEffect`), and the values since it began are those after the entries
since then (`valuesSince`).

### `ShardConfig` and `ShardCtrler`

Raft is the one of `KVServer`. The reply channels are copies of `kvraft`'s, so their
races are left to `KVServer`; here `clerk[c].server = i` says that the call of `c` at
`i` has started its command and waits. `callFails` is every way for such a call to end
without an answer: loss of a message, the timeout, a closed channel, a leader that lost
its office. A handler whose call was given up is its uncommitted command in `started`
and nothing more.

The operators `assignVoidShards`, `minGroup`, `maxGroup`, `moveOne` and
`redistributeShards` translate `util.go`; the loop of `redistributeShards` is a
recursive function. A group is its id, since nothing depends on its servers. These
operators are in `ShardConfig`, because the groups of `ShardKV` follow the same
configurations. `getMinMaxGroup` begins its search for the smallest share with 257, which
is why `ShardsAssumption` allows 256 shards at most; the code has 10.

`handleSnapshotApply` drops the snapshot, as `applyTicker.go:127` does, and sets
`missed`, which is not in the code. `ConfigsFollowLog` and `QueryIsCurrent` make an
exception for controllers with `missed` and for what they snapshot and answer; without
it both are violated, see below.

### `ShardKV`

`log[s]` is what follows the snapshot of server `s`, up to the end of its group's log,
and `kv[s].applied` counts how much of it `s` has applied; -1 says that the server has
restarted and waits for its snapshot. `Start` appends to the log of the whole group at
once or, when the server does not lead or its entry is overwritten later, not at all:
entries that survive keep the order in which leaders took them, so nothing is lost by
this. Any server may believe that it leads. The controller is `configs`, of which
`Query` returns an element.

| Action | Code |
| --- | --- |
| `checkShards`, `startInstall` | `shardConfigTicker`: the look under the lock; the second look without it, `Query` and `Start` |
| `findLagging`, `goAcquireShards` | `acquireShardTicker`: the look under the lock; the second last configuration, read without it, and the goroutines |
| `AcquireShards`, `acquireFails`, `handleAcquireShardReply` | a goroutine in `acquireShards`: a server answers; a call fails or is refused and the next server is tried; the answer is given to `Start` |
| `begin`, `refresh`, `callFails`, `refuse`, `accept` | a clerk's call: its number, a new configuration, an attempt that fails, one that is refused for the wrong group, one whose command is started |
| `handleCommandApply`, `installSnapshot` | the apply ticker, with what the handler and the clerk make of the reply |
| `StartServer` | `ShutdownServer` and `StartServer` on the same persister |
| `reconfigure` | `Join`, `Leave` or `Move` at the controller |

Every shard has one key, as shards and not keys migrate. A value is the sequence of its
writes, as in `KVServer`. The reply channels are those of `kvraft`; `clerk[c].server`
says where a handler waits, as in `ShardCtrler`. A request that reaches its server only
after its clerk has gone on is not modelled.

`Settled` is an assumption about whoever changes the configuration: it waits until all
servers have reached the last one, have their shards and have nothing under way. The
code does not wait, and the tests do not always (`test_test.go:148`: "allow time for
shards to transfer."). With it the properties hold; without it `NoWriteLost` does not
(`shardkv_lost`).

### `MapReduce`

A call of `HandleRequestTask` is one action by what it answers, since its handler
holds the lock throughout and its worker waits. The ten seconds of a task pass in
`mapTimeout` and `reduceTimeout`, at any time. `DoMap` renames one intermediate file
per step and `readIntermediate` opens one per step, so a crash, or another worker, can
come between any two. The content of `mr-i-j` depends on the input only, so just its
existence is kept; the content of `mr-out-j` is the set of map tasks it was made of.

## Runs

| Run | Question | Instance | States |
| --- | --- | --- | --- |
| `raft_elections` | `ElectionSafety` with delayed calls, late vote goroutines and a restart | 3 servers, 2 contenders, `MaxTerm` 3, 2 calls in flight, 1 restart | 1.56M |
| `raft_replication` | `TypeOK`, `LogMatching` | 3 servers, 2 contenders, `MaxTerm` 3, 2 commands, 1 call in flight | 2.36M |
| `raft_apply` | `Durable`, `SnapshotCoversTrimmedLog`, `ApplyInOrder`, `StateMachineSafety`, `FatalOnlyPastTheEnd`, `TermsNeverRegress`, `AcksLostToOlderCallsOnly` | 2 servers, 2 values, 2 commands, snapshots, 2 calls in flight that may overtake each other, 1 restart | 1.57M |
| `raft_commit_lost` | `StateMachineSafety` is violated | 3 servers, 2 contenders, `MaxTerm` 3, 1 call in flight | - |
| `kv_once` | `TypeOK`, `StateIsReplay` | 2 servers, 1 clerk with 2 requests, log of 3, snapshots, 1 restart | 648k |
| `kv_overlap` | `StateIsReplay`, `SendsHaveAReader` | 1 server, 1 clerk with 2 requests, 2 handlers and 2 commands at a time, log of 3, snapshots, 1 restart | 376k |
| `kv_linear` | `Linearizable`: `KVServer` implements `KVStore` | 2 servers, a reader and a writer, log of 2 | 923k |
| `kv_stuck` | `HandlersReply` is violated | 1 server, 1 request | - |
| `ctrl` | `ConfigsFollowLog`, `QueryIsCurrent`, `RebalanceCorrect`, `JoinIsMinimal` | 4 shards, 3 groups, 2 controllers, 1 clerk with 3 requests, 2 uncommitted commands, log of 3, 1 restart | 816k |
| `shardkv` | `TypeOK`, `OneGroupServes`, `NoWriteLost`, `WrittenOnce` | 2 groups of 1 server, 1 shard that goes to the other group and back, `Settled`, 1 clerk with 2 appends, logs of 2 after the snapshot, 1 fetch per server, 1 restart in group 1 | 1.39M |
| `shardkv_lost` | `NoWriteLost` is violated | the same without `Settled` and restarts | - |
| `mapreduce` | `TypeOK`, `NoMissingInput`, `OutputComplete`, `OutputFinal`, `FinishedIsFinal`, `JobFinishes` | 3 workers, 2 of them unreliable, 2 map and 2 reduce tasks | 212k |

### Bounds

All bounds are constants and are in the guards of the actions that would exceed them.

- `MaxTerm`: a leadership takes two terms here, one for the election and one that
  `becomeLeader` adds. At 3 the term of one leader coincides with the term of another
  candidacy, the case in which this code differs from the paper.
- `MaxLog` counts the entries after the filler at index 0. One command is enough for
  two logs to differ at an index; two are needed for a common entry after a difference, for an apply batch of several messages
  and for a snapshot in the middle of a log.
- `MaxRpcs` and `Slots`: calls in flight, and calls of one kind between the same two
  peers. Two slots let a later call overtake an earlier one; `raft_apply` has them, as
  its properties of acknowledgements and of `log.Fatalf` are about such calls, together
  with snapshots and a restart. `raft_replication` has one call in flight, because its two leaderships with two commands are what makes it large;
  goroutines that have yet to send are not counted, and a call in flight may be
  overtaken by everything that is not a call.
- `MaxCrashes`: the second restart starts in a state that the first one could have
  left.  `Crashing` names the groups of `ShardKV` whose servers restart; group 1 hands
  the shard over and takes it back, so that it restarts in both roles.
- `Contenders` limits who starts elections; the others vote and follow.
- In `KVServer`, `MaxLog` 3 with two requests leaves room for a duplicate before or
  after the second request, and `Slots` 2 lets an older request commit after a newer.
- In `ShardCtrler`, the clerk joins two groups, then queries, makes one leave or moves a
  shard to a present or an absent group, then queries. `RebalanceCorrect` and
  `JoinIsMinimal` speak of every `Join` and `Leave` of a subset of `Gid` that could come
  next, so assignments of one operation more are covered. Four shards do not divide
  evenly among three groups; two uncommitted commands let an older request commit after
  a newer.
- In `ShardKV`, three configurations are the fewest in which a shard comes back to a group
  that still has an old copy. A log of two after the snapshot puts a client's operation
  before or after a configuration or a shard, and with `maxraftstate` 1 every entry is
  in the snapshot once it is applied; the second fetch of a server begins when the first
  has ended, and its answer may enter the log after the shard was written to. With one
  server per group, `applied` still runs behind the log; two servers that are at
  different places of one log are left to the theorems of `ShardKVProofs`. The clerk only
  appends, so that every write stays visible in the value; the second append is the one
  `WrittenOnce` speaks of.
- Two map and two reduce tasks with three workers let one task be done twice while
  another is done once and allow a crash between the files of one task.

The branch of `handleSendAppendEntries` and of `handleAppendEntriesReply` that ends in
`log.Fatalf` for an index without a known term is not reached within these bounds; the
ones of `commitToApplyChannelWithLock` and of `Snapshot` are, in `raft_apply`.

The properties of snapshots and of the apply channel (`SnapshotCoversTrimmedLog`,
`ApplyInOrder`) compare indexes and lengths, and `lastSnapshotTerm` is in none of them: a
snapshot with a wrong `LastIncludedTerm` would not be noticed by them. `raft_apply` has a
single leadership, so its `StateMachineSafety` is about batches and indexes; what two
leaderships do to it is `raft_commit_lost`.

`CHECK_DEADLOCK FALSE` stands in the runs of `Raft`, `KVServer`, `ShardCtrler` and `ShardKV`, since elections,
commands and requests stop at the bounds. `mapreduce` checks for deadlock: the end of
the job is the action `over`. Symmetry is used in safety runs only: in
`Raft` over contenders, over the other servers and over values, in `ShardCtrler` over
controllers, where groups are ordered and clerks differ.

### Fairness

- `KVServer!FairSpec`: handlers and apply tickers that can take a step do. It is the
  premise of `HandlersReply`, which fails in spite of it.
- `MapReduce!FairSpec`: workers that do not crash go on, the clock goes on, and
  `mrcoordinator` goes on polling `Done`. Unreliable workers may stop anywhere without
  crashing.

## Disagreements between the code and what it says

- `raft_commit_lost`: `becomeLeader` (`raft/raftUtils.go:50`) increments the term after
  the election. Servers can have voted in the new term already, and still follow the
  leader. In the trace such a vote has made another server leader of the next term; the
  first leader has not heard of it and commits with the voter's acknowledgement. The new
  leader then overwrites the entry, and two services apply different commands at the same index (`config.go`: "Checks that no server has
  committed a different value for the same index.").
- `kv_stuck`: the apply ticker sends with `kv.mu` held to a handler that has just
  taken its timeout and waits for `kv.mu` (`kvServerGet.go`: "hear back from channel or
  timeout").

- `shardkv_lost`: `AcquireShards` answers with its newest number and the data it has; the
  test whether it has received the shard itself is commented out
  (`acquireShardTicker.go:104`: "if self timestamp for the shard with sid is equal or
  smaller than the requesting one, report error"). A shard goes from group 1 to group 2
  and, before group 2 has fetched it, back. Group 1 asks group 2, which has an empty
  store, and replaces the only copy (`applyTicker.go:52`). Both groups install that last
  configuration before the shard has arrived: `shardConfigTicker.go:30` checks the shards
  before, and line 34 reads the number after, the configuration in between is applied. An
  acknowledged `Append` is gone (`test_test.go:19`: "Get(%v): expected:\n%v\nreceived:\n%v").

Others were met while modelling and have no run of their own.

In `Raft`; `tlc -config MCRaftFive.cfg MCRaft` and `tlc -config MCRaftFatal.cfg MCRaft`
show them:

- `ElectionSafety` fails with five servers. A goroutine of an earlier election sends its
  request with the arguments of the present one (`requestVotes.go:167`), and votes are
  counted without the voter's name. A voter that is asked twice counts twice. It takes a
  fifth server, as with three one vote is enough anyway (`config.go`: "term %d has %d
  (>1) leaders").
- `NeverFatal` fails with overlapping calls. `AppendEntriesWithLock` cuts the log at
  `PrevLogIndex` even when it has the entries that follow (`appendEntities.go:74`). A
  heartbeat that is overtaken by the call with the first command removes what was
  acknowledged; the next apply asserts that the index is in the log (`logUtils.go`:
  "trying to access index in bigger than log"). Two properties of `raft_apply`, which
  are also theorems, say where this ends: `AcksLostToOlderCallsOnly`, that a late call of
  the same leadership is all that removes acknowledged entries, and
  `FatalOnlyPastTheEnd`, that a server dies at the end of its log only, never at an index
  it has trimmed. `MCRaftFatal.cfg` is a configuration to look at, not one of the runs.

The proof of `AtMostOneLeader` does not go through when there are snapshots, for a good
reason: the goroutine that sends `InstallSnapshot` does not look at the status of its
server. A server that led, stepped down and is a candidate now sends its new term in it,
and `becomeFollower(args.Term, -1)` (`installSnapshot.go:117`) erases the vote that the
receiver has given in that term. The receiver votes again, for the other candidate, and
both become leaders of the next term. No run reaches it: it takes three servers with two
leaderships and snapshots, which is more than a run can explore.

In `ShardCtrler`:

- A controller that is behind receives a snapshot from Raft and drops it
  (`applyTicker.go:127`, the installation is commented out), keeps its old
  configurations, applies later commands to them, and snapshots the result. As a leader
  it answers a `Query` with configurations that are not those of the log (`common.go`:
  "Query(num) -> fetch Config # num, or latest config if num==-1"). Only a restart
  before the next command repairs it. `QueryIsCurrent` without `~a.missed` shows it.
- A `Leave` can move shards of groups that stay: the voids are dealt out in turn, and
  what is then taken from the largest group is its first shard, not one it was just
  given. With four shards in shares 2, 1, 1, the second group leaving moves a shard of
  the first to the third. `test_test.go` has "non-minimal transfer after Leave()s", with
  numbers for which it does not happen. `JoinIsMinimal` is the half that holds.

In `ShardKV`:

- The number a shard gets is the donor's newest one, so a donor that has gone on makes it
  higher than the configuration it was fetched for. Without `Settled` and with a third
  group, a second answer from such a donor is taken for newer data and overwrites writes
  that were acknowledged since the first.
- `shardConfigTicker` checks all shards under the lock and reads the number for `Query`
  without it (lines 30-34), so a configuration can be installed on top of one whose
  shards have not arrived ("if not all up to date, do not get new config").
- The table of last requests cannot hold "request 0 was carried out" for a client the
  new owner does not know, since an absent entry reads as 0 and `0 < 0` is false
  (`applyTicker.go:58`). A clerk's first `Append` that is retried after a migration is
  done twice (`client.go:43`: "avoid duplicate"). `WrittenOnce` without `> 0` shows it.
- A shard that had no group, or one put there by `Move` that is not in `Groups`, has
  nobody to be fetched from; the group that gains it refuses the requests for all of its
  shards for ever. `Leave` of the last group followed by `Join` does it.
- With `maxraftstate` -1 a restarted server replays the old configurations with its
  tickers running. It can then fetch a shard for an old configuration from a group that
  answers with the newest number, and serve with it. This is why `Exclusive` asks for
  snapshots.

## Proofs

TLAPS checks the theorems for every set of servers, commands, groups, clerks and workers
and every value of the bounds. The assumptions are the `ASSUME`s of `Raft`, `KVServer`,
`ShardConfig`, `ShardCtrler`, `ShardKV` and `MapReduce`: the sets are what they should be
(a finite set of servers, finitely many groups, at least one task of each kind), the
bounds are numbers, what clerks ask for are requests, and `Nil` is none of the values it
has to be told from. No assumption is about what an operator computes.

Each proof of an invariant has the same shape: `Init => Inv`, `Inv /\ [Next]_vars => Inv'`
with a lemma per action, `Inv => property`. Before it was proved, TLC checked each `Inv`
on instances like those of the runs.

### `Induction`

The induction theorems of the library have an operator as a parameter, which the
installed provers cannot instantiate. `InductionUpTo` is stated for membership in a set
instead: what is to be shown of a number becomes a set, that set is a term, and SMT can
instantiate it. It follows from the fact that every set of numbers has a least element
(`LeastNumber`), which follows from the library's well-foundedness of `<`. With it the
equation of a recursive function is proved by building, for each bound, a function that
satisfies it up to there (`replayDef`, `redistributionDef`).

### `RaftProofs`

Theorems: `Types`, `Durability`, `SnapshotCover`, `ApplyOrder`, `TermsMonotonic`,
`FatalCause`, for `TypeOK`, `Durable`, `SnapshotCoversTrimmedLog`, `ApplyInOrder`,
`TermsNeverRegress`, `FatalOnlyPastTheEnd`.

None of these is inductive alone; that `getLogEntryAtIndex` returns an entry, for
example, depends on who may ask for which index. The invariant is
`Inv == PeersOK /\ ApplyOK /\ TasksOK /\ CallsOK /\ CallersOK`:

- `PeersOK`: each struct has its type, equals what its persister would restore, its
  snapshot holds as many entries as were trimmed, log and snapshot together are never
  empty, and a leader has `nextIndex` and `matchIndex`;
- `ApplyOK`: while a batch is being delivered its messages continue the service's
  sequence one by one up to `lastApplied`; otherwise the service is at `lastApplied`;
- `TasksOK`: a goroutine that is to send a snapshot belongs to a peer that has led and
  has a snapshot;
- `CallsOK`: calls have their types; an `InstallSnapshot` carries as many entries as it
  says; a call past its handler has a reply, and one that points into the follower's
  snapshot gives an amount above 0;
- `CallersOK`: the caller of a live `InstallSnapshot` has the slices its failure
  overwrites.

The conjuncts depend on each other, which is why they are proved together: the type
of `nextIndex` needs that a call's `SnapshotAmount` is positive, that the service is
in order needs the length of the snapshot, and that needs the trimmed prefix.

`FatalCause` follows from `Inv` and `FatalStep`: a server that is dead after a step was so
before, or its struct is unchanged and an index in it is past the end of the log. The
actions that can end in `log.Fatalf` have a lemma each, which shows the lower limit of the
index: `handleSendAppendEntries` sends below `snapshotEntriesAmount` as a snapshot, the
back-off stops there, the apply delivers the snapshot first when `lastApplied` is below
it, and `Snapshot` returns early.

Three more theorems are about clusters of at most three servers that take no snapshots,
with any number of terms, commands, calls and restarts: `AtMostOneLeader` for
`ElectionSafety`, `LogsMatch` for `LogMatching`, and `AcksSurvive` for
`AcksLostToOlderCallsOnly`. Both hypotheses are needed for one leader in a term, on which
the other two rest: with five servers a vote is counted twice, with snapshots a vote is
erased (both above). Calls overlap and overtake each other as they like: what such a call
may cut off is part of `AcksLostToOlderCallsOnly`, which `raft_apply` checks with
snapshots as well.

The code makes `ElectionSafety` harder to prove than Raft does. A leader's term is the one
after its election, so servers may have voted in it; heartbeats and restarts reset or
repeat votes; the reply of an old election may be counted in a new one. With three
servers one foreign vote is a majority, and `BallotInv` says how far it reaches:

- `Done(i, t)`: server `i` can no longer win the election of term `t`; `Blocked(k, j, t)`:
  the vote of `k` in term `t` is with `j` or `k` is past the term. A server that is `Done`
  stays so (`DoneStays`);
- `Won(t, j)`: `j` is past `t`, and whoever is not `Done` with it has no vote on its way
  and meets only blocked voters. It is stable (`WonStays`), and leaders have it for the
  term before theirs (`LeadersWon`);
- `GrantsFit`, `OneGrant`: a vote on its way that can still decide an election comes from
  a server that does not compete, which can give it to nobody else, and of two such votes
  one is useless. So the one who wins leaves no rival (`WinnerWon`);
- `VotesOne`, `VotesFit`, `AppendsFit`: a candidate has one vote, its own; calls have
  the right ends; a heartbeat that resets a vote in term `t` comes from a server that is
  `Done` with `t`.

`LinkInv` has what the logs need. A link is a position, the term before it and the entry
there, in a log or in the arguments of a call:

- `LinksAgree`: position and term determine a link; `LogMatching` follows by going
  back link by link (`LinksMatch`, with `InductionUpTo`);
- `LeaderHasAll`: no log or call has an entry of a leader's term beyond the leader's log,
  so a new entry agrees with all others;
- `TermsAreWon`: entries have terms of won elections, so a new leader starts with
  none of its own term.

`AckInv` adds that the calls of a term come from one server, the one that leads in it
(`CallsWon`, `CallersLed`, `CallersAgree`), that the leader still has what it sent
(`CallsFromLeader`), that the calls of a term agree where they overlap (`CallsAgree`), and
that who acknowledged a call is in its term or past it (`AckTerms`). What removes
acknowledged entries within a term is the truncation for another call of that term. If
this call does not end earlier than the acknowledged one, the log after it reaches as far,
and by `CallsAgree` with the same entries; so it ends earlier, which is what `overtaken`
says.

What a step does to one struct and to the calls is stated once (`PeerTurn`, `RaftStep`,
`CallStep`) and shown for every action; the invariants are proved from that.

### `MapReduceProofs`

Theorems: `Types`, `ReduceInput`, `Completeness`, `Finality`, `FinishedStays`, for
`TypeOK`, `NoMissingInput`, `OutputComplete`, `OutputFinal`, `FinishedIsFinal`. The
invariant is `Inv == TypeOK /\ MapsOK /\ ReducesOK /\ EndOK`:

- `MapsOK`: a finished map task, or one whose worker is about to report, has all of its
  files, and a worker has renamed the files before `next`;
- `ReducesOK`: a worker with a reduce task, and an output file, exist only after all
  map tasks have finished; what a worker has read are the tasks before `next`; an output
  is complete; a finished reduce task has one;
- `EndOK`: a process that ended, or `isDone`, means that all tasks are finished.

### `KVServerProofs`

Theorems: `TypeCorrect`, for `TypeOK`, and `NoSendIsLost`, for `SendsHaveAReader`.

`TypeInv` adds to the types that no two handlers have the same number, that values and
tables are no longer than the log allows, and that a clerk in a call has a number for it.
`ChannelInv` is about `startChannels`: nobody closes the channel of a handler that has not
created one yet (`RequestsAreOpen`); a channel in the map has its handler,
which has not come to the lock where it deletes it (`ChannelsHaveReaders`); while a send
lasts its channel stays in the map (`SendsAreMapped`). The last holds because everything
that changes the map needs `kv.mu`.

### `KVStoreProofs`

Theorems: `ExactlyOnce`, for `StateIsReplay`, and `ImplementsKVStore`, for `Linearizable`.

The code finds duplicates by comparing numbers (`isDuplicateOp`), the property by looking
for an earlier entry of the same request (`takesEffect`). That the two agree is what
`RequestInv` is for:

- `Known`: no operation, in a handler, with Raft, in the log or in a send, is newer than
  the last request of its clerk;
- `Completed`: every request before the one a clerk is in has an entry in the log;
- `InOrder`: before an entry there are entries of all earlier requests of its clerk. This
  is what `Completed` and `Known` give when an entry is committed;
- `CallsAreNew`: the entries of the call a clerk is in came after it began;
- `HandlerFits`, `OneHeard`, `SendFits`: a clerk listens to one handler at a time, of its
  own call, and an answer that ends a call tells of an entry in the log; for a `Get` it
  is a value from the time of the call (`Truthful`).

With it `StatesAreReplays` is inductive: the table of last requests has for each clerk the
highest number applied, and by `InOrder` every lower one was applied before it
(`DuplicatesAreFound`). The same invariant makes the refinement go through step by step:
`begin` is `Invoke`; `commit` is `Effect` when the entry is the first of the call its
clerk is in, and stutters otherwise, for then the request was in the log already
(`CallsAreNew` and `Completed` exclude a first entry of an older call); a reply that ends
a call is `Return`, allowed because of `Truthful`; all other steps stutter.

### `ShardConfigProofs`

Theorems: `RebalancesWell` and `JoinsMinimally`, about every configuration. They rest on

- `redistributionDef`: the loop of `redistributeShards` ends. While the shares are uneven a
  round takes a shard from a group with the largest share and gives it to one that has at
  least two less. So the largest share shrinks, or it stays and one group less has it;
  `rank` makes a number of the two, which decreases (`rankDecreases`);
- `redistributionEnds`: what every round keeps holds in the end, and the shares are even;
- `assignVoidShardsOK`: a shard of group 0 is given to a group, the others stay, since
  there is a group with n smaller ones for every n below the number of groups
  (`sortedKeyOK`);
- `joinOK`: when the old groups have even shares of all shards, every round keeps that
  they do, and that no new group has more than one shard more than an old one. So the
  group with the smallest share is a new one as long as the loop goes on.

`RebalanceType`, that `rebalance` returns an assignment, is what `ShardKVProofs` needs of it.

### `ShardCtrlerProofs`

Theorems: `ControllersFollowLog`, `QueriesAreCurrent`, `RebalancesAreCorrect` and
`JoinsAreMinimal`, for `ConfigsFollowLog`, `QueryIsCurrent`, `RebalanceCorrect` and
`JoinIsMinimal`. `Inv` has two parts. `ClerksInv` is the argument of `KVStoreProofs` for
requests that are numbered from 0, and that the answer to a `Query` is of its time;
`ServersInv` says that states and snapshots that missed nothing are what the log makes,
and that all configurations, those of a controller that missed some too, are
configurations. The last part is what `RebalancesWell` and `JoinsMinimally` are applied to.

### `ShardKVProofs`

Theorems: `Types`, for `TypeOK`; `Exclusive`, for `OneGroupServes` under the hypotheses
`Settled` and `maxraftstate # -1`; `AtMostOnce`, for `WrittenOnce`, without hypotheses;
and `WritesSurvive`, for `NoWriteLost` under those of `Exclusive` and `NoPut`.

`Types` rests on `TypeInv`: every list of configurations starts with the empty one, so
that a group which misses a shard has a second last configuration; a fetch goes to a
group with servers; a clerk that waits is not past the last server; a restarted server
has the empty state until its snapshot comes.

`OneGroupServes` says nothing about how a server came to its timestamps, so it is not
inductive. `Inv` adds:

- `NumbersOK`: the n-th configuration has the number n - 1, and what logs install is one
  of them;
- `ServerOK`: the snapshot is in the last configuration or in the one before, and in the
  latter case has its shards; what was applied since is client operations, so the state
  has the same configurations and timestamps;
- `FetchOK`: a fetch is for the second last configuration, and an answer with the last
  number means that the previous owner has released the shard: each of its servers is in
  the last configuration or has it in its log (`Released`, `Reached`);
- `GroupsOK`: if a server has reached the last configuration, so has its group;
- `StampsOK`: no timestamp, in a snapshot or in a log, is above the last number, and one
  that equals it belongs to a group that owned the shard already or to one whose
  predecessor has released it.

Of two servers of different groups that serve a shard, one is in the last configuration
and one in the previous; the first has the last timestamp, so the second has an entry in
its log that takes it out of its configuration, and has not applied all of its log.
Waiting (`Settled`) is needed in `reconfigureInv`, snapshots in `handleCommandApplyInv`.

`AtMostOnce` rests on `OnceInv`: a value and the table of last requests that is kept, sent
or logged with it are `Sound` together. No request above 0 is in the value twice, and the
table of the state, the reply or the operation knows every request of the value, with a
number that is not smaller. Tables only grow when they are merged, so a value that comes
with its own table, or is kept beside a merged one, stays sound; `handleClientOp` appends
only what the table does not know. The order of the configurations does not matter, which
is why this theorem needs neither `Settled` nor snapshots.

`NoWriteLost` is about a write that was acknowledged, and the server that has it may be
several entries behind or ahead of the one that serves. `HistInv` therefore adds to `Inv`
that there are two pieces of history (`Story`): the state `F[g]` that the whole log of
group g leads to, and the set `D` of the client operations that were carried out, or were
duplicates of one that was, at the place where they entered a log.

- `Run`, `Runs`: the snapshot and the log of every server of g lead to `F[g]` one entry
  after the other, and the state of the server is one of those on the way. An operation
  that passes its tests there is in `D`. A shard that is not the group's in the last
  configuration does not change any more.
- `Hist`: every group is in the last configuration or in the one before; a group that
  holds a shard took it from one that had let it go; every request in a table is in `D`;
  every append of `D` is with the group that holds the shard, or with the previous owner
  as long as nobody does (`Kept`).
- `Brings`: an answer with the last number is what the previous owner has for good, as it
  has let the shard go; what a fetch brings can still be installed only by the group the
  shard belongs to.
- `ClerkOK`: an acknowledged operation is in `D`, and an operation of `D` that is the
  clerk's current request is the one the clerk retries.

The history grows only in the actions that call `Start`; all others move a server along
it. A group that serves a shard holds it, or held it and nobody does (`served`), so `Kept`
gives the write. `NoPut` is there because a `Put` replaces what was written before, by
this clerk or another, and `NoWriteLost` does not tell that from a loss. TLC has checked
`Story`, with `F` and `D` computed from the logs, over the bounds of `shardkv` before it
was proved; as it stands it quantifies over them and TLC cannot evaluate it.

### Model-checked only

- `StateMachineSafety` of `Raft`. It fails with a second contender, so it is not a theorem
  of this code; `raft_apply` checks it with one.
- Liveness (`JobFinishes`, `HandlersReply`), which rests on
  fairness and ENABLED and is out of the prover's reach.

## Not modelled

- Liveness of migration. With both tickers, fetches and clerks the state graph is too
  large for TLC's liveness checking; where a migration never ends is listed above.
- In `ShardCtrler` and `ShardKV` the reply channels and the lock that is held while one
  is sent to: `KVServer` models them, `kv_stuck` shows what becomes of it, and the three
  services share the code. A handler whose caller left before it got the lock.
- The timers of all tickers: every tick may come at any time.
- Encoding (`labgob`), the linearizability checker (`porcupine`, `models`), the map and
  reduce functions (`mrapps`), the command-line programs and the commented-out worker:
  pure, third-party, or not part of the system.
- `raft/2timesvote.ts` is not code: it is the recorded output of a test run, debugging
  lines of the Raft peers included. There is nothing in it to model; the code that wrote
  it is `raft/*.go`.

## Plan

In order of weight; all are done.

1. `Raft`, its runs, and the proof of `Inv`.
2. `KVServer` over the promise of Raft, with `KVStore` as its abstract specification.
3. `MapReduce` and its proofs.
4. `ShardCtrler`: the assignment of shards and its replication.
5. `ShardKV`: migration of shards, and the proof that one group serves a shard.
6. `KVServerProofs` and `KVStoreProofs`: types, channels, exactly-once and the step
   simulation of `KVStore`.
7. `ShardConfigProofs` and `ShardCtrlerProofs`: what `redistributeShards` computes, and
   that the controllers follow the log.
8. `RaftProofs`: one leader in a term, matching logs, what can remove acknowledged
   entries, and where a server can die.
9. `ShardKVProofs`: requests are written once, and no acknowledged append is lost.
