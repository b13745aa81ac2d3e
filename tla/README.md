# Key-value store: TLA+ models, model checking and proofs

The repository is a replicated key-value store: an LSM storage engine
(`engine`, `memtable`, `wal`, `sstable`) under a Raft consensus library (`raft`),
tied together by an event loop (`server`) and a TCP transport (`transport`).
This directory holds specifications of that code, the TLC configurations that
check them on small instances, and TLAPS proofs for every size.

## The parts and how they interact

| Part | Source | State it owns | What drives it | Module |
|---|---|---|---|---|
| Raft core | `raft/raft.go`, `raft/message.go` | role, term, vote, log, progress of peers, pending reads | `Tick`, `Step`, `ProposeBatch`, `RequestReadIndex`, `CreateSnapshot`, `Ready`/`Advance` | `Raft`, `ReplicatedLog` |
| Raft node and storage | `raft/node.go`, `raft/storage.go`, `wal/` | HardState, entries and snapshot on disk | `Persist`, `OpenNode` | `RaftStorage` |
| Server | `server/server.go`, `cmd/kvstore/main.go` | `lastApplied`, waiters, pending reads, the batch | one goroutine, `Run`: ticker, messages, proposals, reads, stop | `Server` |
| Transport | `transport/transport.go`, `codec.go` | one cached connection per peer, accepted connections, incoming channel | `Send`, `acceptLoop`, `handleConn`, `Close` | `Transport` |
| Engine | `engine/engine.go` | memtables, WALs, SSTables, restore marker | `Open`, `ApplyBatch`, `Get`, `Flush`, `runFlush`, `Snapshot`, `RestoreSnapshot`, `Close` | `Engine` |
| Memtable, SSTable | `memtable/`, `sstable/` | skip list; block files, Bloom filter, block cache | the engine | `Tables` |
| HTTP, commands | `server/http.go`, `server/command.go`, `cmd/kvstore/handlers.go` | none | clients | not modelled |
| Benchmark | `bench/naive.go` | a map with a log | benchmarks only | not modelled |

Every Raft event of a node, and the `pump` after it, runs in the server's one
goroutine, so what interleaves in `Raft` is nodes, messages, crashes and broken
connections. `Server` adds the clients' goroutines, which meet `Run` only at
channels and at the engine. In `Engine`, `e.mu` separates the caller, readers and
the flush goroutine; in `Transport`, `t.mu` and a mutex per connection.

The modules assume of each other what the others show. `Raft` takes its `disk` for
granted, which `RaftStorage` derives from files and file operations that fail.
`Server` sees Raft as an environment that keeps what is committed, which is what
`ReplicatedLog` promises, and the engine as a map, which is what `Engine` shows of
`Get` and `Snapshot`. `Engine` sees a table as a map from keys to records, which is
what `Tables` shows of skip lists and block files. `Raft`'s queues per connection are
what `Transport` shows (in order, without gaps, nothing twice).

## Modules

The field `map` of `PROJECT.json` names the source lines of every definition.

- `Raft.tla`: `raft`, driven as `server.pump` drives it. An action is one event
  (`Tick`, `Step` of one message, `ProposeBatch`, `RequestReadIndex`) *and* the pump
  that follows, also when a tick fires no timer (`IdleTick`): `Pump` writes `disk` (`Persist`), the messages are sent (`Exchange`),
  what is committed is applied, and the log is possibly compacted (`MaybeSnapshot`).
  The compaction reaches `disk` only with the next event, as in the code. `Step` has
  one action per handler; the early returns of `handleAppendEntries` and
  `handleInstallSnapshot` are actions of their own, and so is the out-of-range slice
  in the former (`PanicInAppend`). A log is `[base, entries]`: the entries the state
  reflects, of which the first `base` exist only as a snapshot.
- `ReplicatedLog.tla`: what Raft promises. One growing sequence of chosen entries, of
  which each node has applied a prefix, stepping back only by a restart. `Raft`
  implements it (`Chosen == INSTANCE ReplicatedLog WITH ...`).
- `RaftStorage.tla`: one node's log file. `SaveHardState`, `SaveEntries` and
  `SaveSnapshot` are lists of file operations; each may succeed, fail (the node
  lives on and tries again later) or be cut short by a crash. A file is its whole
  records, how many of them survive a power loss, and whether a broken record
  follows; `Replay` is `OpenStorage`.
- `Server.tla`: `Run`, its `pump`, the clients' calls, `Stop` and the restart. A case
  of `Run`'s select is one action with its pump. `Persist`, `RestoreSnapshot` and
  `ApplyBatch` may fail. The variable `chosen` is what the cluster has committed;
  `rolledBack` records that a late snapshot has taken the node's log back below its
  commit index.
- `Transport.tla`: goroutines that send to one peer, and that peer's receiving half.
  A frame is two writes; a connection holds a bounded number of them and then
  blocks the writer. Connections break and are dialed again, either side closes, and a
  failing `Accept` ends the accept loop (`AcceptFails`).
- `Engine.tla`: a memtable, a WAL and an SSTable are each what they hold of every
  key. Each section under `e.mu` is an action; `runFlush` is `FlushWrite`,
  `FlushInstall`, `FlushCleanup` and `FlushFails`. Crashes strike between sections
  (`Crash`) and inside the multi-step file operations (`CrashInAppend`, `CrashInOpen`,
  `CrashBeforeCommit`, `CrashAfterCommit`); a WAL append (`AppendFails`) and a restore
  (`RestoreFails`) may also fail while the process lives on. The history variable
  `store` is what the acknowledged operations add up to, `refused` what failed appends
  may have left in the WAL, and `mishaps` which of the disorders below have happened.
- `Tables.tla`: the skip list with its towers, an SSTable's blocks, index, filter and
  footer, `Get` and the iterator, and the shared LRU block cache. A reader's Get or
  iterator reads one block at a time, so that readers race in the cache. A table may be
  empty, as that of a restored empty snapshot is. The algorithms are checked against
  `written` and `content`, what was put.
- `MC*.tla` instantiate these for TLC: model values, symmetry, and starting states or
  splits of the bounds. Every starting state is reachable; its comment says how.
- The proofs are in modules of their own. `RaftFacts` has facts about numbers,
  sequences and Raft's operators; `RaftElection` types and elections; `RaftKinds` sorts
  the steps of Raft into eight kinds by what they do to logs, messages and roles, and
  `RaftSteps` proves that every action is of one of them; `RaftLog` argues about the
  logs by kind, and `RaftTheorems` puts these together. `TransportProofs`,
  `ServerProofs` and `EngineProofs` have what their names say.

### Network and disk in `Raft`

`net[<<i, j>>]` is a FIFO queue. A broken connection loses its newest messages
(`DropConn`). After a redial the goroutine of the old connection may still be
draining it, so a message may overtake those before it (`Overtake`, which counts as a
fault). `MaxFlight` bounds
the queue; a full one blocks the sender, as `Send` does. A crash between `Persist`
and the sends is the event, followed by `DropConn` and `Crash`. A crash in
`SaveEntries` leaves the truncation record and a prefix of the entries
(`TornLogs`); `SaveHardState` is one record; `SaveSnapshot` ends in a rename.

## What the runs check

| Run | Instance | Properties |
|---|---|---|
| `raft` | 3 nodes; from an empty cluster (2 timeouts), a leader one node has not heard of (1 timeout, 1 fault), diverged logs of terms 1 and 2 (1 more election), a deposed leader with a read | `TypeOK`, `ElectionSafety`, `LogMatching`, `MatchIndexSound`, `CommittedOnMajority`, `LeaderCompleteness`, `ReadIndexFresh`, `StepsImplementReplicatedLog` (every step is one of `ReplicatedLog`) |
| `raft_alone` | 1 node, 2 values, 3 indices, 3 terms, 2 crashes, a snapshot every 2 entries | `ImplementsReplicatedLog` on the single-node paths |
| `raft_snapshot` | 3 nodes with compacted logs, 3 entries, 1 timeout, 2 faults, 3 messages in flight | `VotesDurable`, `SnapshotsCommitted` across `InstallSnapshot`, a panic and restarts |
| `raft_catchup` | 3 nodes, a stable leader, 2 entries, a snapshot after each, 1 fault | `CatchUp` (liveness) |
| `storage` | 2 terms, 2 indices, 4 handlers, 1 crash, 1 failing file operation | `RecoveredIsLog`, `NothingUnsavedMeansSaved`, `SentIsRecoverable` |
| `server` | 2 Puts, 1 LinearizableGet, a foreign command, batches of 2, a channel of 1; crashes and failing calls in six combinations | `AckedIsChosen`, `AnsweredOnce`, `EngineReflectsLog`, `SnapshotReflectsLog`, `ReadSeesIndex`, `EveryCallReturns`, `BatchIsSubmitted` (the last two liveness) |
| `transport` | 2 goroutines, 2 dials, 2 or 3 messages, one of them too long, 1 break | `FramesWhole`, `DeliveredInOrder`, `NothingLeaks`, `NoSendOnClosed`, `SendReturns`, `CloseReturns` (the last two liveness) |
| `engine` | 2 keys; up to 2 writes, 1 restore, 2 crashes or closes, 1 failing flush, append or restore, in four combinations | `Durable`, `OnlyRefusedAdded`, `LoggedExactly`, `NumbersFresh`, `ReadsLatest`, `SnapshotExact`, `CallsReturn` (liveness) |
| `tables` | 3 keys, 3 puts, 2 tables, 2 readers with 2 Gets or iterators, a cache of one or two blocks, 1 damaged block | `SkipListExact`, `GetExact`, `WalkExact`, `CacheBounded` |

Each property has a mutant: a plausible bug in one mapped definition under which TLC
finds the property violated. The mutants stand beside what they mutate.

No run checks deadlock: every bound on timeouts, faults, writes or entries makes
the model stop where the program would go on.

### Where the code and its comments differ

In three runs TLC finds a behaviour of the code that contradicts a sentence of its
documentation (`findings` in `PROJECT.json` quotes it):

| Run | What the code does |
|---|---|
| `raft_fresh_leader_read` | a leader that has committed nothing in its term confirms a read older than its predecessor's commits (`ReadIndexCurrent`) |
| `raft_snapshot_discards` | a delayed snapshot replaces a log that already reaches past it, and acknowledged, committed entries go with it (`CommittedOnMajority`) |
| `engine_crash` | a crash in `RestoreSnapshot` before its commit point leaves the new SSTable where the next `Open` reads it (`CrashRecovers`) |

The modelling met more such behaviours, which have no run of their own.

- Raft. Entries that overlap a follower's compacted prefix are compared with terms the
  log no longer has; the cut is out of range and the process panics (`PanicInAppend`,
  fired in `raft_snapshot`). `handlePreVote` does not ask whether a leader is alive, so
  one timeout can depose a leader that everyone hears from.
- Storage. The directory is not synced after the rename of the rewritten log, although
  `storage.go:293` calls it durable. `RenameIsDurable` states the comment's view;
  `SentIsRecoverable` needs it.
- Server. If `RestoreSnapshot` or `ApplyBatch` fails, `lastApplied` moves on all the
  same and later snapshots claim what is not in them: hence `engineFailed` in
  `EngineReflectsLog`, `SnapshotReflectsLog` and `ReadSeesIndex`. `Stop` before `Run`
  waits for `doneCh` for ever, although `server.go:383-384` calls it safe. A restarted
  node applies its log again to an engine that already holds it, so a snapshot taken
  then is ahead of its index on some keys; `Reflects` allows just that.
- Transport. `Send` has no write deadline: a peer that stalls blocks `Run`, and two
  nodes whose channels and sockets are full wait for each other. `SendReturns` is
  stated for peers that have not stalled. `writeFramed` sends messages that
  `readFramed` refuses as too long. `dropConn` may drop a newer connection than the one
  that failed, which costs a redial only.
- Engine. `CrashRecovers` fails in a second way, as TLC shows when `engine_crash.cfg` is
  given `MaxRestores = 0` and `MaxWrites = 1`: a crash while a flush writes its SSTable leaves
  a torn file under the final name, on which `Open` fails (`CanOpen`), although "a crash
  mid-flush can still recover" (`engine.go:41-43`); its records are still in the WAL.
  `runFlush` clears `immutable` before it removes the WAL, so a second flush may overtake
  that removal in spite of "at most one flush in flight at a time" (`engine.go:43`);
  after a crash the older WAL is replayed over the newer table. A failed append leaves
  records of a write that was refused, which a restart brings back, and later writes
  follow them in the file. A restore that fails leaves its files, too, and the engine
  goes on to use their numbers. A failed flush drops the frozen memtable, whose keys read
  as older until a restart: hence `~flushErr` in `ReadsLatest` and `SnapshotExact`. Every
  write during a flush waits for it, not only one that would start a second
  (`WaitForFlush`). `Snapshot` does not ask the iterator's `Err()` (`engine.go:896`),
  which `WalkExact` shows to be needed.

The modules have all these steps but the last; the properties that one of them makes false say so.

- `mishaps` of `Engine` is the set of an overlapping flush, a failed append, an
  interrupted and an aborted restore. `Durable`, `ReadsLatest` and `SnapshotExact` hold
  while it is empty (`orderly`), `OnlyRefusedAdded` in spite of failed appends,
  `LoggedExactly` in spite of overlaps and interrupted restores, `NumbersFresh` of
  everything but an aborted restore. `Held` is what `Open` recovers if it can, and would
  recover without the torn SSTables it fails on.
- `Intact` of `Server` says that no late snapshot has rolled the log back
  (`raft_snapshot_discards`). `AckedIsChosen`, `EngineReflectsLog`, `SnapshotReflectsLog`
  and `ReadSeesIndex` hold up to that step; `AnsweredOnce` and the liveness properties
  need no such condition.
- `Stalled(s)` of `Transport`: the peer has stopped to take what `s` writes, for good,
  because nobody receives from its channel or its accept loop has ended. `SendReturns` is
  stated for the others.
- `CommittedOnMajority` is checked in `raft`, which takes no snapshots, and violated in
  `raft_snapshot_discards`, which does.

### Bounds

Three nodes are the smallest cluster with a majority that is not everyone. Two timeouts
give two competing candidates, and a second leader with the first one's messages in
flight. Two indices make a batch, a pipelined pair and a conflict behind a matching
entry; `raft_snapshot` needs a third behind a snapshot of two. One fault is a crash
(torn write included), a lost message or one overtaking another at the worst moment. `Bound` limits the
messages in flight in the whole cluster (three, and four from term 3 on in `raft`): more of them are more copies of the same
races between two nodes, and without it the state space is out of reach.

In the engine two keys let a snapshot be half read and a log half rewritten, and two
writes give an old and a new record of one key in every pair of places. In the server
two Puts share a batch or race for the one slot of the channel, and a foreign command
takes the index of one of them. In the transport two goroutines race for a dial and for
a connection's mutex, and the second dial is the reconnection. In `storage` four handlers
are enough for an append, a conflict that truncates it, a snapshot and a retry. In
`tables` three entries of different sizes make one, two or three blocks. That run makes
its tables before the first read, an empty one first, and reads only tables whose keys
were written in order: a table never changes, and readers compare no sequence numbers.

`MaxReads = 0` and `SnapshotThreshold = 0` switch off what a run is not about.
Node and reader symmetry is sound: none is named. `VIEW` drops only values that
are overwritten before they are read.

### Fairness

`raft_catchup` assumes that the leader stays (no election timeout fires), that
its heartbeat timer fires, and that a message which was not lost is delivered and
handled: the ticker and `handleConn` run for as long as the process does. A
heartbeat finds the connections idle, its interval being far longer than a round
trip. `engine` assumes weak fairness of the flush goroutine, of a caller that waits
and of `Close`; that a flush succeeds is not assumed. `server` assumes that `Run` keeps
selecting and starves no ready case, that the batch timer and the clients' timeouts
fire; nothing is assumed of Raft. `transport` assumes that every goroutine goes on when
it can; nobody has to call `Send` or `Close`, or to go on receiving. All these are
goroutines that are ready to run, or timers.

## What is proved

TLAPS checks the theorems below for every value of the constants, so for any number
of nodes, keys, calls, connections, crashes and failures. They rest on the named
assumptions of the modules only: the bounds are naturals, the special values (`Nil`,
`Absent`, `Torn`, ...) are distinct from the ordinary ones, nodes and calls are
finitely many. Each theorem names the definition a run checks.

| Theorem | Module | States |
|---|---|---|
| `TypeCorrect` | `RaftElection` | `TypeOK` |
| `VotesAreDurable` | `RaftElection` | `VotesDurable` |
| `OneLeaderPerTerm` | `RaftElection` | `ElectionSafety` |
| `LogsMatch` | `RaftTheorems` | `LogMatching` |
| `FramesStayWhole` | `TransportProofs` | `FramesWhole` |
| `DeliveryInOrder` | `TransportProofs` | `DeliveredInOrder` |
| `ConnectionsDoNotLeak` | `TransportProofs` | `NothingLeaks` |
| `ChannelClosedLast` | `TransportProofs` | `NoSendOnClosed` |
| `NobodyAnsweredTwice` | `ServerProofs` | `AnsweredOnce` |
| `AcksAreTrue` | `ServerProofs` | `AckedIsChosen` |
| `DirectoryIsDurable` | `EngineProofs` | `Durable` |
| `GetsReadLatest` | `EngineProofs` | `ReadsLatest` |
| `SnapshotsAreExact` | `EngineProofs` | `SnapshotExact` |
| `WalsMatchMemtables` | `EngineProofs` | `LoggedExactly` |
| `NamesAreFresh` | `EngineProofs` | `NumbersFresh` |

**Raft, elections.** `TypeOK` is not only shapes: `nextIndex` stays above 0, so
`nextIndex - 1` never wraps, and a log never ends before its snapshot boundary. The
invariant for elections is `VoteInv`: between two events a node's term and vote are
those on its disk (`HardStateOnDisk`); every vote that has left its node, whether in
flight, counted by a candidate or part of a won election, is on that node's disk unless
the disk has moved to a later term, and no node has votes out for two candidates of a
term (`VoteSafety(Nat)`); every election was won with a majority. `ElectionSafety` alone
is not inductive: two winners of one term have a voter in common, and to conclude that
they are one node the invariant must account for that voter's every ballot, across its
restarts. A step preserves `VoteSafety` if disks only grow (`DiskGrows`) and every
ballot that appears is on disk with the same step (`NewBallotsOnDisk`); the actions are
checked against these two.

**Raft, logs.** `LogMatching` speaks of two logs; what keeps it true is spread over
logs, disks, messages in flight, snapshots and the logs leaders were elected with.
`RaftLog` therefore takes an entry wherever it is for a *fact* (`Fact`): its index, the
entry, and the term of the entry before it. `Known` is the set of all facts in the
cluster, and `FactInv(Known)` says that two facts of the same index and term are the
same fact, that every term in them belongs to an election, and that no fact of a
leader's term lies beyond the leader's log. With `OneLeaderPerTerm` the last part shows that the one entry
a leader appends can not contradict an existing fact. Everything else a step does moves
facts from one place to another, which is where the eight kinds come in: for each it is
shown that the facts afterwards are facts from before, or new ones of a leader. The rest
of `LogInv` says that disks hold what logs hold (`DiskHasLog`, used at a restart, torn
write included) and that a snapshot covers only what was recorded as committed
(`CommitRecorded`). Two logs that share a fact share, by the `prev` in it, the one
before, and so down to the first.

**Transport.** `Inv` says who holds a connection: our end is open exactly if it is the
cached one or some goroutine is about to register it, and no two goroutines register
the same; the peer's end is open exactly if it is in `inConns` or in the accept loop's
hands. The second part (`Fresh`) is what makes it inductive: what is not dialed or not
accepted yet is in nobody's hands.

`StreamInv`, on top of it, is about the bytes. What is on a connection is told by two
histories, the messages sent on it and those delivered from it: `Aligned` says that the
rest of the stream is the frames behind the delivered ones, less what the handler has
already taken of the next (`Offset`), and that a length without its payload is that of a
goroutine which holds the connection's mutex (`Half`, `Locked`), as long as the
connection lives. Interleaved writes would break just that. That no message is sent
twice (`Once`) needs every Send's own number to be in one place.

**Server.** `Base` says that a call is in one place only (a channel, the batch, or a
map) and that as long as it is in one it has no result; a handler that answers a call
removes it from its place in the same step. `Agreement` adds that a node's log agrees
with `chosen` up to its commit index, the log on disk up to its snapshot, and that the
results so far are true of `chosen`. The disk's part is needed for the restart, which
begins at the snapshot. `AckedIsChosen` is stated, and `Agreement` holds, up to the step
of `raft_snapshot_discards`; no step is excluded.

**Engine.** `Inv` relates the running engine to its directory: new
numbers are above all files; the active WAL holds the memtable, that of a flush the
frozen one; at most one flush is unfinished, and `immutable` is what it writes; the
restore marker names an SSTable and some WAL is not superseded, without which a
restart would begin numbering too low. `DInv` adds `Durable` itself,
what a half-read snapshot holds (`SnapshotSoFar`), and `Orderly`: while no flush has
failed, the open SSTables are the complete ones of the directory but for one that is
about to be installed, they are in descending order, the only WALs left are the active
one and the flush's, and the table a flush has written is the newest as long as its
WAL would still be replayed (`Kept`). With that, `GetIsRecovered`: what a Get finds in
the memtables and open tables is what `Open` would recover from the files. So each
action is shown once to keep what the files hold, and reads follow. These three
theorems (`DirectoryIsDurable`, `GetsReadLatest`, `SnapshotsAreExact`) speak of the
states where `orderly` holds, that is, where none of the four mishaps above has happened
yet; `WalsMatchMemtables` and `NamesAreFresh` go on after the ones named there. Most lemmas
take facts about sets of numbers as a hypothesis (`NumberFacts`), which
`NumberFactsHold` proves from the library.

### Only model-checked

- Liveness (`CatchUp`, `EveryCallReturns`, `BatchIsSubmitted`, `SendReturns`,
  `CloseReturns`, `CallsReturn`): fairness and `ENABLED` are out of the prover's reach.
- `RaftStorage` and `Tables`: replaying a log, searching a skip list and cutting blocks
  are recursions over data, and what they compute for every input needs induction that
  the installed provers cannot do.
- `OnlyRefusedAdded` of `Engine`.
- `EngineReflectsLog`, `SnapshotReflectsLog` and `ReadSeesIndex` of `Server`: what a fold
  over a log yields, for the same reason.
- Of `Raft`: `MatchIndexSound`, `CommittedOnMajority`, `LeaderCompleteness` and the
  refinement of `ReplicatedLog`. With snapshots they are false (`raft_snapshot_discards`),
  and without them no inductive invariant has been proved. `ReadIndexFresh` and
  `SnapshotsCommitted` rest on them.

## What is not modelled

- Randomised election timers and tick counts: a timeout may fire at any time, which
  allows more than the code does.
- Bytes, checksums, encodings and malformed input: `wal/record.go`, `server/command.go`,
  `transport/codec.go`. What they are for is: a torn or damaged record,
  frame or block is recognised as such.
- A file that is to be removed is removed. A successful fsync is taken to make earlier
  records of the file durable too, although a previous one has failed.
- After a failed `Persist` the disk of `Server` is the old or the new one; what is in
  between is the subject of `RaftStorage`. A storage whose buffered writer has failed
  keeps failing until a restart or a rewrite by a snapshot, so its node stays silent.
- That `Snapshot` ignores the iterator's error: `Engine` has no damaged blocks.
- A payload of 4 GiB or more, whose length would not fit the frame's four bytes.
- Two nodes that wait for each other's full channels: `Transport` has one direction.
- HTTP handlers keep no state; `main` appears as `Server`'s restart; `bench` is not part
  of the store. The block cache is keyed by path, and relies on a new file having a
  new name (`NamesAreFresh`).
