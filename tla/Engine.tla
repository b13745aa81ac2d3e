------------------------------- MODULE Engine -------------------------------
(***************************************************************************)
(* The engine package: an LSM store of one active memtable with its WAL, a *)
(* frozen memtable while a background flush runs, and SSTables.            *)
(*                                                                         *)
(* e.mu makes every locked section one action; runFlush, which locks only  *)
(* to publish its result, is one action per section.  One goroutine calls  *)
(* the engine (the server's Run), any goroutine may call Get.              *)
(*                                                                         *)
(* A memtable, a WAL and an SSTable are each represented by what they hold *)
(* of every key: the last record for it, or Absent.  That is what          *)
(* memtable.Put keeps, what replaying a WAL rebuilds and what an SSTable   *)
(* stores; sequence numbers decide nothing and are left out.               *)
(*                                                                         *)
(* A file is in the directory once it has been created, renames and        *)
(* removals take effect in the order they are made, and a synced file      *)
(* survives a crash.                                                       *)
(***************************************************************************)
EXTENDS Integers, Sequences, FiniteSets

CONSTANTS
    Key, Value,
    Tombstone,    \* the record of a deletion
    Absent,       \* no record for the key
    Torn,         \* an SSTable file without its footer: it can not be opened
    NoTable,      \* e.immutable = nil, no call waits, a Get that is not running
    MaxBatch,     \* bound: operations in one batch
    MaxWrites,    \* bound: batches written
    MaxRestores,  \* bound: snapshots restored
    MaxStops,     \* bound: crashes and closes
    MaxFailures   \* bound: writes and flushes that fail

ASSUME RecordAssumption ==
    /\ Tombstone \notin Value /\ Absent \notin Value /\ Tombstone # Absent

ASSUME BoundAssumption ==
    /\ {MaxBatch, MaxWrites, MaxRestores, MaxStops, MaxFailures} \subseteq Nat

VARIABLES
    \* the directory
    wals,       \* the WAL files: number -> contents
    ssts,       \* the SSTable files: number -> contents, or Torn
    marker,     \* RESTORE_MARKER, 0 if there is none
    \* the Engine struct; meaningful while the store is up
    up, closed,
    mem, immutable,
    w,          \* the number of the active WAL
    sstables,   \* the numbers of the open SSTables, newest first
    nextFlushSeq, nextWALSeq, flushErr,
    flushes,    \* the runFlush goroutines
    waiting,    \* an ApplyBatch that waits: its batch, and the flush it waits for
    snapshot,   \* a Snapshot call: the keys still to be read, the pairs read
    writes, restores, stops, failures,  \* how many so far, for the bounds
    \* history
    store,      \* what the acknowledged operations add up to
    refused,    \* refused[k]: what failed writes may have left of k in a WAL since
    mishaps     \* what happened that the files may not be able to make up for

dirVars    == <<wals, ssts, marker>>
memVars    == <<mem, immutable, w, sstables, nextFlushSeq, nextWALSeq, flushErr>>
boundVars  == <<writes, restores, stops, failures>>
storeVars  == <<store, refused>>
historyVars == <<storeVars, mishaps>>
vars == <<dirVars, up, closed, memVars, flushes, waiting, snapshot, boundVars, historyVars>>

-----------------------------------------------------------------------------
(***************************************************************************)
(* Tables and files.                                                       *)
(***************************************************************************)
Record == Value \cup {Tombstone}
Table  == [Key -> Record \cup {Absent}]
Empty  == [k \in Key |-> Absent]

Op    == [key : Key, rec : Record]
Batch == UNION {[1..n -> Op] : n \in 1..MaxBatch}

\* What a snapshot holds: live pairs only.
Contents == [Key -> Value \cup {Absent}]

\* An ApplyBatch that waits, a Snapshot under way.
Waiting  == [batch : Batch, seq : Nat]
Snapshots == [keys : SUBSET Key, pairs : Contents]

ASSUME NothingAssumption ==
    /\ Torn \notin Table
    /\ NoTable \notin Table \cup Waiting \cup Snapshots

LastOn(batch, k) ==
    LET hits == {n \in DOMAIN batch : batch[n].key = k}
    IN  IF hits = {} THEN Absent
        ELSE batch[CHOOSE n \in hits : \A x \in hits : x <= n].rec

\* top's records over those of below.
Over(top, below) == [k \in Key |-> IF top[k] # Absent THEN top[k] ELSE below[k]]

Written(table, batch) == Over([k \in Key |-> LastOn(batch, k)], table)

\* A tombstone counts as a hit and reads as not found.
Live(rec) == IF rec = Tombstone THEN Absent ELSE rec

Refused0 == [k \in Key |-> {}]

\* The pairs the store is to hold after a batch.
Stored(batch) == [k \in Key |-> Live(Written(store, batch)[k])]

\* The first table in the sequence that has a record for k decides.
Lookup(tables, k) ==
    LET hits == {n \in DOMAIN tables : tables[n][k] # Absent}
    IN  IF hits = {} THEN Absent
        ELSE Live(tables[CHOOSE n \in hits : \A x \in hits : n <= x][k])

With(files, n, contents) ==
    [x \in DOMAIN files \cup {n} |-> IF x = n THEN contents ELSE files[x]]

Without(files, S) == [x \in DOMAIN files \ S |-> files[x]]

\* Mutant of Discovered: Open forgets the restore marker.
DiscoveredAll(files) == DOMAIN files

\* discoverSSTables, discoverWALs: the files the restore marker has not
\* superseded, and the number the next new one gets.
Discovered(files) == {n \in DOMAIN files : n >= marker}

NextNumber(S) == IF S = {} THEN 0 ELSE 1 + CHOOSE n \in S : \A x \in S : x <= n

\* The members of a finite set of numbers, sorted in descending order.
Descending(S) ==
    {s \in [1..Cardinality(S) -> S] :
        /\ \A i, j \in DOMAIN s : i < j => s[i] > s[j]
        /\ \A n \in S : \E i \in DOMAIN s : s[i] = n}

\* The record for k in that of the files S that has one and the highest number.
Newest(files, S, k) ==
    LET hits == {n \in S : files[n][k] # Absent}
    IN  IF hits = {} THEN Absent
        ELSE files[CHOOSE n \in hits : \A x \in hits : x <= n][k]

\* Replaying the WALs in ascending order: the highest number decides.
Replayed == [k \in Key |-> Newest(wals, Discovered(wals), k)]

-----------------------------------------------------------------------------
(***************************************************************************)
(* Get, in the order it consults its sources.                              *)
(***************************************************************************)
\* Mutant of Sources: the frozen memtable is no longer consulted.
SourcesNoFrozen == <<mem>> \o [n \in DOMAIN sstables |-> ssts[sstables[n]]]

Sources ==
    <<mem>> \o (IF immutable = NoTable THEN <<>> ELSE <<immutable>>)
            \o [n \in DOMAIN sstables |-> ssts[sstables[n]]]

Get(k) == Lookup(Sources, k)

-----------------------------------------------------------------------------
(***************************************************************************)
(* Flushing.                                                               *)
(***************************************************************************)
\* A flush that starts while the last one has not removed its WAL.
Overlapping == mishaps' = IF flushes = {} THEN mishaps ELSE mishaps \cup {"overlap"}

\* Mutant of StartFlush: the fresh memtable goes on in the old WAL.
StartFlushSameWal(files, table) ==
    /\ immutable' = table
    /\ mem' = Empty
    /\ wals' = files
    /\ nextFlushSeq' = nextFlushSeq + 1
    /\ flushes' = flushes \cup {[seq |-> nextFlushSeq, wal |-> w, table |-> table, pc |-> "write"]}
    /\ Overlapping
    /\ UNCHANGED <<w, nextWALSeq>>

\* startFlushLocked for a memtable that holds table, the WALs being files by now.
StartFlush(files, table) ==
    /\ immutable' = table
    /\ mem' = Empty
    /\ wals' = With(files, nextWALSeq, Empty)
    /\ w' = nextWALSeq
    /\ nextWALSeq' = nextWALSeq + 1
    /\ nextFlushSeq' = nextFlushSeq + 1
    /\ flushes' = flushes \cup {[seq |-> nextFlushSeq, wal |-> w, table |-> table, pc |-> "write"]}
    /\ Overlapping

\* Flush: the same on request, of what the memtable holds.
Flush ==
    /\ up /\ ~closed /\ ~flushErr
    /\ immutable = NoTable
    /\ mem # Empty
    /\ StartFlush(wals, mem)
    /\ UNCHANGED <<ssts, marker, up, closed, sstables, flushErr, waiting, snapshot, boundVars,
                   storeVars>>

\* runFlush: write the SSTable, without the lock.
FlushWrite(f) ==
    /\ f.pc = "write"
    /\ ssts' = With(ssts, f.seq, f.table)
    /\ flushes' = (flushes \ {f}) \cup {[f EXCEPT !.pc = "install"]}
    /\ UNCHANGED <<wals, marker, up, closed, memVars, waiting, snapshot, boundVars, historyVars>>

\* Mutant of FlushFails: the goroutine just ends.
FlushFailsSilently(f) ==
    /\ f.pc \in {"write", "install"}
    /\ failures < MaxFailures
    /\ failures' = failures + 1
    /\ flushes' = flushes \ {f}
    /\ UNCHANGED <<dirVars, up, closed, memVars, waiting, snapshot, writes, restores, stops, historyVars>>

\* Writing or reopening it fails: the error sticks, the WAL stays.
FlushFails(f) ==
    /\ f.pc \in {"write", "install"}
    /\ failures < MaxFailures
    /\ failures' = failures + 1
    /\ \/ f.pc = "write" /\ ssts' = With(ssts, f.seq, Torn)
       \/ UNCHANGED ssts
    /\ flushErr' = TRUE
    /\ immutable' = NoTable
    /\ flushes' = flushes \ {f}
    /\ UNCHANGED <<wals, marker, up, closed, mem, w, sstables, nextFlushSeq, nextWALSeq,
                   waiting, snapshot, writes, restores, stops, historyVars>>

\* Publish the new SSTable in place of the frozen memtable.
FlushInstall(f) ==
    /\ f.pc = "install"
    /\ sstables' = <<f.seq>> \o sstables
    /\ immutable' = NoTable
    /\ flushes' = (flushes \ {f}) \cup {[f EXCEPT !.pc = "cleanup"]}
    /\ UNCHANGED <<dirVars, up, closed, mem, w, nextFlushSeq, nextWALSeq, flushErr,
                   waiting, snapshot, boundVars, historyVars>>

\* Remove the frozen memtable's WAL, without the lock, or fail to.
FlushCleanup(f) ==
    /\ f.pc = "cleanup"
    /\ flushes' = flushes \ {f}
    /\ \/ /\ wals' = Without(wals, {f.wal})
          /\ UNCHANGED <<flushErr, failures>>
       \/ /\ failures < MaxFailures
          /\ failures' = failures + 1
          /\ flushErr' = TRUE
          /\ UNCHANGED wals
    /\ UNCHANGED <<ssts, marker, up, closed, mem, immutable, w, sstables, nextFlushSeq,
                   nextWALSeq, waiting, snapshot, writes, restores, stops, historyVars>>

-----------------------------------------------------------------------------
(***************************************************************************)
(* ApplyBatch, and Put and Delete, which are batches of one.               *)
(***************************************************************************)
Appended(batch) == [wals EXCEPT ![w] = Written(@, batch)]

\* The batch counts, and is over whatever failed writes left of its keys.
Acknowledged(batch) ==
    /\ store' = Stored(batch)
    /\ refused' = [k \in Key |-> IF LastOn(batch, k) = Absent THEN refused[k] ELSE {}]

\* The locked part once no flush is in progress: log, apply, and start a flush
\* if the memtable is now too large; sizes are arbitrary, so it may be.  When it is
\* and opening the next WAL fails, the call does too, with the batch applied.
Apply(batch) ==
    /\ Acknowledged(batch)
    /\ \/ StartFlush(Appended(batch), Written(mem, batch))
       \/ /\ mem' = Written(mem, batch)
          /\ wals' = Appended(batch)
          /\ UNCHANGED <<immutable, w, nextWALSeq, nextFlushSeq, flushes, mishaps>>
    /\ UNCHANGED failures

\* Mutant of AppendFails: the WAL is cut off at its start, not where the batch began.
AppendFailsTruncated(batch) ==
    /\ failures < MaxFailures
    /\ failures' = failures + 1
    /\ wals' = [wals EXCEPT ![w] = Empty]
    /\ mishaps' = mishaps \cup {"append"}
    /\ UNCHANGED <<store, refused, mem, immutable, w, nextWALSeq, nextFlushSeq, flushes>>

\* AppendBatch fails in a write or in its fsync: this much of the batch is in the
\* file, the memtable is left alone.  (After a failed write, not after a failed
\* fsync, bufio refuses what is written later, too; here it may go through.)
AppendFails(batch) ==
    /\ failures < MaxFailures
    /\ failures' = failures + 1
    /\ \E n \in 0..Len(batch) :
          LET part == SubSeq(batch, 1, n)
          IN  /\ wals' = Appended(part)
              /\ refused' = [k \in Key |-> IF LastOn(part, k) = Absent THEN refused[k]
                                           ELSE refused[k] \cup {Live(LastOn(part, k))}]
    /\ mishaps' = mishaps \cup {"append"}
    /\ UNCHANGED <<store, mem, immutable, w, nextWALSeq, nextFlushSeq, flushes>>

Write(batch) ==
    /\ immutable = NoTable
    /\ Apply(batch) \/ AppendFails(batch)
    /\ UNCHANGED <<ssts, marker, up, closed, sstables, flushErr, snapshot, restores, stops>>

Idle == up /\ waiting = NoTable /\ snapshot = NoTable

\* Unlike the other calls it does not ask whether the engine has been closed.
ApplyBatch(batch) ==
    /\ Idle /\ ~flushErr
    /\ writes < MaxWrites
    /\ writes' = writes + 1
    /\ Write(batch)
    /\ UNCHANGED waiting

\* waitForAnyFlushLocked gives the lock up while a flush is in progress: the
\* one whose done channel flushDone is.
WaitForFlush(batch) ==
    /\ Idle
    /\ immutable # NoTable
    /\ writes < MaxWrites
    /\ writes' = writes + 1
    /\ waiting' = [batch |-> batch, seq |-> nextFlushSeq - 1]
    /\ UNCHANGED <<dirVars, up, closed, memVars, flushes, snapshot,
                   restores, stops, failures, historyVars>>

\* That goroutine has ended and the caller has the lock again: refused after a
\* Close or a failed flush.  No other flush has started, the only writer waited.
Resume ==
    /\ waiting # NoTable
    /\ \A f \in flushes : f.seq # waiting.seq
    /\ waiting' = NoTable
    /\ \/ ~closed /\ ~flushErr /\ Write(waiting.batch) /\ UNCHANGED writes
       \/ /\ closed \/ flushErr
          /\ UNCHANGED <<dirVars, up, closed, memVars, flushes, snapshot, boundVars, historyVars>>

-----------------------------------------------------------------------------
(***************************************************************************)
(* Snapshot: the keys are collected under the lock, each is then read with *)
(* a Get of its own.                                                       *)
(***************************************************************************)
\* Mutant of CollectedKeys: the keys of the frozen memtable are missed.
CollectedKeysNoFrozen ==
    {k \in Key : mem[k] # Absent \/ \E n \in DOMAIN sstables : ssts[sstables[n]][k] # Absent}

CollectedKeys ==
    {k \in Key : \E n \in DOMAIN Sources : Sources[n][k] # Absent}

SnapshotCollect ==
    /\ Idle /\ ~closed
    /\ snapshot' = [keys |-> CollectedKeys, pairs |-> Empty]
    /\ UNCHANGED <<dirVars, up, closed, memVars, flushes, waiting, boundVars, historyVars>>

\* A Get fails, and the whole call with it, once the engine is closed.
SnapshotGet(k) ==
    /\ snapshot # NoTable /\ ~closed
    /\ k \in snapshot.keys
    /\ snapshot' = [keys |-> snapshot.keys \ {k}, pairs |-> [snapshot.pairs EXCEPT ![k] = Get(k)]]
    /\ UNCHANGED <<dirVars, up, closed, memVars, flushes, waiting, boundVars, historyVars>>

SnapshotReturn ==
    /\ snapshot # NoTable
    /\ snapshot.keys = {} \/ closed
    /\ snapshot' = NoTable
    /\ UNCHANGED <<dirVars, up, closed, memVars, flushes, waiting, boundVars, historyVars>>

-----------------------------------------------------------------------------
(***************************************************************************)
(* RestoreSnapshot: refused while a flush is in progress.  A new SSTable   *)
(* and a new WAL are written, the marker that supersedes every file with a *)
(* lower number is renamed into place, the old files are removed.          *)
(***************************************************************************)
\* Mutant of RestoreSeq: the number only SSTables have not used.
RestoreSeqOfTables == nextFlushSeq

RestoreSeq == IF nextWALSeq > nextFlushSeq THEN nextWALSeq ELSE nextFlushSeq

Restoring ==
    /\ Idle /\ ~closed
    /\ immutable = NoTable
    /\ restores < MaxRestores
    /\ restores' = restores + 1

RestoreSnapshot(data) ==
    /\ Restoring
    /\ LET newSeq == RestoreSeq
       IN  /\ ssts' = Without(With(ssts, newSeq, data), {sstables[n] : n \in DOMAIN sstables})
           /\ wals' = Without(With(wals, newSeq, Empty), {w})
           /\ marker' = newSeq
           /\ sstables' = <<newSeq>>
           /\ w' = newSeq
           /\ nextFlushSeq' = newSeq + 1
           /\ nextWALSeq' = newSeq + 1
    /\ mem' = Empty
    /\ flushErr' = FALSE
    /\ store' = data
    /\ refused' = Refused0
    /\ UNCHANGED <<up, closed, immutable, flushes, waiting, snapshot, writes, stops, failures,
                   mishaps>>

\* What RestoreSnapshot leaves behind before its marker is in place: the new SSTable
\* half written or complete, and in the latter case perhaps the new WAL.
Uncommitted(data) ==
    /\ \/ ssts' = With(ssts, RestoreSeq, Torn) /\ UNCHANGED wals
       \/ /\ ssts' = With(ssts, RestoreSeq, data)
          /\ wals' \in {wals, With(wals, RestoreSeq, Empty)}
    /\ UNCHANGED <<marker, storeVars>>

\* It fails there and returns the error; nothing is removed, the numbers stay.
RestoreFails(data) ==
    /\ Restoring
    /\ failures < MaxFailures
    /\ failures' = failures + 1
    /\ Uncommitted(data)
    /\ mishaps' = mishaps \cup {"aborted"}
    /\ UNCHANGED <<up, closed, memVars, flushes, waiting, snapshot, writes, stops>>

-----------------------------------------------------------------------------
(***************************************************************************)
(* Close, and crashes.  Either way the process is gone and what is left is *)
(* the directory.                                                          *)
(***************************************************************************)
Gone ==
    /\ up' = FALSE
    /\ closed' = FALSE
    /\ mem' = Empty
    /\ immutable' = NoTable
    /\ w' = 0
    /\ sstables' = <<>>
    /\ nextFlushSeq' = 0
    /\ nextWALSeq' = 0
    /\ flushErr' = FALSE
    /\ flushes' = {}
    /\ waiting' = NoTable
    /\ snapshot' = NoTable

\* Close refuses new calls first ...
Close ==
    /\ up /\ ~closed
    /\ stops < MaxStops
    /\ stops' = stops + 1
    /\ closed' = TRUE
    /\ UNCHANGED <<dirVars, up, memVars, flushes, waiting, snapshot,
                   writes, restores, failures, historyVars>>

\* ... and closes the files once no flush goroutine is left.
CloseFiles ==
    /\ up /\ closed
    /\ flushes = {}
    /\ Gone
    /\ UNCHANGED <<dirVars, boundVars, historyVars>>

Crashing ==
    /\ stops < MaxStops
    /\ stops' = stops + 1
    /\ Gone
    /\ UNCHANGED <<writes, failures>>

\* A crash between two sections; an SSTable being written may be half there.
Crash ==
    /\ up
    /\ Crashing
    /\ \E S \in SUBSET {f.seq : f \in {f \in flushes : f.pc = "write"}} :
          /\ ssts' = [n \in DOMAIN ssts \cup S |-> IF n \in S THEN Torn ELSE ssts[n]]
    /\ UNCHANGED <<wals, marker, restores, historyVars>>

\* A crash in the WAL's AppendBatch after this much of a batch was written.
CrashInAppend(batch) ==
    /\ Idle /\ ~flushErr
    /\ immutable = NoTable
    /\ Crashing
    /\ wals' = Appended(batch)
    /\ Acknowledged(batch)
    /\ UNCHANGED <<ssts, marker, restores, mishaps>>

\* A crash in RestoreSnapshot before the marker is in place.
CrashBeforeCommit(data) ==
    /\ Restoring
    /\ Crashing
    /\ Uncommitted(data)
    /\ mishaps' = mishaps \cup {"interrupted"}

\* A crash in RestoreSnapshot after it: some of the old files are still there.
CrashAfterCommit(data) ==
    /\ Restoring
    /\ Crashing
    /\ marker' = RestoreSeq
    /\ \E n \in 0..Len(sstables) :
          ssts' = Without(With(ssts, RestoreSeq, data), {sstables[x] : x \in 1..n})
    /\ wals' = With(wals, RestoreSeq, Empty)
    /\ store' = data
    /\ refused' = Refused0
    /\ UNCHANGED mishaps

-----------------------------------------------------------------------------
(***************************************************************************)
(* Open.                                                                   *)
(***************************************************************************)
CanOpen == \A n \in Discovered(ssts) : ssts[n] # Torn

Open ==
    /\ ~up
    /\ CanOpen
    /\ up' = TRUE
    /\ mem' = Replayed
    /\ sstables' \in Descending(Discovered(ssts))
    /\ nextFlushSeq' = NextNumber(Discovered(ssts))
    /\ w' = NextNumber(Discovered(wals))
    /\ nextWALSeq' = NextNumber(Discovered(wals)) + 1
    /\ wals' = Without(With(wals, NextNumber(Discovered(wals)), Replayed), Discovered(wals))
    /\ UNCHANGED <<ssts, marker, closed, immutable, flushErr, flushes, waiting, snapshot,
                   boundVars, historyVars>>

\* A crash in Open: the recovered records are partly in the new WAL, or all are
\* and some of the old WALs, oldest first, have been removed.
CrashInOpen ==
    /\ ~up
    /\ CanOpen
    /\ stops < MaxStops
    /\ stops' = stops + 1
    /\ LET n   == NextNumber(Discovered(wals))
           old == Discovered(wals)
       IN  \/ \E S \in SUBSET Key :
                 wals' = With(wals, n, [k \in Key |-> IF k \in S THEN Replayed[k] ELSE Absent])
           \/ \E top \in old :
                 wals' = Without(With(wals, n, Replayed), {x \in old : x <= top})
    /\ UNCHANGED <<ssts, marker, up, closed, memVars, flushes, waiting, snapshot,
                   writes, restores, failures, historyVars>>

-----------------------------------------------------------------------------
\* An empty directory, no process.
NewStore ==
    /\ wals = [n \in {} |-> Empty]
    /\ ssts = [n \in {} |-> Empty]
    /\ marker = 0
    /\ up = FALSE /\ closed = FALSE
    /\ mem = Empty /\ immutable = NoTable
    /\ w = 0 /\ sstables = <<>>
    /\ nextFlushSeq = 0 /\ nextWALSeq = 0
    /\ flushErr = FALSE
    /\ flushes = {}
    /\ waiting = NoTable
    /\ snapshot = NoTable
    /\ store = Empty
    /\ refused = Refused0
    /\ mishaps = {}

Init ==
    /\ NewStore
    /\ writes = 0 /\ restores = 0 /\ stops = 0 /\ failures = 0

FlushStep ==
    \E f \in flushes : FlushWrite(f) \/ FlushFails(f) \/ FlushInstall(f) \/ FlushCleanup(f)

SnapshotStep == SnapshotCollect \/ (\E k \in Key : SnapshotGet(k)) \/ SnapshotReturn

CrashStep ==
    \/ Crash
    \/ \E batch \in Batch : CrashInAppend(batch)
    \/ \E data \in Contents : CrashBeforeCommit(data) \/ CrashAfterCommit(data)
    \/ CrashInOpen

Next ==
    \/ Open
    \/ \E batch \in Batch : ApplyBatch(batch) \/ WaitForFlush(batch)
    \/ Resume
    \/ Flush
    \/ FlushStep
    \/ SnapshotStep
    \/ \E data \in Contents : RestoreSnapshot(data) \/ RestoreFails(data)
    \/ Close
    \/ CloseFiles
    \/ CrashStep

\* The flush goroutine, the caller and whoever restarts the process all go on.
Fairness ==
    /\ WF_vars(\E f \in flushes : FlushWrite(f) \/ FlushInstall(f) \/ FlushCleanup(f))
    /\ WF_vars(Resume)
    /\ WF_vars(CloseFiles)

Spec == Init /\ [][Next]_vars /\ Fairness

-----------------------------------------------------------------------------
(***************************************************************************)
(* Properties.                                                             *)
(***************************************************************************)
\* Every variable has the shape the Go types give it.
TypeOK ==
    /\ DOMAIN wals \subseteq Nat /\ \A n \in DOMAIN wals : wals[n] \in Table
    /\ DOMAIN ssts \subseteq Nat /\ \A n \in DOMAIN ssts : ssts[n] \in Table \cup {Torn}
    /\ marker \in Nat
    /\ {up, closed, flushErr} \subseteq BOOLEAN
    /\ mem \in Table
    /\ immutable \in Table \cup {NoTable}
    /\ {w, nextFlushSeq, nextWALSeq, writes, restores, stops, failures} \subseteq Nat
    /\ sstables \in Seq(DOMAIN ssts)
    /\ flushes \subseteq [seq : Nat, wal : Nat, table : Table, pc : {"write", "install", "cleanup"}]
    /\ waiting \in Waiting \cup {NoTable}
    /\ snapshot \in Snapshots \cup {NoTable}
    /\ store \in Contents

\* Nothing of this happened so far: a flush started while the last one had not
\* removed its WAL, a write failed in the WAL, RestoreSnapshot failed or the process
\* crashed before its commit point.  Each leaves records in the directory that are
\* not, or no longer, the store's, where the next Open reads them.
orderly == mishaps = {}

\* What the directory holds of k: what Open recovers when it can (CanOpen), and what
\* it would recover without the torn SSTables it fails on.
Complete == {n \in Discovered(ssts) : ssts[n] # Torn}

Held(k) ==
    Live(IF Replayed[k] # Absent THEN Replayed[k] ELSE Newest(ssts, Complete, k))

\* At every moment, a crash included, the directory holds exactly what the
\* acknowledged operations add up to: a batch is logged before it is applied, a
\* WAL is removed only when its records are in an SSTable or in the new WAL, a
\* restored snapshot replaces everything at once (AppendBatch, runFlush, Open,
\* RestoreSnapshot).  A WAL that outlives the next flush is replayed over newer
\* records, hence orderly.
Durable == orderly => \A k \in Key : Held(k) = store[k]

\* When writes failed in the WAL and nothing else went wrong, the directory holds for
\* each key the acknowledged record or one that a write refused since has left, never
\* an older one or nothing (ApplyBatch's return after AppendBatch).
OnlyRefusedAdded ==
    mishaps \subseteq {"append"} => \A k \in Key : Held(k) \in {store[k]} \cup refused[k]

\* A crash leaves a directory that Open accepts and that holds what it held: "a crash
\* mid-flush can still recover by replaying" the frozen memtable's WAL (the package
\* comment of engine.go), and one in RestoreSnapshot "before that rename completes
\* leaves this engine's on-disk state exactly as it was before this call started".
CrashRecovers ==
    [][up /\ stops' > stops /\ store' = store
          => CanOpen' /\ \A k \in Key : Held(k)' = Held(k)]_vars

\* A Get, at any moment of a flush, a restore or a recovery, returns what the
\* acknowledged operations left, unless a flush has failed: that one drops the
\* frozen memtable (Get, startFlushLocked, runFlush).
ReadsLatest == (orderly /\ up /\ ~flushErr) => \A k \in Key : Get(k) = store[k]

\* The active WAL holds exactly the memtable's records, and that of a flush that
\* has not published its SSTable exactly the frozen one's (Open's "exactly one
\* WAL, matching the current memtable exactly"), until a write fails in the WAL, or
\* RestoreSnapshot, whose next number the WAL it has left behind then has.
LoggedExactly ==
    (up /\ mishaps \cap {"append", "aborted"} = {})
      => /\ w \in DOMAIN wals /\ wals[w] = mem
         /\ \A f \in flushes : f.wal \in DOMAIN wals => wals[f.wal] = f.table

\* A new file never takes the name of one that is there, superseded or not: a
\* WAL opened on an existing one would append to it, an SSTable truncate it
\* (nextWALSeq, nextFlushSeq, newSeq of RestoreSnapshot); save those a failed
\* RestoreSnapshot has left behind.
NumbersFresh ==
    (up /\ "aborted" \notin mishaps)
      => /\ {nextWALSeq, RestoreSeq} \cap DOMAIN wals = {}
         /\ {nextFlushSeq, RestoreSeq} \cap DOMAIN ssts = {}

\* Snapshot returns the live pairs although flushes go on between its collecting
\* the keys and its Gets, again unless one has failed (Snapshot).
SnapshotExact ==
    (orderly /\ snapshot # NoTable /\ snapshot.keys = {} /\ ~closed /\ ~flushErr)
      => snapshot.pairs = store

\* A write that waits for a flush returns, whether that flush succeeds, fails or
\* is overtaken by a Close; a Close returns too (waitForAnyFlushLocked, Close).
CallsReturn ==
    /\ waiting # NoTable ~> waiting = NoTable
    /\ closed ~> ~closed

=============================================================================
