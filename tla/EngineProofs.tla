---------------------------- MODULE EngineProofs ----------------------------
(***************************************************************************)
(* Two inductive invariants of Engine for any keys, values and bounds.     *)
(* The first, as long as no RestoreSnapshot has failed: new files get new  *)
(* names, and the WALs hold what the memtables hold.  The second, as long  *)
(* as `orderly' holds: whenever the process stops, the files hold exactly what the             *)
(* acknowledged operations add up to, and while it runs every Get and      *)
(* every Snapshot returns that.                                            *)
(***************************************************************************)
EXTENDS Engine, TLAPS, WellFoundedInduction, FiniteSetTheorems

-----------------------------------------------------------------------------
(***************************************************************************)
(* The inductive invariant.                                                *)
(***************************************************************************)
Bounded(S) == \E b \in Nat : S \subseteq 0..b

\* What the proofs need to know of sets of numbers: the extremes exist and bounded
\* sets can be counted.  NumberFactsHold proves it from the library; until then
\* it is a hypothesis where it is needed.
NumberFacts ==
    /\ \A b \in Nat : \A T \in SUBSET (0..b) : T # {} => \E x \in T : \A y \in T : y <= x
    /\ \A T \in SUBSET Nat : T # {} => \E x \in T : \A y \in T : x <= y
    /\ \A b \in Nat : \A T \in SUBSET (0..b) : Cardinality(T) \in Nat

\* A new number is above all that the restore marker has superseded, too: there is
\* always a file that it has not.
Directory ==
    /\ Bounded(DOMAIN wals) /\ Bounded(DOMAIN ssts)
    /\ marker # 0 => marker \in DOMAIN ssts /\ \E n \in DOMAIN wals : marker <= n

Stopped ==
    ~up => /\ ~closed /\ ~flushErr
           /\ immutable = NoTable /\ flushes = {} /\ waiting = NoTable /\ snapshot = NoTable

\* No write has failed in the WAL.
Exact == "append" \notin mishaps

Running ==
    up => /\ \A n \in DOMAIN wals : n < nextWALSeq
          /\ \A n \in DOMAIN ssts : n < nextFlushSeq
          /\ w \in DOMAIN wals /\ marker <= w
          /\ Exact => wals[w] = mem
          /\ \A n \in DOMAIN sstables : ssts[sstables[n]] # Torn

\* The flush goroutines that have not published their result yet.
Busy == {f \in flushes : f.pc # "cleanup"}

\* There is one of these, if any, and immutable is what it writes.
Flushing ==
    /\ \A f \in flushes : f.seq < nextFlushSeq /\ f.wal < w
    /\ Exact => \A f \in flushes : f.wal \in DOMAIN wals => wals[f.wal] = f.table
    /\ \A f \in flushes : f.pc = "write" => f.seq \notin DOMAIN ssts
    /\ \A f \in flushes : f.pc = "install" => f.seq \in DOMAIN ssts /\ ssts[f.seq] = f.table
    /\ \A f, g \in Busy : f = g
    /\ \A f \in Busy : immutable = f.table
    /\ immutable # NoTable => Busy # {}

OneCall == waiting = NoTable \/ snapshot = NoTable

Inv == TypeOK /\ Directory /\ Stopped /\ Running /\ Flushing /\ OneCall

-----------------------------------------------------------------------------
(***************************************************************************)
(* What the operators return.                                              *)
(***************************************************************************)
Rec == Record \cup {Absent}

LEMMA LastOnType ==
    ASSUME NumberFacts, NEW batch \in Batch, NEW k
    PROVE  LastOn(batch, k) \in Rec
<1> DEFINE hits == {n \in DOMAIN batch : batch[n].key = k}
<1>1. PICK b \in 1..MaxBatch : batch \in [1..b -> Op]
  BY Zenon DEF Batch
<1>2. CASE hits = {}
  BY <1>2, Zenon DEF LastOn, Rec
<1>3. CASE hits # {}
  <2>1. b \in Nat /\ hits \in SUBSET (0..b)
    BY <1>1, BoundAssumption
  <2>2. \E n \in hits : \A x \in hits : x <= n
    BY <1>3, <2>1, Zenon DEF NumberFacts
  <2> DEFINE m == CHOOSE n \in hits : \A x \in hits : x <= n
  <2>3. m \in hits
    BY <2>2, Zenon
  <2>4. LastOn(batch, k) = batch[m].rec
    BY <1>3, Zenon DEF LastOn
  <2> HIDE DEF m
  <2>5. batch[m] \in Op
    BY <1>1, <2>3, Zenon
  <2> QED BY <2>4, <2>5, Zenon DEF Op, Rec
<1> QED BY <1>2, <1>3, Zenon

LEMMA WrittenType ==
    ASSUME NumberFacts, NEW batch \in Batch, NEW t \in Table
    PROVE  Written(t, batch) \in Table
BY LastOnType, Zenon DEF Written, Over, Table, Rec

LEMMA LiveType ==
    ASSUME NEW r \in Rec
    PROVE  Live(r) \in Value \cup {Absent}
BY Zenon DEF Live, Rec, Record

LEMMA StoredType ==
    ASSUME NumberFacts, NEW batch \in Batch, store \in Contents
    PROVE  Stored(batch) \in Contents
<1>1. store \in Table
  BY Zenon DEF Contents, Table, Record
<1>2. \A k \in Key : Written(store, batch)[k] \in Rec
  BY <1>1, WrittenType, Zenon DEF Table, Rec
<1> QED BY <1>2, LiveType, Zenon DEF Stored, Contents

LEMMA ContentsAreTables == Contents \subseteq Table /\ Empty \in Contents /\ Empty \in Table
BY Zenon DEF Contents, Table, Record, Empty

\* The first of a list of tables that has a record exists, if one has.
LEMMA LookupType ==
    ASSUME NumberFacts, NEW tables \in Seq(Table), NEW k \in Key
    PROVE  Lookup(tables, k) \in Value \cup {Absent}
<1> DEFINE hits == {n \in DOMAIN tables : tables[n][k] # Absent}
<1>1. hits \in SUBSET Nat
  OBVIOUS
<1>2. CASE hits = {}
  BY <1>2, Zenon DEF Lookup
<1>3. CASE hits # {}
  <2>1. \E n \in hits : \A x \in hits : n <= x
    BY <1>1, <1>3, Zenon DEF NumberFacts
  <2> DEFINE m == CHOOSE n \in hits : \A x \in hits : n <= x
  <2>2. m \in hits
    BY <2>1, Zenon
  <2>3. Lookup(tables, k) = Live(tables[m][k])
    BY <1>3, Zenon DEF Lookup
  <2> HIDE DEF m
  <2>4. tables[m] \in Table
    BY <2>2
  <2>5. tables[m][k] \in Rec
    BY <2>4, Zenon DEF Table, Rec
  <2> QED BY <2>3, <2>5, LiveType, Zenon
<1> QED BY <1>2, <1>3, Zenon

LEMMA NextNumberAbove ==
    ASSUME NumberFacts, NEW S, Bounded(S)
    PROVE  NextNumber(S) \in Nat /\ \A x \in S : x < NextNumber(S)
<1>1. PICK b \in Nat : S \subseteq 0..b
  BY Zenon DEF Bounded
<1>2. CASE S = {}
  BY <1>2, Zenon DEF NextNumber
<1>3. CASE S # {}
  <2>1. \E n \in S : \A x \in S : x <= n
    BY <1>1, <1>3, Zenon DEF NumberFacts
  <2> DEFINE m == CHOOSE n \in S : \A x \in S : x <= n
  <2>2. m \in S /\ \A x \in S : x <= m
    BY <2>1, Zenon
  <2>3. NextNumber(S) = 1 + m
    BY <1>3, Zenon DEF NextNumber
  <2> HIDE DEF m
  <2> QED BY <1>1, <2>2, <2>3
<1> QED BY <1>2, <1>3, Zenon

LEMMA BoundedPart ==
    ASSUME NEW S, NEW T, Bounded(S), T \subseteq S
    PROVE  Bounded(T)
BY Zenon DEF Bounded

LEMMA BoundedMore ==
    ASSUME NEW S, NEW n \in Nat, Bounded(S)
    PROVE  Bounded(S \cup {n})
<1>1. PICK b \in Nat : S \subseteq 0..b
  BY Zenon DEF Bounded
<1>2. b + n \in Nat /\ S \cup {n} \subseteq 0..(b + n)
  BY <1>1
<1> QED BY <1>2, Zenon DEF Bounded

LEMMA DescendingIsSeq ==
    ASSUME NumberFacts, NEW S, Bounded(S), NEW s \in Descending(S)
    PROVE  /\ s \in Seq(S)
           /\ \A i, j \in DOMAIN s : i < j => s[i] > s[j]
           /\ \A n : n \in S <=> \E i \in DOMAIN s : s[i] = n
<1>1. PICK b \in Nat : S \subseteq 0..b
  BY Zenon DEF Bounded
<1>2. Cardinality(S) \in Nat
  BY <1>1, Zenon DEF NumberFacts
<1>3. s \in [1..Cardinality(S) -> S]
  BY Zenon DEF Descending
<1>4. s \in Seq(S)
  BY <1>2, <1>3
<1> QED BY <1>3, <1>4, Zenon DEF Descending

-----------------------------------------------------------------------------
(***************************************************************************)
(* TypeOK in parts.                                                        *)
(***************************************************************************)
Flusher == [seq : Nat, wal : Nat, table : Table, pc : {"write", "install", "cleanup"}]

FileTypes ==
    /\ DOMAIN wals \subseteq Nat /\ \A n \in DOMAIN wals : wals[n] \in Table
    /\ DOMAIN ssts \subseteq Nat /\ \A n \in DOMAIN ssts : ssts[n] \in Table \cup {Torn}
    /\ marker \in Nat
StateTypes ==
    /\ {up, closed, flushErr} \subseteq BOOLEAN
    /\ mem \in Table /\ immutable \in Table \cup {NoTable}
    /\ {w, nextFlushSeq, nextWALSeq} \subseteq Nat
ListType == sstables \in Seq(DOMAIN ssts)
FlushTypes == flushes \subseteq Flusher
CallTypes ==
    waiting \in Waiting \cup {NoTable} /\ snapshot \in Snapshots \cup {NoTable} /\ store \in Contents
BoundTypes == {writes, restores, stops, failures} \subseteq Nat

LEMMA Types ==
    /\ TypeOK <=> FileTypes /\ StateTypes /\ ListType /\ FlushTypes /\ CallTypes /\ BoundTypes
    /\ TypeOK' <=> FileTypes' /\ StateTypes' /\ ListType' /\ FlushTypes' /\ CallTypes' /\ BoundTypes'
BY Zenon DEF TypeOK, FileTypes, StateTypes, ListType, FlushTypes, CallTypes, BoundTypes, Flusher

\* The sources of a Get are tables.
LEMMA SourcesAreTables ==
    ASSUME Inv, up
    PROVE  Sources \in Seq(Table)
<1> DEFINE list == [n \in DOMAIN sstables |-> ssts[sstables[n]]]
<1>1. /\ mem \in Table /\ immutable \in Table \cup {NoTable}
      /\ sstables \in Seq(DOMAIN ssts)
      /\ \A n \in DOMAIN ssts : ssts[n] \in Table \cup {Torn}
      /\ \A n \in DOMAIN sstables : ssts[sstables[n]] # Torn
  BY Zenon DEF Inv, TypeOK, Running
<1>2. \A n \in DOMAIN sstables : list[n] \in Table
  BY <1>1
<1>3. Len(sstables) \in Nat /\ DOMAIN sstables = 1..Len(sstables)
  BY <1>1
<1>4. list \in [1..Len(sstables) -> Table]
  BY <1>2, <1>3, Zenon
<1> HIDE DEF list
<1>5. list \in Seq(Table)
  BY <1>3, <1>4
<1>6. <<mem>> \in Seq(Table) /\ <<>> \in Seq(Table)
  BY <1>1
<1>7. (IF immutable = NoTable THEN <<>> ELSE <<immutable>>) \in Seq(Table)
  BY <1>1, <1>6
<1>8. Sources = (<<mem>> \o (IF immutable = NoTable THEN <<>> ELSE <<immutable>>)) \o list
  BY Zenon DEF Sources, list
<1> QED BY <1>5, <1>6, <1>7, <1>8

-----------------------------------------------------------------------------
(***************************************************************************)
(* Steps that change no file.                                              *)
(***************************************************************************)
LEMMA HistoryKept ==
    ASSUME UNCHANGED historyVars
    PROVE  UNCHANGED <<orderly, Exact, store>>
BY DEF historyVars, storeVars, orderly, Exact

\* A step that leaves the directory and the flushes alone.
LEMMA CallStep ==
    ASSUME Inv, UNCHANGED <<dirVars, up, memVars, flushes, orderly, Exact, store>>, up,
           closed' \in BOOLEAN, BoundTypes', CallTypes', OneCall'
    PROVE  Inv'
<1> USE DEF dirVars, memVars
<1>1. TypeOK'
  BY Types, Zenon DEF Inv, FileTypes, StateTypes, ListType, FlushTypes
<1>2. Directory' /\ Running' /\ Stopped'
  BY Zenon DEF Inv, Directory, Running, Stopped
<1>3. Busy' = Busy
  BY Zenon DEF Busy
<1>4. Flushing'
  BY <1>3, Zenon DEF Inv, Flushing
<1> QED BY <1>1, <1>2, <1>4, Zenon DEF Inv

LEMMA WaitForFlushInv ==
    ASSUME Inv, NEW batch \in Batch, WaitForFlush(batch), UNCHANGED <<orderly, Exact>>
    PROVE  Inv'
<1>1. PICK f \in flushes : f.seq < nextFlushSeq
  BY Zenon DEF Inv, Flushing, Busy, WaitForFlush
<1>2. nextFlushSeq - 1 \in Nat
  BY <1>1, Types DEF Inv, FlushTypes, Flusher, StateTypes
<1>3. [batch |-> batch, seq |-> nextFlushSeq - 1] \in Waiting
  BY <1>2, Zenon DEF Waiting
<1>4. CallTypes'
  BY <1>3, Types, Zenon DEF Inv, CallTypes, WaitForFlush, historyVars, storeVars
<1>5. BoundTypes' /\ closed' \in BOOLEAN
  BY Types DEF Inv, StateTypes, BoundTypes, WaitForFlush
<1>6. OneCall'
  BY Zenon DEF OneCall, WaitForFlush, Idle
<1>7. UNCHANGED <<dirVars, up, memVars, flushes, orderly, Exact, store>> /\ up
  BY Zenon DEF WaitForFlush, Idle, historyVars, storeVars
<1> QED BY <1>4, <1>5, <1>6, <1>7, CallStep, Zenon

LEMMA SnapshotInv ==
    ASSUME NumberFacts, Inv, SnapshotStep, UNCHANGED <<orderly, Exact>>
    PROVE  Inv'
<1>1. up
  BY Zenon DEF Inv, Stopped, SnapshotStep, SnapshotCollect, SnapshotGet, SnapshotReturn, Idle
<1>2. UNCHANGED <<dirVars, up, memVars, flushes, orderly, Exact, store>>
  BY Zenon DEF SnapshotStep, SnapshotCollect, SnapshotGet, SnapshotReturn, historyVars, storeVars
<1>3. BoundTypes' /\ closed' \in BOOLEAN
  BY Types, Zenon DEF Inv, StateTypes, BoundTypes, SnapshotStep, SnapshotCollect, SnapshotGet, SnapshotReturn, boundVars
<1>4. snapshot' \in Snapshots \cup {NoTable}
  <2>1. CASE SnapshotCollect
    <3>1. CollectedKeys \in SUBSET Key
      BY Zenon DEF CollectedKeys
    <3> QED BY <2>1, <3>1, ContentsAreTables, Zenon DEF SnapshotCollect, Snapshots
  <2>2. ASSUME NEW k \in Key, SnapshotGet(k) PROVE snapshot' \in Snapshots
    <3>1. Get(k) \in Value \cup {Absent}
      BY <1>1, SourcesAreTables, LookupType, Zenon DEF Get
    <3>2. snapshot \in Snapshots
      BY <2>2, Types, Zenon DEF Inv, CallTypes, SnapshotGet
    <3> HIDE DEF Get
    <3>3. [snapshot.pairs EXCEPT ![k] = Get(k)] \in Contents
      BY <3>1, <3>2, Zenon DEF Snapshots, Contents
    <3>4. snapshot.keys \ {k} \in SUBSET Key
      BY <3>2, Zenon DEF Snapshots
    <3> QED BY <2>2, <3>3, <3>4, Zenon DEF SnapshotGet, Snapshots
  <2>3. CASE SnapshotReturn
    BY <2>3, Zenon DEF SnapshotReturn
  <2> QED BY <2>1, <2>2, <2>3, Zenon DEF SnapshotStep
<1>5. CallTypes'
  BY <1>2, <1>4, Types, Zenon DEF Inv, CallTypes, SnapshotStep, SnapshotCollect, SnapshotGet, SnapshotReturn
<1>6. OneCall'
  BY Zenon DEF Inv, OneCall, SnapshotStep, SnapshotCollect, SnapshotGet, SnapshotReturn, Idle
<1> QED BY <1>1, <1>2, <1>3, <1>5, <1>6, CallStep, Zenon

LEMMA CloseInv ==
    ASSUME Inv, Close, UNCHANGED <<orderly, Exact>>
    PROVE  Inv'
<1>1. /\ UNCHANGED <<dirVars, up, memVars, flushes, orderly, Exact, store>> /\ up
      /\ closed' \in BOOLEAN /\ UNCHANGED <<waiting, snapshot>>
  BY Zenon DEF Close, historyVars, storeVars
<1>2. BoundTypes'
  BY Types DEF Inv, BoundTypes, Close
<1>3. CallTypes' /\ OneCall'
  BY <1>1, Types, Zenon DEF Inv, CallTypes, OneCall
<1> QED BY <1>1, <1>2, <1>3, CallStep, Zenon

-----------------------------------------------------------------------------
(***************************************************************************)
(* The process ends: only the directory is left.                           *)
(***************************************************************************)
LEMMA GoneStep ==
    ASSUME Inv, Gone, FileTypes', Directory', BoundTypes', store' \in Contents
    PROVE  Inv'
<1>1. StateTypes'
  <2>2. {up, closed, flushErr}' \subseteq BOOLEAN
    BY Zenon DEF Gone
  <2>3. /\ mem' \in Table /\ immutable' \in Table \cup {NoTable}
        /\ {w, nextFlushSeq, nextWALSeq}' \subseteq Nat
    BY ContentsAreTables DEF Gone
  <2> QED BY <2>2, <2>3, Zenon DEF StateTypes
<1>2. TypeOK'
  <2>1. ListType'
    BY DEF Gone, ListType
  <2>2. FlushTypes' /\ CallTypes'
    BY Zenon DEF Gone, FlushTypes, CallTypes
  <2> QED BY <1>1, <2>1, <2>2, Types, Zenon
<1>3. Stopped' /\ Running' /\ OneCall'
  BY Zenon DEF Gone, Stopped, Running, OneCall
<1>4. Flushing'
  BY Zenon DEF Gone, Flushing, Busy
<1> QED BY <1>2, <1>3, <1>4, Zenon DEF Inv

LEMMA CloseFilesInv ==
    ASSUME Inv, CloseFiles
    PROVE  Inv'
<1>1. UNCHANGED <<dirVars, boundVars, store>> /\ Gone
  BY Zenon DEF CloseFiles, historyVars, storeVars
<1>2. FileTypes' /\ Directory' /\ BoundTypes' /\ store' \in Contents
  BY <1>1, Types, Zenon DEF Inv, dirVars, boundVars, FileTypes, Directory, BoundTypes, CallTypes
<1> QED BY <1>1, <1>2, GoneStep, Zenon

LEMMA CrashingBounds ==
    ASSUME Inv, Crashing, restores' \in Nat
    PROVE  BoundTypes'
BY Types DEF Inv, BoundTypes, Crashing

LEMMA CrashInv ==
    ASSUME Inv, Crash
    PROVE  Inv'
<1>1. PICK S \in SUBSET {f.seq : f \in {f \in flushes : f.pc = "write"}} :
          ssts' = [n \in DOMAIN ssts \cup S |-> IF n \in S THEN Torn ELSE ssts[n]]
  BY Zenon DEF Crash
<1>2. UNCHANGED <<wals, marker, restores, store>> /\ Gone /\ Crashing /\ up
  BY Zenon DEF Crash, Crashing, historyVars, storeVars
<1>3. nextFlushSeq \in Nat /\ S \subseteq Nat /\ \A n \in S : n < nextFlushSeq
  BY Types DEF Inv, Flushing, FlushTypes, Flusher, StateTypes
<1>4. FileTypes'
  BY <1>1, <1>2, <1>3, Types, Zenon DEF Inv, FileTypes
<1>5. DOMAIN ssts' \subseteq 0..nextFlushSeq /\ nextFlushSeq \in Nat
  <2>1. nextFlushSeq \in Nat /\ DOMAIN ssts \subseteq Nat /\ \A n \in DOMAIN ssts : n < nextFlushSeq
    BY <1>2, Types, Zenon DEF Inv, FileTypes, Running, StateTypes
  <2>2. DOMAIN ssts' = DOMAIN ssts \cup S
    BY <1>1, Zenon
  <2>3. ASSUME NEW n \in DOMAIN ssts \cup S PROVE n \in 0..nextFlushSeq
    <3>1. n \in Nat /\ n < nextFlushSeq
      BY <1>3, <2>1, Zenon
    <3> QED BY <2>1, <3>1
  <2> QED BY <2>1, <2>2, <2>3, Zenon
<1>6. Directory'
  BY <1>1, <1>2, <1>5, Zenon DEF Inv, Directory, Bounded
<1>7. BoundTypes' /\ store' \in Contents
  BY <1>2, CrashingBounds, Types, Zenon DEF Inv, BoundTypes, CallTypes
<1> QED BY <1>2, <1>4, <1>6, <1>7, GoneStep, Zenon

LEMMA CrashInAppendInv ==
    ASSUME NumberFacts, Inv, NEW batch \in Batch, CrashInAppend(batch)
    PROVE  Inv'
<1>1. UNCHANGED <<ssts, marker, restores>> /\ Gone /\ Crashing /\ up
  BY Zenon DEF CrashInAppend, Crashing, Idle
<1>2. w \in DOMAIN wals /\ wals[w] \in Table
  BY <1>1, Types, Zenon DEF Inv, Running, FileTypes
<1>3. Written(wals[w], batch) \in Table
  BY <1>2, WrittenType, Zenon
<1>4. wals' = [wals EXCEPT ![w] = Written(wals[w], batch)] /\ store' = Stored(batch)
  BY Zenon DEF CrashInAppend, Appended, Acknowledged
<1>5. FileTypes' /\ DOMAIN wals' = DOMAIN wals
  BY <1>1, <1>2, <1>3, <1>4, Types, Zenon DEF Inv, FileTypes
<1>6. Directory'
  BY <1>1, <1>5, Zenon DEF Inv, Directory
<1>7. BoundTypes' /\ store' \in Contents
  BY <1>1, <1>4, CrashingBounds, StoredType, Types, Zenon DEF Inv, BoundTypes, CallTypes
<1> QED BY <1>1, <1>5, <1>6, <1>7, GoneStep, Zenon

\* RestoreSnapshot's number is above that of every file.
LEMMA RestoreSeqAbove ==
    ASSUME Inv, up
    PROVE  /\ RestoreSeq \in Nat /\ nextFlushSeq <= RestoreSeq /\ nextWALSeq <= RestoreSeq
           /\ \A n \in DOMAIN wals : n < RestoreSeq
           /\ \A n \in DOMAIN ssts : n < RestoreSeq
BY Types DEF Inv, StateTypes, FileTypes, Running, RestoreSeq

LEMMA CrashBeforeCommitInv ==
    ASSUME Inv, NEW data \in Contents, CrashBeforeCommit(data)
    PROVE  Inv'
<1>1. UNCHANGED <<marker, store>> /\ Gone /\ Crashing /\ up /\ restores' \in Nat
  BY Types DEF CrashBeforeCommit, Uncommitted, Crashing, Idle, Restoring, Inv, BoundTypes, historyVars, storeVars
<1>2. RestoreSeq \in Nat
  BY <1>1, RestoreSeqAbove, Zenon
<1>3. PICK c \in {Torn, data} : ssts' = With(ssts, RestoreSeq, c)
  BY Zenon DEF CrashBeforeCommit, Uncommitted
<1>4. wals' \in {wals, With(wals, RestoreSeq, Empty)}
  BY Zenon DEF CrashBeforeCommit, Uncommitted
<1> HIDE DEF RestoreSeq
<1>5. FileTypes'
  BY <1>1, <1>2, <1>3, <1>4, ContentsAreTables, Types, Zenon DEF Inv, FileTypes, With
<1>a. /\ DOMAIN ssts' = DOMAIN ssts \cup {RestoreSeq}
      /\ DOMAIN wals' = DOMAIN wals \/ DOMAIN wals' = DOMAIN wals \cup {RestoreSeq}
  BY <1>3, <1>4, Zenon DEF With
<1>6. Bounded(DOMAIN ssts') /\ Bounded(DOMAIN wals')
  BY <1>2, <1>a, BoundedMore DEF Inv, Directory
<1>7. DOMAIN ssts \subseteq DOMAIN ssts' /\ DOMAIN wals \subseteq DOMAIN wals'
  BY <1>a, Zenon
<1>8. Directory'
  BY <1>1, <1>6, <1>7, Zenon DEF Inv, Directory
<1>9. BoundTypes' /\ store' \in Contents
  BY <1>1, CrashingBounds, Types, Zenon DEF Inv, CallTypes
<1> QED BY <1>1, <1>5, <1>8, <1>9, GoneStep, Zenon

LEMMA CrashAfterCommitInv ==
    ASSUME Inv, NEW data \in Contents, CrashAfterCommit(data)
    PROVE  Inv'
<1>1. marker' = RestoreSeq /\ store' = data /\ Gone /\ Crashing /\ up /\ restores' \in Nat
  BY Types DEF CrashAfterCommit, Crashing, Idle, Restoring, Inv, BoundTypes
<1>2. RestoreSeq \in Nat /\ \A n \in DOMAIN ssts : n < RestoreSeq
  BY <1>1, RestoreSeqAbove, Zenon
<1>3. wals' = With(wals, RestoreSeq, Empty)
  BY Zenon DEF CrashAfterCommit
<1>4. PICK old : ssts' = Without(With(ssts, RestoreSeq, data), old) /\ old \subseteq DOMAIN ssts
  <2>1. PICK n \in 0..Len(sstables) :
            ssts' = Without(With(ssts, RestoreSeq, data), {sstables[x] : x \in 1..n})
    BY Zenon DEF CrashAfterCommit
  <2>2. \A x \in 1..n : sstables[x] \in DOMAIN ssts
    BY Types DEF Inv, ListType
  <2> QED BY <2>1, <2>2, Zenon
<1> HIDE DEF RestoreSeq
<1>5. RestoreSeq \notin old
  BY <1>2, <1>4, Types DEF Inv, FileTypes
<1>6. /\ DOMAIN ssts' = (DOMAIN ssts \cup {RestoreSeq}) \ old
      /\ \A n \in DOMAIN ssts' : ssts'[n] = IF n = RestoreSeq THEN data ELSE ssts[n]
  BY <1>4, Zenon DEF With, Without
<1>a. /\ DOMAIN wals' = DOMAIN wals \cup {RestoreSeq}
      /\ \A n \in DOMAIN wals' : wals'[n] = IF n = RestoreSeq THEN Empty ELSE wals[n]
  BY <1>3, Zenon DEF With
<1>7. FileTypes'
  BY <1>1, <1>2, <1>6, <1>a, ContentsAreTables, Types, Zenon DEF Inv, FileTypes
<1>8. Bounded(DOMAIN ssts') /\ Bounded(DOMAIN wals')
  BY <1>2, <1>6, <1>a, BoundedMore, BoundedPart, Zenon DEF Inv, Directory
<1>9. RestoreSeq \in DOMAIN ssts' /\ RestoreSeq \in DOMAIN wals' /\ RestoreSeq <= RestoreSeq
  BY <1>2, <1>5, <1>6, <1>a
<1>10. Directory'
  BY <1>1, <1>8, <1>9, Zenon DEF Directory
<1>11. BoundTypes' /\ store' \in Contents
  BY <1>1, CrashingBounds, Zenon
<1> QED BY <1>1, <1>7, <1>10, <1>11, GoneStep, Zenon

-----------------------------------------------------------------------------
(***************************************************************************)
(* Open.                                                                   *)
(***************************************************************************)
LEMMA ReplayedType == ASSUME NumberFacts, FileTypes, Bounded(DOMAIN wals) PROVE Replayed \in Table
<1>1. ASSUME NEW k \in Key PROVE Newest(wals, Discovered(wals), k) \in Rec
  <2> DEFINE hits == {n \in Discovered(wals) : wals[n][k] # Absent}
  <2>1. CASE hits = {}
    BY <2>1, Zenon DEF Newest, Rec
  <2>2. CASE hits # {}
    <3>1. PICK b \in Nat : DOMAIN wals \subseteq 0..b
      BY Zenon DEF Bounded
    <3>2. hits \in SUBSET (0..b)
      BY <3>1, Zenon DEF Discovered
    <3>3. \E n \in hits : \A x \in hits : x <= n
      BY <2>2, <3>2, Zenon DEF NumberFacts
    <3> DEFINE m == CHOOSE n \in hits : \A x \in hits : x <= n
    <3>4. m \in hits
      BY <3>3, Zenon
    <3>5. Newest(wals, Discovered(wals), k) = wals[m][k]
      BY <2>2, Zenon DEF Newest
    <3> HIDE DEF m
    <3>6. wals[m] \in Table
      BY <3>4, Zenon DEF Discovered, FileTypes
    <3> QED BY <3>5, <3>6, Zenon DEF Table, Rec
  <2> QED BY <2>1, <2>2, Zenon
<1> HIDE DEF Newest
<1> QED BY <1>1, Zenon DEF Replayed, Table, Rec

\* The numbers Open gives out are above those of all files, superseded ones too.
LEMMA NumbersAbove ==
    ASSUME NumberFacts, Inv
    PROVE  /\ NextNumber(Discovered(wals)) \in Nat /\ NextNumber(Discovered(ssts)) \in Nat
           /\ \A n \in DOMAIN wals : n < NextNumber(Discovered(wals))
           /\ \A n \in DOMAIN ssts : n < NextNumber(Discovered(ssts))
           /\ marker <= NextNumber(Discovered(wals))
<1>1. Bounded(Discovered(wals)) /\ Bounded(Discovered(ssts))
  BY BoundedPart, Zenon DEF Inv, Directory, Discovered
<1> DEFINE nw == NextNumber(Discovered(wals))
           ns == NextNumber(Discovered(ssts))
<1>2. /\ nw \in Nat /\ \A n \in Discovered(wals) : n < nw
      /\ ns \in Nat /\ \A n \in Discovered(ssts) : n < ns
  BY <1>1, NextNumberAbove, Zenon
<1> HIDE DEF nw, ns
<1>3. marker \in Nat /\ DOMAIN wals \subseteq Nat /\ DOMAIN ssts \subseteq Nat
  BY Types, Zenon DEF Inv, FileTypes
<1>4. marker # 0 => marker < nw /\ marker < ns
  BY <1>2, <1>3 DEF Inv, Directory, Discovered
<1>5. /\ \A n \in DOMAIN wals : n < nw
      /\ \A n \in DOMAIN ssts : n < ns
  BY <1>2, <1>3, <1>4 DEF Discovered
<1> QED BY <1>2, <1>3, <1>4, <1>5 DEF nw, ns

LEMMA OpenInv ==
    ASSUME NumberFacts, Inv, Open
    PROVE  Inv'
<1> DEFINE nw == NextNumber(Discovered(wals))
           ns == NextNumber(Discovered(ssts))
<1>1. /\ nw \in Nat /\ ns \in Nat /\ marker <= nw
      /\ \A n \in DOMAIN wals : n < nw
      /\ \A n \in DOMAIN ssts : n < ns
  BY NumbersAbove, Zenon
<1>2. /\ mem' = Replayed /\ w' = nw /\ nextWALSeq' = nw + 1 /\ nextFlushSeq' = ns
      /\ wals' = Without(With(wals, nw, Replayed), Discovered(wals))
      /\ sstables' \in Descending(Discovered(ssts))
      /\ UNCHANGED <<ssts, marker, closed, immutable, flushErr, flushes, waiting, snapshot, store>>
      /\ UNCHANGED boundVars
      /\ ~up /\ up' /\ CanOpen
  BY Zenon DEF Open, historyVars, storeVars
<1> HIDE DEF nw, ns
<1>3. Replayed \in Table
  BY ReplayedType, Types, Zenon DEF Inv, Directory
<1>4. /\ nw \notin Discovered(wals)
      /\ DOMAIN wals' = (DOMAIN wals \cup {nw}) \ Discovered(wals)
      /\ \A n \in DOMAIN wals' : wals'[n] = IF n = nw THEN Replayed ELSE wals[n]
  <2>1. nw \notin Discovered(wals)
    BY <1>1, Types DEF Inv, FileTypes, Discovered
  <2> QED BY <1>2, <2>1, Zenon DEF With, Without
<1>5. FileTypes'
  BY <1>1, <1>2, <1>3, <1>4, Types, Zenon DEF Inv, FileTypes
<1>6. StateTypes'
  <2>1. {up, closed, flushErr}' \subseteq BOOLEAN
    BY <1>2, Types, Zenon DEF Inv, StateTypes
  <2>2. /\ mem' \in Table /\ immutable' \in Table \cup {NoTable}
        /\ {w, nextFlushSeq, nextWALSeq}' \subseteq Nat
    BY <1>1, <1>2, <1>3, Types DEF Inv, StateTypes
  <2> QED BY <2>1, <2>2, Zenon DEF StateTypes
<1>7. /\ sstables' \in Seq(Discovered(ssts))
      /\ \A i \in DOMAIN sstables' : sstables'[i] \in Discovered(ssts)
  <2>1. Bounded(Discovered(ssts))
    BY BoundedPart, Zenon DEF Inv, Directory, Discovered
  <2> QED BY <1>2, <2>1, DescendingIsSeq, Zenon
<1>8. ListType'
  <2>1. Discovered(ssts) \subseteq DOMAIN ssts
    BY Zenon DEF Discovered
  <2> QED BY <1>2, <1>7, <2>1 DEF ListType
<1>9. TypeOK'
  <2>1. FlushTypes' /\ CallTypes' /\ BoundTypes'
    BY <1>2, Types, Zenon DEF Inv, FlushTypes, CallTypes, BoundTypes, boundVars
  <2> QED BY <1>5, <1>6, <1>8, <2>1, Types, Zenon
<1>10. Directory'
  <2>1. Bounded(DOMAIN wals')
    BY <1>1, <1>4, BoundedMore, BoundedPart, Zenon DEF Inv, Directory
  <2> QED BY <1>1, <1>2, <1>4, <2>1, Zenon DEF Inv, Directory
<1>11. Running'
  <2>1. \A n \in DOMAIN wals' : n < nextWALSeq'
    BY <1>1, <1>2, <1>4, Types DEF Inv, FileTypes
  <2>2. nw \in DOMAIN wals' /\ wals'[nw] = Replayed
    BY <1>4, Zenon
  <2>3. \A i \in DOMAIN sstables' : ssts[sstables'[i]] # Torn
    BY <1>2, <1>7, Zenon DEF CanOpen
  <2> QED BY <1>1, <1>2, <2>1, <2>2, <2>3, Zenon DEF Running
<1>12. Flushing' /\ Stopped' /\ OneCall'
  BY <1>2, Zenon DEF Inv, Stopped, Flushing, Busy, OneCall
<1> QED BY <1>9, <1>10, <1>11, <1>12, Zenon DEF Inv

LEMMA CrashInOpenInv ==
    ASSUME NumberFacts, Inv, CrashInOpen
    PROVE  Inv'
<1> DEFINE nw  == NextNumber(Discovered(wals))
           old == Discovered(wals)
<1>1. /\ nw \in Nat /\ marker <= nw
      /\ \A n \in DOMAIN wals : n < nw
  BY NumbersAbove, Zenon
<1>2. /\ UNCHANGED <<ssts, marker, up, closed, memVars, flushes, waiting, snapshot>>
      /\ UNCHANGED <<writes, restores, failures, store>>
      /\ ~up /\ stops' = stops + 1
  BY Zenon DEF CrashInOpen, historyVars, storeVars
<1>3. Replayed \in Table
  BY ReplayedType, Types, Zenon DEF Inv, Directory
<1>4. \E c \in Table, S \in SUBSET old : wals' = Without(With(wals, nw, c), S)
  <2>1. ASSUME NEW S \in SUBSET Key,
               wals' = With(wals, nw, [k \in Key |-> IF k \in S THEN Replayed[k] ELSE Absent])
        PROVE  \E c \in Table : wals' = Without(With(wals, nw, c), {})
    <3> DEFINE c == [k \in Key |-> IF k \in S THEN Replayed[k] ELSE Absent]
    <3>1. c \in Table
      BY <1>3, Zenon DEF Table
    <3>2. With(wals, nw, c) = Without(With(wals, nw, c), {})
      BY Zenon DEF With, Without
    <3> QED BY <2>1, <3>1, <3>2, Zenon
  <2>2. ASSUME NEW top \in old, wals' = Without(With(wals, nw, Replayed), {x \in old : x <= top})
        PROVE  \E c \in Table, S \in SUBSET old : wals' = Without(With(wals, nw, c), S)
    <3>1. {x \in old : x <= top} \in SUBSET old
      BY Zenon
    <3> QED BY <1>3, <2>2, <3>1, Zenon
  <2>3. \/ \E S \in SUBSET Key :
              wals' = With(wals, nw, [k \in Key |-> IF k \in S THEN Replayed[k] ELSE Absent])
        \/ \E top \in old : wals' = Without(With(wals, nw, Replayed), {x \in old : x <= top})
    BY Zenon DEF CrashInOpen
  <2> QED BY <2>1, <2>2, <2>3, Zenon
<1>5. PICK c \in Table, S \in SUBSET old : wals' = Without(With(wals, nw, c), S)
  BY <1>4, Zenon
<1> HIDE DEF nw
<1>6. /\ nw \notin S
      /\ DOMAIN wals' = (DOMAIN wals \cup {nw}) \ S
      /\ \A n \in DOMAIN wals' : wals'[n] = IF n = nw THEN c ELSE wals[n]
  <2>1. nw \notin S
    BY <1>1, Types DEF Inv, FileTypes, Discovered
  <2> QED BY <1>5, <2>1, Zenon DEF With, Without
<1>7. FileTypes'
  BY <1>1, <1>2, <1>6, Types, Zenon DEF Inv, FileTypes
<1>8. StateTypes' /\ ListType' /\ FlushTypes' /\ CallTypes'
  BY <1>2, Types, Zenon DEF Inv, memVars, StateTypes, ListType, FlushTypes, CallTypes
<1>9. TypeOK'
  <2>1. BoundTypes'
    BY <1>2, Types DEF Inv, BoundTypes
  <2> QED BY <1>7, <1>8, <2>1, Types, Zenon
<1>10. Directory'
  <2>1. Bounded(DOMAIN wals')
    BY <1>1, <1>6, BoundedMore, BoundedPart, Zenon DEF Inv, Directory
  <2> QED BY <1>1, <1>2, <1>6, <2>1, Zenon DEF Inv, Directory
<1>11. Running' /\ Flushing' /\ Stopped' /\ OneCall'
  BY <1>2, Zenon DEF Inv, Running, Stopped, Flushing, Busy, OneCall, memVars
<1> QED BY <1>9, <1>10, <1>11, Zenon DEF Inv

-----------------------------------------------------------------------------
(***************************************************************************)
(* Writes and flushes.                                                     *)
(***************************************************************************)
\* In files the active WAL holds t.
LoggedIn(files, t) ==
    /\ DOMAIN files = DOMAIN wals
    /\ \A n \in DOMAIN wals : files[n] = IF n = w THEN t ELSE wals[n]

\* startFlushLocked.
LEMMA StartFlushStep ==
    ASSUME Inv, up, immutable = NoTable, NEW table \in Table, NEW t \in Table, NEW files,
           LoggedIn(files, t), Exact => t = table, StartFlush(files, table),
           UNCHANGED <<ssts, marker, up, closed, sstables, flushErr, Exact>>,
           CallTypes', OneCall', BoundTypes'
    PROVE  Inv'
<1> DEFINE f == [seq |-> nextFlushSeq, wal |-> w, table |-> table, pc |-> "write"]
<1>1. /\ immutable' = table /\ mem' = Empty /\ w' = nextWALSeq
      /\ nextWALSeq' = nextWALSeq + 1 /\ nextFlushSeq' = nextFlushSeq + 1
      /\ flushes' = flushes \cup {f}
      /\ wals' = With(files, nextWALSeq, Empty)
  BY Zenon DEF StartFlush
<1>2. f \in Flusher /\ f.seq = nextFlushSeq /\ f.wal = w /\ f.table = table /\ f.pc = "write"
  BY Types, Zenon DEF Inv, StateTypes, Flusher
<1> HIDE DEF f
<1>3. /\ w \in Nat /\ nextWALSeq \in Nat /\ nextFlushSeq \in Nat /\ marker \in Nat
      /\ w \in DOMAIN wals /\ marker <= w
      /\ \A n \in DOMAIN wals : n \in Nat /\ n < nextWALSeq
      /\ \A n \in DOMAIN ssts : n \in Nat /\ n < nextFlushSeq
  BY Types, Zenon DEF Inv, StateTypes, FileTypes, Running
<1>4. /\ DOMAIN wals' = DOMAIN wals \cup {nextWALSeq}
      /\ wals'[nextWALSeq] = Empty
      /\ wals'[w] = t
      /\ \A n \in DOMAIN wals : n # w => wals'[n] = wals[n]
  BY <1>1, <1>3 DEF With, LoggedIn
<1>5. FileTypes'
  BY <1>3, <1>4, ContentsAreTables, Types, Zenon DEF Inv, FileTypes
<1>6. StateTypes'
  <2>1. {up, closed, flushErr}' \subseteq BOOLEAN
    BY Types, Zenon DEF Inv, StateTypes
  <2>2. /\ mem' \in Table /\ immutable' \in Table \cup {NoTable}
        /\ {w, nextFlushSeq, nextWALSeq}' \subseteq Nat
    BY <1>1, <1>3, ContentsAreTables
  <2> QED BY <2>1, <2>2, Zenon DEF StateTypes
<1>7. TypeOK'
  <2>1. ListType' /\ FlushTypes'
    BY <1>1, <1>2, Types, Zenon DEF Inv, ListType, FlushTypes
  <2> QED BY <1>5, <1>6, <2>1, Types, Zenon
<1>8. Directory'
  <2>1. Bounded(DOMAIN wals')
    BY <1>3, <1>4, BoundedMore DEF Inv, Directory
  <2> QED BY <1>4, <2>1, Zenon DEF Inv, Directory
<1>9. Running' /\ Stopped'
  BY <1>1, <1>3, <1>4 DEF Inv, Running, Stopped
<1>10. Busy = {} /\ Busy' = {f}
  <2>1. Busy = {}
    BY NothingAssumption, Types DEF Inv, Flushing, FlushTypes, Flusher, Busy
  <2> QED BY <1>1, <1>2, <2>1, Zenon DEF Busy
<1>11. Flushing'
  <2>1. ASSUME NEW g \in flushes
        PROVE  /\ g.pc = "cleanup" /\ g.seq < nextFlushSeq + 1 /\ g.wal < nextWALSeq
               /\ g.wal # w /\ g.wal # nextWALSeq
               /\ Exact /\ g.wal \in DOMAIN wals => wals[g.wal] = g.table
    <3>1. g.seq \in Nat /\ g.wal \in Nat
      BY Types, Zenon DEF Inv, FlushTypes, Flusher
    <3> QED BY <1>3, <1>10, <3>1 DEF Inv, Flushing, Busy
  <2>2. \A g \in flushes' : g.seq < nextFlushSeq' /\ g.wal < w'
    BY <1>1, <1>2, <1>3, <2>1
  <2>3. Exact' => \A g \in flushes' : g.wal \in DOMAIN wals' => wals'[g.wal] = g.table
    BY <1>1, <1>2, <1>3, <1>4, <2>1, Zenon
  <2>4. nextFlushSeq \notin DOMAIN ssts
    BY <1>3
  <2>5. \A g \in flushes' : /\ g.pc = "write" => g.seq \notin DOMAIN ssts'
                            /\ g.pc # "install"
    BY <1>1, <1>2, <2>1, <2>4, Zenon
  <2>6. /\ \A g, h \in Busy' : g = h
        /\ \A g \in Busy' : immutable' = g.table
        /\ Busy' # {}
    BY <1>1, <1>2, <1>10, Zenon
  <2> QED BY <2>2, <2>3, <2>5, <2>6, Zenon DEF Flushing
<1> QED BY <1>7, <1>8, <1>9, <1>11, Zenon DEF Inv

LEMMA StartFlushExact ==
    ASSUME NEW files, NEW table, StartFlush(files, table)
    PROVE  Exact' = Exact
BY DEF StartFlush, Overlapping, Exact

LEMMA FlushInv ==
    ASSUME Inv, Flush
    PROVE  Inv'
<1>1. /\ up /\ immutable = NoTable /\ StartFlush(wals, mem)
      /\ UNCHANGED <<ssts, marker, up, closed, sstables, flushErr>>
      /\ UNCHANGED <<waiting, snapshot, store, boundVars>>
  BY Zenon DEF Flush, storeVars
<1>a. Exact' = Exact
  BY <1>1, StartFlushExact, Zenon
<1>b. LoggedIn(wals, wals[w]) /\ wals[w] \in Table /\ (Exact => wals[w] = mem)
  BY <1>1, Types, Zenon DEF Inv, Running, FileTypes, LoggedIn
<1>2. mem \in Table /\ CallTypes' /\ OneCall' /\ BoundTypes'
  BY <1>1, Types, Zenon DEF Inv, StateTypes, CallTypes, OneCall, BoundTypes, boundVars
<1> QED BY <1>1, <1>2, <1>a, <1>b, StartFlushStep, Zenon

\* The locked part of ApplyBatch.
LEMMA EmptyPart ==
    ASSUME NEW batch
    PROVE  DOMAIN SubSeq(batch, 1, 0) = {}
BY DEF SubSeq

LEMMA BatchLength ==
    ASSUME NEW batch \in Batch, NEW n \in 0..Len(batch)
    PROVE  n = 0 \/ n \in 1..Len(batch)
<1>1. PICK b \in 1..MaxBatch : batch \in [1..b -> Op]
  BY Zenon DEF Batch
<1> QED BY <1>1, BoundAssumption

LEMMA AppendedIs ==
    ASSUME NumberFacts, Inv, up, NEW batch \in Batch
    PROVE  /\ LoggedIn(Appended(batch), Written(wals[w], batch))
           /\ Written(wals[w], batch) \in Table
           /\ w \in DOMAIN wals /\ (Exact => wals[w] = mem)
<1>1. w \in DOMAIN wals /\ wals[w] \in Table /\ (Exact => wals[w] = mem)
  BY Types, Zenon DEF Inv, Running, FileTypes
<1>2. Written(wals[w], batch) \in Table
  BY <1>1, WrittenType, Zenon
<1>3. Appended(batch) = [wals EXCEPT ![w] = Written(wals[w], batch)]
  BY Zenon DEF Appended
<1> QED BY <1>1, <1>2, <1>3, Zenon DEF LoggedIn

\* The WAL gets a table, the memtable gets the same or none.
LEMMA LoggedStep ==
    ASSUME Inv, up, NEW table \in Table, NEW t \in Table,
           LoggedIn(wals', t), mem' = table, Exact' => Exact /\ t = table,
           UNCHANGED <<immutable, w, nextWALSeq, nextFlushSeq, flushes>>,
           UNCHANGED <<ssts, marker, up, closed, sstables, flushErr>>,
           CallTypes', OneCall', BoundTypes'
    PROVE  Inv'
<1> USE DEF LoggedIn
<1>1. FileTypes' /\ ListType' /\ FlushTypes'
  BY Types, Zenon DEF Inv, FileTypes, ListType, FlushTypes
<1>2. StateTypes'
  <2>1. {up, closed, flushErr}' \subseteq BOOLEAN
    BY Types, Zenon DEF Inv, StateTypes
  <2>2. /\ mem' \in Table /\ immutable' \in Table \cup {NoTable}
        /\ {w, nextFlushSeq, nextWALSeq}' \subseteq Nat
    BY Types, Zenon DEF Inv, StateTypes
  <2> QED BY <2>1, <2>2, Zenon DEF StateTypes
<1>3. TypeOK'
  BY <1>1, <1>2, Types, Zenon
<1>4. w \in DOMAIN wals /\ wals'[w] = t
  BY Zenon DEF Inv, Running
<1>5. Directory' /\ Running' /\ Stopped'
  BY <1>4, Zenon DEF Inv, Directory, Running, Stopped
<1>6. \A f \in flushes : f.wal # w
  BY Types DEF Inv, Flushing, FlushTypes, Flusher, StateTypes
<1>7. Flushing'
  BY <1>6, Zenon DEF Inv, Flushing, Busy
<1> QED BY <1>3, <1>5, <1>7, Zenon DEF Inv

LEMMA ApplyStep ==
    ASSUME NumberFacts, Inv, up, immutable = NoTable, NEW batch \in Batch, Apply(batch),
           UNCHANGED <<ssts, marker, up, closed, sstables, flushErr, snapshot, restores, stops>>,
           waiting' = NoTable, writes' \in Nat
    PROVE  Inv'
<1> DEFINE table == Written(mem, batch)
           t == Written(wals[w], batch)
<1>1. store' = Stored(batch) /\ UNCHANGED failures
  BY Zenon DEF Apply, Acknowledged
<1>2. mem \in Table
  BY Types, Zenon DEF Inv, StateTypes
<1>3. table \in Table
  BY <1>2, WrittenType, Zenon
<1>4. CallTypes' /\ OneCall' /\ BoundTypes'
  BY <1>1, StoredType, Types, Zenon DEF Inv, CallTypes, OneCall, BoundTypes
<1>5. /\ LoggedIn(Appended(batch), t) /\ t \in Table
      /\ Exact => t = table
  BY AppendedIs, Zenon
<1>6. CASE StartFlush(Appended(batch), table)
  <2>1. Exact' = Exact
    BY <1>6, StartFlushExact, Zenon
  <2> HIDE DEF table, t
  <2> QED BY <1>3, <1>4, <1>5, <1>6, <2>1, StartFlushStep, Zenon
<1>7. CASE /\ mem' = table /\ wals' = Appended(batch)
           /\ UNCHANGED <<immutable, w, nextWALSeq, nextFlushSeq, flushes, mishaps>>
  <2>1. Exact' = Exact
    BY <1>7, Zenon DEF Exact
  <2> HIDE DEF table, t
  <2> QED BY <1>3, <1>4, <1>5, <1>7, <2>1, LoggedStep, Zenon
<1> QED BY <1>6, <1>7, Zenon DEF Apply

\* A prefix of a batch.
LEMMA PartOfBatch ==
    ASSUME NEW batch \in Batch, NEW n \in 1..Len(batch)
    PROVE  SubSeq(batch, 1, n) \in Batch
<1>1. PICK b \in 1..MaxBatch : batch \in [1..b -> Op]
  BY Zenon DEF Batch
<1>2. b \in Nat /\ batch \in Seq(Op) /\ Len(batch) = b
  BY <1>1, BoundAssumption
<1>3. n \in 1..MaxBatch
  BY <1>1, <1>2, BoundAssumption
<1>4. SubSeq(batch, 1, n) \in Seq(Op) /\ Len(SubSeq(batch, 1, n)) = n
  BY <1>2
<1>5. ASSUME NEW s \in Seq(Op) PROVE s \in [1..Len(s) -> Op]
  OBVIOUS
<1>6. SubSeq(batch, 1, n) \in [1..n -> Op]
  BY <1>4, <1>5, Zenon
<1> QED BY <1>3, <1>6, Zenon DEF Batch

LEMMA AppendFailsStep ==
    ASSUME NumberFacts, Inv, up, NEW batch \in Batch, AppendFails(batch),
           UNCHANGED <<ssts, marker, up, closed, sstables, flushErr, snapshot, restores, stops>>,
           waiting' = NoTable, writes' \in Nat
    PROVE  Inv'
<1>1. /\ failures' = failures + 1
      /\ UNCHANGED <<store, mem, immutable, w, nextWALSeq, nextFlushSeq, flushes>>
      /\ ~Exact'
  BY DEF AppendFails, Exact
<1>2. failures' \in Nat
  BY <1>1, Types DEF Inv, BoundTypes
<1>3. CallTypes' /\ OneCall' /\ BoundTypes'
  BY <1>1, <1>2, Types, Zenon DEF Inv, CallTypes, OneCall, BoundTypes
<1>4. PICK n \in 0..Len(batch) : wals' = Appended(SubSeq(batch, 1, n))
  BY Zenon DEF AppendFails
<1>5. mem \in Table /\ w \in DOMAIN wals /\ wals[w] \in Table
  BY Types, Zenon DEF Inv, StateTypes, Running, FileTypes
<1>6. CASE n = 0
  <2>1. Written(wals[w], SubSeq(batch, 1, 0)) = wals[w]
    <3>1. DOMAIN SubSeq(batch, 1, 0) = {}
      BY EmptyPart, Zenon
    <3>2. \A k : LastOn(SubSeq(batch, 1, 0), k) = Absent
      BY <3>1, Zenon DEF LastOn
    <3> QED BY <1>5, <3>2, Zenon DEF Written, Over, Table
  <2>2. LoggedIn(wals', wals[w])
    BY <1>4, <1>5, <1>6, <2>1, Zenon DEF Appended, LoggedIn
  <2> QED BY <1>1, <1>3, <1>5, <2>2, LoggedStep, Zenon
<1>7. CASE n \in 1..Len(batch)
  <2> DEFINE part == SubSeq(batch, 1, n)
             t == Written(wals[w], part)
  <2>1. part \in Batch
    BY <1>7, PartOfBatch, Zenon
  <2> HIDE DEF part
  <2>2. t \in Table /\ LoggedIn(Appended(part), t)
    BY <2>1, AppendedIs, Zenon
  <2>3. wals' = Appended(part)
    BY <1>4, Zenon DEF part
  <2> HIDE DEF t
  <2> QED BY <1>1, <1>3, <1>5, <2>2, <2>3, LoggedStep, Zenon
<1>8. n = 0 \/ n \in 1..Len(batch)
  BY BatchLength
<1> QED BY <1>6, <1>7, <1>8, Zenon

LEMMA WriteStep ==
    ASSUME NumberFacts, Inv, up, NEW batch \in Batch, Write(batch),
           waiting' = NoTable, writes' \in Nat
    PROVE  Inv'
<1>1. /\ immutable = NoTable /\ (Apply(batch) \/ AppendFails(batch))
      /\ UNCHANGED <<ssts, marker, up, closed, sstables, flushErr, snapshot, restores, stops>>
  BY Zenon DEF Write
<1>2. CASE Apply(batch)
  BY <1>1, <1>2, ApplyStep, Zenon
<1>3. CASE AppendFails(batch)
  BY <1>1, <1>3, AppendFailsStep, Zenon
<1> QED BY <1>1, <1>2, <1>3, Zenon

LEMMA ApplyBatchInv ==
    ASSUME NumberFacts, Inv, NEW batch \in Batch, ApplyBatch(batch)
    PROVE  Inv'
<1>1. up /\ Write(batch) /\ waiting' = NoTable
  BY Zenon DEF ApplyBatch, Idle
<1>2. writes' \in Nat
  BY Types DEF Inv, BoundTypes, ApplyBatch
<1> QED BY <1>1, <1>2, WriteStep, Zenon

LEMMA ResumeInv ==
    ASSUME NumberFacts, Inv, Resume
    PROVE  Inv'
<1>1. up /\ waiting \in Waiting /\ waiting' = NoTable
  BY Types, Zenon DEF Inv, Stopped, CallTypes, Resume
<1>2. CASE Write(waiting.batch) /\ UNCHANGED writes
  <2>1. waiting.batch \in Batch
    BY <1>1, Zenon DEF Waiting
  <2>2. writes' \in Nat
    BY <1>2, Types, Zenon DEF Inv, BoundTypes
  <2> QED BY <1>1, <1>2, <2>1, <2>2, WriteStep, Zenon
<1>3. CASE UNCHANGED <<dirVars, up, closed, memVars, flushes, snapshot, boundVars, historyVars>>
  <2>1. closed' \in BOOLEAN /\ BoundTypes' /\ CallTypes' /\ OneCall'
    BY <1>1, <1>3, Types, Zenon DEF Inv, StateTypes, BoundTypes, boundVars, CallTypes, OneCall, historyVars, storeVars
  <2>2. UNCHANGED <<orderly, Exact, store>>
    BY <1>3, HistoryKept, Zenon
  <2> QED BY <1>1, <1>3, <2>1, <2>2, CallStep, Zenon
<1> QED BY <1>2, <1>3, Zenon DEF Resume

\* A flush goroutine goes on to the next section.
LEMMA FlushGoesOn ==
    ASSUME Inv, NEW f \in flushes, NEW p \in {"install", "cleanup"}, NEW g,
           g = [f EXCEPT !.pc = p]
    PROVE  g \in Flusher /\ g.seq = f.seq /\ g.wal = f.wal /\ g.table = f.table /\ g.pc = p
<1>1. f \in Flusher
  BY Types, Zenon DEF Inv, FlushTypes
<1> QED BY <1>1, Zenon DEF Flusher

LEMMA FlushWriteInv ==
    ASSUME Inv, NEW f \in flushes, FlushWrite(f), UNCHANGED <<orderly, Exact>>
    PROVE  Inv'
<1> DEFINE g == [f EXCEPT !.pc = "install"]
<1>1. /\ f.pc = "write" /\ ssts' = With(ssts, f.seq, f.table)
      /\ flushes' = (flushes \ {f}) \cup {g}
      /\ UNCHANGED <<wals, marker, up, closed, memVars, waiting, snapshot, boundVars, store>>
  BY Zenon DEF FlushWrite, historyVars, storeVars
<1>2. g \in Flusher /\ g.seq = f.seq /\ g.wal = f.wal /\ g.table = f.table /\ g.pc = "install"
  BY FlushGoesOn, Zenon
<1> HIDE DEF g
<1>3. f.seq \in Nat /\ f.wal \in Nat /\ f.table \in Table /\ f.seq < nextFlushSeq /\ f.seq \notin DOMAIN ssts
  BY <1>1, Types, Zenon DEF Inv, FlushTypes, Flusher, Flushing
<1>4. /\ DOMAIN ssts' = DOMAIN ssts \cup {f.seq}
      /\ ssts'[f.seq] = f.table
      /\ \A n \in DOMAIN ssts : ssts'[n] = ssts[n]
  BY <1>1, <1>3, Zenon DEF With
<1>5. up
  BY Zenon DEF Inv, Stopped
<1>6. TypeOK'
  <2>1. FileTypes' /\ FlushTypes'
    BY <1>1, <1>2, <1>3, <1>4, Types, Zenon DEF Inv, FileTypes, FlushTypes
  <2>2. StateTypes' /\ CallTypes' /\ BoundTypes'
    BY <1>1, Types, Zenon DEF Inv, StateTypes, CallTypes, BoundTypes, memVars, boundVars
  <2>3. ListType'
    BY <1>1, <1>4, Types DEF Inv, ListType, memVars
  <2> QED BY <2>1, <2>2, <2>3, Types, Zenon
<1>7. Directory'
  <2>1. Bounded(DOMAIN ssts')
    BY <1>3, <1>4, BoundedMore DEF Inv, Directory
  <2> QED BY <1>1, <1>4, <2>1, Zenon DEF Inv, Directory
<1>8. \A n \in DOMAIN sstables : sstables[n] \in DOMAIN ssts
  BY Types DEF Inv, ListType
<1>9. Running' /\ Stopped' /\ OneCall'
  BY <1>1, <1>3, <1>4, <1>5, <1>8, Zenon DEF Inv, Running, Stopped, OneCall, memVars
<1>10. Busy = {f} /\ Busy' = {g}
  <2>1. Busy = {f}
    BY <1>1, Zenon DEF Inv, Flushing, Busy
  <2> QED BY <1>1, <1>2, <2>1, Zenon DEF Busy
<1>11. Flushing'
  <2>1. \A h \in flushes : h # f => h.pc = "cleanup"
    BY <1>10, Zenon DEF Busy
  <2>2. \A h \in flushes' : h.seq < nextFlushSeq' /\ h.wal < w'
    BY <1>1, <1>2, Zenon DEF Inv, Flushing, memVars
  <2>3. Exact' => \A h \in flushes' : h.wal \in DOMAIN wals' => wals'[h.wal] = h.table
    BY <1>1, <1>2, Zenon DEF Inv, Flushing
  <2>4. \A h \in flushes' : h.pc # "write"
    BY <1>1, <1>2, <2>1, Zenon
  <2>5. \A h \in flushes' : h.pc = "install" => h.seq \in DOMAIN ssts' /\ ssts'[h.seq] = h.table
    BY <1>1, <1>2, <1>4, <2>1, Zenon
  <2>6. immutable' = f.table
    BY <1>1, <1>10, Zenon DEF Inv, Flushing, memVars
  <2> QED BY <1>2, <1>10, <2>2, <2>3, <2>4, <2>5, <2>6, Zenon DEF Flushing
<1> QED BY <1>6, <1>7, <1>9, <1>11, Zenon DEF Inv

LEMMA FlushFailsInv ==
    ASSUME Inv, NEW f \in flushes, FlushFails(f), UNCHANGED <<orderly, Exact>>
    PROVE  Inv'
<1>1. /\ f.pc \in {"write", "install"} /\ failures' = failures + 1
      /\ flushErr' = TRUE /\ immutable' = NoTable /\ flushes' = flushes \ {f}
      /\ UNCHANGED <<wals, marker, up, closed, mem, w, sstables, nextFlushSeq, nextWALSeq,
                     waiting, snapshot, writes, restores, stops, store>>
  BY Zenon DEF FlushFails, historyVars, storeVars
<1>2. ssts' = ssts \/ (f.pc = "write" /\ ssts' = With(ssts, f.seq, Torn))
  BY Zenon DEF FlushFails
<1>3. f.seq \in Nat /\ f.seq < nextFlushSeq /\ (f.pc = "write" => f.seq \notin DOMAIN ssts)
  BY Types, Zenon DEF Inv, FlushTypes, Flusher, Flushing
<1>4. /\ DOMAIN ssts \subseteq DOMAIN ssts' /\ DOMAIN ssts' \subseteq DOMAIN ssts \cup {f.seq}
      /\ \A n \in DOMAIN ssts : ssts'[n] = ssts[n]
      /\ \A n \in DOMAIN ssts' : n \in DOMAIN ssts \/ ssts'[n] = Torn
  BY <1>2, <1>3, Zenon DEF With
<1>5. up
  BY Zenon DEF Inv, Stopped
<1>6. TypeOK'
  <2>1. FileTypes' /\ FlushTypes' /\ BoundTypes'
    BY <1>1, <1>3, <1>4, Types DEF Inv, FileTypes, FlushTypes, BoundTypes
  <2>2. StateTypes' /\ CallTypes'
    BY <1>1, Types, Zenon DEF Inv, StateTypes, CallTypes
  <2>3. ListType'
    BY <1>1, <1>4, Types DEF Inv, ListType
  <2> QED BY <2>1, <2>2, <2>3, Types, Zenon
<1>7. Directory'
  <2>1. Bounded(DOMAIN ssts')
    BY <1>3, <1>4, BoundedMore, BoundedPart DEF Inv, Directory
  <2> QED BY <1>1, <1>4, <2>1, Zenon DEF Inv, Directory
<1>8. \A n \in DOMAIN sstables : sstables[n] \in DOMAIN ssts
  BY Types DEF Inv, ListType
<1>9. Running' /\ Stopped' /\ OneCall'
  BY <1>1, <1>3, <1>4, <1>5, <1>8, Zenon DEF Inv, Running, Stopped, OneCall
<1>10. Busy' = {} /\ \A h \in flushes' : h.pc = "cleanup"
  BY <1>1 DEF Inv, Flushing, Busy
<1>11. Flushing'
  BY <1>1, <1>10, Zenon DEF Inv, Flushing
<1> QED BY <1>6, <1>7, <1>9, <1>11, Zenon DEF Inv

LEMMA FlushInstallInv ==
    ASSUME Inv, NEW f \in flushes, FlushInstall(f), UNCHANGED <<orderly, Exact>>
    PROVE  Inv'
<1> DEFINE g == [f EXCEPT !.pc = "cleanup"]
<1>1. /\ f.pc = "install" /\ sstables' = <<f.seq>> \o sstables /\ immutable' = NoTable
      /\ flushes' = (flushes \ {f}) \cup {g}
      /\ UNCHANGED <<dirVars, up, closed, mem, w, nextFlushSeq, nextWALSeq, flushErr,
                     waiting, snapshot, boundVars, store>>
  BY Zenon DEF FlushInstall, historyVars, storeVars
<1>2. g \in Flusher /\ g.seq = f.seq /\ g.wal = f.wal /\ g.table = f.table /\ g.pc = "cleanup"
  BY FlushGoesOn, Zenon
<1> HIDE DEF g
<1>3. f.seq \in DOMAIN ssts /\ ssts[f.seq] = f.table /\ f.table \in Table
  BY <1>1, Types, Zenon DEF Inv, FlushTypes, Flusher, Flushing
<1>4. up
  BY Zenon DEF Inv, Stopped
<1>5. /\ sstables \in Seq(DOMAIN ssts) /\ sstables' \in Seq(DOMAIN ssts)
      /\ \A n \in DOMAIN sstables' : sstables'[n] = f.seq \/ \E i \in DOMAIN sstables : sstables'[n] = sstables[i]
  <2>1. sstables \in Seq(DOMAIN ssts) /\ <<f.seq>> \in Seq(DOMAIN ssts)
    BY <1>3, Types DEF Inv, ListType
  <2> QED BY <1>1, <2>1
<1>6. TypeOK'
  <2>1. FileTypes' /\ FlushTypes' /\ CallTypes' /\ BoundTypes'
    BY <1>1, <1>2, Types, Zenon DEF Inv, FileTypes, FlushTypes, CallTypes, BoundTypes, dirVars, boundVars
  <2>2. StateTypes'
    BY <1>1, Types, Zenon DEF Inv, StateTypes
  <2>3. ListType'
    BY <1>1, <1>5, Zenon DEF ListType, dirVars
  <2> QED BY <2>1, <2>2, <2>3, Types, Zenon
<1>7. Directory' /\ Stopped' /\ OneCall'
  BY <1>1, <1>4, Zenon DEF Inv, Directory, Stopped, OneCall, dirVars
<1>8. Running'
  <2>1. \A n \in DOMAIN sstables' : ssts[sstables'[n]] # Torn
    BY <1>3, <1>4, <1>5, NothingAssumption, Zenon DEF Inv, Running
  <2> QED BY <1>1, <1>4, <2>1, Zenon DEF Inv, Running, dirVars
<1>9. Busy' = {} /\ \A h \in flushes' : h.pc = "cleanup"
  BY <1>1, <1>2 DEF Inv, Flushing, Busy
<1>10. Flushing'
  BY <1>1, <1>2, <1>9 DEF Inv, Flushing, dirVars
<1> QED BY <1>6, <1>7, <1>8, <1>10, Zenon DEF Inv

LEMMA FlushCleanupInv ==
    ASSUME Inv, NEW f \in flushes, FlushCleanup(f), UNCHANGED <<orderly, Exact>>
    PROVE  Inv'
<1>1. /\ f.pc = "cleanup" /\ flushes' = flushes \ {f}
      /\ UNCHANGED <<ssts, marker, up, closed, mem, immutable, w, sstables, nextFlushSeq,
                     nextWALSeq, waiting, snapshot, writes, restores, stops, store>>
  BY Zenon DEF FlushCleanup, historyVars, storeVars
<1>2. wals' = wals \/ wals' = Without(wals, {f.wal})
  BY Zenon DEF FlushCleanup
<1>3. flushErr' \in BOOLEAN /\ failures' \in Nat
  <2>1. flushErr' \in BOOLEAN
    BY Types, Zenon DEF Inv, StateTypes, FlushCleanup
  <2>2. failures' \in Nat
    BY Types DEF Inv, BoundTypes, FlushCleanup
  <2> QED BY <2>1, <2>2, Zenon
<1>4. /\ DOMAIN wals' \subseteq DOMAIN wals /\ DOMAIN wals \subseteq DOMAIN wals' \cup {f.wal}
      /\ \A n \in DOMAIN wals' : wals'[n] = wals[n]
  BY <1>2, Zenon DEF Without
<1>5. up /\ f.wal # w
  BY Types DEF Inv, Stopped, Flushing, FlushTypes, Flusher, StateTypes
<1>6. TypeOK'
  <2>1. FileTypes' /\ FlushTypes' /\ BoundTypes' /\ ListType' /\ CallTypes'
    BY <1>1, <1>3, <1>4, Types, Zenon DEF Inv, FileTypes, FlushTypes, BoundTypes, ListType, CallTypes
  <2>2. StateTypes'
    BY <1>1, <1>3, Types, Zenon DEF Inv, StateTypes
  <2> QED BY <2>1, <2>2, Types, Zenon
<1>7. w' \in DOMAIN wals' /\ marker' <= w' /\ (Exact' => wals'[w'] = mem')
  BY <1>1, <1>4, <1>5, Zenon DEF Inv, Running
<1>8. Directory'
  <2>1. Bounded(DOMAIN wals')
    BY <1>4, BoundedPart, Zenon DEF Inv, Directory
  <2> QED BY <1>1, <1>7, <2>1, Zenon DEF Inv, Directory
<1>9. Running' /\ Stopped' /\ OneCall'
  BY <1>1, <1>4, <1>5, <1>7, Zenon DEF Inv, Running, Stopped, OneCall
<1>10. Busy' = Busy
  BY <1>1, Zenon DEF Busy
<1>11. Flushing'
  BY <1>1, <1>4, <1>10, Zenon DEF Inv, Flushing
<1> QED BY <1>6, <1>8, <1>9, <1>11, Zenon DEF Inv

LEMMA RestoreSnapshotInv ==
    ASSUME Inv, NEW data \in Contents, RestoreSnapshot(data), UNCHANGED <<orderly, Exact>>
    PROVE  Inv'
<1> DEFINE new == RestoreSeq
           old == {sstables[n] : n \in DOMAIN sstables}
<1>1. /\ up /\ immutable = NoTable /\ restores' \in Nat
  BY Types DEF RestoreSnapshot, Restoring, Idle, Inv, BoundTypes
<1>2. /\ ssts' = Without(With(ssts, new, data), old)
      /\ wals' = Without(With(wals, new, Empty), {w})
      /\ marker' = new /\ sstables' = <<new>> /\ w' = new
      /\ nextFlushSeq' = new + 1 /\ nextWALSeq' = new + 1
      /\ mem' = Empty /\ flushErr' = FALSE /\ store' = data
      /\ UNCHANGED <<up, closed, immutable, flushes, waiting, snapshot, writes, stops, failures>>
  BY Zenon DEF RestoreSnapshot
<1>3. /\ new \in Nat
      /\ \A n \in DOMAIN wals : n \in Nat /\ n < new
      /\ \A n \in DOMAIN ssts : n \in Nat /\ n < new
      /\ nextFlushSeq \in Nat /\ nextFlushSeq <= new
      /\ w \in DOMAIN wals
  BY <1>1, RestoreSeqAbove, Types, Zenon DEF Inv, FileTypes, Running, StateTypes
<1> HIDE DEF new
<1>4. /\ new \notin old /\ new # w
      /\ DOMAIN ssts' = (DOMAIN ssts \cup {new}) \ old
      /\ \A n \in DOMAIN ssts' : ssts'[n] = IF n = new THEN data ELSE ssts[n]
      /\ DOMAIN wals' = (DOMAIN wals \cup {new}) \ {w}
      /\ \A n \in DOMAIN wals' : wals'[n] = IF n = new THEN Empty ELSE wals[n]
  <2>1. new # w /\ \A n \in DOMAIN sstables : sstables[n] # new
    BY <1>3, Types DEF Inv, ListType
  <2>2. new \notin old
    BY <2>1, Zenon
  <2> HIDE DEF old
  <2> QED BY <1>2, <2>1, <2>2, Zenon DEF With, Without
<1> HIDE DEF old
<1>5. TypeOK'
  <2>1. FileTypes'
    BY <1>2, <1>3, <1>4, ContentsAreTables, Types DEF Inv, FileTypes
  <2>2. FlushTypes' /\ CallTypes' /\ BoundTypes'
    BY <1>1, <1>2, Types, Zenon DEF Inv, FlushTypes, CallTypes, BoundTypes
  <2>3. StateTypes'
    <3>1. {up, closed, flushErr}' \subseteq BOOLEAN
      BY <1>2, Types, Zenon DEF Inv, StateTypes
    <3>2. /\ mem' \in Table /\ immutable' \in Table \cup {NoTable}
          /\ {w, nextFlushSeq, nextWALSeq}' \subseteq Nat
      BY <1>1, <1>2, <1>3, ContentsAreTables
    <3> QED BY <3>1, <3>2, Zenon DEF StateTypes
  <2>4. ListType'
    <3>1. new \in DOMAIN ssts'
      BY <1>4, Zenon
    <3> QED BY <1>2, <3>1 DEF ListType
  <2> QED BY <2>1, <2>2, <2>3, <2>4, Types, Zenon
<1>6. Directory'
  <2>1. Bounded(DOMAIN wals') /\ Bounded(DOMAIN ssts')
    BY <1>3, <1>4, BoundedMore, BoundedPart, Zenon DEF Inv, Directory
  <2>2. marker' = new /\ new \in DOMAIN ssts' /\ new \in DOMAIN wals' /\ new <= new
    BY <1>2, <1>3, <1>4
  <2> QED BY <2>1, <2>2, Zenon DEF Directory
<1>7. Running'
  <2>1. data # Torn
    BY NothingAssumption, ContentsAreTables, Zenon
  <2>2. \A n \in DOMAIN sstables' : ssts'[sstables'[n]] # Torn
    BY <1>2, <1>4, <2>1
  <2>3. /\ \A n \in DOMAIN wals' : n < new + 1
        /\ \A n \in DOMAIN ssts' : n < new + 1
    BY <1>3, <1>4
  <2>4. new \in DOMAIN wals' /\ wals'[new] = Empty /\ new <= new
    BY <1>3, <1>4
  <2> QED BY <1>2, <2>2, <2>3, <2>4, Zenon DEF Running
<1>8. Stopped' /\ OneCall'
  BY <1>1, <1>2, Zenon DEF Inv, Stopped, OneCall
<1>9. Busy = {} /\ Busy' = {}
  <2>1. Busy = {}
    BY <1>1, NothingAssumption, Types DEF Inv, Flushing, FlushTypes, Flusher, Busy
  <2> QED BY <1>2, <2>1, Zenon DEF Busy
<1>10. Flushing'
  <2>1. ASSUME NEW f \in flushes
        PROVE  /\ f.pc = "cleanup" /\ f.seq < new + 1 /\ f.wal < new
               /\ Exact /\ f.wal \in DOMAIN wals => wals[f.wal] = f.table
    <3>1. f.seq \in Nat /\ f.wal \in Nat /\ w \in Nat /\ f.wal < w /\ f.seq < nextFlushSeq
      BY Types, Zenon DEF Inv, FlushTypes, Flusher, Flushing, StateTypes
    <3> QED BY <1>3, <1>9, <3>1 DEF Inv, Flushing, Busy
  <2>2. ASSUME Exact', NEW f \in flushes', f.wal \in DOMAIN wals' PROVE wals'[f.wal] = f.table
    <3>1. f \in flushes /\ f.wal \in Nat
      BY <1>2, Types, Zenon DEF Inv, FlushTypes, Flusher
    <3>2. f.wal # new
      BY <1>3, <2>1, <3>1
    <3>3. f.wal \in DOMAIN wals /\ wals'[f.wal] = wals[f.wal]
      BY <1>4, <2>2, <3>2, Zenon
    <3> QED BY <2>1, <2>2, <3>1, <3>3, Zenon
  <2> QED BY <1>1, <1>2, <1>9, <2>1, <2>2, Zenon DEF Flushing
<1> QED BY <1>5, <1>6, <1>7, <1>8, <1>10, Zenon DEF Inv

-----------------------------------------------------------------------------
(***************************************************************************)
(* The theorems.                                                           *)
(***************************************************************************)
LEMMA InvInit == Init => Inv
<1> SUFFICES ASSUME Init PROVE Inv
  BY Zenon
<1> USE DEF Init, NewStore
<1>1. FileTypes /\ ListType /\ FlushTypes /\ BoundTypes
  BY DEF FileTypes, ListType, FlushTypes, BoundTypes
<1>2. CallTypes
  BY ContentsAreTables, Zenon DEF CallTypes
<1>3. StateTypes
  <2>1. {up, closed, flushErr} \subseteq BOOLEAN
    BY Zenon
  <2>2. mem \in Table /\ immutable \in Table \cup {NoTable} /\ {w, nextFlushSeq, nextWALSeq} \subseteq Nat
    BY ContentsAreTables
  <2> QED BY <2>1, <2>2, Zenon DEF StateTypes
<1>4. Directory
  BY Zenon DEF Directory, Bounded
<1>5. Stopped /\ Running /\ Flushing /\ OneCall
  BY Zenon DEF Stopped, Running, Flushing, OneCall, Busy
<1> QED BY <1>1, <1>2, <1>3, <1>4, <1>5, Types, Zenon DEF Inv

LEMMA FlushHistory ==
    ASSUME FlushStep
    PROVE  UNCHANGED <<orderly, Exact>>
<1>1. UNCHANGED historyVars
  BY Zenon DEF FlushStep, FlushWrite, FlushFails, FlushInstall, FlushCleanup
<1> QED BY <1>1, HistoryKept, Zenon

LEMMA CallHistory ==
    ASSUME (\E batch \in Batch : WaitForFlush(batch)) \/ SnapshotStep \/ Close \/ CloseFiles \/ Open
    PROVE  UNCHANGED <<orderly, Exact>>
<1>1. UNCHANGED historyVars
  BY Zenon DEF WaitForFlush, SnapshotStep, SnapshotCollect, SnapshotGet, SnapshotReturn, Close,
               CloseFiles, Open
<1> QED BY <1>1, HistoryKept, Zenon

LEMMA RestoreHistory ==
    ASSUME NEW data \in Contents, RestoreSnapshot(data)
    PROVE  UNCHANGED <<orderly, Exact>>
BY DEF RestoreSnapshot, orderly, Exact

\* No RestoreSnapshot has failed.
Unaborted == "aborted" \notin mishaps

LEMMA RestoreFailsAborts ==
    ASSUME NEW data \in Contents, RestoreFails(data)
    PROVE  ~Unaborted' /\ ~orderly'
BY DEF RestoreFails, Unaborted, orderly

LEMMA InvNext ==
    ASSUME NumberFacts, Inv, [Next]_vars, Unaborted'
    PROVE  Inv'
<1>1. CASE UNCHANGED vars
  <2>1. TypeOK'
    BY <1>1, Types, Zenon DEF Inv, vars, dirVars, memVars, boundVars, historyVars, storeVars, FileTypes,
                       StateTypes, ListType, FlushTypes, CallTypes, BoundTypes
  <2>2. Exact' = Exact
    BY <1>1, HistoryKept, Zenon DEF vars
  <2> QED BY <1>1, <2>1, <2>2, Zenon DEF Inv, vars, dirVars, memVars, Directory, Stopped, Running, Flushing, Busy, OneCall
<1>2. CASE Next
  <2>1. CASE CrashStep
    BY <2>1, CrashInv, CrashInAppendInv, CrashBeforeCommitInv, CrashAfterCommitInv, CrashInOpenInv, Zenon
       DEF CrashStep
  <2>2. CASE FlushStep
    BY <2>2, FlushHistory, FlushWriteInv, FlushFailsInv, FlushInstallInv, FlushCleanupInv, Zenon DEF FlushStep
  <2>3. CASE \E batch \in Batch : ApplyBatch(batch) \/ WaitForFlush(batch)
    BY <2>3, CallHistory, ApplyBatchInv, WaitForFlushInv, Zenon
  <2>4. CASE \E data \in Contents : RestoreSnapshot(data) \/ RestoreFails(data)
    BY <2>4, RestoreHistory, RestoreFailsAborts, RestoreSnapshotInv, Zenon
  <2>5. CASE Open \/ Resume \/ Flush \/ SnapshotStep \/ Close \/ CloseFiles
    BY <2>5, CallHistory, OpenInv, ResumeInv, FlushInv, SnapshotInv, CloseInv, CloseFilesInv, Zenon
  <2> QED BY <1>2, <2>1, <2>2, <2>3, <2>4, <2>5, Zenon DEF Next
<1> QED BY <1>1, <1>2, Zenon

LEMMA InvFresh ==
    ASSUME Inv
    PROVE  NumbersFresh
<1> SUFFICES ASSUME up PROVE NumbersFresh
  BY Zenon DEF NumbersFresh
<1>1. nextWALSeq \notin DOMAIN wals /\ nextFlushSeq \notin DOMAIN ssts
  BY Types DEF Inv, Running, StateTypes
<1>2. RestoreSeq \notin DOMAIN wals /\ RestoreSeq \notin DOMAIN ssts
  BY RestoreSeqAbove
<1> QED BY <1>1, <1>2, Zenon DEF NumbersFresh

LEMMA InvLogged ==
    ASSUME Inv
    PROVE  LoggedExactly
<1> SUFFICES ASSUME up, mishaps \cap {"append", "aborted"} = {}
             PROVE  /\ w \in DOMAIN wals /\ wals[w] = mem
                    /\ \A f \in flushes : f.wal \in DOMAIN wals => wals[f.wal] = f.table
  BY Zenon DEF LoggedExactly
<1>1. Exact
  BY DEF Exact
<1> QED BY <1>1, Zenon DEF Inv, Running, Flushing


-----------------------------------------------------------------------------
(***************************************************************************)
(* The second invariant.                                                   *)
(***************************************************************************)
Installed == {sstables[i] : i \in DOMAIN sstables}

\* What the files hold while the engine is up and no flush has failed: the open
\* SSTables, newest first, are the complete ones but for one that is about to be
\* installed, and the one that a flush has just written is the newest of them as
\* long as its WAL would be replayed.
Kept ==
    /\ \A i, j \in DOMAIN sstables : i < j => sstables[i] > sstables[j]
    /\ Complete = Installed \cup {f.seq : f \in {f \in flushes : f.pc = "install"}}
    /\ Discovered(wals) \subseteq {w} \cup {f.wal : f \in flushes}
    /\ \A f \in flushes : f.wal \in DOMAIN wals
    /\ \A f \in Busy : marker <= f.wal /\ f.seq \notin Installed
    /\ \A f \in flushes : f.pc = "write" => \A n \in {marker} \cup Complete : n <= f.seq
    /\ \A f \in flushes : f.pc # "write" /\ marker <= f.wal =>
          f.seq \in Complete /\ ssts[f.seq] = f.table /\ \A n \in Complete : n <= f.seq

Orderly ==
    orderly => /\ \A f, g \in flushes : f = g
               /\ flushErr => flushes = {}
               /\ up /\ ~flushErr => Kept

\* The keys that have been read, and those that no table holds.
SnapshotSoFar ==
    (orderly /\ snapshot # NoTable /\ ~flushErr)
      => \A k \in Key \ snapshot.keys : snapshot.pairs[k] = store[k]

-----------------------------------------------------------------------------
(***************************************************************************)
(* The newest record.                                                      *)
(***************************************************************************)
\* n is the newest of the files S that has a record for k.
Top(files, S, k, n) ==
    /\ S \subseteq Nat /\ n \in S
    /\ files[n][k] # Absent
    /\ \A x \in S : x > n => files[x][k] = Absent

\* The files S and the files2 T have the same records for k.
Agree(files, S, files2, T, k) ==
    /\ Bounded(S) /\ T \subseteq Nat
    /\ \A x \in S : files[x][k] # Absent => x \in T /\ files2[x][k] = files[x][k]
    /\ \A x \in T : files2[x][k] # Absent => x \in S /\ files2[x][k] = files[x][k]

LEMMA NewestIs ==
    ASSUME NEW files, NEW S, NEW k, NEW n, Top(files, S, k, n)
    PROVE  Newest(files, S, k) = files[n][k]
<1> DEFINE hits == {x \in S : files[x][k] # Absent}
           m == CHOOSE x \in hits : \A y \in hits : y <= x
<1>1. n \in hits /\ n \in Nat /\ \A y \in hits : y \in Nat /\ y <= n
  BY DEF Top
<1>2. m \in hits /\ \A y \in hits : y <= m
  BY <1>1, Zenon
<1>3. Newest(files, S, k) = files[m][k]
  BY <1>1, Zenon DEF Newest
<1> HIDE DEF m, hits
<1>4. m = n
  BY <1>1, <1>2
<1> QED BY <1>3, <1>4, Zenon

\* The file with the highest number decides if it has a record.
Highest(files, S, k, n) ==
    S \subseteq Nat /\ n \in S /\ files[n][k] # Absent /\ \A x \in S : x <= n

LEMMA HighestDecides ==
    ASSUME NEW files, NEW S, NEW k, NEW n, Highest(files, S, k, n)
    PROVE  Newest(files, S, k) = files[n][k]
<1>1. \A x \in S : ~(x > n)
  BY DEF Highest
<1>2. Top(files, S, k, n)
  BY <1>1, Zenon DEF Top, Highest
<1> QED BY <1>2, NewestIs

LEMMA NewestNone ==
    ASSUME NEW files, NEW S, NEW k, \A x \in S : files[x][k] = Absent
    PROVE  Newest(files, S, k) = Absent
BY Zenon DEF Newest

LEMMA NewestCases ==
    ASSUME NumberFacts, NEW files, NEW S, Bounded(S), NEW k
    PROVE  \/ (\A x \in S : files[x][k] = Absent) /\ Newest(files, S, k) = Absent
           \/ \E n : Top(files, S, k, n)
<1> DEFINE hits == {x \in S : files[x][k] # Absent}
<1>1. CASE hits = {}
  BY <1>1, NewestNone, Zenon
<1>2. CASE hits # {}
  <2>1. PICK b \in Nat : S \subseteq 0..b
    BY Zenon DEF Bounded
  <2>2. \A x \in S : x \in 0..b /\ x \in Nat
    BY <2>1
  <2>3. hits \in SUBSET (0..b)
    BY <2>2, Zenon
  <2>4. PICK n \in hits : \A x \in hits : x <= n
    BY <1>2, <2>3, Zenon DEF NumberFacts
  <2>5. n \in S /\ files[n][k] # Absent /\ \A x \in S : x > n => files[x][k] = Absent
    BY <2>2, <2>4
  <2> QED BY <2>2, <2>5, Zenon DEF Top
<1> QED BY <1>1, <1>2, Zenon

LEMMA NewestAbsent ==
    ASSUME NumberFacts, NEW files, NEW S, Bounded(S), NEW k, Newest(files, S, k) = Absent
    PROVE  \A x \in S : files[x][k] = Absent
<1>1. ASSUME NEW n, Top(files, S, k, n) PROVE FALSE
  <2>1. Newest(files, S, k) = files[n][k]
    BY <1>1, NewestIs
  <2> QED BY <1>1, <2>1, Zenon DEF Top
<1> QED BY <1>1, NewestCases, Zenon

LEMMA NewestAgree ==
    ASSUME NumberFacts, NEW files, NEW S, NEW files2, NEW T, NEW k, Agree(files, S, files2, T, k)
    PROVE  Newest(files2, T, k) = Newest(files, S, k)
<1>1. CASE (\A x \in S : files[x][k] = Absent) /\ Newest(files, S, k) = Absent
  <2>1. \A x \in T : files2[x][k] = Absent
    BY <1>1, Zenon DEF Agree
  <2> QED BY <1>1, <2>1, NewestNone, Zenon
<1>2. ASSUME NEW n, Top(files, S, k, n)
      PROVE  Newest(files2, T, k) = Newest(files, S, k)
  <2>1. Top(files2, T, k, n) /\ files2[n][k] = files[n][k]
    BY <1>2, Zenon DEF Agree, Top
  <2>2. Newest(files2, T, k) = files2[n][k] /\ Newest(files, S, k) = files[n][k]
    BY <1>2, <2>1, NewestIs
  <2> QED BY <2>1, <2>2, Zenon
<1>3. Bounded(S)
  BY Zenon DEF Agree
<1> QED BY <1>1, <1>2, <1>3, NewestCases, Zenon

-----------------------------------------------------------------------------
(***************************************************************************)
(* What Open would recover, as a function of the directory alone.          *)
(***************************************************************************)
Valid(files, mark) == {n \in DOMAIN files : n >= mark}

Whole(files, mark) == {n \in DOMAIN files : n >= mark /\ files[n] # Torn}

FromWals(files, mark, k) == Newest(files, Valid(files, mark), k)

FromTables(files, mark, k) == Newest(files, Whole(files, mark), k)

Recovery(wl, st, mark, k) ==
    Live(IF FromWals(wl, mark, k) # Absent THEN FromWals(wl, mark, k) ELSE FromTables(st, mark, k))

LEMMA HeldIs ==
    ASSUME NEW k \in Key
    PROVE  /\ Held(k) = Recovery(wals, ssts, marker, k)
           /\ Held(k)' = Recovery(wals', ssts', marker', k)
<1>1. Complete = Whole(ssts, marker) /\ Complete' = Whole(ssts', marker')
  BY Zenon DEF Complete, Whole, Discovered
<1>2. Discovered(wals) = Valid(wals, marker) /\ Discovered(wals)' = Valid(wals', marker')
  BY Zenon DEF Valid, Discovered
<1>3. Replayed[k] = FromWals(wals, marker, k) /\ Replayed[k]' = FromWals(wals', marker', k)
  BY <1>2, Zenon DEF Replayed, FromWals
<1> QED BY <1>1, <1>3, Zenon DEF Held, Recovery, FromTables

\* The files of a directory: numbered by naturals up to a bound.
IsDir(files) == DOMAIN files \subseteq Nat /\ Bounded(DOMAIN files)

LEMMA ValidBounded ==
    ASSUME NEW files, NEW mark, IsDir(files)
    PROVE  /\ Bounded(Valid(files, mark)) /\ Valid(files, mark) \subseteq Nat
           /\ Bounded(Whole(files, mark)) /\ Whole(files, mark) \subseteq Nat
<1>1. Valid(files, mark) \subseteq DOMAIN files /\ Whole(files, mark) \subseteq DOMAIN files
  BY Zenon DEF Valid, Whole
<1> QED BY <1>1, BoundedPart, Zenon DEF IsDir

\* A batch is appended to the newest WAL v; one without records may follow it.
BatchAdded(wl, wl2, mark, v, k, c) ==
    /\ IsDir(wl) /\ IsDir(wl2) /\ mark \in Nat
    /\ v \in DOMAIN wl /\ mark <= v /\ \A n \in DOMAIN wl : n <= v
    /\ v \in DOMAIN wl2 /\ wl2[v][k] = IF c # Absent THEN c ELSE wl[v][k]
    /\ \A n \in DOMAIN wl : n # v => n \in DOMAIN wl2 /\ wl2[n] = wl[n]
    /\ \A n \in DOMAIN wl2 : n \notin DOMAIN wl => wl2[n][k] = Absent

LEMMA ReplayAfterAppend ==
    ASSUME NumberFacts, NEW wl, NEW wl2, NEW mark, NEW v, NEW k, NEW c,
           BatchAdded(wl, wl2, mark, v, k, c)
    PROVE  FromWals(wl2, mark, k) = IF c # Absent THEN c ELSE FromWals(wl, mark, k)
<1> USE DEF BatchAdded
<1> DEFINE S == Valid(wl, mark)
           T == Valid(wl2, mark)
<1>1. Bounded(S) /\ S \subseteq Nat /\ T \subseteq Nat
  BY ValidBounded, Zenon
<1>2. CASE c # Absent
  <2>1. v \in T /\ wl2[v][k] = c
    BY <1>2, Zenon DEF Valid, IsDir
  <2>2. \A x \in T : x > v => wl2[x][k] = Absent
    BY DEF Valid, IsDir
  <2> HIDE DEF T
  <2>3. Top(wl2, T, k, v)
    BY <1>1, <1>2, <2>1, <2>2, Zenon DEF Top
  <2>4. Newest(wl2, T, k) = wl2[v][k]
    BY <2>3, NewestIs
  <2> QED BY <1>2, <2>1, <2>4, Zenon DEF FromWals, T
<1>3. CASE c = Absent
  <2>1. \A x \in S : wl[x][k] # Absent => x \in T /\ wl2[x][k] = wl[x][k]
    BY <1>3, Zenon DEF Valid
  <2>2. \A x \in T : wl2[x][k] # Absent => x \in S /\ wl2[x][k] = wl[x][k]
    BY <1>3, Zenon DEF Valid
  <2> HIDE DEF S, T
  <2>3. Agree(wl, S, wl2, T, k)
    BY <1>1, <2>1, <2>2, Zenon DEF Agree
  <2>4. Newest(wl2, T, k) = Newest(wl, S, k)
    BY <2>3, NewestAgree
  <2> QED BY <1>3, <2>4, Zenon DEF FromWals, S, T
<1> QED BY <1>2, <1>3, Zenon

\* Torn SSTables are added.
LEMMA TornTablesDoNotCount ==
    ASSUME NumberFacts, NEW st, NEW st2, IsDir(st), IsDir(st2), NEW mark, NEW k,
           \A n \in DOMAIN st : n \in DOMAIN st2 /\ st2[n] = st[n],
           \A n \in DOMAIN st2 : n \notin DOMAIN st => st2[n] = Torn
    PROVE  FromTables(st2, mark, k) = FromTables(st, mark, k)
<1>1. Whole(st2, mark) = Whole(st, mark) /\ \A n \in Whole(st, mark) : st2[n] = st[n]
  BY Zenon DEF Whole
<1>2. Bounded(Whole(st, mark)) /\ Whole(st, mark) \subseteq Nat
  BY ValidBounded, Zenon
<1>3. Agree(st, Whole(st, mark), st2, Whole(st2, mark), k)
  BY <1>1, <1>2, Zenon DEF Agree
<1> QED BY <1>3, NewestAgree DEF FromTables

\* The directory that RestoreSnapshot leaves holds the snapshot and nothing else.
OnlyRestored(wl, st, new, data) ==
    /\ new \in Nat /\ data \in Contents
    /\ new \in DOMAIN wl /\ wl[new] = Empty /\ \A n \in DOMAIN wl : n # new => ~(n >= new)
    /\ new \in DOMAIN st /\ st[new] = data /\ \A n \in DOMAIN st : n # new => ~(n >= new)

LEMMA RestoredIs ==
    ASSUME NEW wl, NEW st, NEW new, NEW data, NEW k \in Key, OnlyRestored(wl, st, new, data)
    PROVE  Recovery(wl, st, new, k) = data[k]
<1> USE DEF OnlyRestored
<1>1. data # Torn /\ data[k] \in Value \cup {Absent} /\ Empty[k] = Absent
  BY NothingAssumption, ContentsAreTables, Zenon DEF Contents, Empty
<1>2. Valid(wl, new) = {new} /\ Whole(st, new) = {new}
  BY <1>1 DEF Valid, Whole
<1>3. FromWals(wl, new, k) = Absent
  BY <1>1, <1>2, NewestNone, Zenon DEF FromWals
<1>4. FromTables(st, new, k) = data[k]
  <2>1. CASE data[k] = Absent
    BY <1>2, <2>1, NewestNone, Zenon DEF FromTables
  <2>2. CASE data[k] # Absent
    <3>1. Top(st, {new}, k, new)
      BY <2>2 DEF Top
    <3> QED BY <1>2, <3>1, NewestIs DEF FromTables
  <2> QED BY <2>1, <2>2, Zenon
<1>5. Live(data[k]) = data[k]
  BY <1>1, RecordAssumption, Zenon DEF Live
<1> QED BY <1>3, <1>4, <1>5, Zenon DEF Recovery

-----------------------------------------------------------------------------
(***************************************************************************)
(* What a Get reads.                                                       *)
(***************************************************************************)
LEMMA LookupIs ==
    ASSUME NEW tables \in Seq(Table), NEW k, NEW n \in DOMAIN tables, tables[n][k] # Absent,
           \A x \in DOMAIN tables : x < n => tables[x][k] = Absent
    PROVE  Lookup(tables, k) = Live(tables[n][k])
<1> DEFINE hits == {x \in DOMAIN tables : tables[x][k] # Absent}
           m == CHOOSE x \in hits : \A y \in hits : x <= y
<1>1. n \in hits /\ n \in Nat /\ \A y \in hits : y \in Nat /\ n <= y
  OBVIOUS
<1>2. m \in hits /\ \A y \in hits : m <= y
  BY <1>1, Zenon
<1>3. Lookup(tables, k) = Live(tables[m][k])
  BY <1>1, Zenon DEF Lookup
<1> HIDE DEF m, hits
<1>4. m = n
  BY <1>1, <1>2
<1> QED BY <1>3, <1>4, Zenon

\* r is s followed by t.
Joined(r, s, t) ==
    /\ Len(r) = Len(s) + Len(t) /\ DOMAIN r = 1..Len(r)
    /\ \A i \in 1..Len(s) : r[i] = s[i]
    /\ \A i \in 1..Len(t) : r[Len(s) + i] = t[i]

LEMMA Concatenated ==
    ASSUME NEW R, NEW s \in Seq(R), NEW t \in Seq(R)
    PROVE  s \o t \in Seq(R) /\ Joined(s \o t, s, t)
<1>1. s \o t \in Seq(R) /\ Len(s \o t) = Len(s) + Len(t) /\ DOMAIN (s \o t) = 1..Len(s \o t)
  OBVIOUS
<1>2. \A i \in 1..Len(s) : (s \o t)[i] = s[i]
  OBVIOUS
<1>3. \A i \in 1..Len(t) : (s \o t)[Len(s) + i] = t[i]
  OBVIOUS
<1> QED BY <1>1, <1>2, <1>3, Zenon DEF Joined

\* Where the sources are in the list.
LEMMA SourcesAt ==
    ASSUME Inv, up, NEW d, d = IF immutable = NoTable THEN 1 ELSE 2
    PROVE  /\ DOMAIN Sources = 1..(d + Len(sstables))
           /\ Sources[1] = mem
           /\ immutable # NoTable => Sources[2] = immutable
           /\ \A i \in DOMAIN sstables : Sources[d + i] = ssts[sstables[i]]
<1> DEFINE list == [n \in DOMAIN sstables |-> ssts[sstables[n]]]
           frozen == IF immutable = NoTable THEN <<>> ELSE <<immutable>>
           front == <<mem>> \o frozen
           R == {mem, immutable} \cup {ssts[sstables[n]] : n \in DOMAIN sstables}
<1>1. sstables \in Seq(DOMAIN ssts) /\ Len(sstables) \in Nat /\ DOMAIN sstables = 1..Len(sstables)
  BY Types DEF Inv, ListType
<1>2. list \in Seq(R) /\ Len(list) = Len(sstables)
  BY <1>1
<1>3. \A i \in DOMAIN sstables : list[i] = ssts[sstables[i]]
  BY Zenon
<1>4. Sources = front \o list
  BY Zenon DEF Sources
<1>5. d \in {1, 2}
  BY Zenon
<1>6. /\ front \in Seq(R) /\ Len(front) = d
      /\ front[1] = mem /\ (immutable # NoTable => front[2] = immutable)
  <2> DEFINE first == <<mem>>
  <2>1. first \in Seq(R) /\ Len(first) = 1 /\ first[1] = mem
    OBVIOUS
  <2>2. frozen \in Seq(R) /\ Len(frozen) = d - 1 /\ (immutable # NoTable => frozen[1] = immutable)
    <3>1. CASE immutable = NoTable
      BY <3>1
    <3>2. CASE immutable # NoTable
      <4>1. frozen = <<immutable>> /\ d = 2 /\ immutable \in R
        BY <3>2, Zenon
      <4> HIDE DEF frozen, R
      <4> QED BY <4>1
    <3> QED BY <3>1, <3>2, Zenon
  <2>3. front = first \o frozen
    BY Zenon
  <2>4. immutable # NoTable => d = 2
    BY Zenon
  <2> HIDE DEF first, frozen, front, R
  <2>5. front \in Seq(R) /\ Joined(front, first, frozen)
    BY <2>1, <2>2, <2>3, Concatenated, Zenon
  <2>6. Len(front) = d
    BY <1>5, <2>1, <2>2, <2>5 DEF Joined
  <2>7. front[1] = mem
    BY <2>1, <2>5 DEF Joined
  <2>8. ASSUME immutable # NoTable PROVE front[2] = immutable
    <3>1. 1 \in 1..Len(frozen) /\ Len(first) + 1 = 2
      BY <2>1, <2>2, <2>4, <2>8
    <3> QED BY <2>2, <2>5, <2>8, <3>1, Zenon DEF Joined
  <2> QED BY <2>5, <2>6, <2>7, <2>8, Zenon
<1> HIDE DEF list, frozen, front, R
<1>7. Joined(Sources, front, list)
  BY <1>2, <1>4, <1>6, Concatenated, Zenon
<1>8. \A i \in 1..d : Sources[i] = front[i]
  BY <1>6, <1>7, Zenon DEF Joined
<1>9. \A i \in 1..Len(sstables) : Sources[d + i] = list[i]
  BY <1>2, <1>6, <1>7, Zenon DEF Joined
<1>10. Sources[1] = mem /\ (immutable # NoTable => Sources[2] = immutable)
  BY <1>5, <1>6, <1>8
<1>11. \A i \in DOMAIN sstables : Sources[d + i] = ssts[sstables[i]]
  BY <1>1, <1>3, <1>9, Zenon
<1>12. DOMAIN Sources = 1..(d + Len(sstables))
  BY <1>2, <1>6, <1>7, Zenon DEF Joined
<1> QED BY <1>10, <1>11, <1>12, Zenon

\* In short: the memtable, the frozen one, then the newest of the SSTables.
LEMMA GetIs ==
    ASSUME NumberFacts, Inv, up, Kept, NEW k \in Key
    PROVE  Get(k) = Live(IF mem[k] # Absent THEN mem[k]
                         ELSE IF immutable # NoTable /\ immutable[k] # Absent THEN immutable[k]
                         ELSE Newest(ssts, Installed, k))
<1> DEFINE d == IF immutable = NoTable THEN 1 ELSE 2
<1>1. Sources \in Seq(Table)
  BY SourcesAreTables, Zenon
<1>2. /\ DOMAIN Sources = 1..(d + Len(sstables))
      /\ Sources[1] = mem
      /\ immutable # NoTable => Sources[2] = immutable
      /\ \A i \in DOMAIN sstables : Sources[d + i] = ssts[sstables[i]]
  BY SourcesAt, Zenon
<1>3. sstables \in Seq(DOMAIN ssts) /\ Len(sstables) \in Nat /\ DOMAIN sstables = 1..Len(sstables)
  BY Types DEF Inv, ListType
<1>4. DOMAIN ssts \subseteq Nat /\ Bounded(DOMAIN ssts)
  BY Types, Zenon DEF Inv, FileTypes, Directory
<1>5. Bounded(Installed) /\ Installed \subseteq Nat
  <2>1. Installed \subseteq DOMAIN ssts
    BY <1>3 DEF Installed
  <2> QED BY <1>4, <2>1, BoundedPart, Zenon
<1> HIDE DEF Sources
<1>6. CASE mem[k] # Absent
  <2>1. 1 \in DOMAIN Sources /\ \A x \in DOMAIN Sources : ~(x < 1)
    BY <1>2, <1>3
  <2>2. Lookup(Sources, k) = Live(Sources[1][k])
    BY <1>1, <1>2, <1>6, <2>1, LookupIs, Zenon
  <2> QED BY <1>2, <1>6, <2>2, Zenon DEF Get
<1>7. CASE mem[k] = Absent /\ immutable # NoTable /\ immutable[k] # Absent
  <2>1. 2 \in DOMAIN Sources /\ \A x \in DOMAIN Sources : x < 2 => x = 1
    BY <1>2, <1>3, <1>7
  <2>2. Lookup(Sources, k) = Live(Sources[2][k])
    BY <1>1, <1>2, <1>7, <2>1, LookupIs
  <2> QED BY <1>2, <1>7, <2>2, Zenon DEF Get
<1>8. CASE mem[k] = Absent /\ (immutable # NoTable => immutable[k] = Absent)
  <2>1. ASSUME NEW x \in DOMAIN Sources
        PROVE  x \in 1..d \/ \E i \in DOMAIN sstables : x = d + i
    <3>1. CASE x > d
      <4>1. x - d \in DOMAIN sstables /\ x = d + (x - d)
        BY <1>2, <1>3, <3>1
      <4> QED BY <4>1, Zenon
    <3> QED BY <1>2, <1>3, <3>1
  <2>2. \A x \in 1..d : Sources[x][k] = Absent
    BY <1>2, <1>8
  <2>3. CASE \A i \in DOMAIN sstables : ssts[sstables[i]][k] = Absent
    <3>1. \A x \in DOMAIN Sources : Sources[x][k] = Absent
      BY <1>2, <2>1, <2>2, <2>3
    <3>2. Lookup(Sources, k) = Absent
      BY <3>1, Zenon DEF Lookup
    <3>3. Newest(ssts, Installed, k) = Absent
      BY <2>3, NewestNone DEF Installed
    <3>4. Live(Absent) = Absent
      BY Zenon DEF Live
    <3> QED BY <1>8, <3>2, <3>3, <3>4, Zenon DEF Get
  <2>4. ASSUME NEW n, Top(ssts, Installed, k, n)
        PROVE  Lookup(Sources, k) = Live(Newest(ssts, Installed, k))
    <3>1. PICK i \in DOMAIN sstables : sstables[i] = n
      BY <2>4, Zenon DEF Top, Installed
    <3>2. d + i \in DOMAIN Sources /\ Sources[d + i][k] = ssts[n][k] /\ ssts[n][k] # Absent
      BY <1>2, <1>3, <2>4, <3>1 DEF Top
    <3>3. ASSUME NEW j \in DOMAIN sstables, j < i PROVE ssts[sstables[j]][k] = Absent
      <4>1. sstables[j] > n /\ sstables[j] \in Installed
        BY <3>1, <3>3, Zenon DEF Kept, Installed
      <4> QED BY <2>4, <4>1, Zenon DEF Top
    <3>4. ASSUME NEW x \in DOMAIN Sources, x < d + i PROVE Sources[x][k] = Absent
      <4>1. CASE x \in 1..d
        BY <2>2, <4>1, Zenon
      <4>2. ASSUME NEW j \in DOMAIN sstables, x = d + j PROVE Sources[x][k] = Absent
        <5>1. j < i
          BY <1>3, <3>4, <4>2
        <5> QED BY <1>2, <3>3, <4>2, <5>1, Zenon
      <4> QED BY <2>1, <4>1, <4>2, Zenon
    <3>5. Lookup(Sources, k) = Live(Sources[d + i][k])
      BY <1>1, <3>2, <3>4, LookupIs, Zenon
    <3>6. Newest(ssts, Installed, k) = ssts[n][k]
      BY <2>4, NewestIs
    <3> QED BY <3>2, <3>5, <3>6, Zenon
  <2>5. CASE \A x \in Installed : ssts[x][k] = Absent
    BY <2>3, <2>5, Zenon DEF Installed
  <2>6. CASE \E n : Top(ssts, Installed, k, n)
    BY <1>8, <2>4, <2>6, Zenon DEF Get
  <2> QED BY <1>5, <2>5, <2>6, NewestCases, Zenon
<1> QED BY <1>6, <1>7, <1>8, Zenon

-----------------------------------------------------------------------------
(***************************************************************************)
(* While the engine is up, the directory and the memory agree.             *)
(***************************************************************************)
LEMMA Dirs ==
    ASSUME Inv
    PROVE  IsDir(wals) /\ IsDir(ssts) /\ marker \in Nat /\ Complete = Whole(ssts, marker)
<1>1. Complete = Whole(ssts, marker)
  BY Zenon DEF Complete, Whole, Discovered
<1> QED BY <1>1, Types, Zenon DEF Inv, FileTypes, Directory, IsDir

\* The active WAL is the newest that is replayed, the only others are those of
\* flushes.
LEMMA ValidWals ==
    ASSUME Inv, up, Kept, Exact
    PROVE  /\ w \in Valid(wals, marker) /\ wals[w] = mem /\ w \in Nat
           /\ \A n \in DOMAIN wals : n \in Nat /\ n <= w
           /\ \A n \in Valid(wals, marker) : n = w \/ \E f \in flushes : n = f.wal
           /\ \A f \in flushes : f.wal \in Nat /\ f.wal < w /\ wals[f.wal] = f.table
<1>1. /\ w \in DOMAIN wals /\ wals[w] = mem /\ marker <= w /\ w \in Nat /\ marker \in Nat
      /\ DOMAIN wals \subseteq Nat
  BY Types, Zenon DEF Inv, Running, StateTypes, FileTypes
<1>2. \A f \in flushes : f.wal \in Nat /\ f.wal < w /\ wals[f.wal] = f.table
  BY Types, Zenon DEF Inv, FlushTypes, Flusher, Flushing, Kept
<1>3. \A n \in Valid(wals, marker) : n = w \/ \E f \in flushes : n = f.wal
  BY Zenon DEF Kept, Discovered, Valid
<1>4. ASSUME NEW n \in DOMAIN wals PROVE n \in Nat /\ n <= w
  <2>1. CASE n >= marker
    BY <1>1, <1>2, <1>3, <2>1 DEF Valid
  <2> QED BY <1>1, <2>1
<1> QED BY <1>1, <1>2, <1>3, <1>4, Zenon DEF Valid

LEMMA ReplayIs ==
    ASSUME Inv, up, Kept, Exact, \A f, g \in flushes : f = g, NEW k
    PROVE  /\ mem[k] # Absent => FromWals(wals, marker, k) = mem[k]
           /\ \A f \in flushes : mem[k] = Absent /\ marker <= f.wal
                                    => FromWals(wals, marker, k) = f.table[k]
           /\ mem[k] = Absent /\ (\A f \in flushes : ~(marker <= f.wal))
                => FromWals(wals, marker, k) = Absent
<1> DEFINE S == Valid(wals, marker)
<1>1. /\ w \in S /\ wals[w] = mem /\ w \in Nat
      /\ \A n \in DOMAIN wals : n \in Nat /\ n <= w
      /\ \A n \in S : n = w \/ \E f \in flushes : n = f.wal
      /\ \A f \in flushes : f.wal \in Nat /\ f.wal < w /\ wals[f.wal] = f.table
  BY ValidWals, Zenon
<1>2. S \subseteq Nat /\ S \subseteq DOMAIN wals
  BY <1>1, Zenon DEF Valid
<1>3. marker \in Nat /\ \A n \in S : marker <= n
  BY <1>1, <1>2, Dirs, Zenon DEF Valid
<1>4. \A f \in flushes : marker <= f.wal => f.wal \in S
  BY <1>1, <1>3, Zenon DEF Kept, Valid
<1> HIDE DEF S
<1>5. ASSUME mem[k] # Absent PROVE Newest(wals, S, k) = mem[k]
  <2>1. Highest(wals, S, k, w)
    BY <1>1, <1>2, <1>5, Zenon DEF Highest
  <2>2. Newest(wals, S, k) = wals[w][k]
    BY <2>1, HighestDecides
  <2> QED BY <1>1, <2>2, Zenon
<1>6. ASSUME NEW f \in flushes, mem[k] = Absent, marker <= f.wal
      PROVE  Newest(wals, S, k) = f.table[k]
  <2>1. f.wal \in S /\ wals[f.wal][k] = f.table[k] /\ f.wal \in Nat
    BY <1>1, <1>4, <1>6, Zenon
  <2>2. \A n \in S : n = w \/ n = f.wal
    BY <1>1, Zenon
  <2>3. CASE f.table[k] = Absent
    <3>1. \A n \in S : wals[n][k] = Absent
      BY <1>1, <1>6, <2>1, <2>2, <2>3, Zenon
    <3> QED BY <2>3, <3>1, NewestNone, Zenon
  <2>4. CASE f.table[k] # Absent
    <3>1. \A n \in S : n > f.wal => wals[n][k] = Absent
      BY <1>1, <1>6, <2>1, <2>2
    <3>2. Top(wals, S, k, f.wal)
      BY <1>2, <2>1, <2>4, <3>1, Zenon DEF Top
    <3> QED BY <2>1, <3>2, NewestIs
  <2> QED BY <2>3, <2>4, Zenon
<1>7. ASSUME mem[k] = Absent, \A f \in flushes : ~(marker <= f.wal)
      PROVE  Newest(wals, S, k) = Absent
  <2>1. \A n \in S : n = w
    BY <1>1, <1>3, <1>7, Zenon
  <2>2. \A n \in S : wals[n][k] = Absent
    BY <1>1, <1>7, <2>1, Zenon
  <2> QED BY <2>2, NewestNone, Zenon
<1> QED BY <1>5, <1>6, <1>7, Zenon DEF FromWals, S

\* A Get returns what Open would recover.
LEMMA GetIsHeld ==
    ASSUME NumberFacts, Inv, up, Kept, Exact, \A f, g \in flushes : f = g, NEW k \in Key
    PROVE  Get(k) = Held(k)
<1> DEFINE R == FromWals(wals, marker, k)
           I == Newest(ssts, Installed, k)
           C == Newest(ssts, Complete, k)
<1>1. Held(k) = Live(IF R # Absent THEN R ELSE C)
  BY HeldIs, Dirs, Zenon DEF Recovery, FromTables
<1>2. Get(k) = Live(IF mem[k] # Absent THEN mem[k]
                    ELSE IF immutable # NoTable /\ immutable[k] # Absent THEN immutable[k]
                    ELSE I)
  BY GetIs, Zenon
<1>3. /\ mem[k] # Absent => R = mem[k]
      /\ \A f \in flushes : mem[k] = Absent /\ marker <= f.wal => R = f.table[k]
      /\ mem[k] = Absent /\ (\A f \in flushes : ~(marker <= f.wal)) => R = Absent
  BY ReplayIs, Zenon
<1> HIDE DEF R
<1>4. CASE mem[k] # Absent
  BY <1>1, <1>2, <1>3, <1>4, Zenon
<1>5. CASE mem[k] = Absent /\ Busy = {}
  <2>1. immutable = NoTable
    BY <1>5, Zenon DEF Inv, Flushing
  <2>2. Complete = Installed
    BY <1>5, Zenon DEF Kept, Busy
  <2>3. CASE \A f \in flushes : ~(marker <= f.wal)
    BY <1>1, <1>2, <1>3, <1>5, <2>1, <2>2, <2>3, Zenon
  <2>4. ASSUME NEW f \in flushes, marker <= f.wal PROVE Get(k) = Held(k)
    <3>1. R = f.table[k]
      BY <1>3, <1>5, <2>4, Zenon
    <3>2. f.seq \in Complete /\ ssts[f.seq] = f.table /\ \A n \in Complete : n <= f.seq
      BY <1>5, <2>4, Zenon DEF Kept, Busy
    <3>3. CASE f.table[k] = Absent
      BY <1>1, <1>2, <1>5, <2>1, <2>2, <3>1, <3>3, Zenon
    <3>4. CASE f.table[k] # Absent
      <4>1. Complete \subseteq Nat
        BY Dirs, ValidBounded, Zenon
      <4>2. Highest(ssts, Complete, k, f.seq)
        BY <3>2, <3>4, <4>1, Zenon DEF Highest
      <4>3. C = f.table[k]
        BY <3>2, <4>2, HighestDecides
      <4> QED BY <1>1, <1>2, <1>5, <2>1, <2>2, <3>1, <3>4, <4>3, Zenon
    <3> QED BY <3>3, <3>4, Zenon
  <2> QED BY <2>3, <2>4, Zenon
<1>6. ASSUME mem[k] = Absent, NEW f \in Busy PROVE Get(k) = Held(k)
  <2>1. f \in flushes /\ immutable = f.table /\ immutable # NoTable /\ marker <= f.wal
    <3>1. f \in flushes /\ immutable = f.table /\ marker <= f.wal
      BY <1>6, Zenon DEF Inv, Flushing, Busy, Kept
    <3>2. f \in Flusher
      BY <3>1, Types, Zenon DEF Inv, FlushTypes
    <3>3. f.table \in Table
      BY <3>2, Zenon DEF Flusher
    <3> QED BY <3>1, <3>3, NothingAssumption, Zenon
  <2>2. R = f.table[k]
    BY <1>3, <1>6, <2>1, Zenon
  <2>3. CASE f.table[k] # Absent
    BY <1>1, <1>2, <1>6, <2>1, <2>2, <2>3, Zenon
  <2>4. CASE f.table[k] = Absent
    <3>1. C = I
      <4>1. CASE f.pc = "write"
        <5>1. Complete = Installed
          BY <2>1, <4>1, Zenon DEF Kept
        <5> QED BY <5>1, Zenon
      <4>2. CASE f.pc = "install"
        <5>1. Complete = Installed \cup {f.seq} /\ ssts[f.seq] = f.table
          BY <2>1, <4>2 DEF Kept, Inv, Flushing
        <5>2. Bounded(Complete) /\ Complete \subseteq Nat
          BY Dirs, ValidBounded, Zenon
        <5>3. Agree(ssts, Complete, ssts, Installed, k)
          BY <2>4, <5>1, <5>2, Zenon DEF Agree
        <5> QED BY <5>3, NewestAgree
      <4> QED BY <1>6, <2>1, <4>1, <4>2, Types, Zenon DEF Busy, Inv, FlushTypes, Flusher
    <3> QED BY <1>1, <1>2, <1>6, <2>1, <2>2, <2>4, <3>1, Zenon
  <2> QED BY <2>3, <2>4, Zenon
<1> QED BY <1>4, <1>5, <1>6, Zenon

-----------------------------------------------------------------------------
(***************************************************************************)
(* Steps that leave the directory alone.                                   *)
(***************************************************************************)
DInv == Orderly /\ Durable /\ SnapshotSoFar

LEMMA DirsNext ==
    ASSUME Inv'
    PROVE  IsDir(wals') /\ IsDir(ssts') /\ marker' \in Nat /\ Complete' = Whole(ssts', marker')
<1>1. Complete' = Whole(ssts', marker')
  BY Zenon DEF Complete, Whole, Discovered
<1> QED BY <1>1, Types, Zenon DEF Inv, FileTypes, Directory, IsDir

LEMMA OrderlyExact ==
    ASSUME orderly
    PROVE  Exact
BY DEF orderly, Exact

LEMMA DurableSame ==
    ASSUME Durable, UNCHANGED <<dirVars, store, orderly, Exact>>
    PROVE  Durable'
<1>1. \A k \in Key : Held(k)' = Held(k)
  BY HeldIs, Zenon DEF dirVars
<1> QED BY <1>1, Zenon DEF Durable

LEMMA OrderlySame ==
    ASSUME Orderly, UNCHANGED <<dirVars, up, memVars, flushes, orderly, Exact>>
    PROVE  Orderly'
<1>1. Complete' = Complete /\ Installed' = Installed /\ Discovered(wals)' = Discovered(wals)
  BY Zenon DEF Complete, Installed, Discovered, dirVars, memVars
<1>2. Kept' <=> Kept
  BY <1>1, Zenon DEF Kept, Busy, dirVars, memVars
<1> QED BY <1>2, Zenon DEF Orderly, memVars

LEMMA GoneOrderly ==
    ASSUME Gone, UNCHANGED <<orderly, Exact>>
    PROVE  Orderly' /\ SnapshotSoFar'
BY Zenon DEF Gone, Orderly, SnapshotSoFar

LEMMA ReadsStored ==
    ASSUME NumberFacts, Inv, DInv, orderly, up, ~flushErr, NEW k \in Key
    PROVE  Get(k) = store[k]
<1>1. Kept /\ \A f, g \in flushes : f = g
  BY Zenon DEF DInv, Orderly
<1>2. Get(k) = Held(k)
  BY <1>1, OrderlyExact, GetIsHeld, Zenon
<1> QED BY <1>2, Zenon DEF DInv, Durable

LEMMA SnapshotDInv ==
    ASSUME NumberFacts, Inv, DInv, SnapshotStep, UNCHANGED <<orderly, Exact>>
    PROVE  DInv'
<1>1. up
  BY Zenon DEF Inv, Stopped, SnapshotStep, SnapshotCollect, SnapshotGet, SnapshotReturn, Idle
<1>2. UNCHANGED <<dirVars, up, memVars, flushes, orderly, Exact, store>>
  BY Zenon DEF SnapshotStep, SnapshotCollect, SnapshotGet, SnapshotReturn, historyVars, storeVars
<1>3. Orderly' /\ Durable'
  BY <1>2, OrderlySame, DurableSame, Zenon DEF DInv
<1>4. SnapshotSoFar'
  <2> SUFFICES ASSUME orderly, snapshot' # NoTable, ~flushErr,
                      NEW k \in Key, k \notin snapshot'.keys
               PROVE  snapshot'.pairs[k] = store[k]
    BY <1>2 DEF SnapshotSoFar, memVars
  <2>1. Get(k) = store[k]
    BY <1>1, ReadsStored, Zenon
  <2>2. CASE SnapshotCollect
    <3>1. snapshot'.keys = CollectedKeys /\ snapshot'.pairs = Empty
      BY <2>2, Zenon DEF SnapshotCollect
    <3>2. \A n \in DOMAIN Sources : Sources[n][k] = Absent
      BY <3>1, Zenon DEF CollectedKeys
    <3>3. Get(k) = Absent
      BY <3>2, Zenon DEF Get, Lookup
    <3> QED BY <2>1, <3>1, <3>3, Zenon DEF Empty
  <2>3. ASSUME NEW l \in Key, SnapshotGet(l) PROVE snapshot'.pairs[k] = store[k]
    <3>1. snapshot \in Snapshots /\ snapshot # NoTable
      BY <2>3, Types, Zenon DEF Inv, CallTypes, SnapshotGet
    <3>2. /\ snapshot'.keys = snapshot.keys \ {l}
          /\ snapshot'.pairs = [snapshot.pairs EXCEPT ![l] = Get(l)]
      BY <2>3, Zenon DEF SnapshotGet
    <3>3. snapshot.pairs \in [Key -> Value \cup {Absent}]
      BY <3>1, Zenon DEF Snapshots, Contents
    <3> HIDE DEF Get
    <3>4. CASE k = l
      BY <2>1, <3>2, <3>3, <3>4, Zenon
    <3>5. CASE k # l
      <4>1. k \in Key \ snapshot.keys /\ snapshot'.pairs[k] = snapshot.pairs[k]
        BY <3>2, <3>3, <3>5, Zenon
      <4> QED BY <3>1, <4>1, Zenon DEF DInv, SnapshotSoFar
    <3> QED BY <3>4, <3>5, Zenon
  <2>4. CASE SnapshotReturn
    BY <2>4, Zenon DEF SnapshotReturn
  <2> QED BY <2>2, <2>3, <2>4, Zenon DEF SnapshotStep
<1> QED BY <1>3, <1>4, Zenon DEF DInv

\* The other calls and Close.
LEMMA CallDInv ==
    ASSUME DInv, UNCHANGED <<dirVars, up, memVars, flushes, snapshot, store, orderly, Exact>>
    PROVE  DInv'
<1>1. Orderly' /\ Durable'
  BY OrderlySame, DurableSame, Zenon DEF DInv
<1>2. SnapshotSoFar'
  BY Zenon DEF DInv, SnapshotSoFar, memVars
<1> QED BY <1>1, <1>2, Zenon DEF DInv

LEMMA CloseFilesDInv ==
    ASSUME DInv, CloseFiles, UNCHANGED <<orderly, Exact>>
    PROVE  DInv'
<1>1. Gone /\ UNCHANGED <<dirVars, store>>
  BY Zenon DEF CloseFiles, historyVars, storeVars
<1> QED BY <1>1, GoneOrderly, DurableSame, Zenon DEF DInv

-----------------------------------------------------------------------------
(***************************************************************************)
(* Writing: ApplyBatch, Flush, a crash in the middle of an append.         *)
(***************************************************************************)
\* The active WAL is now to hold table; a new WAL may follow it.
Logged(table) ==
    /\ w \in DOMAIN wals' /\ wals'[w] = table
    /\ \A n \in DOMAIN wals : n # w => n \in DOMAIN wals' /\ wals'[n] = wals[n]
    /\ \A n \in DOMAIN wals' : n \notin DOMAIN wals => wals'[n] = Empty

\* The record for k in table is c, or that of the memtable if c is none.
Records(table, k, c) == table[k] = IF c # Absent THEN c ELSE mem[k]

LEMMA LoggedReplay ==
    ASSUME NumberFacts, Inv, Inv', up, Kept, Exact, marker' = marker,
           NEW table, NEW k \in Key, NEW c, Logged(table), Records(table, k, c)
    PROVE  FromWals(wals', marker', k) = IF c # Absent THEN c ELSE FromWals(wals, marker, k)
<1> USE DEF Records
<1>1. IsDir(wals) /\ IsDir(wals') /\ marker \in Nat
  BY Dirs, DirsNext, Zenon
<1>2. /\ w \in DOMAIN wals /\ marker <= w /\ wals[w] = mem
      /\ \A n \in DOMAIN wals : n <= w
  BY ValidWals, Zenon DEF Inv, Running
<1>3. /\ w \in DOMAIN wals' /\ wals'[w][k] = IF c # Absent THEN c ELSE wals[w][k]
      /\ \A n \in DOMAIN wals : n # w => n \in DOMAIN wals' /\ wals'[n] = wals[n]
  BY <1>2, Zenon DEF Logged
<1>4. \A n \in DOMAIN wals' : n \notin DOMAIN wals => wals'[n][k] = Absent
  BY Zenon DEF Logged, Empty
<1>5. BatchAdded(wals, wals', marker, w, k, c)
  BY <1>1, <1>2, <1>3, <1>4, Zenon DEF BatchAdded
<1>6. FromWals(wals', marker, k) = IF c # Absent THEN c ELSE FromWals(wals, marker, k)
  BY <1>5, ReplayAfterAppend
<1> QED BY <1>6, Zenon

LEMMA WrittenDurable ==
    ASSUME NumberFacts, Inv, Inv', DInv, orderly, up, ~flushErr, NEW batch \in Batch,
           Logged(Written(mem, batch)), ssts' = ssts, marker' = marker, store' = Stored(batch)
    PROVE  Durable'
<1> SUFFICES ASSUME NEW k \in Key PROVE Held(k)' = store'[k]
  BY Zenon DEF Durable
<1> DEFINE c == LastOn(batch, k)
<1>1. Written(mem, batch)[k] = IF c # Absent THEN c ELSE mem[k]
  BY Zenon DEF Written, Over
<1>2. store'[k] = Live(IF c # Absent THEN c ELSE store[k])
  BY Zenon DEF Stored, Written, Over
<1> HIDE DEF c
<1>3. Kept
  BY Zenon DEF DInv, Orderly
<1>4. FromWals(wals', marker', k) = IF c # Absent THEN c ELSE FromWals(wals, marker, k)
  <2>1. Records(Written(mem, batch), k, c)
    BY <1>1, Zenon DEF Records
  <2> QED BY <1>3, <2>1, OrderlyExact, LoggedReplay
<1>5. Held(k) = store[k]
  BY Zenon DEF DInv, Durable
<1>6. /\ Held(k) = Recovery(wals, ssts, marker, k)
      /\ Held(k)' = Recovery(wals', ssts, marker, k)
  BY HeldIs, Zenon
<1>7. Live(store[k]) = store[k]
  BY Types, RecordAssumption, Zenon DEF Inv, CallTypes, Contents, Live
<1>8. CASE c # Absent
  BY <1>2, <1>4, <1>6, <1>8, Zenon DEF Recovery
<1>9. CASE c = Absent
  BY <1>2, <1>4, <1>5, <1>6, <1>7, <1>9, Zenon DEF Recovery
<1> QED BY <1>8, <1>9, Zenon

LEMMA StartFlushLogs ==
    ASSUME Inv, up, NEW table, NEW files, LoggedIn(files, table),
           StartFlush(files, table)
    PROVE  Logged(table)
<1>1. w \in DOMAIN wals /\ nextWALSeq \notin DOMAIN wals /\ w # nextWALSeq
  BY Types DEF Inv, Running, FileTypes, StateTypes
<1>2. wals' = With(files, nextWALSeq, Empty)
  BY Zenon DEF StartFlush
<1> QED BY <1>1, <1>2, Zenon DEF With, Logged, LoggedIn

\* An orderly flush starts alone.
LEMMA StartFlushAlone ==
    ASSUME NEW files, NEW table, StartFlush(files, table), orderly'
    PROVE  flushes = {}
BY DEF StartFlush, Overlapping, orderly

LEMMA StartFlushOrderly ==
    ASSUME Inv, DInv, orderly, orderly', up, ~flushErr, NEW table, NEW files,
           LoggedIn(files, table), StartFlush(files, table),
           UNCHANGED <<ssts, marker, sstables, flushErr>>
    PROVE  Orderly'
<1> DEFINE f0 == [seq |-> nextFlushSeq, wal |-> w, table |-> table, pc |-> "write"]
<1>1. flushes = {} /\ flushes' = {f0} /\ w' = nextWALSeq
  BY StartFlushAlone, Zenon DEF StartFlush
<1>2. f0.seq = nextFlushSeq /\ f0.wal = w /\ f0.pc = "write"
  BY Zenon
<1> HIDE DEF f0
<1>3. /\ Complete' = Complete /\ Installed' = Installed
      /\ Discovered(wals)' = Valid(wals', marker) /\ Discovered(wals) = Valid(wals, marker)
  BY Zenon DEF Complete, Installed, Discovered, Valid
<1>4. Kept
  BY Zenon DEF DInv, Orderly
<1>5. /\ w \in DOMAIN wals' /\ \A n \in DOMAIN wals' : n \in DOMAIN wals \/ n = nextWALSeq
  <2>1. wals' = With(files, nextWALSeq, Empty) /\ w \in DOMAIN wals
    BY Zenon DEF StartFlush, Inv, Running
  <2> QED BY <2>1, Zenon DEF With, LoggedIn
<1>6. Valid(wals, marker) \subseteq {w}
  BY <1>1, <1>3, <1>4, Zenon DEF Kept
<1>7. Valid(wals', marker) \subseteq {nextWALSeq, w}
  BY <1>5, <1>6, Zenon DEF Valid
<1>8. Complete = Installed
  BY <1>1, <1>4, Zenon DEF Kept
<1>9. /\ marker <= w /\ marker \in Nat /\ nextFlushSeq \in Nat
      /\ DOMAIN ssts \subseteq Nat /\ \A n \in DOMAIN ssts : n < nextFlushSeq
  BY Types, Zenon DEF Inv, Running, FileTypes, StateTypes
<1>10. marker <= nextFlushSeq
  <2>1. CASE marker = 0
    BY <1>9, <2>1
  <2>2. CASE marker # 0
    BY <1>9, <2>2 DEF Inv, Directory
  <2> QED BY <2>1, <2>2, Zenon
<1>11. \A n \in {marker} \cup Complete : (n <= nextFlushSeq /\ n # nextFlushSeq) \/ n = marker
  BY <1>9 DEF Complete, Discovered
<1>12. nextFlushSeq \notin Installed
  BY <1>8, <1>9 DEF Complete, Discovered
<1>13. Busy' = {f0}
  BY <1>1, <1>2, Zenon DEF Busy
<1>14. {f \in flushes' : f.pc = "install"} = {}
  BY <1>1, <1>2, Zenon
<1>15. Kept'
  <2>1. Complete' = Installed' \cup {f.seq : f \in {f \in flushes' : f.pc = "install"}}
    BY <1>3, <1>8, <1>14, Zenon
  <2>2. Discovered(wals)' \subseteq {w'} \cup {f.wal : f \in flushes'}
    BY <1>1, <1>2, <1>3, <1>7, Zenon
  <2>3. \A i, j \in DOMAIN sstables' : i < j => sstables'[i] > sstables'[j]
    BY <1>4, Zenon DEF Kept
  <2>4. \A f \in flushes' : f.wal \in DOMAIN wals'
    BY <1>1, <1>2, <1>5, Zenon
  <2>5. \A f \in Busy' : marker' <= f.wal /\ f.seq \notin Installed'
    BY <1>2, <1>3, <1>9, <1>12, <1>13, Zenon
  <2>6. \A f \in flushes' : f.pc = "write" => \A n \in {marker'} \cup Complete' : n <= f.seq
    BY <1>1, <1>2, <1>3, <1>10, <1>11, Zenon
  <2>7. \A f \in flushes' : f.pc = "write"
    BY <1>1, <1>2, Zenon
  <2> QED BY <2>1, <2>2, <2>3, <2>4, <2>5, <2>6, <2>7, Zenon DEF Kept
<1> QED BY <1>1, <1>15, Zenon DEF Orderly

LEMMA Disorderly ==
    ASSUME ~orderly'
    PROVE  DInv'
BY Zenon DEF DInv, Orderly, Durable, SnapshotSoFar

\* What happened stays.
LEMMA MishapsStay ==
    ASSUME mishaps \subseteq mishaps'
    PROVE  orderly' => orderly
BY DEF orderly

LEMMA ApplyDInv ==
    ASSUME NumberFacts, Inv, Inv', DInv, up, ~flushErr, snapshot = NoTable, NEW batch \in Batch,
           Apply(batch), UNCHANGED <<ssts, marker, up, sstables, flushErr, snapshot>>
    PROVE  DInv'
<1>0. mishaps \subseteq mishaps'
  BY DEF Apply, StartFlush, Overlapping
<1> SUFFICES ASSUME orderly, orderly' PROVE DInv'
  BY <1>0, MishapsStay, Disorderly, Zenon
<1>1. store' = Stored(batch)
  BY Zenon DEF Apply, Acknowledged
<1>2. SnapshotSoFar'
  BY Zenon DEF SnapshotSoFar
<1>a. /\ w \in DOMAIN wals /\ wals[w] = mem
      /\ LoggedIn(Appended(batch), Written(mem, batch))
  BY OrderlyExact, AppendedIs, Zenon
<1>3. CASE StartFlush(Appended(batch), Written(mem, batch))
  <2>1. Orderly'
    BY <1>a, <1>3, StartFlushOrderly, Zenon
  <2>2. Logged(Written(mem, batch))
    BY <1>a, <1>3, StartFlushLogs, Zenon
  <2>3. Durable'
    BY <1>1, <2>2, WrittenDurable, Zenon
  <2> QED BY <1>2, <2>1, <2>3, Zenon DEF DInv
<1>4. CASE /\ wals' = Appended(batch)
           /\ UNCHANGED <<immutable, w, flushes>>
  <2>2. Logged(Written(mem, batch)) /\ DOMAIN wals' = DOMAIN wals
    BY <1>4, <1>a, Zenon DEF Logged, LoggedIn
  <2>3. Durable'
    BY <1>1, <2>2, WrittenDurable, Zenon
  <2>4. Complete' = Complete /\ Installed' = Installed /\ Discovered(wals)' = Discovered(wals)
    BY <2>2, Zenon DEF Complete, Installed, Discovered
  <2>5. Kept' <=> Kept
    BY <1>4, <2>2, <2>4, Zenon DEF Kept, Busy
  <2>6. Orderly'
    BY <1>4, <2>5, Zenon DEF DInv, Orderly
  <2> QED BY <1>2, <2>3, <2>6, Zenon DEF DInv
<1> QED BY <1>3, <1>4, Zenon DEF Apply

LEMMA WriteDInv ==
    ASSUME NumberFacts, Inv, Inv', DInv, up, ~flushErr, snapshot = NoTable, NEW batch \in Batch,
           Write(batch)
    PROVE  DInv'
<1>1. /\ UNCHANGED <<ssts, marker, up, sstables, flushErr, snapshot>>
      /\ Apply(batch) \/ AppendFails(batch)
  BY Zenon DEF Write
<1>2. CASE Apply(batch)
  BY <1>1, <1>2, ApplyDInv, Zenon
<1>3. CASE AppendFails(batch)
  <2>1. ~orderly'
    BY <1>3 DEF AppendFails, orderly
  <2> QED BY <2>1, Disorderly, Zenon
<1> QED BY <1>1, <1>2, <1>3, Zenon

LEMMA ApplyBatchDInv ==
    ASSUME NumberFacts, Inv, Inv', DInv, NEW batch \in Batch, ApplyBatch(batch)
    PROVE  DInv'
BY WriteDInv, Zenon DEF ApplyBatch, Idle

LEMMA ResumeDInv ==
    ASSUME NumberFacts, Inv, Inv', DInv, Resume
    PROVE  DInv'
<1>1. waiting # NoTable /\ waiting \in Waiting \cup {NoTable}
  BY Types, Zenon DEF Inv, CallTypes, Resume
<1>2. up /\ snapshot = NoTable /\ waiting.batch \in Batch
  BY <1>1, Zenon DEF Inv, Stopped, OneCall, Waiting
<1>3. CASE ~flushErr /\ Write(waiting.batch)
  BY <1>2, <1>3, WriteDInv, Zenon
<1>4. CASE UNCHANGED <<dirVars, up, closed, memVars, flushes, snapshot, boundVars, historyVars>>
  <2>1. UNCHANGED <<orderly, Exact, store>>
    BY <1>4, HistoryKept, Zenon
  <2> QED BY <1>4, <2>1, CallDInv, Zenon
<1> QED BY <1>3, <1>4, Zenon DEF Resume

LEMMA FlushDInv ==
    ASSUME NumberFacts, Inv, Inv', DInv, Flush
    PROVE  DInv'
<1>0. mishaps \subseteq mishaps'
  BY DEF Flush, StartFlush, Overlapping
<1> SUFFICES ASSUME orderly, orderly' PROVE DInv'
  BY <1>0, MishapsStay, Disorderly, Zenon
<1>1. /\ UNCHANGED <<ssts, marker, up, sstables, flushErr, snapshot, store>>
      /\ up /\ ~flushErr /\ StartFlush(wals, mem)
  BY Zenon DEF Flush, historyVars, storeVars
<1>a. Exact /\ LoggedIn(wals, mem)
  BY <1>1, OrderlyExact, Zenon DEF Inv, Running, LoggedIn
<1>2. SnapshotSoFar' /\ Orderly'
  BY <1>1, <1>a, StartFlushOrderly, Zenon DEF SnapshotSoFar, DInv
<1>3. Logged(mem) /\ Kept
  BY <1>1, <1>a, StartFlushLogs, Zenon DEF DInv, Orderly
<1>4. ASSUME NEW k \in Key PROVE Held(k)' = Held(k)
  <2>1. FromWals(wals', marker', k) = FromWals(wals, marker, k)
    <3>1. Records(mem, k, Absent)
      BY Zenon DEF Records
    <3>2. FromWals(wals', marker', k) = IF Absent # Absent THEN Absent ELSE FromWals(wals, marker, k)
      BY <1>1, <1>a, <1>3, <3>1, LoggedReplay
    <3> QED BY <3>2, Zenon
  <2> QED BY <1>1, <2>1, HeldIs, Zenon DEF Recovery
<1>5. Durable'
  BY <1>1, <1>4, Zenon DEF DInv, Durable
<1> QED BY <1>2, <1>5, Zenon DEF DInv

LEMMA CrashInAppendDInv ==
    ASSUME NumberFacts, Inv, Inv', DInv, NEW batch \in Batch, CrashInAppend(batch), UNCHANGED <<orderly, Exact>>
    PROVE  DInv'
<1> SUFFICES ASSUME orderly PROVE DInv'
  BY Disorderly, Zenon
<1>1. /\ UNCHANGED <<ssts, marker>> /\ Gone /\ up /\ ~flushErr /\ store' = Stored(batch)
      /\ wals' = [wals EXCEPT ![w] = Written(@, batch)]
  BY Zenon DEF CrashInAppend, Crashing, Idle, Acknowledged, Appended
<1>2. w \in DOMAIN wals /\ wals[w] = mem
  BY <1>1, OrderlyExact, Zenon DEF Inv, Running
<1>3. Logged(Written(mem, batch))
  BY <1>1, <1>2, Zenon DEF Logged
<1>4. Durable'
  BY <1>1, <1>3, WrittenDurable, Zenon
<1> QED BY <1>1, <1>4, GoneOrderly, Zenon DEF DInv

-----------------------------------------------------------------------------
(***************************************************************************)
(* The flush goroutine.                                                    *)
(***************************************************************************)
\* Where a flush goes on, it is the only one and none has failed.
LEMMA FlushAlone ==
    ASSUME Inv, DInv, orderly, NEW f \in flushes
    PROVE  /\ up /\ ~flushErr /\ Kept /\ Exact /\ flushes = {f} /\ f \in Flusher
           /\ f.seq < nextFlushSeq /\ f.wal < w
<1>1. up /\ ~flushErr /\ flushes = {f}
  BY Zenon DEF Inv, Stopped, DInv, Orderly
<1>2. f \in Flusher /\ f.seq < nextFlushSeq /\ f.wal < w
  BY Types, Zenon DEF Inv, FlushTypes, Flushing
<1> QED BY <1>1, <1>2, OrderlyExact, Zenon DEF DInv, Orderly

\* Torn SSTables may appear, nothing else changes.
LEMMA TornDurable ==
    ASSUME NumberFacts, Inv, Inv', Durable, UNCHANGED <<wals, marker, store, orderly, Exact>>,
           \A n \in DOMAIN ssts : n \in DOMAIN ssts' /\ ssts'[n] = ssts[n],
           \A n \in DOMAIN ssts' : n \notin DOMAIN ssts => ssts'[n] = Torn
    PROVE  Durable'
<1>1. IsDir(ssts) /\ IsDir(ssts')
  BY Dirs, DirsNext, Zenon
<1>2. ASSUME NEW k \in Key PROVE Held(k)' = Held(k)
  <2>1. FromTables(ssts', marker, k) = FromTables(ssts, marker, k)
    BY <1>1, TornTablesDoNotCount
  <2> QED BY <2>1, HeldIs, Zenon DEF Recovery
<1> QED BY <1>2, Zenon DEF Durable

LEMMA CrashDInv ==
    ASSUME NumberFacts, Inv, Inv', DInv, Crash, UNCHANGED <<orderly, Exact>>
    PROVE  DInv'
<1>1. PICK S \in SUBSET {f.seq : f \in {f \in flushes : f.pc = "write"}} :
          ssts' = [n \in DOMAIN ssts \cup S |-> IF n \in S THEN Torn ELSE ssts[n]]
  BY Zenon DEF Crash
<1>2. UNCHANGED <<wals, marker, store>> /\ Gone
  BY Zenon DEF Crash, Crashing, historyVars, storeVars
<1>3. \A n \in S : n \notin DOMAIN ssts
  BY DEF Inv, Flushing
<1>4. /\ \A n \in DOMAIN ssts : n \in DOMAIN ssts' /\ ssts'[n] = ssts[n]
      /\ \A n \in DOMAIN ssts' : n \notin DOMAIN ssts => ssts'[n] = Torn
  BY <1>1, <1>3, Zenon
<1>5. Durable'
  BY <1>2, <1>4, TornDurable, Zenon DEF DInv
<1> QED BY <1>2, <1>5, GoneOrderly, Zenon DEF DInv

LEMMA FlushFailsDInv ==
    ASSUME NumberFacts, Inv, Inv', DInv, NEW f \in flushes, FlushFails(f), UNCHANGED <<orderly, Exact>>
    PROVE  DInv'
<1> SUFFICES ASSUME orderly PROVE DInv'
  BY Disorderly, Zenon
<1>1. flushes = {f}
  BY FlushAlone, Zenon
<1>2. /\ UNCHANGED <<wals, marker, store>> /\ flushErr' /\ flushes' = {}
      /\ (f.pc = "write" /\ ssts' = With(ssts, f.seq, Torn)) \/ UNCHANGED ssts
  BY <1>1, Zenon DEF FlushFails, historyVars, storeVars
<1>3. f.pc = "write" => f.seq \notin DOMAIN ssts
  BY Zenon DEF Inv, Flushing
<1>4. /\ \A n \in DOMAIN ssts : n \in DOMAIN ssts' /\ ssts'[n] = ssts[n]
      /\ \A n \in DOMAIN ssts' : n \notin DOMAIN ssts => ssts'[n] = Torn
  BY <1>2, <1>3, Zenon DEF With
<1>5. Durable'
  BY <1>2, <1>4, TornDurable, Zenon DEF DInv
<1>6. Orderly' /\ SnapshotSoFar'
  BY <1>2, Zenon DEF Orderly, SnapshotSoFar
<1> QED BY <1>5, <1>6, Zenon DEF DInv

LEMMA FlushWriteDInv ==
    ASSUME NumberFacts, Inv, Inv', DInv, NEW f \in flushes, FlushWrite(f), UNCHANGED <<orderly, Exact>>
    PROVE  DInv'
<1> SUFFICES ASSUME orderly PROVE DInv'
  BY Disorderly, Zenon
<1> DEFINE g == [f EXCEPT !.pc = "install"]
<1>1. /\ up /\ ~flushErr /\ Kept /\ Exact /\ flushes = {f} /\ f \in Flusher /\ f.pc = "write"
      /\ f.seq \notin DOMAIN ssts
  BY FlushAlone, Zenon DEF FlushWrite, Inv, Flushing
<1>2. /\ UNCHANGED <<wals, marker, up, memVars, snapshot, store>>
      /\ ssts' = With(ssts, f.seq, f.table) /\ flushes' = {g}
  BY <1>1, Zenon DEF FlushWrite, historyVars, storeVars
<1>3. g.seq = f.seq /\ g.wal = f.wal /\ g.table = f.table /\ g.pc = "install"
  BY <1>1, Zenon DEF Flusher
<1>4. f.seq \in Nat /\ f.table # Torn /\ marker <= f.seq /\ marker \in Nat /\ marker <= f.wal
  BY <1>1, NothingAssumption, Dirs, Zenon DEF Flusher, Kept, Busy
<1> HIDE DEF g
<1>5. /\ DOMAIN ssts' = DOMAIN ssts \cup {f.seq} /\ ssts'[f.seq] = f.table
      /\ \A n \in DOMAIN ssts : ssts'[n] = ssts[n]
  BY <1>1, <1>2, Zenon DEF With
<1>6. Complete' = Complete \cup {f.seq}
  BY <1>1, <1>2, <1>4, <1>5, Zenon DEF Complete, Discovered
<1>7. Durable'
  <2>1. ASSUME NEW k \in Key PROVE Held(k)' = Held(k)
    <3>1. /\ Held(k) = Recovery(wals, ssts, marker, k)
          /\ Held(k)' = Recovery(wals, ssts', marker, k)
      BY <1>2, HeldIs, Zenon
    <3>2. CASE FromWals(wals, marker, k) # Absent
      BY <3>1, <3>2, Zenon DEF Recovery
    <3>3. CASE FromWals(wals, marker, k) = Absent
      <4>1. f.table[k] = Absent
        <5>1. Bounded(Valid(wals, marker))
          BY Dirs, ValidBounded, Zenon
        <5>2. wals[f.wal] = f.table /\ f.wal \in Nat /\ f.wal \in DOMAIN wals
          BY <1>1, ValidWals, Zenon DEF Kept
        <5>3. f.wal \in Valid(wals, marker)
          BY <1>4, <5>2, Zenon DEF Valid
        <5>4. Newest(wals, Valid(wals, marker), k) = Absent
          BY <3>3, Zenon DEF FromWals
        <5>5. \A x \in Valid(wals, marker) : wals[x][k] = Absent
          BY <5>1, <5>4, NewestAbsent
        <5> QED BY <5>2, <5>3, <5>5, Zenon
      <4>2. Bounded(Complete) /\ Complete' \subseteq Nat
        BY Dirs, DirsNext, ValidBounded, Zenon
      <4>3. Agree(ssts, Complete, ssts', Complete', k)
        <5>1. Complete \subseteq DOMAIN ssts
          BY Zenon DEF Complete, Discovered
        <5> QED BY <1>5, <1>6, <4>1, <4>2, <5>1, Zenon DEF Agree
      <4>4. Newest(ssts', Complete', k) = Newest(ssts, Complete, k)
        BY <4>3, NewestAgree
      <4>5. FromTables(ssts', marker, k) = FromTables(ssts, marker, k)
        BY <1>2, <4>4, Dirs, DirsNext, Zenon DEF FromTables
      <4> QED BY <3>1, <4>5 DEF Recovery
    <3> QED BY <3>2, <3>3, Zenon
  <2> QED BY <1>2, <2>1, Zenon DEF DInv, Durable
<1>8. Kept'
  <2>1. Installed' = Installed /\ Discovered(wals)' = Discovered(wals) /\ w' = w
    BY <1>2, Zenon DEF Installed, Discovered, memVars
  <2>2. {x \in flushes' : x.pc = "install"} = {g} /\ {x \in flushes : x.pc = "install"} = {}
    BY <1>1, <1>2, <1>3, Zenon
  <2>3. Complete' = Installed' \cup {x.seq : x \in {x \in flushes' : x.pc = "install"}}
    <3>1. Complete = Installed \cup {x.seq : x \in {x \in flushes : x.pc = "install"}}
      BY <1>1, Zenon DEF Kept
    <3>2. {x.seq : x \in {x \in flushes : x.pc = "install"}} = {}
      BY <2>2, Zenon
    <3>3. {x.seq : x \in {x \in flushes' : x.pc = "install"}} = {f.seq}
      BY <1>3, <2>2, Zenon
    <3> QED BY <1>6, <2>1, <3>1, <3>2, <3>3, Zenon
  <2>4. Discovered(wals)' \subseteq {w'} \cup {x.wal : x \in flushes'}
    <3>1. Discovered(wals) \subseteq {w} \cup {x.wal : x \in flushes}
      BY <1>1, Zenon DEF Kept
    <3>2. {x.wal : x \in flushes'} = {f.wal} /\ {x.wal : x \in flushes} = {f.wal}
      BY <1>1, <1>2, <1>3, Zenon
    <3> QED BY <2>1, <3>1, <3>2, Zenon
  <2>5. \A i, j \in DOMAIN sstables' : i < j => sstables'[i] > sstables'[j]
    BY <1>1, <1>2, Zenon DEF Kept, memVars
  <2>6. \A x \in flushes' : x.wal \in DOMAIN wals'
    BY <1>1, <1>2, <1>3, Zenon DEF Kept
  <2>7. f \in Busy /\ Busy' = {g}
    BY <1>1, <1>2, <1>3, Zenon DEF Busy
  <2>8. \A x \in Busy' : marker' <= x.wal /\ x.seq \notin Installed'
    BY <1>1, <1>2, <1>3, <2>1, <2>7, Zenon DEF Kept
  <2>9. \A n \in Complete' : n <= f.seq
    <3>1. \A n \in Complete : n <= f.seq
      BY <1>1, Zenon DEF Kept
    <3> QED BY <1>4, <1>6, <3>1
  <2>10. \A x \in flushes' : /\ x.pc # "write" /\ x.seq \in Complete' /\ ssts'[x.seq] = x.table
                             /\ \A n \in Complete' : n <= x.seq
    BY <1>2, <1>3, <1>5, <1>6, <2>9, Zenon
  <2> QED BY <2>3, <2>4, <2>5, <2>6, <2>8, <2>10, Zenon DEF Kept
<1>9. Orderly' /\ SnapshotSoFar'
  BY <1>1, <1>2, <1>8, Zenon DEF Orderly, DInv, SnapshotSoFar, memVars
<1> QED BY <1>7, <1>9, Zenon DEF DInv

LEMMA FlushInstallDInv ==
    ASSUME Inv, Inv', DInv, NEW f \in flushes, FlushInstall(f), UNCHANGED <<orderly, Exact>>
    PROVE  DInv'
<1> SUFFICES ASSUME orderly PROVE DInv'
  BY Disorderly, Zenon
<1> DEFINE g == [f EXCEPT !.pc = "cleanup"]
<1>1. up /\ ~flushErr /\ Kept /\ flushes = {f} /\ f \in Flusher /\ f.pc = "install"
  BY FlushAlone, Zenon DEF FlushInstall
<1>2. /\ UNCHANGED <<dirVars, up, w, flushErr, snapshot, store>>
      /\ sstables' = <<f.seq>> \o sstables /\ flushes' = {g}
  BY <1>1, Zenon DEF FlushInstall, historyVars, storeVars
<1>3. g.seq = f.seq /\ g.wal = f.wal /\ g.table = f.table /\ g.pc = "cleanup"
  BY <1>1, Zenon DEF Flusher
<1> HIDE DEF g
<1>4. Durable'
  BY <1>2, DurableSame, Zenon DEF DInv
<1>5. /\ f \in Busy /\ f.seq \notin Installed /\ marker <= f.wal
      /\ f.seq \in Complete /\ ssts[f.seq] = f.table /\ \A n \in Complete : n <= f.seq
  BY <1>1, Zenon DEF Kept, Busy
<1>6. Complete' = Complete /\ Discovered(wals)' = Discovered(wals)
  BY <1>2, Zenon DEF Complete, Discovered, dirVars
<1>7. Complete = Installed \cup {f.seq}
  <2>1. {x \in flushes : x.pc = "install"} = {f}
    BY <1>1, Zenon
  <2> QED BY <1>1, <2>1 DEF Kept
<1>8. sstables \in Seq(DOMAIN ssts) /\ DOMAIN ssts \subseteq Nat /\ f.seq \in DOMAIN ssts
  BY <1>5, Types, Zenon DEF Inv, ListType, FileTypes, Complete, Discovered
<1>9. /\ DOMAIN sstables' = 1..(1 + Len(sstables)) /\ sstables'[1] = f.seq
      /\ \A i \in DOMAIN sstables : sstables'[1 + i] = sstables[i]
  <2> DEFINE first == <<f.seq>>
  <2>1. first \in Seq(DOMAIN ssts) /\ Len(first) = 1 /\ first[1] = f.seq
    BY <1>8
  <2>2. Joined(sstables', first, sstables)
    BY <1>2, <1>8, <2>1, Concatenated, Zenon
  <2> HIDE DEF first
  <2>3. Len(sstables) \in Nat /\ DOMAIN sstables = 1..Len(sstables)
    BY <1>8
  <2>4. DOMAIN sstables' = 1..(1 + Len(sstables)) /\ sstables'[1] = f.seq
    BY <2>1, <2>2 DEF Joined
  <2>5. \A i \in DOMAIN sstables : sstables'[1 + i] = sstables[i]
    BY <2>1, <2>2, <2>3, Zenon DEF Joined
  <2> QED BY <2>4, <2>5, Zenon
<1>10. ASSUME NEW i \in DOMAIN sstables', i # 1
       PROVE  i - 1 \in DOMAIN sstables /\ sstables'[i] = sstables[i - 1]
  <2>1. i - 1 \in DOMAIN sstables /\ 1 + (i - 1) = i
    BY <1>8, <1>9, <1>10
  <2> QED BY <1>9, <2>1, Zenon
<1>11. Installed' = Installed \cup {f.seq}
  <2>1. \A n \in Installed' : n \in Installed \cup {f.seq}
    BY <1>9, <1>10 DEF Installed
  <2>2. ASSUME NEW i \in DOMAIN sstables PROVE sstables[i] \in Installed'
    <3>1. 1 + i \in DOMAIN sstables'
      BY <1>8, <1>9
    <3> QED BY <1>9, <3>1, Zenon DEF Installed
  <2>3. f.seq \in Installed'
    <3>1. 1 \in DOMAIN sstables'
      BY <1>8, <1>9
    <3> QED BY <1>9, <3>1, Zenon DEF Installed
  <2> QED BY <2>1, <2>2, <2>3, Zenon DEF Installed
<1>12. ASSUME NEW i \in DOMAIN sstables', NEW j \in DOMAIN sstables', i < j
       PROVE  sstables'[i] > sstables'[j]
  <2>1. j # 1 /\ j - 1 \in DOMAIN sstables /\ sstables'[j] = sstables[j - 1]
    BY <1>8, <1>9, <1>10, <1>12
  <2>2. CASE i = 1
    <3>1. sstables[j - 1] \in Installed
      BY <2>1, Zenon DEF Installed
    <3>2. sstables[j - 1] <= f.seq /\ sstables[j - 1] # f.seq /\ sstables[j - 1] \in Nat /\ f.seq \in Nat
      BY <1>5, <1>7, <1>8, <2>1, <3>1
    <3> QED BY <1>9, <2>1, <2>2, <3>2
  <2>3. CASE i # 1
    <3>1. i - 1 \in DOMAIN sstables /\ sstables'[i] = sstables[i - 1] /\ i - 1 < j - 1
      BY <1>8, <1>9, <1>10, <1>12, <2>3
    <3> QED BY <1>1, <2>1, <3>1, Zenon DEF Kept
  <2> QED BY <2>2, <2>3, Zenon
<1>13. Kept'
  <2>1. {x \in flushes' : x.pc = "install"} = {} /\ Busy' = {}
    BY <1>2, <1>3, Zenon DEF Busy
  <2>2. Complete' = Installed' \cup {x.seq : x \in {x \in flushes' : x.pc = "install"}}
    BY <1>6, <1>7, <1>11, <2>1, Zenon
  <2>3. Discovered(wals)' \subseteq {w'} \cup {x.wal : x \in flushes'}
    <3>1. Discovered(wals) \subseteq {w} \cup {x.wal : x \in flushes}
      BY <1>1, Zenon DEF Kept
    <3>2. {x.wal : x \in flushes'} = {f.wal} /\ {x.wal : x \in flushes} = {f.wal}
      BY <1>1, <1>2, <1>3, Zenon
    <3> QED BY <1>2, <1>6, <3>1, <3>2, Zenon
  <2>4. \A x \in flushes' : x.wal \in DOMAIN wals'
    BY <1>1, <1>2, <1>3, Zenon DEF Kept, dirVars
  <2>5. \A x \in flushes' : /\ x.pc # "write" /\ x.seq \in Complete' /\ ssts'[x.seq] = x.table
                            /\ \A n \in Complete' : n <= x.seq
    BY <1>2, <1>3, <1>5, <1>6, Zenon DEF dirVars
  <2> QED BY <1>12, <2>1, <2>2, <2>3, <2>4, <2>5, Zenon DEF Kept
<1>14. Orderly' /\ SnapshotSoFar'
  BY <1>1, <1>2, <1>13, Zenon DEF Orderly, DInv, SnapshotSoFar
<1> QED BY <1>4, <1>14, Zenon DEF DInv

LEMMA FlushCleanupDInv ==
    ASSUME Inv, Inv', DInv, NEW f \in flushes, FlushCleanup(f), UNCHANGED <<orderly, Exact>>
    PROVE  DInv'
<1> SUFFICES ASSUME orderly PROVE DInv'
  BY Disorderly, Zenon
<1>1. /\ up /\ ~flushErr /\ Kept /\ Exact /\ flushes = {f} /\ f \in Flusher /\ f.pc = "cleanup"
      /\ \A x, y \in flushes : x = y
  BY FlushAlone, Zenon DEF FlushCleanup
<1>2. UNCHANGED <<ssts, marker, up, w, sstables, snapshot, store>> /\ flushes' = {}
  BY <1>1, Zenon DEF FlushCleanup, historyVars, storeVars
<1>3. CASE flushErr' /\ UNCHANGED wals
  <2>1. Durable'
    BY <1>2, <1>3, DurableSame, Zenon DEF DInv, dirVars
  <2>2. Orderly' /\ SnapshotSoFar'
    BY <1>2, <1>3, Zenon DEF Orderly, SnapshotSoFar
  <2> QED BY <2>1, <2>2, Zenon DEF DInv
<1>4. CASE wals' = Without(wals, {f.wal}) /\ UNCHANGED flushErr
  <2>1. /\ w \in Valid(wals, marker) /\ wals[w] = mem /\ w \in Nat
        /\ \A n \in Valid(wals, marker) : n = w \/ n = f.wal
        /\ f.wal < w /\ f.wal \in Nat
    BY <1>1, ValidWals, Zenon
  <2>2. Valid(wals', marker) = {w} /\ wals'[w] = mem
    BY <1>4, <2>1 DEF Valid, Without
  <2>3. ASSUME NEW k \in Key PROVE FromWals(wals', marker, k) = mem[k]
    <3>1. CASE mem[k] = Absent
      BY <2>2, <3>1, NewestNone, Zenon DEF FromWals
    <3>2. CASE mem[k] # Absent
      <4>1. Highest(wals', {w}, k, w)
        BY <2>1, <2>2, <3>2 DEF Highest
      <4>2. Newest(wals', {w}, k) = wals'[w][k]
        BY <4>1, HighestDecides
      <4> QED BY <2>2, <4>2, Zenon DEF FromWals
    <3> QED BY <3>1, <3>2, Zenon
  <2>4. ASSUME NEW k \in Key PROVE Held(k)' = Held(k)
    <3> DEFINE R == FromWals(wals, marker, k)
               C == FromTables(ssts, marker, k)
    <3>1. /\ Held(k) = Live(IF R # Absent THEN R ELSE C)
          /\ Held(k)' = Live(IF mem[k] # Absent THEN mem[k] ELSE C)
      BY <1>2, <2>3, HeldIs, Zenon DEF Recovery
    <3>2. /\ mem[k] # Absent => R = mem[k]
          /\ mem[k] = Absent /\ marker <= f.wal => R = f.table[k]
          /\ mem[k] = Absent /\ ~(marker <= f.wal) => R = Absent
      BY <1>1, ReplayIs, Zenon
    <3>3. ASSUME marker <= f.wal, f.table[k] # Absent PROVE C = f.table[k]
      <4>1. f.seq \in Complete /\ ssts[f.seq] = f.table /\ \A n \in Complete : n <= f.seq
        BY <1>1, <3>3, Zenon DEF Kept
      <4>2. Complete \subseteq Nat /\ Complete = Whole(ssts, marker)
        BY Dirs, ValidBounded, Zenon
      <4>3. Highest(ssts, Complete, k, f.seq)
        BY <3>3, <4>1, <4>2, Zenon DEF Highest
      <4>4. Newest(ssts, Complete, k) = ssts[f.seq][k]
        BY <4>3, HighestDecides
      <4> QED BY <4>1, <4>2, <4>4, Zenon DEF FromTables
    <3> HIDE DEF R, C
    <3> QED BY <3>1, <3>2, <3>3
  <2>5. Durable'
    BY <1>2, <2>4, Zenon DEF DInv, Durable
  <2>6. Complete' = Complete /\ Installed' = Installed /\ Discovered(wals)' = {w}
    BY <1>2, <2>2, Zenon DEF Complete, Installed, Discovered, Valid
  <2>7. {x \in flushes : x.pc = "install"} = {} /\ Busy' = {}
    BY <1>1, <1>2, Zenon DEF Busy
  <2>8. Complete = Installed
    BY <1>1, <2>7, Zenon DEF Kept
  <2>9. \A i, j \in DOMAIN sstables' : i < j => sstables'[i] > sstables'[j]
    BY <1>1, <1>2, Zenon DEF Kept
  <2>10. Kept'
    BY <1>2, <2>6, <2>7, <2>8, <2>9, Zenon DEF Kept
  <2>11. Orderly' /\ SnapshotSoFar'
    BY <1>1, <1>2, <1>4, <2>10, Zenon DEF Orderly, DInv, SnapshotSoFar
  <2> QED BY <2>5, <2>11, Zenon DEF DInv
<1> QED BY <1>3, <1>4, Zenon DEF FlushCleanup

-----------------------------------------------------------------------------
(***************************************************************************)
(* RestoreSnapshot, and a crash after its commit point.                    *)
(***************************************************************************)
LEMMA RestoredDurable ==
    ASSUME Inv, Inv', up, NEW data \in Contents, store' = data, marker' = RestoreSeq,
           RestoreSeq \in DOMAIN wals', wals'[RestoreSeq] = Empty,
           DOMAIN wals' \subseteq DOMAIN wals \cup {RestoreSeq},
           RestoreSeq \in DOMAIN ssts', ssts'[RestoreSeq] = data,
           DOMAIN ssts' \subseteq DOMAIN ssts \cup {RestoreSeq}
    PROVE  Durable'
<1> DEFINE new == RestoreSeq
<1>1. /\ new \in Nat /\ \A n \in DOMAIN wals : n < new
      /\ \A n \in DOMAIN ssts : n < new
  BY RestoreSeqAbove, Zenon
<1>2. DOMAIN wals \subseteq Nat /\ DOMAIN ssts \subseteq Nat
  BY Types, Zenon DEF Inv, FileTypes
<1> HIDE DEF new
<1>3. (\A n \in DOMAIN wals' : n # new => ~(n >= new)) /\ (\A n \in DOMAIN ssts' : n # new => ~(n >= new))
  BY <1>1, <1>2 DEF new
<1>4. ASSUME NEW k \in Key PROVE Held(k)' = data[k]
  <2>1. /\ new \in DOMAIN wals' /\ wals'[new] = Empty
        /\ new \in DOMAIN ssts' /\ ssts'[new] = data /\ marker' = new
    BY Zenon DEF new
  <2>2. OnlyRestored(wals', ssts', new, data)
    BY <1>1, <1>3, <2>1, Zenon DEF OnlyRestored
  <2>3. Recovery(wals', ssts', new, k) = data[k]
    BY <2>2, RestoredIs
  <2> QED BY <2>1, <2>3, HeldIs, Zenon
<1> QED BY <1>4, Zenon DEF Durable

LEMMA CrashAfterCommitDInv ==
    ASSUME Inv, Inv', DInv, NEW data \in Contents, CrashAfterCommit(data), UNCHANGED <<orderly, Exact>>
    PROVE  DInv'
<1>1. /\ up /\ Gone /\ store' = data /\ marker' = RestoreSeq /\ wals' = With(wals, RestoreSeq, Empty)
  BY Zenon DEF CrashAfterCommit, Crashing, Restoring, Idle
<1>2. PICK S : /\ ssts' = Without(With(ssts, RestoreSeq, data), S)
               /\ RestoreSeq \notin S
  <2>1. PICK n \in 0..Len(sstables) :
            ssts' = Without(With(ssts, RestoreSeq, data), {sstables[x] : x \in 1..n})
    BY Zenon DEF CrashAfterCommit
  <2>2. sstables \in Seq(DOMAIN ssts) /\ DOMAIN ssts \subseteq Nat
    BY Types, Zenon DEF Inv, ListType, FileTypes
  <2>3. RestoreSeq \in Nat /\ \A x \in DOMAIN ssts : x < RestoreSeq
    BY <1>1, RestoreSeqAbove, Zenon
  <2>4. RestoreSeq \notin {sstables[x] : x \in 1..n}
    BY <2>2, <2>3
  <2> QED BY <2>1, <2>4, Zenon
<1>3. /\ RestoreSeq \in DOMAIN ssts' /\ ssts'[RestoreSeq] = data
      /\ DOMAIN ssts' \subseteq DOMAIN ssts \cup {RestoreSeq}
  BY <1>2, Zenon DEF With, Without
<1>4. /\ RestoreSeq \in DOMAIN wals' /\ wals'[RestoreSeq] = Empty
      /\ DOMAIN wals' \subseteq DOMAIN wals \cup {RestoreSeq}
  BY <1>1, Zenon DEF With
<1>5. Durable'
  BY <1>1, <1>3, <1>4, RestoredDurable, Zenon
<1> QED BY <1>1, <1>5, GoneOrderly, Zenon DEF DInv

LEMMA RestoreSnapshotDInv ==
    ASSUME Inv, Inv', DInv, NEW data \in Contents, RestoreSnapshot(data), UNCHANGED <<orderly, Exact>>
    PROVE  DInv'
<1> SUFFICES ASSUME orderly PROVE DInv'
  BY Disorderly, Zenon
<1> DEFINE new == RestoreSeq
<1>1. /\ up /\ immutable = NoTable /\ snapshot = NoTable
      /\ ssts' = Without(With(ssts, new, data), Installed)
      /\ wals' = Without(With(wals, new, Empty), {w})
      /\ marker' = new /\ sstables' = <<new>> /\ w' = new /\ flushErr' = FALSE /\ store' = data
      /\ UNCHANGED <<up, snapshot, flushes>>
  BY Zenon DEF RestoreSnapshot, Restoring, Idle, Installed
<1>2. /\ new \in Nat /\ \A n \in DOMAIN wals : n < new
      /\ \A n \in DOMAIN ssts : n < new
  BY <1>1, RestoreSeqAbove, Zenon
<1>3. /\ DOMAIN wals \subseteq Nat /\ DOMAIN ssts \subseteq Nat /\ w \in DOMAIN wals
      /\ sstables \in Seq(DOMAIN ssts)
  BY <1>1, Types, Zenon DEF Inv, FileTypes, Running, ListType
<1> HIDE DEF new
<1>4. new \notin Installed /\ new # w
  BY <1>2, <1>3 DEF Installed
<1>5. /\ DOMAIN wals' = (DOMAIN wals \cup {new}) \ {w} /\ wals'[new] = Empty
      /\ new \in DOMAIN ssts' /\ DOMAIN ssts' \subseteq DOMAIN ssts \cup {new} /\ ssts'[new] = data
  BY <1>1, <1>4, Zenon DEF With, Without
<1>6. Durable'
  <2>1. /\ store' = data /\ marker' = RestoreSeq
        /\ RestoreSeq \in DOMAIN wals' /\ wals'[RestoreSeq] = Empty
        /\ DOMAIN wals' \subseteq DOMAIN wals \cup {RestoreSeq}
        /\ RestoreSeq \in DOMAIN ssts' /\ ssts'[RestoreSeq] = data
        /\ DOMAIN ssts' \subseteq DOMAIN ssts \cup {RestoreSeq}
    BY <1>1, <1>4, <1>5, Zenon DEF new
  <2> QED BY <1>1, <2>1, RestoredDurable, Zenon
<1>7. data # Torn
  BY NothingAssumption, ContentsAreTables, Zenon
<1>8. Complete' = {new} /\ Discovered(wals)' = {new}
  BY <1>1, <1>2, <1>3, <1>4, <1>5, <1>7 DEF Complete, Discovered
<1>9. DOMAIN sstables' = {1} /\ Installed' = {new}
  BY <1>1 DEF Installed
<1>10. \A f \in flushes : f.pc = "cleanup"
  BY <1>1, NothingAssumption, Types, Zenon DEF Inv, Flushing, Busy, FlushTypes, Flusher
<1>11. ASSUME NEW f \in flushes PROVE f.wal \in DOMAIN wals' /\ ~(marker' <= f.wal)
  <2>1. f.wal \in DOMAIN wals /\ f.wal < w
    BY FlushAlone, Zenon DEF Kept
  <2> QED BY <1>1, <1>2, <1>3, <1>5, <2>1
<1>12. Kept'
  <2>1. Busy' = {} /\ {f \in flushes' : f.pc = "install"} = {}
    BY <1>1, <1>10, Zenon DEF Busy
  <2>2. Complete' = Installed' \cup {f.seq : f \in {f \in flushes' : f.pc = "install"}}
    BY <1>8, <1>9, <2>1, Zenon
  <2>3. \A i, j \in DOMAIN sstables' : ~(i < j)
    BY <1>9
  <2>4. Discovered(wals)' \subseteq {w'} \cup {f.wal : f \in flushes'}
    BY <1>1, <1>8, Zenon
  <2> QED BY <1>1, <1>10, <1>11, <2>1, <2>2, <2>3, <2>4, Zenon DEF Kept
<1>13. Orderly' /\ SnapshotSoFar'
  BY <1>1, <1>12, Zenon DEF DInv, Orderly, SnapshotSoFar
<1> QED BY <1>6, <1>13, Zenon DEF DInv

-----------------------------------------------------------------------------
(***************************************************************************)
(* Open, and a crash in it.                                                *)
(***************************************************************************)
\* The records are in a WAL with a new number before an old one is removed.
ReplayedInto(wl, wl2, mark, new, k) ==
    /\ IsDir(wl) /\ IsDir(wl2) /\ mark \in Nat
    /\ new \in DOMAIN wl2 /\ new \notin DOMAIN wl /\ mark <= new
    /\ \A n \in DOMAIN wl2 : n # new => n < new /\ n \in DOMAIN wl /\ wl2[n] = wl[n]
    /\ wl2[new][k] \in {FromWals(wl, mark, k), Absent}
    /\ wl2[new][k] = FromWals(wl, mark, k) \/ DOMAIN wl \subseteq DOMAIN wl2

LEMMA ReplayAgain ==
    ASSUME NumberFacts, NEW wl, NEW wl2, NEW mark, NEW new, NEW k, ReplayedInto(wl, wl2, mark, new, k)
    PROVE  FromWals(wl2, mark, k) = FromWals(wl, mark, k)
<1> USE DEF ReplayedInto
<1> DEFINE S == Valid(wl, mark)
           T == Valid(wl2, mark)
<1>1. Bounded(S) /\ S \subseteq Nat /\ T \subseteq Nat
  BY ValidBounded, Zenon
<1>2. new \in T /\ \A n \in T : n # new => n < new /\ n \in S /\ wl2[n] = wl[n]
  BY Zenon DEF Valid, IsDir
<1>3. CASE wl2[new][k] # Absent
  <2> HIDE DEF S, T
  <2>1. Highest(wl2, T, k, new)
    <3>1. new \in Nat /\ \A n \in T : n \in Nat /\ (n = new \/ n < new)
      BY <1>1, <1>2, Zenon
    <3> QED BY <1>1, <1>2, <1>3, <3>1 DEF Highest
  <2>2. Newest(wl2, T, k) = wl2[new][k]
    BY <2>1, HighestDecides
  <2> QED BY <1>3, <2>2, Zenon DEF FromWals, T
<1>4. CASE wl2[new][k] = Absent /\ FromWals(wl, mark, k) = Absent
  <2>1. Newest(wl, S, k) = Absent
    BY <1>4, Zenon DEF FromWals
  <2> HIDE DEF S, T
  <2>2. \A n \in S : wl[n][k] = Absent
    BY <1>1, <2>1, NewestAbsent
  <2>3. \A n \in T : wl2[n][k] = Absent
    BY <1>2, <1>4, <2>2, Zenon
  <2>4. Newest(wl2, T, k) = Absent
    BY <2>3, NewestNone, Zenon
  <2> QED BY <1>4, <2>4, Zenon DEF FromWals, T
<1>5. CASE wl2[new][k] = Absent /\ FromWals(wl, mark, k) # Absent
  <2>1. \A n \in S : n \in T /\ n # new
    BY <1>5, Zenon DEF Valid
  <2> HIDE DEF S, T
  <2>2. Agree(wl, S, wl2, T, k)
    BY <1>1, <1>2, <1>5, <2>1, Zenon DEF Agree
  <2>3. Newest(wl2, T, k) = Newest(wl, S, k)
    BY <2>2, NewestAgree
  <2> QED BY <2>3, Zenon DEF FromWals, S, T
<1> QED BY <1>3, <1>4, <1>5, Zenon

\* What Replayed holds, and where Open puts it.
LEMMA Reopened ==
    ASSUME NumberFacts, Inv, Inv', Durable, UNCHANGED <<ssts, marker, store, orderly, Exact>>,
           NEW table, NEW S \in SUBSET Discovered(wals),
           wals' = Without(With(wals, NextNumber(Discovered(wals)), table), S),
           \A k \in Key : table[k] = Replayed[k] \/ (table[k] = Absent /\ S = {})
    PROVE  Durable'
<1> DEFINE new == NextNumber(Discovered(wals))
<1>1. new \in Nat /\ marker <= new /\ \A n \in DOMAIN wals : n < new
  BY NumbersAbove, Zenon
<1>2. wals' = Without(With(wals, new, table), S)
  BY Zenon
<1> HIDE DEF new
<1>3. IsDir(wals) /\ IsDir(wals') /\ marker \in Nat
  BY Dirs, DirsNext, Zenon
<1>4. S \subseteq DOMAIN wals /\ new \notin DOMAIN wals
  <2>1. \A n \in Nat : ~(n < n)
    OBVIOUS
  <2> QED BY <1>1, <1>3, <2>1, Zenon DEF Discovered, IsDir
<1>5. /\ new \in DOMAIN wals' /\ wals'[new] = table
      /\ \A n \in DOMAIN wals' : n # new => n < new /\ n \in DOMAIN wals /\ wals'[n] = wals[n]
      /\ S = {} => DOMAIN wals \subseteq DOMAIN wals'
  BY <1>1, <1>2, <1>4, Zenon DEF With, Without
<1>6. ASSUME NEW k \in Key PROVE FromWals(wals', marker, k) = FromWals(wals, marker, k)
  <2>1. Replayed[k] = FromWals(wals, marker, k)
    BY Zenon DEF Replayed, FromWals, Discovered, Valid
  <2>2. /\ wals'[new][k] \in {FromWals(wals, marker, k), Absent}
        /\ wals'[new][k] = FromWals(wals, marker, k) \/ DOMAIN wals \subseteq DOMAIN wals'
    BY <1>5, <2>1, Zenon
  <2>3. ReplayedInto(wals, wals', marker, new, k)
    BY <1>1, <1>3, <1>4, <1>5, <2>2, Zenon DEF ReplayedInto
  <2> QED BY <2>3, ReplayAgain
<1>7. ASSUME NEW k \in Key PROVE Held(k)' = Held(k)
  BY <1>6, HeldIs, Zenon DEF Recovery
<1> QED BY <1>7, Zenon DEF Durable

LEMMA OpenDInv ==
    ASSUME NumberFacts, Inv, Inv', DInv, Open, UNCHANGED <<orderly, Exact>>
    PROVE  DInv'
<1>1. /\ UNCHANGED <<ssts, marker, flushErr, flushes, snapshot, store>> /\ ~up /\ up' /\ CanOpen
      /\ wals' = Without(With(wals, NextNumber(Discovered(wals)), Replayed), Discovered(wals))
      /\ sstables' \in Descending(Discovered(ssts)) /\ w' = NextNumber(Discovered(wals))
  BY Zenon DEF Open, historyVars, storeVars
<1>2. flushes = {} /\ snapshot = NoTable /\ ~flushErr
  BY <1>1, Zenon DEF Inv, Stopped
<1>3. Durable'
  BY <1>1, Reopened, Zenon DEF DInv
<1>4. SnapshotSoFar'
  BY <1>1, <1>2, Zenon DEF SnapshotSoFar
<1>5. Bounded(Discovered(ssts))
  BY BoundedPart, Zenon DEF Inv, Directory, Discovered
<1>6. /\ \A i, j \in DOMAIN sstables' : i < j => sstables'[i] > sstables'[j]
      /\ \A n : n \in Discovered(ssts) <=> \E i \in DOMAIN sstables' : sstables'[i] = n
  BY <1>1, <1>5, DescendingIsSeq, Zenon
<1>7. Complete' = Discovered(ssts)
  BY <1>1, Zenon DEF Complete, Discovered, CanOpen
<1>8. Installed' = Discovered(ssts)
  BY <1>6, Zenon DEF Installed
<1>9. Discovered(wals)' \subseteq {w'}
  BY <1>1, Zenon DEF Discovered, With, Without
<1>10. Kept'
  BY <1>1, <1>2, <1>6, <1>7, <1>8, <1>9, Zenon DEF Kept, Busy
<1>11. Orderly'
  BY <1>1, <1>2, <1>10, Zenon DEF Orderly
<1> QED BY <1>3, <1>4, <1>11, Zenon DEF DInv

LEMMA CrashInOpenDInv ==
    ASSUME NumberFacts, Inv, Inv', DInv, CrashInOpen, UNCHANGED <<orderly, Exact>>
    PROVE  DInv'
<1> DEFINE new == NextNumber(Discovered(wals))
           old == Discovered(wals)
<1>1. UNCHANGED <<ssts, marker, up, memVars, flushes, snapshot, store>> /\ ~up
  BY Zenon DEF CrashInOpen, historyVars, storeVars
<1>2. Orderly' /\ SnapshotSoFar'
  <2>1. flushes = {} /\ snapshot = NoTable
    BY <1>1, Zenon DEF Inv, Stopped
  <2> QED BY <1>1, <2>1, Zenon DEF Orderly, SnapshotSoFar
<1>3. ASSUME NEW S \in SUBSET Key,
             wals' = With(wals, new, [k \in Key |-> IF k \in S THEN Replayed[k] ELSE Absent])
      PROVE  Durable'
  <2> DEFINE table == [k \in Key |-> IF k \in S THEN Replayed[k] ELSE Absent]
  <2>1. \A k \in Key : table[k] = Replayed[k] \/ table[k] = Absent
    BY Zenon
  <2>2. wals' = With(wals, new, table)
    BY <1>3, Zenon
  <2> HIDE DEF table, new
  <2>3. With(wals, new, table) = Without(With(wals, new, table), {})
    BY Zenon DEF With, Without
  <2>4. {} \in SUBSET Discovered(wals) /\ wals' = Without(With(wals, new, table), {})
    BY <2>2, <2>3, Zenon
  <2> QED BY <1>1, <2>1, <2>4, Reopened, Zenon DEF DInv, new
<1>4. ASSUME NEW top \in old, wals' = Without(With(wals, new, Replayed), {x \in old : x <= top})
      PROVE  Durable'
  <2>1. {x \in old : x <= top} \in SUBSET old
    BY Zenon
  <2> QED BY <1>1, <1>4, <2>1, Reopened, Zenon DEF DInv
<1>5. Durable'
  BY <1>3, <1>4, Zenon DEF CrashInOpen
<1> QED BY <1>2, <1>5, Zenon DEF DInv

-----------------------------------------------------------------------------
(***************************************************************************)
(* The invariant holds, and what follows from it.                          *)
(***************************************************************************)
LEMMA DInvInit == Init => DInv
<1> SUFFICES ASSUME Init PROVE DInv
  BY Zenon
<1>1. wals = [n \in {} |-> Empty] /\ ssts = [n \in {} |-> Empty] /\ store = Empty
  BY Zenon DEF Init, NewStore
<1>2. ASSUME NEW k \in Key PROVE Held(k) = store[k]
  <2>1. Valid(wals, marker) = {} /\ Whole(ssts, marker) = {}
    BY <1>1, Zenon DEF Valid, Whole
  <2>2. FromWals(wals, marker, k) = Absent /\ FromTables(ssts, marker, k) = Absent
    BY <2>1, Zenon DEF FromWals, FromTables, Newest
  <2>3. Held(k) = Live(Absent)
    BY <2>2, HeldIs, Zenon DEF Recovery
  <2> QED BY <1>1, <2>3, Zenon DEF Live, Empty
<1>3. Durable
  BY <1>2, Zenon DEF Durable
<1>4. Orderly /\ SnapshotSoFar
  BY Zenon DEF Init, NewStore, Orderly, SnapshotSoFar
<1> QED BY <1>3, <1>4, Zenon DEF DInv

LEMMA CrashHistory ==
    ASSUME Crash \/ CrashInOpen \/ (\E batch \in Batch : CrashInAppend(batch))
             \/ (\E data \in Contents : CrashAfterCommit(data))
    PROVE  UNCHANGED <<orderly, Exact>>
<1>1. UNCHANGED mishaps
  BY Zenon DEF Crash, CrashInOpen, CrashInAppend, CrashAfterCommit, historyVars
<1> QED BY <1>1 DEF orderly, Exact

LEMMA DInvNext ==
    ASSUME NumberFacts, Inv, Inv', DInv, [Next]_vars
    PROVE  DInv'
<1>1. CASE UNCHANGED vars
  <2>1. UNCHANGED <<orderly, Exact, store>>
    BY <1>1, HistoryKept, Zenon DEF vars
  <2> QED BY <1>1, <2>1, CallDInv, Zenon DEF vars
<1>2. CASE Next
  <2>1. CASE CrashStep
    <3>1. ASSUME NEW data \in Contents, CrashBeforeCommit(data) PROVE DInv'
      <4>1. ~orderly'
        BY <3>1 DEF CrashBeforeCommit, orderly
      <4> QED BY <4>1, Disorderly, Zenon
    <3> QED BY <2>1, <3>1, CrashHistory, CrashDInv, CrashInAppendDInv, CrashAfterCommitDInv,
               CrashInOpenDInv, Zenon DEF CrashStep
  <2>2. CASE FlushStep
    BY <2>2, FlushHistory, FlushWriteDInv, FlushFailsDInv, FlushInstallDInv, FlushCleanupDInv, Zenon
       DEF FlushStep
  <2>3. ASSUME NEW batch \in Batch, WaitForFlush(batch) PROVE DInv'
    BY <2>3, CallHistory, CallDInv, Zenon DEF WaitForFlush, historyVars, storeVars
  <2>4. CASE Close
    BY <2>4, CallHistory, CallDInv, Zenon DEF Close, historyVars, storeVars
  <2>5. CASE \E batch \in Batch : ApplyBatch(batch) \/ WaitForFlush(batch)
    BY <2>3, <2>5, ApplyBatchDInv, Zenon
  <2>6. CASE \E data \in Contents : RestoreSnapshot(data) \/ RestoreFails(data)
    BY <2>6, RestoreHistory, RestoreFailsAborts, RestoreSnapshotDInv, Disorderly, Zenon
  <2>7. CASE Open \/ Resume \/ Flush \/ SnapshotStep \/ CloseFiles
    BY <2>7, CallHistory, OpenDInv, ResumeDInv, FlushDInv, SnapshotDInv, CloseFilesDInv, Zenon
  <2> QED BY <1>2, <2>1, <2>2, <2>4, <2>5, <2>6, <2>7, Zenon DEF Next
<1> QED BY <1>1, <1>2, Zenon

LEMMA DInvReads ==
    ASSUME NumberFacts, Inv, DInv
    PROVE  ReadsLatest
BY ReadsStored, Zenon DEF ReadsLatest

LEMMA DInvSnapshot ==
    ASSUME Inv, DInv
    PROVE  SnapshotExact
<1> SUFFICES ASSUME orderly, snapshot # NoTable, snapshot.keys = {}, ~flushErr
             PROVE  snapshot.pairs = store
  BY Zenon DEF SnapshotExact
<1>1. \A k \in Key : snapshot.pairs[k] = store[k]
  BY Zenon DEF DInv, SnapshotSoFar
<1>2. snapshot.pairs \in Contents /\ store \in Contents
  BY Types, Zenon DEF Inv, CallTypes, Snapshots
<1> QED BY <1>1, <1>2 DEF Contents

LessThan == {ss \in Nat \X Nat : ss[1] < ss[2]}

\* Every nonempty set of naturals has a least element.
LEMMA SmallestExists ==
    ASSUME NEW T \in SUBSET Nat, T # {}
    PROVE  \E x \in T : \A y \in T : x <= y
<1>1. IsWellFoundedOn(LessThan, Nat)
  BY NatLessThanWellFounded DEF OpToRel, LessThan
<1>2. PICK x \in T : \A y \in T : ~ (<<y, x>> \in LessThan)
  BY <1>1, WFMin, Zenon
<1>3. ASSUME NEW y \in T PROVE x <= y
  <2>1. <<y, x>> \in Nat \X Nat
    OBVIOUS
  <2>2. ~(y < x)
    BY <1>2, <2>1 DEF LessThan
  <2> QED BY <2>2
<1> QED BY <1>3

\* Every nonempty set of naturals below a bound has a greatest element.
LEMMA LargestExists ==
    ASSUME NEW b \in Nat, NEW T \in SUBSET (0..b), T # {}
    PROVE  \E x \in T : \A y \in T : y <= x
<1> DEFINE U == {b - y : y \in T}
<1>1. \A y \in T : b - y \in Nat
  OBVIOUS
<1>2. U \in SUBSET Nat
  BY <1>1
<1>3. U # {}
  BY Zenon
<1>4. PICK u \in U : \A z \in U : u <= z
  BY <1>2, <1>3, SmallestExists, Zenon
<1>5. PICK x \in T : u = b - x
  BY <1>4
<1>6. ASSUME NEW y \in T PROVE y <= x
  <2>1. b - y \in U
    OBVIOUS
  <2>2. u <= b - y
    BY <1>4, <2>1
  <2>3. b \in Nat /\ x \in 0..b /\ y \in 0..b
    BY Zenon
  <2> QED BY <1>5, <2>2, <2>3
<1> QED BY <1>6

-----------------------------------------------------------------------------
LEMMA NumberFactsHold == NumberFacts
<1>1. ASSUME NEW b \in Nat, NEW T \in SUBSET (0..b) PROVE Cardinality(T) \in Nat
  <2>1. 0 \in Int /\ b \in Int
    OBVIOUS
  <2>2. IsFiniteSet(0..b)
    BY <2>1, FS_Interval
  <2>3. IsFiniteSet(T)
    BY <2>2, FS_Subset
  <2> QED BY <2>3, FS_CardinalityType
<1>2. ASSUME NEW b \in Nat, NEW T \in SUBSET (0..b), T # {} PROVE \E x \in T : \A y \in T : y <= x
  BY <1>2, LargestExists
<1>3. ASSUME NEW T \in SUBSET Nat, T # {} PROVE \E x \in T : \A y \in T : x <= y
  BY <1>3, SmallestExists
<1> QED BY <1>1, <1>2, <1>3, Zenon DEF NumberFacts

\* Once RestoreSnapshot has failed, nothing more is claimed.
LEMMA AbortedStays ==
    ASSUME [Next]_vars, ~Unaborted
    PROVE  ~Unaborted'
<1>1. CASE UNCHANGED vars
  BY <1>1 DEF vars, historyVars, Unaborted
<1>2. CASE Next
  <2>1. mishaps' = mishaps \/ \E m : mishaps' = mishaps \cup {m}
    <3>1. CASE CrashStep
      BY <3>1, Zenon DEF CrashStep, Crash, CrashInOpen, CrashInAppend, CrashAfterCommit, CrashBeforeCommit,
                         historyVars
    <3>2. CASE FlushStep
      BY <3>2, Zenon DEF FlushStep, FlushWrite, FlushFails, FlushInstall, FlushCleanup, historyVars
    <3>3. ASSUME NEW files, NEW table, StartFlush(files, table)
          PROVE  mishaps' = mishaps \/ \E m : mishaps' = mishaps \cup {m}
      BY <3>3, Zenon DEF StartFlush, Overlapping
    <3>4. ASSUME NEW batch, Write(batch)
          PROVE  mishaps' = mishaps \/ \E m : mishaps' = mishaps \cup {m}
      BY <3>3, <3>4, Zenon DEF Write, Apply, AppendFails
    <3>5. CASE \E batch \in Batch : ApplyBatch(batch) \/ WaitForFlush(batch)
      BY <3>4, <3>5, Zenon DEF ApplyBatch, WaitForFlush, historyVars
    <3>6. CASE Resume
      BY <3>4, <3>6, Zenon DEF Resume, historyVars
    <3>7. CASE \E data \in Contents : RestoreSnapshot(data) \/ RestoreFails(data)
      BY <3>7, Zenon DEF RestoreSnapshot, RestoreFails
    <3>8. CASE Open \/ Flush \/ SnapshotStep \/ Close \/ CloseFiles
      BY <3>3, <3>8, Zenon DEF Open, Flush, SnapshotStep, SnapshotCollect, SnapshotGet, SnapshotReturn,
                               Close, CloseFiles, historyVars
    <3> QED BY <1>2, <3>1, <3>2, <3>5, <3>6, <3>7, <3>8, Zenon DEF Next
  <2> QED BY <2>1 DEF Unaborted
<1> QED BY <1>1, <1>2, Zenon

LEMMA InvAlways == Spec => [](Unaborted => Inv)
<1>1. Inv /\ Unaborted' /\ [Next]_vars => Inv'
  BY InvNext, NumberFactsHold
<1>2. ~Unaborted /\ [Next]_vars => ~Unaborted'
  BY AbortedStays
<1> QED BY <1>1, <1>2, InvInit, PTL DEF Spec

LEMMA DInvAlways == Spec => [](Unaborted => Inv /\ DInv)
<1>1. Inv /\ Inv' /\ DInv /\ [Next]_vars => DInv'
  BY DInvNext, NumberFactsHold
<1>2. ~Unaborted /\ [Next]_vars => ~Unaborted'
  BY AbortedStays
<1> QED BY <1>1, <1>2, DInvInit, InvAlways, PTL DEF Spec

LEMMA OrderlyUnaborted == orderly => Unaborted
BY DEF orderly, Unaborted

\* A new WAL or SSTable never takes the name of a file that is there, superseded
\* or not (nextWALSeq, nextFlushSeq, newSeq of RestoreSnapshot).
THEOREM NamesAreFresh == Spec => []NumbersFresh
<1>1. Inv => NumbersFresh
  BY InvFresh
<1>2. ~Unaborted => NumbersFresh
  BY DEF Unaborted, NumbersFresh
<1> QED BY <1>1, <1>2, InvAlways, PTL

\* The active WAL holds exactly what the memtable holds, and that of a flush what
\* the frozen memtable holds (AppendBatch, startFlushLocked, Open).
THEOREM WalsMatchMemtables == Spec => []LoggedExactly
<1>1. Inv => LoggedExactly
  BY InvLogged
<1>2. ~Unaborted => LoggedExactly
  BY DEF Unaborted, LoggedExactly
<1> QED BY <1>1, <1>2, InvAlways, PTL

\* At every moment the files of the directory hold exactly what the acknowledged
\* operations add up to, through any number of writes, flushes, restores,
\* crashes and restarts (AppendBatch, runFlush, Open, RestoreSnapshot).
THEOREM DirectoryIsDurable == Spec => []Durable
<1>1. DInv => Durable
  BY DEF DInv
<1>2. ~Unaborted => Durable
  BY OrderlyUnaborted DEF Durable
<1> QED BY <1>1, <1>2, DInvAlways, PTL

\* Every Get returns what the acknowledged operations left, whatever a flush, a
\* restore or a recovery is doing, unless a flush has failed (Get, runFlush).
THEOREM GetsReadLatest == Spec => []ReadsLatest
<1>1. Inv /\ DInv => ReadsLatest
  BY DInvReads, NumberFactsHold
<1>2. ~Unaborted => ReadsLatest
  BY OrderlyUnaborted DEF ReadsLatest
<1> QED BY <1>1, <1>2, DInvAlways, PTL

\* A Snapshot that has read all its keys holds exactly the live pairs, although
\* flushes went on between its Gets, unless one has failed (Snapshot).
THEOREM SnapshotsAreExact == Spec => []SnapshotExact
<1>1. Inv /\ DInv => SnapshotExact
  BY DInvSnapshot
<1>2. ~Unaborted => SnapshotExact
  BY OrderlyUnaborted DEF SnapshotExact
<1> QED BY <1>1, <1>2, DInvAlways, PTL

=============================================================================
