---------------------------- MODULE RaftStorage -----------------------------
(***************************************************************************)
(* What one Raft node keeps on disk: raft.Node.Persist (node.go), Ready    *)
(* and Advance (raft.go), PersistentStorage (storage.go) and the log file  *)
(* below it (wal.go, replay.go).                                           *)
(*                                                                         *)
(* Every operation on a file is a step of its own that may succeed, fail,  *)
(* or be cut short by a crash.  Module Raft takes for granted what this    *)
(* one shows: a node sends a message only when a restart would find what   *)
(* the message says.                                                       *)
(*                                                                         *)
(* A file is [recs, synced, torn]: whole records, how many of them are     *)
(* known to survive a power loss, and whether a broken one follows.        *)
(* Payloads are left out; a log entry is its index and its term.           *)
(***************************************************************************)
EXTENDS Integers, Sequences

CONSTANTS
    Server, Nil,   \* whom a vote may be for; Nil: no vote
    MaxTerm,       \* bound: terms
    MaxIndex,      \* bound: log entries
    MaxSteps,      \* bound: handlers run
    MaxCrashes,    \* bound: crashes
    MaxErrors,     \* bound: file operations that fail
    RenameIsDurable \* does a rename survive a power loss at once?

ASSUME StorageBounds ==
    /\ {MaxTerm, MaxIndex, MaxSteps, MaxCrashes, MaxErrors} \subseteq Nat
    /\ Nil \notin Server
    /\ RenameIsDurable \in BOOLEAN

VARIABLES
    mem,      \* the node: term, vote, snapshot boundary and the log after it
    stable,   \* its stableTerm, stableVote, stableSnapshotIndex, unstableIndex
    todo,     \* what is left of the Persist under way, in file operations
    path,     \* the file at s.path
    tmp,      \* the file at tmpPath, or NoFile
    replaced, \* the file a rename that may be undone replaced, or NoFile
    handle,   \* s.w: does it write to path, can it still write?
    sent,     \* history: mem as of the last Persist that succeeded, less
              \* the entries the node has been told to drop since
    steps, crashes, errors

files == <<path, tmp, replaced, handle>>
vars == <<mem, stable, todo, files, sent, steps, crashes, errors>>

-----------------------------------------------------------------------------
Max(a, b) == IF a >= b THEN a ELSE b
Min(a, b) == IF a <= b THEN a ELSE b

\* entries[n] is the term of the entry at index base + n.
Started == [term |-> 0, vote |-> Nil, base |-> 0, baseTerm |-> 0, entries |-> <<>>]

LastIndex(m)  == m.base + Len(m.entries)
TermAt(m, i)  == IF i = m.base THEN m.baseTerm ELSE m.entries[i - m.base]
EntriesFrom(m, i) ==
    [n \in 1..(LastIndex(m) - i + 1) |-> [index |-> i + n - 1, term |-> TermAt(m, i + n - 1)]]

\* The four kinds of record.
HardState(m)       == [kind |-> "hardState", term |-> m.term, vote |-> m.vote]
LogEntry(e)        == [kind |-> "logEntry", entry |-> e]
TruncateFrom(i)    == [kind |-> "truncateFrom", from |-> i]
SnapshotRecord(m)  == [kind |-> "snapshot", index |-> m.base, term |-> m.baseTerm]

LogEntries(es) == [n \in DOMAIN es |-> LogEntry(es[n])]

-----------------------------------------------------------------------------
(***************************************************************************)
(* OpenStorage: replay the records.                                        *)
(***************************************************************************)
Nothing == [term |-> 0, vote |-> Nil, base |-> 0, baseTerm |-> 0, log |-> <<>>]

ReplayRecord(r, rec) ==
    CASE rec.kind = "hardState"    -> [r EXCEPT !.term = rec.term, !.vote = rec.vote]
      [] rec.kind = "logEntry"     -> [r EXCEPT !.log = Append(@, rec.entry)]
      [] rec.kind = "truncateFrom" -> [r EXCEPT !.log = SelectSeq(@, LAMBDA e : e.index < rec.from)]
      [] rec.kind = "snapshot"     -> [r EXCEPT !.base = rec.index, !.baseTerm = rec.term,
                                                !.log = SelectSeq(@, LAMBDA e : e.index > rec.index)]

Replay(recs) ==
    LET after[n \in 0..Len(recs)] ==
            IF n = 0 THEN Nothing ELSE ReplayRecord(after[n - 1], recs[n])
    IN  after[Len(recs)]

\* The node OpenNode builds: position in the log and index are tied together.
Restored(r) ==
    [term |-> r.term, vote |-> r.vote, base |-> r.base, baseTerm |-> r.baseTerm,
     entries |-> [n \in DOMAIN r.log |-> r.log[n].term]]

StableOf(m) == [term |-> m.term, vote |-> m.vote, base |-> m.base, unstable |-> LastIndex(m) + 1]

-----------------------------------------------------------------------------
(***************************************************************************)
(* Files.                                                                  *)
(***************************************************************************)
NoFile    == [exists |-> FALSE, recs |-> <<>>, synced |-> 0, torn |-> FALSE]
EmptyFile == [NoFile EXCEPT !.exists = TRUE]

\* A whole batch written and fsynced.
Written(f, recs) == [f EXCEPT !.recs = @ \o recs, !.synced = Len(f.recs) + Len(recs)]

\* A batch that was written, but fsync failed.
Unsynced(f, recs) == [f EXCEPT !.recs = @ \o recs]

\* A batch cut short: some of its records, and perhaps part of the next.
CutShort(f, recs) ==
    {[f EXCEPT !.recs = @ \o SubSeq(recs, 1, n), !.torn = t] :
        n \in 0..(Len(recs) - 1), t \in BOOLEAN}

\* What a crash may leave of a file: what was not synced may be gone.
Survives(f) ==
    {[f EXCEPT !.recs = SubSeq(f.recs, 1, n), !.torn = t] :
        n \in f.synced..Len(f.recs), t \in BOOLEAN}

\* Replay drops a torn tail from the file.
Repaired(f) == [f EXCEPT !.torn = FALSE, !.synced = Len(f.recs)]

Init ==
    /\ mem = Started
    /\ stable = StableOf(Started)
    /\ todo = <<>>
    /\ path = EmptyFile
    /\ tmp = NoFile
    /\ replaced = NoFile
    /\ handle = [on |-> TRUE, state |-> "open"]
    /\ sent = Started
    /\ steps = 0
    /\ crashes = 0
    /\ errors = 0

-----------------------------------------------------------------------------
(***************************************************************************)
(* Persist, planned from what Ready reports.                               *)
(***************************************************************************)
Op(what, recs) == [op |-> what, recs |-> recs]

\* Mutant: the old file is replaced first and the records are written then.
SaveSnapshotInPlace(m) ==
    <<Op("open tmp", <<>>), Op("close tmp", <<>>), Op("rename", <<>>),
      Op("close", <<>>), Op("reopen", <<>>),
      Op("append", <<HardState(m)>>), Op("append", <<SnapshotRecord(m)>>)>>
    \o (IF m.entries = <<>> THEN <<>>
        ELSE <<Op("append", LogEntries(EntriesFrom(m, m.base + 1)))>>)

\* SaveSnapshot: a new file with the hard state, the boundary and what follows
\* it takes the place of the old one.
SaveSnapshot(m) ==
    <<Op("open tmp", <<>>),
      Op("append tmp", <<HardState(m)>>),
      Op("append tmp", <<SnapshotRecord(m)>>)>>
    \o (IF m.entries = <<>> THEN <<>>
        ELSE <<Op("append tmp", LogEntries(EntriesFrom(m, m.base + 1)))>>)
    \o <<Op("close tmp", <<>>), Op("rename", <<>>), Op("close", <<>>), Op("reopen", <<>>)>>

SaveHardState(m) == Op("append", <<HardState(m)>>)

\* Mutant: no marker.
SaveEntriesUnmarked(m, i) == Op("append", LogEntries(EntriesFrom(m, i)))

\* SaveEntries: the marker and the entries are one batch.
SaveEntries(m, i) == Op("append", <<TruncateFrom(i)>> \o LogEntries(EntriesFrom(m, i)))

Persist(m, st) ==
    IF m.base > st.base THEN SaveSnapshot(m)
    ELSE (IF m.term # st.term \/ m.vote # st.vote THEN <<SaveHardState(m)>> ELSE <<>>)
         \o (IF LastIndex(m) >= st.unstable THEN <<SaveEntries(m, st.unstable)>> ELSE <<>>)

Advance(m, st) ==
    [term |-> m.term, vote |-> m.vote, base |-> m.base,
     unstable |-> IF LastIndex(m) >= st.unstable THEN LastIndex(m) + 1 ELSE st.unstable]

-----------------------------------------------------------------------------
(***************************************************************************)
(* What changes the node.  Each handler is followed by Persist.            *)
(***************************************************************************)
Idle == todo = <<>>

Begins == Idle /\ steps < MaxSteps /\ steps' = steps + 1

\* Persist starts; with nothing to save it is over at once.
StartPersist(m, st, kept) ==
    LET plan == Persist(m, st)
    IN  /\ todo' = plan
        /\ mem' = m
        /\ IF plan = <<>> THEN stable' = Advance(m, st) /\ sent' = m
                          ELSE stable' = st /\ sent' = kept
        /\ UNCHANGED <<files, crashes, errors>>

\* The node is told that its entries from index i on are not in the log.
Forget(i) == [sent EXCEPT !.entries = SubSeq(@, 1, Min(Len(@), Max(i - sent.base - 1, 0)))]

\* A later term empties the vote.
AtTerm(t) == IF t > mem.term THEN [mem EXCEPT !.term = t, !.vote = Nil] ELSE mem

\* becomeFollower, startElection, and a vote granted.
SetHardState(t, v) ==
    /\ Begins
    /\ \/ t > mem.term
       \/ t = mem.term /\ mem.vote = Nil /\ v # Nil
    /\ StartPersist([mem EXCEPT !.term = t, !.vote = v], stable, sent)

\* Mutant: a conflict does not move unstableIndex back.
AppendAtKeepsUnstable(t, k, es) ==
    /\ Begins
    /\ t >= mem.term
    /\ k > mem.base /\ k <= LastIndex(mem) + 1
    /\ k + Len(es) - 1 <= MaxIndex
    /\ \A n \in DOMAIN es : es[n] \in TermAt(mem, k - 1)..t
    /\ \A n, p \in DOMAIN es : n < p => es[n] <= es[p]
    /\ k <= LastIndex(mem) => TermAt(mem, k) # es[1]
    /\ StartPersist([AtTerm(t) EXCEPT !.entries = SubSeq(@, 1, k - mem.base - 1) \o es],
                    stable, Forget(k))

\* Entries of terms es from index k on: a proposal, or AppendEntries of a leader
\* of term t, whose first entry is new here or conflicts with the one in place.
AppendAt(t, k, es) ==
    /\ Begins
    /\ t >= mem.term
    /\ k > mem.base /\ k <= LastIndex(mem) + 1
    /\ k + Len(es) - 1 <= MaxIndex
    /\ \A n \in DOMAIN es : es[n] \in TermAt(mem, k - 1)..t
    /\ \A n, p \in DOMAIN es : n < p => es[n] <= es[p]
    /\ k <= LastIndex(mem) => TermAt(mem, k) # es[1]
    /\ StartPersist([AtTerm(t) EXCEPT !.entries = SubSeq(@, 1, k - mem.base - 1) \o es],
                    [stable EXCEPT !.unstable = Min(@, k)], Forget(k))

\* handleInstallSnapshot.
InstallSnapshot(t, i, u) ==
    /\ Begins
    /\ t >= mem.term
    /\ i > mem.base
    /\ u \in Max(1, mem.baseTerm)..t
    /\ StartPersist([AtTerm(t) EXCEPT !.base = i, !.baseTerm = u, !.entries = <<>>],
                    [stable EXCEPT !.unstable = i + 1], Forget(i + 1))

\* maybeSnapshot, at the end of a pump whose Persist succeeded: the file is
\* rewritten at the next Persist.
CreateSnapshot(i) ==
    /\ Begins
    /\ Persist(mem, stable) = <<>>
    /\ i > mem.base /\ i <= LastIndex(mem)
    /\ mem' = [mem EXCEPT !.base = i, !.baseTerm = TermAt(mem, i),
                          !.entries = SubSeq(@, i - mem.base + 1, Len(@))]
    /\ stable' = [stable EXCEPT !.unstable = Max(@, i + 1)]
    /\ UNCHANGED <<todo, files, sent, crashes, errors>>

\* Any step that leaves the state alone (a tick, a heartbeat) tries again.
Tick ==
    /\ Begins
    /\ Persist(mem, stable) # <<>>
    /\ StartPersist(mem, stable, sent)

-----------------------------------------------------------------------------
(***************************************************************************)
(* The file operations of Persist, in order.                               *)
(***************************************************************************)
Doing(what) == ~Idle /\ Head(todo).op = what

Succeeds ==
    /\ todo' = Tail(todo)
    /\ IF Tail(todo) = <<>>
       THEN stable' = Advance(mem, stable) /\ sent' = mem
       ELSE UNCHANGED <<stable, sent>>
    /\ UNCHANGED <<mem, steps, crashes, errors>>

\* Persist returns the error: nothing is sent, and Ready reports the same again.
Aborts ==
    /\ todo' = <<>>
    /\ UNCHANGED <<mem, stable, sent, steps, crashes>>

Fails == Aborts /\ errors < MaxErrors /\ errors' = errors + 1

\* AppendBatch on s.w.  A failed write leaves a broken tail, and the buffered
\* writer refuses everything after it; a failed fsync leaves the records.
AppendRecords ==
    LET recs == Head(todo).recs
    IN  /\ Doing("append")
        /\ \/ /\ handle.state = "open"
              /\ path' = IF handle.on THEN Written(path, recs) ELSE path
              /\ Succeeds
              /\ UNCHANGED <<tmp, replaced, handle>>
           \/ /\ handle.state = "open"
              /\ path' \in CutShort(path, recs)
              /\ handle' = [handle EXCEPT !.state = "broken"]
              /\ Fails
              /\ UNCHANGED <<tmp, replaced>>
           \/ /\ handle.state = "open"
              /\ path' = Unsynced(path, recs)
              /\ Fails
              /\ UNCHANGED <<tmp, replaced, handle>>
           \/ /\ handle.state # "open"
              /\ Aborts
              /\ UNCHANGED <<files, errors>>

\* removeFile, then wal.Open.
OpenTmp ==
    /\ Doing("open tmp")
    /\ \/ tmp' = EmptyFile /\ Succeeds
       \/ tmp' = NoFile /\ Fails
    /\ UNCHANGED <<path, replaced, handle>>

AppendTmp ==
    /\ Doing("append tmp")
    /\ \/ tmp' = Written(tmp, Head(todo).recs) /\ Succeeds
       \/ tmp' = NoFile /\ Fails
    /\ UNCHANGED <<path, replaced, handle>>

CloseTmp ==
    /\ Doing("close tmp")
    /\ \/ UNCHANGED tmp /\ Succeeds
       \/ tmp' = NoFile /\ Fails
    /\ UNCHANGED <<path, replaced, handle>>

Rename ==
    /\ Doing("rename")
    /\ \/ /\ path' = tmp
          /\ tmp' = NoFile
          /\ replaced' = IF RenameIsDurable THEN NoFile ELSE path
          /\ handle' = [handle EXCEPT !.on = FALSE]
          /\ Succeeds
       \/ UNCHANGED files /\ Fails

\* Closing a handle whose writer is broken reports that error once.
CloseHandle ==
    /\ Doing("close")
    /\ handle' = [handle EXCEPT !.state = "closed"]
    /\ \/ handle.state # "broken" /\ Succeeds
       \/ handle.state = "broken" /\ Aborts /\ UNCHANGED errors
       \/ handle.state = "open" /\ Fails
    /\ UNCHANGED <<path, tmp, replaced>>

Reopen ==
    /\ Doing("reopen")
    /\ \/ handle' = [on |-> TRUE, state |-> "open"] /\ Succeeds
       \/ UNCHANGED handle /\ Fails
    /\ UNCHANGED <<path, tmp, replaced>>

-----------------------------------------------------------------------------
\* What a crash now may leave at path, the operation under way included.
AfterCrash ==
    LET now == {path}
            \cup (IF Doing("append") /\ handle.state = "open" /\ handle.on
                  THEN CutShort(path, Head(todo).recs) \cup {Unsynced(path, Head(todo).recs)}
                  ELSE {})
            \cup (IF Doing("rename") THEN {tmp} ELSE {})
            \cup (IF replaced.exists THEN {replaced} ELSE {})
    IN  UNION {Survives(f) : f \in now}

\* The process or the machine stops, and OpenNode runs on what is left.
CrashAndRestart ==
    /\ crashes < MaxCrashes
    /\ crashes' = crashes + 1
    /\ \E f \in AfterCrash :
          LET m == Restored(Replay(f.recs))
          IN  /\ path' = Repaired(f)
              /\ mem' = m
              /\ stable' = StableOf(m)
              /\ sent' = m
    /\ todo' = <<>>
    /\ handle' = [on |-> TRUE, state |-> "open"]
    /\ replaced' = NoFile
    /\ UNCHANGED <<tmp, steps, errors>>

FileStep ==
    AppendRecords \/ OpenTmp \/ AppendTmp \/ CloseTmp \/ Rename \/ CloseHandle \/ Reopen

Handler ==
    \/ \E t \in 1..MaxTerm :
          \/ \E v \in Server \cup {Nil} : SetHardState(t, v)
          \/ \E k \in 1..MaxIndex : \E es \in [1..1 -> 1..t] \cup [1..2 -> 1..t] : AppendAt(t, k, es)
          \/ \E i \in 1..MaxIndex, u \in 1..t : InstallSnapshot(t, i, u)
    \/ \E i \in 1..MaxIndex : CreateSnapshot(i)
    \/ Tick

Next == Handler \/ FileStep \/ CrashAndRestart

Spec == Init /\ [][Next]_vars

-----------------------------------------------------------------------------
(***************************************************************************)
(* Properties.                                                             *)
(***************************************************************************)
\* Persist comes before send (node.go, Persist): whatever file a crash leaves,
\* a restart finds the term, the vote and the entries that any message sent so
\* far rests on, unless a leader has told the node to drop them since.
SentIsRecoverable ==
    \A f \in AfterCrash :
        LET m == Restored(Replay(f.recs))
        IN  /\ m.term >= sent.term
            /\ m.term = sent.term => sent.vote \in {Nil, m.vote}
            /\ m.base >= sent.base
            /\ \A i \in (m.base + 1)..LastIndex(sent) :
                  i <= LastIndex(m) /\ TermAt(m, i) = TermAt(sent, i)

\* OpenStorage (storage.go) hands restoreState a log whose entries are numbered
\* from the snapshot on without a gap or a repetition and whose terms do not
\* decrease, whatever prefix of whatever rewrite a crash leaves.
RecoveredIsLog ==
    \A f \in AfterCrash :
        LET r == Replay(f.recs)
        IN  /\ \A n \in DOMAIN r.log : r.log[n].index = r.base + n
            /\ \A n \in DOMAIN r.log :
                  r.log[n].term >= (IF n = 1 THEN r.baseTerm ELSE r.log[n - 1].term)

\* When Ready has nothing to report, a restart would bring back this very node.
NothingUnsavedMeansSaved ==
    Idle /\ Persist(mem, stable) = <<>> =>
        \A f \in AfterCrash : Restored(Replay(f.recs)) = mem

=============================================================================
