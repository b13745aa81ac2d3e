------------------------------- MODULE Server -------------------------------
(***************************************************************************)
(* Package server (server.go) on one node: the Run goroutine that owns the *)
(* Raft node and the engine, the goroutines of the clients that call Put,  *)
(* Delete and LinearizableGet, Stop, and the restart of the process by     *)
(* cmd/kvstore (main.go).                                                  *)
(*                                                                         *)
(* The Raft node is seen through the raftNode interface the server uses.   *)
(* What Raft does is an environment: the log of this node may change in    *)
(* any way that keeps what is committed, `chosen' being the commands the   *)
(* cluster has committed (module Raft shows where that comes from).        *)
(* A command is a model value with a key: the value a key holds is the     *)
(* last command that wrote it, so a delete is a command like any other.    *)
(*                                                                         *)
(* One case of Run's select is one action, the pump it ends with included: *)
(* the other goroutines meet Run only at channels, and at the engine.      *)
(***************************************************************************)
EXTENDS Integers, Sequences, FiniteSets

CONSTANTS
    Put,            \* calls of Put and Delete
    Get,            \* calls of LinearizableGet
    Key, Command,
    Data,           \* Data[c]: the command the call c \in Put proposes
    KeyOf,          \* KeyOf[d]: the key the command d writes
    KeyRead,        \* KeyRead[c]: the key the call c \in Get reads
    Nil,            \* "no command": the key was never written
    Linger,         \* is batchWindow > 0?
    MaxBatchSize, SnapshotThreshold,
    ChanSize,       \* proposeChBufferSize
    MaxIndex,       \* bound: length of the log, this node's proposals aside
    Scenarios       \* bounds: the calls that are made, and how often what fails

Call == Put \cup Get

\* The commands proposed at other nodes.
Foreign == Command \ {Data[c] : c \in Put}

ASSUME CallAssumption == Put \cap Get = {} /\ IsFiniteSet(Call)

ASSUME CommandAssumption ==
    /\ Data \in [Put -> Command]
    /\ KeyOf \in [Command -> Key]
    /\ KeyRead \in [Get -> Key]
    /\ Nil \notin Command

Scenario == [calls : SUBSET Call, crash : Nat, persist : Nat, restore : Nat, apply : Nat]

ASSUME ServerBounds ==
    /\ {MaxBatchSize, SnapshotThreshold, ChanSize, MaxIndex} \subseteq Nat
    /\ Scenarios \subseteq Scenario
    /\ Linger \in BOOLEAN

VARIABLES
    \* the Raft node, and what OpenNode would read back
    node, disk,
    chosen,              \* the commands the cluster has committed, in order
    eng,                 \* eng[k]: the last command applied to k
    \* owned by Run
    running,             \* Run has not returned: doneCh is open
    pending,             \* the batch being accumulated
    batchTimer,          \* is batchTimerC armed?
    lastApplied, lastSnapshotIndex,
    waiters,             \* index -> the call whose command was proposed there
    pendingReadIndexes,  \* context -> the call waiting for its confirmation
    nextReadCtx,
    \* shared
    proposeCh, readIndexCh,
    stopCh,              \* closed by Stop
    resultCh,            \* of a call: a channel that holds one result
    status,              \* of a call: calling, waiting, ok or err
    left,                \* of the scenario: what may still fail, for the bounds
    \* history
    engineFailed,        \* has RestoreSnapshot or ApplyBatch failed?
    rolledBack           \* has a snapshot taken committed entries off the log?

raftVars   == <<node, disk, chosen, rolledBack>>
applyVars  == <<eng, lastApplied, lastSnapshotIndex>>
batchVars  == <<pending, batchTimer>>
waitVars   == <<waiters, pendingReadIndexes, nextReadCtx>>
clientVars == <<proposeCh, readIndexCh, status>>
failVars   == <<left, engineFailed>>
vars == <<raftVars, applyVars, batchVars, waitVars, clientVars, resultCh, running, stopCh, failVars>>

-----------------------------------------------------------------------------
Max(a, b) == IF a >= b THEN a ELSE b
Min(a, b) == IF a <= b THEN a ELSE b

Range(f) == {f[x] : x \in DOMAIN f}

Values == [Key -> Command \cup {Nil}]

\* The engine after a batch of commands: the last one on a key wins.
ApplyBatch(e, cmds) ==
    [k \in Key |->
        LET on == {n \in DOMAIN cmds : KeyOf[cmds[n]] = k}
        IN  IF on = {} THEN e[k] ELSE cmds[CHOOSE n \in on : \A o \in on : o <= n]]

Empty == [k \in Key |-> Nil]

\* The store after the first n committed commands.
StateAt(n) == ApplyBatch(Empty, SubSeq(chosen, 1, n))

\* Does e lack nothing of the first n committed commands, and hold nothing that
\* is not committed?  It may be ahead on some keys: a restarted node applies
\* again what its engine already holds.
Reflects(e, n) == \A k \in Key : \E m \in n..Len(chosen) : e[k] = StateAt(m)[k]

NoSnapshot == [index |-> 0, data |-> Empty]

\* A node as OpenNode builds it from what is on disk.
Opened(d) ==
    [log |-> d.log, commit |-> d.snapshot.index, leader |-> FALSE,
     snapshot |-> d.snapshot, toApply |-> NoSnapshot,
     pendingReads |-> {}, readStates |-> {}]

Init ==
    /\ disk = [log |-> <<>>, snapshot |-> NoSnapshot]
    /\ node = Opened(disk)
    /\ chosen = <<>>
    /\ eng = Empty
    /\ running = TRUE
    /\ pending = <<>>
    /\ batchTimer = FALSE
    /\ lastApplied = 0
    /\ lastSnapshotIndex = 0
    /\ waiters = [i \in {} |-> Nil]
    /\ pendingReadIndexes = [x \in {} |-> Nil]
    /\ nextReadCtx = 1
    /\ proposeCh = <<>>
    /\ readIndexCh = <<>>
    /\ stopCh = FALSE
    /\ resultCh = [c \in Call |-> <<>>]
    /\ left \in Scenarios
    /\ status = [c \in Call |-> IF c \in left.calls THEN "calling" ELSE "err"]
    /\ engineFailed = FALSE
    /\ rolledBack = FALSE

-----------------------------------------------------------------------------
(***************************************************************************)
(* pump, as the last part of an action: n, w and r are the node and the    *)
(* two maps as the first part leaves them.                                 *)
(***************************************************************************)
Without(f, S) == [x \in DOMAIN f \ S |-> f[x]]

Stored(n) == [log |-> n.log, snapshot |-> n.snapshot]

\* What Advance forgets once Persist has returned it.
Advanced(n) == [n EXCEPT !.toApply = NoSnapshot, !.readStates = {}]

\* Mutants: one entry too late, and not the last one.
FirstSkips(n, start) == Max(start, n.snapshot.index) + 2
LastExcluded(n)      == Min(n.commit, Len(n.log)) - 1

\* node.Entries(start, commit): start is clamped up to the snapshot boundary.
First(n, start) == Max(start, n.snapshot.index) + 1
Last(n)         == Min(n.commit, Len(n.log))

\* Mutant of CreateSnapshot: labelled with the end of the log.
CreateSnapshotOfLog(n, i, data) == [n EXCEPT !.snapshot = [index |-> Len(n.log), data |-> data]]

\* The node drops the log up to i, which data stands for from now on.
CreateSnapshot(n, i, data) == [n EXCEPT !.snapshot = [index |-> i, data |-> data]]

\* Mutant of Outcome: whatever was committed at the index.
OutcomeUnchecked(n, c, i, applies) == [ok |-> applies, index |-> i]

\* The result of the call waiting at index i once the entry there is applied.
Outcome(n, c, i, applies) == [ok |-> applies /\ Data[c] = n.log[i], index |-> i]

\* applyCommitted and maybeSnapshot, on an engine that holds e and is up to date
\* to the index `from', and the read confirmations Persist returned.
\* `applies': ApplyBatch succeeds.
ApplyCommitted(n, w, r, e, from, snapped, applies) ==
    LET cmds    == SubSeq(n.log, First(n, from), Last(n))
        applied == IF cmds = <<>> THEN from ELSE Last(n)
        now     == IF applies THEN ApplyBatch(e, cmds) ELSE e
        due     == DOMAIN w \cap (First(n, from)..Last(n))
        read    == {s \in n.readStates : s.ctx \in DOMAIN r}
    IN  /\ applies \/ cmds # <<>>
        /\ eng' = now
        /\ lastApplied' = applied
        /\ waiters' = Without(w, due)
        /\ pendingReadIndexes' = Without(r, {s.ctx : s \in read})
        /\ resultCh' =
            [c \in Call |->
                IF \E i \in due : w[i] = c
                THEN Append(resultCh[c], Outcome(n, c, CHOOSE i \in due : w[i] = c, applies))
                ELSE IF \E s \in read : r[s.ctx] = c
                THEN Append(resultCh[c],
                            [ok |-> TRUE, index |-> (CHOOSE s \in read : r[s.ctx] = c).index])
                ELSE resultCh[c]]
        /\ \/ /\ SnapshotThreshold > 0
              /\ applied - snapped >= SnapshotThreshold
              /\ applied > n.snapshot.index /\ applied <= n.commit
              /\ node' = CreateSnapshot(Advanced(n), applied, now)
              /\ lastSnapshotIndex' = applied
           \/ /\ node' = Advanced(n)  \* not due, or taking it fails
              /\ lastSnapshotIndex' = snapped

\* Calls that fail: each takes one from what is left of its kind.
Fails(what) ==
    /\ \A w \in what : left[w] > 0
    /\ left' = [w \in DOMAIN left |-> IF w \in what THEN left[w] - 1 ELSE left[w]]
    /\ engineFailed' = (engineFailed \/ what \cap {"restore", "apply"} # {})

\* A snapshot that was received is restored first; if that fails, pump goes on.
\* When Persist fails, pump gives up, and the node keeps what it would have
\* handed out.
Pump(n, w, r) ==
    \/ \E what \in SUBSET {"restore", "apply"} :
        /\ disk' = Stored(n)
        /\ Fails(what)
        /\ \/ /\ n.toApply # NoSnapshot /\ "restore" \notin what
              /\ ApplyCommitted(n, w, r, n.toApply.data, n.toApply.index, n.toApply.index,
                                "apply" \notin what)
           \/ /\ n.toApply = NoSnapshot <=> "restore" \notin what
              /\ ApplyCommitted(n, w, r, eng, lastApplied, lastSnapshotIndex, "apply" \notin what)
    \/ /\ Fails({"persist"})
       /\ disk' \in {disk, Stored(n)}
       /\ node' = n
       /\ waiters' = w
       /\ pendingReadIndexes' = r
       /\ UNCHANGED <<applyVars, resultCh>>

-----------------------------------------------------------------------------
(***************************************************************************)
(* What a tick or a message may do to the node.  Any step of Raft is one   *)
(* of these, or several in a row.                                          *)
(***************************************************************************)
StepThenPump(n) ==
    /\ running
    /\ Pump(n, waiters, pendingReadIndexes)
    /\ UNCHANGED <<batchVars, nextReadCtx, clientVars, running, stopCh>>

\* Nothing changes: pump tries again what it could not persist.
Tick == StepThenPump(node) /\ UNCHANGED <<chosen, rolledBack>>

BecomeLeader ==
    /\ ~ node.leader
    /\ StepThenPump([node EXCEPT !.leader = TRUE, !.pendingReads = {}])
    /\ UNCHANGED <<chosen, rolledBack>>

BecomeFollower ==
    /\ node.leader
    /\ StepThenPump([node EXCEPT !.leader = FALSE])
    /\ UNCHANGED <<chosen, rolledBack>>

\* Another leader's entry replaces what was not committed.
HandleAppendEntries ==
    \E k \in Last(node)..Len(node.log), d \in Foreign :
        /\ k < MaxIndex
        /\ StepThenPump([node EXCEPT !.log = Append(SubSeq(node.log, 1, k), d), !.leader = FALSE])
        /\ UNCHANGED <<chosen, rolledBack>>

\* commitIndex moves up, here or because the leader says so.
CommitTo ==
    \E i \in (node.commit + 1)..Len(node.log) :
        /\ \A j \in 1..Min(i, Len(chosen)) : node.log[j] = chosen[j]
        /\ chosen' = IF i > Len(chosen) THEN SubSeq(node.log, 1, i) ELSE chosen
        /\ StepThenPump([node EXCEPT !.commit = i])
        /\ UNCHANGED rolledBack

\* Another node's snapshot replaces the log, with it also the entries after the
\* snapshot that were committed already: only the snapshot boundary is compared.
HandleInstallSnapshot ==
    \E i \in (node.snapshot.index + 1)..Len(chosen), data \in Values :
        /\ Reflects(data, i)
        /\ LET snap == [index |-> i, data |-> data]
           IN  StepThenPump([node EXCEPT !.log = SubSeq(chosen, 1, i), !.commit = Max(i, node.commit),
                                         !.snapshot = snap, !.toApply = snap, !.leader = FALSE])
        /\ rolledBack' = (rolledBack \/ i < node.commit)
        /\ UNCHANGED chosen

\* A majority has answered the round of a pending read.
ConfirmRead ==
    \E s \in node.pendingReads :
        /\ node.leader
        /\ StepThenPump([node EXCEPT !.pendingReads = @ \ {s}, !.readStates = @ \cup {s}])
        /\ UNCHANGED <<chosen, rolledBack>>

\* The rest of the cluster commits a command.
OthersCommit ==
    /\ Len(chosen) < MaxIndex
    /\ \E d \in Foreign : chosen' = Append(chosen, d)
    /\ UNCHANGED <<node, disk, rolledBack, applyVars, batchVars, waitVars, clientVars, resultCh,
                   running, stopCh, failVars>>

-----------------------------------------------------------------------------
(***************************************************************************)
(* The other cases of Run's select.                                        *)
(***************************************************************************)
Answer(calls, res) == [c \in Call |-> IF c \in calls THEN Append(resultCh[c], res) ELSE resultCh[c]]

Failed == [ok |-> FALSE, index |-> 0]

\* submitBatch: refused at once unless this node leads.
SubmitBatch(batch) ==
    LET old   == Len(node.log)
        datas == [n \in DOMAIN batch |-> Data[batch[n]]]
        w     == [i \in DOMAIN waiters \cup (old + 1)..(old + Len(batch)) |->
                    IF i - old \in DOMAIN batch THEN batch[i - old] ELSE waiters[i]]
    IN  \/ /\ node.leader
           /\ Pump([node EXCEPT !.log = @ \o datas], w, pendingReadIndexes)
        \/ /\ ~ node.leader
           /\ resultCh' = Answer(Range(batch), Failed)
           /\ UNCHANGED <<node, disk, applyVars, waiters, pendingReadIndexes, failVars>>

\* Mutant of TimerArmed: armed by the second proposal of a batch.
TimerArmedLate(batch) == batchTimer \/ Len(batch) = 2

\* The first proposal of a batch starts the window.
TimerArmed(batch) == batchTimer \/ Len(batch) = 1

ReceivePropose ==
    /\ running
    /\ proposeCh # <<>>
    /\ proposeCh' = Tail(proposeCh)
    /\ LET batch == Append(pending, Head(proposeCh))
       IN  \/ /\ ~ Linger \/ Len(batch) >= MaxBatchSize
              /\ SubmitBatch(batch)
              /\ pending' = <<>>
              /\ batchTimer' = FALSE
           \/ /\ Linger /\ Len(batch) < MaxBatchSize
              /\ pending' = batch
              /\ batchTimer' = TimerArmed(batch)
              /\ UNCHANGED <<node, disk, applyVars, waiters, pendingReadIndexes, resultCh,
                             failVars>>
    /\ UNCHANGED <<chosen, rolledBack, nextReadCtx, readIndexCh, status, running, stopCh>>

\* Mutant of BatchTimerFires: the batch is not cleared.
BatchTimerKeeps ==
    /\ running
    /\ batchTimer
    /\ SubmitBatch(pending)
    /\ batchTimer' = FALSE
    /\ UNCHANGED <<pending, chosen, rolledBack, nextReadCtx, clientVars, running, stopCh>>

BatchTimerFires ==
    /\ running
    /\ batchTimer
    /\ batchTimer' = FALSE
    /\ pending' = <<>>
    /\ SubmitBatch(pending)
    /\ UNCHANGED <<chosen, rolledBack, nextReadCtx, clientVars, running, stopCh>>

ReceiveReadIndex ==
    /\ running
    /\ readIndexCh # <<>>
    /\ readIndexCh' = Tail(readIndexCh)
    /\ nextReadCtx' = nextReadCtx + 1
    /\ LET c == Head(readIndexCh)
           r == [x \in DOMAIN pendingReadIndexes \cup {nextReadCtx} |->
                    IF x = nextReadCtx THEN c ELSE pendingReadIndexes[x]]
       IN  \/ /\ node.leader
              /\ Pump([node EXCEPT !.pendingReads = @ \cup {[ctx |-> nextReadCtx, index |-> node.commit]}],
                      waiters, r)
           \/ /\ ~ node.leader
              /\ resultCh' = Answer({c}, Failed)
              /\ UNCHANGED <<node, disk, applyVars, waiters, pendingReadIndexes, failVars>>
    /\ UNCHANGED <<chosen, rolledBack, batchVars, proposeCh, status, running, stopCh>>

\* Run returns: doneCh is closed, and whoever waits only for Run is told.
RunReturns(told) ==
    /\ running
    /\ running' = FALSE
    /\ resultCh' = Answer(told, Failed)
    /\ pending' = <<>>
    /\ batchTimer' = FALSE
    /\ UNCHANGED <<raftVars, applyVars, waiters, nextReadCtx, clientVars, stopCh, failVars>>

ReceiveStop ==
    /\ stopCh
    /\ RunReturns(Range(pending) \cup Range(pendingReadIndexes))
    /\ pendingReadIndexes' = Without(pendingReadIndexes, DOMAIN pendingReadIndexes)

\* The transport was closed under the server.
RecvClosed ==
    /\ RunReturns(Range(pending))
    /\ UNCHANGED pendingReadIndexes

-----------------------------------------------------------------------------
(***************************************************************************)
(* The goroutines of the clients, and Stop.                                *)
(***************************************************************************)
SetStatus(c, st) ==
    /\ status' = [status EXCEPT ![c] = st]
    /\ UNCHANGED <<raftVars, applyVars, batchVars, waitVars, running, stopCh, failVars>>

\* propose and LinearizableGet put the request on a channel.
Enqueue(c) ==
    /\ status[c] = "calling"
    /\ \/ /\ c \in Put /\ Len(proposeCh) < ChanSize
          /\ proposeCh' = Append(proposeCh, c)
          /\ UNCHANGED readIndexCh
       \/ /\ c \in Get /\ Len(readIndexCh) < ChanSize
          /\ readIndexCh' = Append(readIndexCh, c)
          /\ UNCHANGED proposeCh
    /\ SetStatus(c, "waiting")
    /\ UNCHANGED resultCh

\* The result is there; a confirmed LinearizableGet reads the engine now.
TakeResult(c) ==
    /\ status[c] = "waiting"
    /\ resultCh[c] # <<>>
    /\ SetStatus(c, IF resultCh[c][1].ok THEN "ok" ELSE "err")
    /\ resultCh' = [resultCh EXCEPT ![c] = Tail(@)]
    /\ UNCHANGED <<proposeCh, readIndexCh>>

\* Mutant of GiveUp: a call that has not been queued yet does not watch doneCh.
GiveUpQueued(c) ==
    /\ status[c] = "waiting"
    /\ SetStatus(c, "err")
    /\ UNCHANGED <<proposeCh, readIndexCh, resultCh>>

\* proposeTimeout, or doneCh.
GiveUp(c) ==
    /\ \/ status[c] = "waiting"
       \/ status[c] = "calling" /\ ~ running
    /\ SetStatus(c, "err")
    /\ UNCHANGED <<proposeCh, readIndexCh, resultCh>>

CallStop ==
    /\ ~ stopCh
    /\ stopCh' = TRUE
    /\ UNCHANGED <<raftVars, applyVars, batchVars, waitVars, clientVars, resultCh, running, failVars>>

\* The process dies, or exits after Stop; buildComponents starts the next one:
\* the engine is restored from the persisted snapshot, if there is one.
Restart ==
    /\ Fails({"crash"})
    /\ node' = Opened(disk)
    /\ eng' = IF disk.snapshot.index > 0 THEN disk.snapshot.data ELSE eng
    /\ lastApplied' = disk.snapshot.index
    /\ lastSnapshotIndex' = disk.snapshot.index
    /\ running' = TRUE
    /\ stopCh' = FALSE
    /\ pending' = <<>>
    /\ batchTimer' = FALSE
    /\ waiters' = [i \in {} |-> Nil]
    /\ pendingReadIndexes' = [x \in {} |-> Nil]
    /\ nextReadCtx' = 1
    /\ proposeCh' = <<>>
    /\ readIndexCh' = <<>>
    /\ resultCh' = [c \in Call |-> <<>>]
    /\ status' = [c \in Call |-> IF status[c] = "waiting" THEN "err" ELSE status[c]]
    /\ UNCHANGED <<disk, chosen, rolledBack>>

RaftStep ==
    \/ Tick \/ BecomeLeader \/ BecomeFollower \/ HandleAppendEntries
    \/ CommitTo \/ HandleInstallSnapshot \/ ConfirmRead

Run == RaftStep \/ ReceivePropose \/ BatchTimerFires \/ ReceiveReadIndex \/ ReceiveStop \/ RecvClosed

Client(c) == Enqueue(c) \/ TakeResult(c) \/ GiveUp(c)

Next == Run \/ (\E c \in Call : Client(c)) \/ CallStop \/ OthersCommit \/ Restart

\* Run keeps selecting, Go's select starves no ready case, timers fire.
Fairness ==
    /\ WF_vars(ReceivePropose)
    /\ WF_vars(BatchTimerFires)
    /\ WF_vars(ReceiveReadIndex)
    /\ WF_vars(ReceiveStop)
    /\ \A c \in Call : WF_vars(Client(c))

Spec == Init /\ [][Next]_vars /\ Fairness

-----------------------------------------------------------------------------
(***************************************************************************)
(* Properties.                                                             *)
(***************************************************************************)
\* A snapshot older than commitIndex takes committed entries off this node's log
\* (the run raft_snapshot_discards of module Raft).  What the node says after that
\* is no longer about the commands the cluster committed: the properties about
\* them hold up to that step.
Intact == ~ rolledBack

\* A Put or Delete is told it succeeded only if its command is the one the
\* cluster committed at the index it was proposed at: applyCommitted compares
\* the data before it answers a waiter.
AckedIsChosen ==
    Intact =>
        \A c \in Put : \A n \in DOMAIN resultCh[c] :
            LET res == resultCh[c][n]
            IN  res.ok => res.index <= Len(chosen) /\ chosen[res.index] = Data[c]

\* Nobody is answered twice.  A result channel holds one result, so a second send
\* would block Run, and with it the whole node, for good.
AnsweredOnce == \A c \in Call : Len(resultCh[c]) <= 1

\* The engine lacks no command up to lastApplied, and holds nothing that is not
\* committed, through restarts that apply the log again from the start and
\* persist failures, as long as the engine's own calls succeed.
EngineReflectsLog == Intact /\ ~ engineFailed => Reflects(eng, lastApplied)

\* So does every snapshot that is kept, on disk or in memory: the next restart,
\* and a follower that is behind, start from one.
SnapshotReflectsLog ==
    Intact /\ ~ engineFailed =>
        \A s \in {disk.snapshot, node.snapshot, node.toApply} : Reflects(s.data, s.index)

\* A LinearizableGet that was confirmed reads, whenever it gets to it, a value at
\* least as new as the index it was confirmed at: pump applies before it answers.
ReadSeesIndex ==
    Intact /\ ~ engineFailed =>
        \A c \in Get : status[c] = "waiting" => \A n \in DOMAIN resultCh[c] :
            LET res == resultCh[c][n]
            IN  res.ok => \E m \in res.index..Len(chosen) : eng[KeyRead[c]] = StateAt(m)[KeyRead[c]]

\* Every call returns, whatever Raft does and whenever Stop is called: also one
\* that finds proposeCh full.  A call that has returned stays returned, so each one
\* returns exactly when there is a moment at which all have.
EveryCallReturns == <>(\A c \in Call : status[c] \in {"ok", "err"})

\* A batch that has been begun is submitted, or refused, before long, and every
\* proposal that joined it with it: the window's timer is armed whenever a batch
\* is waiting, and is not lost when another batch is submitted early.
BatchIsSubmitted == pending # <<>> ~> pending = <<>>
=============================================================================
