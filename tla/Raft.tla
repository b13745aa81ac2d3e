-------------------------------- MODULE Raft --------------------------------
(***************************************************************************)
(* The raft package (raft.go, node.go) as the server's event loop drives   *)
(* it: one action per Tick, Step, ProposeBatch or RequestReadIndex call,   *)
(* and in the same action the pump that follows every such call            *)
(* (server.go): Persist, send, apply what is committed, maybe snapshot.    *)
(* One goroutine owns a node, so an event is atomic for the other nodes; a *)
(* crash inside an event is an action of its own (Crash, CrashInPersist).  *)
(*                                                                         *)
(* A log is [base, entries].  entries holds every entry the node's state   *)
(* reflects; the first base of them have been compacted away and exist     *)
(* only as Snapshot.Data, which is represented by the entries it reflects. *)
(* base is the index of the sentinel r.log[0] and LastIncludedIndex.       *)
(*                                                                         *)
(* Left out: the two tick counters (a timeout may fire at any time), and   *)
(* the wording of errors.                                                  *)
(***************************************************************************)
EXTENDS Integers, Sequences, FiniteSets

CONSTANTS
    Server,             \* the members of the cluster
    Value,              \* the commands a client may propose
    Nil,                \* "no vote", "no known leader": 0 in the code
    SnapshotThreshold,  \* server.SetSnapshotThreshold; 0 never snapshots
    MaxTerm,            \* bound: no election is started in this term
    MaxIndex,           \* bound: no proposal beyond this index
    MaxFlight,          \* bound: messages in flight on one connection
    MaxReads,           \* bound: read contexts one process hands out
    MaxTimeouts,        \* bound: election timeouts that fire
    MaxFaults           \* bound: crashes, broken connections, late deliveries

ASSUME ServerAssumption == IsFiniteSet(Server) /\ Nil \notin Server

ASSUME BoundsAssumption ==
    {SnapshotThreshold, MaxTerm, MaxIndex, MaxFlight, MaxReads, MaxTimeouts, MaxFaults}
        \subseteq Nat

Follower     == "Follower"
PreCandidate == "PreCandidate"
Candidate    == "Candidate"
Leader       == "Leader"

VARIABLES
    \* the Raft struct, one value per node
    role, currentTerm, votedFor, leaderID,
    preVotesReceived, votesReceived,
    log, commitIndex,
    nextIndex, matchIndex, sentIndex,
    pendingReads,  \* outstanding ReadIndex confirmations
    nextReadCtx,   \* the server's counter of read contexts
    readStates,    \* the ReadStates the last event's Persist returned
    disk,          \* what OpenStorage would recover: term, vote and log
    net,           \* net[<<i, j>>]: in flight from i to j
    timeouts, faults,  \* how many fired so far, for the bounds
    \* history variables: no action reads them
    elections,     \* every election won: term, leader, its voters and its log
    committed      \* the entries any node has ever counted as committed

electionVars == <<role, currentTerm, votedFor, leaderID, preVotesReceived, votesReceived>>
leaderVars   == <<nextIndex, matchIndex, sentIndex>>
readVars     == <<pendingReads, nextReadCtx>>
logVars      == <<log, commitIndex, disk, committed>>
boundVars    == <<timeouts, faults>>
vars == <<electionVars, leaderVars, readVars, logVars, boundVars, readStates, net, elections>>

-----------------------------------------------------------------------------
Max(a, b) == IF a >= b THEN a ELSE b
Min(a, b) == IF a <= b THEN a ELSE b

Peers(i) == Server \ {i}
Links    == {l \in Server \X Server : l[1] # l[2]}

\* A strict majority of the cluster: n >= clusterSize/2 + 1.
HasMajority(S) == Cardinality(S) >= (Cardinality(Server) \div 2) + 1

EmptyLog == [base |-> 0, entries |-> <<>>]

LastIndex(lg) == Len(lg.entries)

\* The term of the entry at an index, 0 where the log does not cover it.
TermAt(lg, index) ==
    IF index < lg.base \/ index > LastIndex(lg) \/ index = 0
    THEN 0
    ELSE lg.entries[index].term

LastTerm(lg) == TermAt(lg, LastIndex(lg))

\* The entries in (start, end], start clamped up to the snapshot boundary.
Entries(lg, start, end) ==
    SubSeq(lg.entries, Max(start, lg.base) + 1, Min(end, LastIndex(lg)))

\* Mutant of LogOK: the longer log wins, whatever its last term.
LongerLog(m, lg) == m.lastLogIndex >= LastIndex(lg)

\* Is a candidate whose log ends so at least as up to date as this log?
LogOK(m, lg) ==
    \/ m.lastLogTerm > LastTerm(lg)
    \/ m.lastLogTerm = LastTerm(lg) /\ m.lastLogIndex >= LastIndex(lg)

-----------------------------------------------------------------------------
(***************************************************************************)
(* The network: one FIFO queue per ordered pair of nodes, which is what    *)
(* transport's single cached connection per peer gives.  A connection that *)
(* breaks loses the newest messages.  After a redial the receiver's        *)
(* goroutine for the old connection may still be draining it, so the       *)
(* messages of the two connections interleave: Overtake.                   *)
(***************************************************************************)
Without(q, k) == SubSeq(q, 1, k - 1) \o SubSeq(q, k + 1, Len(q))

\* Node i handles the k-th message from j (none if k = 0) and sends out[p] to
\* every p \in DOMAIN out.  Send blocks while a connection is full.
Exchange(i, j, k, out) ==
    /\ \A p \in DOMAIN out : Len(net[<<i, p>>]) < MaxFlight
    /\ net' = [l \in Links |->
                IF k > 0 /\ l = <<j, i>> THEN Without(net[l], k)
                ELSE IF l[1] = i /\ l[2] \in DOMAIN out THEN Append(net[l], out[l[2]])
                ELSE net[l]]

Broadcast(i, out)   == Exchange(i, i, 0, out)
Reply(i, j, k, m)   == Exchange(i, j, k, [p \in {j} |-> m])
NoReply(i, j, k)    == Exchange(i, j, k, [p \in {} |-> Nil])

-----------------------------------------------------------------------------
(***************************************************************************)
(* pump.  lg, ci: the log and commit index the event left behind.  Persist *)
(* writes them first; then entries up to ci are applied and, once the      *)
(* applied index is SnapshotThreshold past the last snapshot, the log is   *)
(* compacted in memory.  That compaction only reaches the disk with the    *)
(* next event's Persist.                                                   *)
(***************************************************************************)
\* CreateSnapshot compacts the log up to an applied index.
CreateSnapshot(lg, index) == [lg EXCEPT !.base = index]

\* Mutant of MaybeSnapshot: compacts everything in the log.
SnapshotWholeLog(lg, ci) ==
    IF SnapshotThreshold > 0 /\ LastIndex(lg) >= lg.base + SnapshotThreshold
    THEN CreateSnapshot(lg, LastIndex(lg))
    ELSE lg

MaybeSnapshot(lg, ci) ==
    LET applied == Min(ci, LastIndex(lg))
    IN  IF SnapshotThreshold > 0 /\ applied >= lg.base + SnapshotThreshold
        THEN CreateSnapshot(lg, applied)
        ELSE lg

\* Mutants of Persisted: the vote, or the entries, are not written.
PersistedNoVote(i, lg) == [term |-> currentTerm'[i], vote |-> disk[i].vote, log |-> lg]
PersistedNoLog(i, lg)  == [disk[i] EXCEPT !.term = currentTerm'[i], !.vote = votedFor'[i]]

\* Persist: SaveHardState, then SaveEntries, or SaveSnapshot with both.
Persisted(i, lg) == [term |-> currentTerm'[i], vote |-> votedFor'[i], log |-> lg]

Pump(i, lg, ci) ==
    /\ disk' = [disk EXCEPT ![i] = Persisted(i, lg)]
    /\ log' = [log EXCEPT ![i] = MaybeSnapshot(lg, ci)]
    /\ commitIndex' = [commitIndex EXCEPT ![i] = ci]
    /\ committed' = IF ci > Len(committed)
                    THEN committed \o SubSeq(lg.entries, Len(committed) + 1, Min(ci, LastIndex(lg)))
                    ELSE committed

\* The event changed neither the log nor the commit index.
PumpOnly(i) == Pump(i, log[i], commitIndex[i])

-----------------------------------------------------------------------------
(***************************************************************************)
(* Messages.  send stamps every message with the sender's current term.    *)
(***************************************************************************)
PreVoteMsg(t, lg) ==
    [type |-> "PreVote", term |-> t,
     lastLogIndex |-> LastIndex(lg), lastLogTerm |-> LastTerm(lg)]

RequestVoteMsg(t, lg) ==
    [type |-> "RequestVote", term |-> t,
     lastLogIndex |-> LastIndex(lg), lastLogTerm |-> LastTerm(lg)]

VoteReply(type, t, granted) == [type |-> type, term |-> t, voteGranted |-> granted]

AppendReply(t, success, match, ctx) ==
    [type |-> "AppendEntriesResponse", term |-> t,
     success |-> success, matchIndex |-> match, readContext |-> ctx]

SnapshotReply(t, match) ==
    [type |-> "InstallSnapshotResponse", term |-> t, matchIndex |-> match]

\* sendAppendEntries: what a leader of term t sends a peer whose progress is
\* next, sent.  A peer behind the leader's own boundary gets the snapshot.
NeedsSnapshot(lg, next) == next - 1 < lg.base

AppendMsg(t, lg, ci, next, sent, ctx) ==
    LET prev == Max(next - 1, sent)
    IN  IF NeedsSnapshot(lg, next)
        THEN [type |-> "InstallSnapshot", term |-> t,
              snapshot |-> SubSeq(lg.entries, 1, lg.base)]
        ELSE [type |-> "AppendEntries", term |-> t,
              prevLogIndex |-> prev, prevLogTerm |-> TermAt(lg, prev),
              entries |-> Entries(lg, prev, LastIndex(lg)),
              leaderCommit |-> ci, readContext |-> ctx]

\* ... and the peer's sentIndex afterwards.
SentIndex(lg, next, sent) ==
    IF NeedsSnapshot(lg, next) THEN sent ELSE Max(sent, LastIndex(lg))

\* The leader i sends to every peer (sendHeartbeats, ProposeBatch,
\* RequestReadIndex), its log being lg.
SendToAll(i, lg, ctx) ==
    /\ Broadcast(i, [p \in Peers(i) |->
                       AppendMsg(currentTerm[i], lg, commitIndex[i],
                                 nextIndex[i][p], sentIndex[i][p], ctx)])
    /\ sentIndex' = [sentIndex EXCEPT ![i] = [p \in Server |->
                       IF p = i THEN @[p] ELSE SentIndex(lg, nextIndex[i][p], @[p])]]
    /\ UNCHANGED <<nextIndex, matchIndex>>

\* Mutant of AdvanceCommit: a peer one entry short counts.
AdvanceCommitOneShort(i, lg, match) ==
    LET ok == {n \in (commitIndex[i] + 1)..LastIndex(lg) :
                 /\ TermAt(lg, n) = currentTerm[i]
                 /\ HasMajority({i} \cup {p \in Peers(i) : match[p] >= n - 1})}
    IN  IF ok = {} THEN commitIndex[i] ELSE CHOOSE n \in ok : \A x \in ok : x <= n

\* maybeAdvanceCommitIndex for a log lg and the acknowledged indices match:
\* the highest index of the leader's own term that a majority holds.
AdvanceCommit(i, lg, match) ==
    LET ok == {n \in (commitIndex[i] + 1)..LastIndex(lg) :
                 /\ TermAt(lg, n) = currentTerm[i]
                 /\ HasMajority({i} \cup {p \in Peers(i) : match[p] >= n})}
    IN  IF ok = {} THEN commitIndex[i] ELSE CHOOSE n \in ok : \A x \in ok : x <= n

-----------------------------------------------------------------------------
(***************************************************************************)
(* Role changes.                                                           *)
(***************************************************************************)
\* Mutant of BecomeFollower: forgets the vote it cast in the same term.
BecomeFollowerUnbound(i, t) ==
    /\ currentTerm' = [currentTerm EXCEPT ![i] = Max(@, t)]
    /\ votedFor' = [votedFor EXCEPT ![i] = Nil]
    /\ role' = [role EXCEPT ![i] = Follower]

\* becomeFollower(t): a newer term clears the vote, an equal one keeps it.
BecomeFollower(i, t) ==
    /\ currentTerm' = [currentTerm EXCEPT ![i] = Max(@, t)]
    /\ votedFor' = [votedFor EXCEPT ![i] = IF t > currentTerm[i] THEN Nil ELSE @]
    /\ role' = [role EXCEPT ![i] = Follower]

NoConfirmedRead == readStates' = {}

\* A response from a newer term: step down and do nothing else.
StepDown(i, j, k, t) ==
    /\ BecomeFollower(i, t)
    /\ NoReply(i, j, k)
    /\ UNCHANGED <<leaderID, preVotesReceived, votesReceived, leaderVars, readVars, elections>>
    /\ PumpOnly(i)
    /\ NoConfirmedRead

\* A message the handler drops.
Ignore(i, j, k) ==
    /\ UNCHANGED <<electionVars, leaderVars, readVars, elections>>
    /\ NoReply(i, j, k)
    /\ PumpOnly(i)
    /\ NoConfirmedRead

\* becomeCandidate after a successful pre-vote round.
BecomeCandidate(i) ==
    /\ currentTerm[i] < MaxTerm
    /\ currentTerm' = [currentTerm EXCEPT ![i] = @ + 1]
    /\ role' = [role EXCEPT ![i] = Candidate]
    /\ votedFor' = [votedFor EXCEPT ![i] = i]
    /\ leaderID' = [leaderID EXCEPT ![i] = Nil]
    /\ votesReceived' = [votesReceived EXCEPT ![i] = {i}]

\* becomeLeader in term t with the given voters; no entry is appended.
BecomeLeader(i, t, voters) ==
    /\ role' = [role EXCEPT ![i] = Leader]
    /\ leaderID' = [leaderID EXCEPT ![i] = i]
    /\ nextIndex' = [nextIndex EXCEPT ![i] = [p \in Server |-> LastIndex(log[i]) + 1]]
    /\ matchIndex' = [matchIndex EXCEPT ![i] = [p \in Server |-> 0]]
    /\ sentIndex' = [sentIndex EXCEPT ![i] = [p \in Server |->
                       IF p = i THEN 0 ELSE LastIndex(log[i])]]
    /\ pendingReads' = [pendingReads EXCEPT ![i] = {}]
    /\ elections' = elections \cup
         {[term |-> t, leader |-> i, voters |-> voters, log |-> log[i].entries]}

-----------------------------------------------------------------------------
(***************************************************************************)
(* Tick: the heartbeat or the election timeout fires, or none does and the *)
(* pump that follows may still have a compaction to write.                 *)
(***************************************************************************)
IdleTick(i) ==
    /\ UNCHANGED <<electionVars, leaderVars, readVars, net, elections>>
    /\ PumpOnly(i)
    /\ NoConfirmedRead

Heartbeat(i) ==
    /\ role[i] = Leader
    /\ Peers(i) # {}
    /\ SendToAll(i, log[i], 0)
    /\ UNCHANGED <<electionVars, readVars, elections>>
    /\ PumpOnly(i)
    /\ NoConfirmedRead

ElectionTimeout(i) ==
    /\ role[i] # Leader
    /\ Peers(i) # {}
    /\ role' = [role EXCEPT ![i] = PreCandidate]
    /\ leaderID' = [leaderID EXCEPT ![i] = Nil]
    /\ preVotesReceived' = [preVotesReceived EXCEPT ![i] = {i}]
    /\ Broadcast(i, [p \in Peers(i) |-> PreVoteMsg(currentTerm[i], log[i])])
    /\ UNCHANGED <<currentTerm, votedFor, votesReceived, leaderVars, readVars, elections>>
    /\ PumpOnly(i)
    /\ NoConfirmedRead

\* A cluster of one passes through every role in a single timeout and then
\* commits whatever of its new term its log holds: nothing yet.
ElectionTimeoutAlone(i) ==
    /\ role[i] # Leader
    /\ Peers(i) = {}
    /\ currentTerm[i] < MaxTerm
    /\ currentTerm' = [currentTerm EXCEPT ![i] = @ + 1]
    /\ votedFor' = [votedFor EXCEPT ![i] = i]
    /\ preVotesReceived' = [preVotesReceived EXCEPT ![i] = {i}]
    /\ votesReceived' = [votesReceived EXCEPT ![i] = {i}]
    /\ BecomeLeader(i, currentTerm[i] + 1, {i})
    /\ UNCHANGED <<nextReadCtx, net>>
    /\ PumpOnly(i)
    /\ NoConfirmedRead

-----------------------------------------------------------------------------
(***************************************************************************)
(* Step: node i handles the k-th message m in flight from j.               *)
(***************************************************************************)
Received(i, j, k, type) ==
    /\ k \in DOMAIN net[<<j, i>>]
    /\ net[<<j, i>>][k].type = type

Msg(i, j, k) == net[<<j, i>>][k]

\* A poll: it changes nothing at the node that answers it.
HandlePreVote(i, j, k) ==
    /\ Received(i, j, k, "PreVote")
    /\ LET m == Msg(i, j, k)
           prospectiveTerm == m.term + 1
           canVote == votedFor[i] \in {Nil, j} \/ prospectiveTerm > currentTerm[i]
           granted == prospectiveTerm >= currentTerm[i] /\ canVote /\ LogOK(m, log[i])
       IN  Reply(i, j, k, VoteReply("PreVoteResponse", currentTerm[i], granted))
    /\ UNCHANGED <<electionVars, leaderVars, readVars, elections>>
    /\ PumpOnly(i)
    /\ NoConfirmedRead

HandlePreVoteResponse(i, j, k) ==
    /\ Received(i, j, k, "PreVoteResponse")
    /\ LET counts == role[i] = PreCandidate /\ Msg(i, j, k).voteGranted
           votes  == preVotesReceived[i] \cup {j}
       IN  \/ ~counts /\ Ignore(i, j, k)
           \/ /\ counts
              /\ preVotesReceived' = [preVotesReceived EXCEPT ![i] = votes]
              /\ \/ /\ ~HasMajority(votes)
                    /\ NoReply(i, j, k)
                    /\ UNCHANGED <<role, currentTerm, votedFor, leaderID, votesReceived>>
                 \/ /\ HasMajority(votes)
                    /\ BecomeCandidate(i)
                    /\ Exchange(i, j, k, [p \in Peers(i) |->
                                            RequestVoteMsg(currentTerm[i] + 1, log[i])])
              /\ UNCHANGED <<leaderVars, readVars, elections>>
              /\ PumpOnly(i)
              /\ NoConfirmedRead

HandleRequestVote(i, j, k) ==
    /\ Received(i, j, k, "RequestVote")
    /\ LET m       == Msg(i, j, k)
           newer   == m.term > currentTerm[i]
           canVote == newer \/ votedFor[i] \in {Nil, j}
           granted == m.term >= currentTerm[i] /\ canVote /\ LogOK(m, log[i])
       IN  /\ currentTerm' = [currentTerm EXCEPT ![i] = Max(@, m.term)]
           /\ votedFor' = [votedFor EXCEPT ![i] =
                             IF granted THEN j ELSE IF newer THEN Nil ELSE @]
           /\ role' = [role EXCEPT ![i] = IF newer THEN Follower ELSE @]
           /\ Reply(i, j, k, VoteReply("RequestVoteResponse", Max(currentTerm[i], m.term), granted))
    /\ UNCHANGED <<leaderID, preVotesReceived, votesReceived, leaderVars, readVars, elections>>
    /\ PumpOnly(i)
    /\ NoConfirmedRead

HandleRequestVoteResponse(i, j, k) ==
    /\ Received(i, j, k, "RequestVoteResponse")
    /\ LET m      == Msg(i, j, k)
           counts == /\ m.term = currentTerm[i]
                     /\ role[i] = Candidate
                     /\ m.voteGranted
           votes  == votesReceived[i] \cup {j}
       IN  \/ m.term > currentTerm[i] /\ StepDown(i, j, k, m.term)
           \/ m.term <= currentTerm[i] /\ ~counts /\ Ignore(i, j, k)
           \/ /\ counts
              /\ votesReceived' = [votesReceived EXCEPT ![i] = votes]
              /\ \/ /\ ~HasMajority(votes)
                    /\ NoReply(i, j, k)
                    /\ UNCHANGED <<role, leaderID, leaderVars, pendingReads, elections>>
                 \/ /\ HasMajority(votes)
                    /\ BecomeLeader(i, currentTerm[i], votes)
                    /\ Exchange(i, j, k, [p \in Peers(i) |->
                          AppendMsg(currentTerm[i], log[i], commitIndex[i],
                                    LastIndex(log[i]) + 1, 0, 0)])
              /\ UNCHANGED <<currentTerm, votedFor, preVotesReceived, nextReadCtx>>
              /\ PumpOnly(i)
              /\ NoConfirmedRead

-----------------------------------------------------------------------------
(***************************************************************************)
(* The process dies and OpenNode rebuilds the node from d, what the        *)
(* storage file yields; what was in flight to the dead process is lost     *)
(* with its sockets.                                                       *)
(***************************************************************************)
\* Mutant of RecoveredCommit: the whole log counts as committed.
RecoveredCommitAll(d) == LastIndex(d.log)

\* restoreState: only the snapshot is known to be committed.
RecoveredCommit(d) == d.log.base

RestartFrom(i, d) ==
    /\ disk' = [disk EXCEPT ![i] = d]
    /\ role' = [role EXCEPT ![i] = Follower]
    /\ currentTerm' = [currentTerm EXCEPT ![i] = d.term]
    /\ votedFor' = [votedFor EXCEPT ![i] = d.vote]
    /\ leaderID' = [leaderID EXCEPT ![i] = Nil]
    /\ preVotesReceived' = [preVotesReceived EXCEPT ![i] = {}]
    /\ votesReceived' = [votesReceived EXCEPT ![i] = {}]
    /\ log' = [log EXCEPT ![i] = d.log]
    /\ commitIndex' = [commitIndex EXCEPT ![i] = RecoveredCommit(d)]
    /\ nextIndex' = [nextIndex EXCEPT ![i] = [p \in Server |-> 1]]
    /\ matchIndex' = [matchIndex EXCEPT ![i] = [p \in Server |-> 0]]
    /\ sentIndex' = [sentIndex EXCEPT ![i] = [p \in Server |-> 0]]
    /\ pendingReads' = [pendingReads EXCEPT ![i] = {}]
    /\ nextReadCtx' = [nextReadCtx EXCEPT ![i] = 1]
    /\ net' = [l \in Links |-> IF l[2] = i THEN <<>> ELSE net[l]]
    /\ NoConfirmedRead
    /\ UNCHANGED <<elections, committed>>

-----------------------------------------------------------------------------
(***************************************************************************)
(* handleAppendEntries.                                                    *)
(***************************************************************************)
\* Mutant of PrevMatches: the terms are not compared.
PrevExists(lg, m) == m.prevLogIndex <= LastIndex(lg)

\* The consistency check on the entry the leader's entries follow.
PrevMatches(lg, m) ==
    /\ m.prevLogIndex <= LastIndex(lg)
    /\ TermAt(lg, m.prevLogIndex) = m.prevLogTerm

\* The indices at which the message disagrees with an entry this log has.
Conflicts(lg, m) ==
    {n \in (m.prevLogIndex + 1)..Min(LastIndex(lg), m.prevLogIndex + Len(m.entries)) :
        TermAt(lg, n) # m.entries[n - m.prevLogIndex].term}

FirstConflict(lg, m) ==
    CHOOSE n \in Conflicts(lg, m) : \A x \in Conflicts(lg, m) : n <= x

\* The log cut at the first conflict, if any, and extended with the entries of
\* the message beyond its end.
KeptUpTo(lg, m) ==
    IF Conflicts(lg, m) = {} THEN LastIndex(lg) ELSE FirstConflict(lg, m) - 1

\* Mutant of Merge: the message's entries replace everything behind its previous
\* one.
MergeOverwrite(lg, m) ==
    [lg EXCEPT !.entries = SubSeq(@, 1, m.prevLogIndex) \o m.entries]

Merge(lg, m) ==
    [lg EXCEPT !.entries =
        SubSeq(@, 1, KeptUpTo(lg, m))
          \o SubSeq(m.entries, KeptUpTo(lg, m) - m.prevLogIndex + 1, Len(m.entries))]

\* The cut would be at or below the snapshot boundary: logPos is out of range,
\* the slice expression panics and the process dies.
CutsSnapshot(lg, m) ==
    Conflicts(lg, m) # {} /\ FirstConflict(lg, m) <= lg.base

\* The MatchIndex of a successful reply: what this message confirmed, no more.
Acknowledged(lg, m) == m.prevLogIndex + Len(m.entries)

CommitAfter(ci, lg, m) ==
    IF m.leaderCommit > ci THEN Min(m.leaderCommit, LastIndex(lg)) ELSE ci

RejectStaleAppend(i, j, k) ==
    /\ Received(i, j, k, "AppendEntries")
    /\ Msg(i, j, k).term < currentTerm[i]
    /\ Reply(i, j, k, AppendReply(currentTerm[i], FALSE, 0, 0))
    /\ UNCHANGED <<electionVars, leaderVars, readVars, elections>>
    /\ PumpOnly(i)
    /\ NoConfirmedRead

RejectAppend(i, j, k) ==
    /\ Received(i, j, k, "AppendEntries")
    /\ LET m == Msg(i, j, k)
       IN  /\ m.term >= currentTerm[i]
           /\ ~PrevMatches(log[i], m)
           /\ BecomeFollower(i, m.term)
           /\ leaderID' = [leaderID EXCEPT ![i] = j]
           /\ Reply(i, j, k, AppendReply(m.term, FALSE, 0, m.readContext))
    /\ UNCHANGED <<preVotesReceived, votesReceived, leaderVars, readVars, elections>>
    /\ PumpOnly(i)
    /\ NoConfirmedRead

AcceptAppend(i, j, k) ==
    /\ Received(i, j, k, "AppendEntries")
    /\ LET m  == Msg(i, j, k)
           lg == Merge(log[i], m)
       IN  /\ m.term >= currentTerm[i]
           /\ PrevMatches(log[i], m)
           /\ ~CutsSnapshot(log[i], m)
           /\ BecomeFollower(i, m.term)
           /\ leaderID' = [leaderID EXCEPT ![i] = j]
           /\ Reply(i, j, k, AppendReply(m.term, TRUE, Acknowledged(lg, m), m.readContext))
           /\ Pump(i, lg, CommitAfter(commitIndex[i], lg, m))
    /\ NoConfirmedRead
    /\ UNCHANGED <<preVotesReceived, votesReceived, leaderVars, readVars, elections>>

PanicInAppend(i, j, k) ==
    /\ Received(i, j, k, "AppendEntries")
    /\ LET m == Msg(i, j, k)
       IN  /\ m.term >= currentTerm[i]
           /\ PrevMatches(log[i], m)
           /\ CutsSnapshot(log[i], m)
    /\ RestartFrom(i, disk[i])

HandleAppendEntries(i, j, k) ==
    \/ RejectStaleAppend(i, j, k)
    \/ RejectAppend(i, j, k)
    \/ AcceptAppend(i, j, k)
    \/ PanicInAppend(i, j, k)

-----------------------------------------------------------------------------
(***************************************************************************)
(* handleAppendEntriesResponse.                                            *)
(***************************************************************************)
\* Mutant of Acked: any response confirms every read that is pending.
AckedByAny(i, j, ctx) == {[r EXCEPT !.acked = @ \cup {j}] : r \in pendingReads[i]}

\* ackReadIndex: peer j confirms the read ctx; a majority completes it.
Acked(i, j, ctx) ==
    {[r EXCEPT !.acked = @ \cup {j}] : r \in {r \in pendingReads[i] : r.ctx = ctx}}

AckReadIndex(i, j, ctx) ==
    LET done == {r \in Acked(i, j, ctx) : HasMajority(r.acked)}
    IN  /\ pendingReads' = [pendingReads EXCEPT ![i] =
              {r \in @ : r.ctx # ctx} \cup (Acked(i, j, ctx) \ done)]
        /\ readStates' = done

\* Mutants of Backoff: no floor at 1; no step back at all.
BackoffNoFloor(next) == next - 1
BackoffNever(next)   == next

\* nextIndex after a rejection.
Backoff(next) == Max(next - 1, 1)

HandleAppendEntriesResponse(i, j, k) ==
    /\ Received(i, j, k, "AppendEntriesResponse")
    /\ LET m       == Msg(i, j, k)
           counts  == m.term = currentTerm[i] /\ role[i] = Leader
           match   == [matchIndex[i] EXCEPT ![j] = Max(@, m.matchIndex)]
           backoff == Backoff(nextIndex[i][j])
       IN  \/ m.term > currentTerm[i] /\ StepDown(i, j, k, m.term)
           \/ m.term <= currentTerm[i] /\ ~counts /\ Ignore(i, j, k)
           \/ /\ counts
              /\ UNCHANGED <<electionVars, nextReadCtx, elections>>
              /\ AckReadIndex(i, j, m.readContext)
              /\ \/ /\ m.success
                    /\ matchIndex' = [matchIndex EXCEPT ![i] = match]
                    /\ nextIndex' = [nextIndex EXCEPT ![i][j] = m.matchIndex + 1]
                    /\ Pump(i, log[i], AdvanceCommit(i, log[i], match))
                    /\ NoReply(i, j, k)
                    /\ UNCHANGED sentIndex
                 \/ /\ ~m.success
                    /\ nextIndex' = [nextIndex EXCEPT ![i][j] = backoff]
                    /\ sentIndex' = [sentIndex EXCEPT ![i][j] = SentIndex(log[i], backoff, 0)]
                    /\ Reply(i, j, k, AppendMsg(currentTerm[i], log[i], commitIndex[i], backoff, 0, 0))
                    /\ PumpOnly(i)
                    /\ UNCHANGED matchIndex

-----------------------------------------------------------------------------
(***************************************************************************)
(* handleInstallSnapshot and its response.  m.snapshot stands for the      *)
(* Snapshot record: its length is LastIncludedIndex.                       *)
(***************************************************************************)
RejectStaleSnapshot(i, j, k) ==
    /\ Received(i, j, k, "InstallSnapshot")
    /\ Msg(i, j, k).term < currentTerm[i]
    /\ Reply(i, j, k, SnapshotReply(currentTerm[i], log[i].base))
    /\ UNCHANGED <<electionVars, leaderVars, readVars, elections>>
    /\ PumpOnly(i)
    /\ NoConfirmedRead

\* The whole log is replaced by the snapshot unless the node already has that
\* boundary or a newer one.
InstallSnapshot(i, j, k) ==
    /\ Received(i, j, k, "InstallSnapshot")
    /\ LET m     == Msg(i, j, k)
           index == Len(m.snapshot)
       IN  /\ m.term >= currentTerm[i]
           /\ BecomeFollower(i, m.term)
           /\ leaderID' = [leaderID EXCEPT ![i] = j]
           /\ \/ /\ index <= log[i].base
                 /\ PumpOnly(i)
                 /\ Reply(i, j, k, SnapshotReply(m.term, log[i].base))
              \/ /\ index > log[i].base
                 /\ Pump(i, [base |-> index, entries |-> m.snapshot], Max(commitIndex[i], index))
                 /\ Reply(i, j, k, SnapshotReply(m.term, index))
    /\ NoConfirmedRead
    /\ UNCHANGED <<preVotesReceived, votesReceived, leaderVars, readVars, elections>>

HandleInstallSnapshot(i, j, k) ==
    RejectStaleSnapshot(i, j, k) \/ InstallSnapshot(i, j, k)

HandleInstallSnapshotResponse(i, j, k) ==
    /\ Received(i, j, k, "InstallSnapshotResponse")
    /\ LET m      == Msg(i, j, k)
           counts == m.term = currentTerm[i] /\ role[i] = Leader
           match  == [matchIndex[i] EXCEPT ![j] = Max(@, m.matchIndex)]
       IN  \/ m.term > currentTerm[i] /\ StepDown(i, j, k, m.term)
           \/ m.term <= currentTerm[i] /\ ~counts /\ Ignore(i, j, k)
           \/ /\ counts
              /\ matchIndex' = [matchIndex EXCEPT ![i] = match]
              /\ nextIndex' = [nextIndex EXCEPT ![i][j] = Max(@, m.matchIndex + 1)]
              /\ UNCHANGED <<electionVars, sentIndex, readVars, elections>>
              /\ Pump(i, log[i], AdvanceCommit(i, log[i], match))
              /\ NoReply(i, j, k)
              /\ NoConfirmedRead

-----------------------------------------------------------------------------
(***************************************************************************)
(* Client requests.                                                        *)
(***************************************************************************)
\* The leader's log with a batch of commands appended in its current term.
Proposed(i, datas) ==
    [log[i] EXCEPT !.entries =
        @ \o [n \in 1..Len(datas) |-> [term |-> currentTerm[i], data |-> datas[n]]]]

\* ProposeBatch: append every command, send each peer one message, and in a
\* cluster of one commit at once.
ProposeBatch(i, datas) ==
    /\ role[i] = Leader
    /\ LastIndex(log[i]) + Len(datas) <= MaxIndex
    /\ UNCHANGED <<electionVars, readVars, elections>>
    /\ LET lg == Proposed(i, datas)
       IN  /\ SendToAll(i, lg, 0)
           /\ Pump(i, lg, IF Peers(i) = {} THEN AdvanceCommit(i, lg, matchIndex[i])
                                           ELSE commitIndex[i])
    /\ NoConfirmedRead

\* RequestReadIndex.  need and settled are history: how much was committed
\* anywhere when the read began, and whether the leader had by then committed
\* an entry of its own term.
RequestReadIndex(i) ==
    /\ role[i] = Leader
    /\ nextReadCtx[i] <= MaxReads
    /\ LET r == [ctx     |-> nextReadCtx[i],
                 index   |-> commitIndex[i],
                 acked   |-> {i},
                 need    |-> Len(committed),
                 settled |-> TermAt(log[i], commitIndex[i]) = currentTerm[i]]
       IN  \/ /\ HasMajority({i})
              /\ readStates' = {r}
              /\ UNCHANGED <<pendingReads, leaderVars, net>>
           \/ /\ ~HasMajority({i})
              /\ pendingReads' = [pendingReads EXCEPT ![i] = @ \cup {r}]
              /\ SendToAll(i, log[i], nextReadCtx[i])
              /\ NoConfirmedRead
    /\ nextReadCtx' = [nextReadCtx EXCEPT ![i] = @ + 1]
    /\ UNCHANGED <<electionVars, elections>>
    /\ PumpOnly(i)

-----------------------------------------------------------------------------
(***************************************************************************)
(* Crashes.                                                                *)
(***************************************************************************)
\* A crash between two events, or in one before Persist has written anything.
Crash(i) == RestartFrom(i, disk[i])

\* A crash inside Persist while an append is being written: SaveHardState is on
\* disk, of SaveEntries' batch nothing, or the truncation and some of the
\* entries, and no reply was sent.  A pending snapshot would have been written
\* by SaveSnapshot instead, which is atomic.
TornLogs(lg, m) ==
    LET full == Merge(lg, m).entries
    IN  {lg} \cup {[lg EXCEPT !.entries = SubSeq(full, 1, n)] :
                     n \in KeptUpTo(lg, m)..(Len(full) - 1)}

CrashInPersist(i, j, k) ==
    /\ Received(i, j, k, "AppendEntries")
    /\ disk[i].log = log[i]
    /\ LET m == Msg(i, j, k)
       IN  /\ m.term >= currentTerm[i]
           /\ PrevMatches(log[i], m)
           /\ ~CutsSnapshot(log[i], m)
           /\ Merge(log[i], m) # log[i]
           /\ \E lg \in TornLogs(log[i], m) :
                 RestartFrom(i, [term |-> m.term,
                                 vote |-> IF m.term > currentTerm[i] THEN Nil ELSE votedFor[i],
                                 log  |-> lg])

\* The connection from i to j breaks: the newest message in it is lost.
DropConn(i, j) ==
    /\ net[<<i, j>>] # <<>>
    /\ net' = [net EXCEPT ![<<i, j>>] = SubSeq(@, 1, Len(@) - 1)]
    /\ NoConfirmedRead
    /\ UNCHANGED <<electionVars, leaderVars, readVars, logVars, elections>>

-----------------------------------------------------------------------------
Init ==
    /\ role = [i \in Server |-> Follower]
    /\ currentTerm = [i \in Server |-> 0]
    /\ votedFor = [i \in Server |-> Nil]
    /\ leaderID = [i \in Server |-> Nil]
    /\ preVotesReceived = [i \in Server |-> {}]
    /\ votesReceived = [i \in Server |-> {}]
    /\ log = [i \in Server |-> EmptyLog]
    /\ commitIndex = [i \in Server |-> 0]
    /\ nextIndex = [i \in Server |-> [p \in Server |-> 1]]
    /\ matchIndex = [i \in Server |-> [p \in Server |-> 0]]
    /\ sentIndex = [i \in Server |-> [p \in Server |-> 0]]
    /\ pendingReads = [i \in Server |-> {}]
    /\ nextReadCtx = [i \in Server |-> 1]
    /\ readStates = {}
    /\ disk = [i \in Server |-> [term |-> 0, vote |-> Nil, log |-> EmptyLog]]
    /\ net = [l \in Links |-> <<>>]
    /\ timeouts = 0
    /\ faults = 0
    /\ elections = {}
    /\ committed = <<>>

Step(i, j, k) ==
    \/ HandlePreVote(i, j, k)
    \/ HandlePreVoteResponse(i, j, k)
    \/ HandleRequestVote(i, j, k)
    \/ HandleRequestVoteResponse(i, j, k)
    \/ HandleAppendEntries(i, j, k)
    \/ HandleAppendEntriesResponse(i, j, k)
    \/ HandleInstallSnapshot(i, j, k)
    \/ HandleInstallSnapshotResponse(i, j, k)

\* What a running cluster does, and the two kinds of step that are bounded.
Request ==
    \/ \E i \in Server, n \in 1..MaxIndex : \E datas \in [1..n -> Value] : ProposeBatch(i, datas)
    \/ \E i \in Server : RequestReadIndex(i)

Deliver(l) == \E k \in DOMAIN net[l] \cap {1} : Step(l[2], l[1], k)

\* A message of a new connection is handled before those left on the old one.
Overtake(l) == \E k \in DOMAIN net[l] \ {1} : Step(l[2], l[1], k)

Progress ==
    \/ \E i \in Server : IdleTick(i) \/ Heartbeat(i)
    \/ Request
    \/ \E l \in Links : Deliver(l)

Timeout == \E i \in Server : ElectionTimeout(i) \/ ElectionTimeoutAlone(i)

Fault ==
    \/ \E l \in Links : \E k \in DOMAIN net[l] : CrashInPersist(l[2], l[1], k)
    \/ \E i \in Server : Crash(i)
    \/ \E l \in Links : DropConn(l[1], l[2]) \/ Overtake(l)

Next ==
    \/ Progress /\ UNCHANGED boundVars
    \/ Timeout /\ timeouts < MaxTimeouts /\ timeouts' = timeouts + 1 /\ UNCHANGED faults
    \/ Fault /\ faults < MaxFaults /\ faults' = faults + 1 /\ UNCHANGED timeouts

Spec == Init /\ [][Next]_vars

-----------------------------------------------------------------------------
(***************************************************************************)
(* Types.                                                                  *)
(***************************************************************************)
Entry == [term : Nat, data : Value]

Log == {lg \in [base : Nat, entries : Seq(Entry)] : lg.base <= Len(lg.entries)}

VoteRequest ==
    [type : {"PreVote", "RequestVote"}, term : Nat, lastLogIndex : Nat, lastLogTerm : Nat]

VoteResponse ==
    [type : {"PreVoteResponse", "RequestVoteResponse"}, term : Nat, voteGranted : BOOLEAN]

AppendRequest ==
    [type : {"AppendEntries"}, term : Nat, prevLogIndex : Nat, prevLogTerm : Nat,
     entries : Seq(Entry), leaderCommit : Nat, readContext : Nat]

AppendResponse ==
    [type : {"AppendEntriesResponse"}, term : Nat, success : BOOLEAN,
     matchIndex : Nat, readContext : Nat]

SnapshotRequest == [type : {"InstallSnapshot"}, term : Nat, snapshot : Seq(Entry)]

SnapshotResponse == [type : {"InstallSnapshotResponse"}, term : Nat, matchIndex : Nat]

Message ==
    VoteRequest \cup VoteResponse \cup AppendRequest \cup AppendResponse
      \cup SnapshotRequest \cup SnapshotResponse

Read ==
    [ctx : Nat, index : Nat, acked : SUBSET Server, need : Nat, settled : BOOLEAN]

Election == [term : Nat, leader : Server, voters : SUBSET Server, log : Seq(Entry)]

\* Every variable has the shape the Go types give it; a log always reaches at
\* least its own snapshot boundary, nextIndex never drops below 1.
TypeOK ==
    /\ role \in [Server -> {Follower, PreCandidate, Candidate, Leader}]
    /\ currentTerm \in [Server -> Nat]
    /\ votedFor \in [Server -> Server \cup {Nil}]
    /\ leaderID \in [Server -> Server \cup {Nil}]
    /\ preVotesReceived \in [Server -> SUBSET Server]
    /\ votesReceived \in [Server -> SUBSET Server]
    /\ log \in [Server -> Log]
    /\ commitIndex \in [Server -> Nat]
    /\ nextIndex \in [Server -> [Server -> Nat \ {0}]]
    /\ matchIndex \in [Server -> [Server -> Nat]]
    /\ sentIndex \in [Server -> [Server -> Nat]]
    /\ pendingReads \in [Server -> SUBSET Read]
    /\ nextReadCtx \in [Server -> Nat]
    /\ readStates \in SUBSET Read
    /\ disk \in [Server -> [term : Nat, vote : Server \cup {Nil}, log : Log]]
    /\ net \in [Links -> Seq(Message)]
    /\ timeouts \in Nat
    /\ faults \in Nat
    /\ elections \in SUBSET Election
    /\ committed \in Seq(Entry)

-----------------------------------------------------------------------------
(***************************************************************************)
(* Elections.                                                              *)
(***************************************************************************)
\* At most one node ever wins an election in a given term, whatever is lost,
\* delayed or reordered and whoever restarts in between (votedFor and
\* currentTerm, handleRequestVote, Persist before send).
ElectionSafety ==
    \A e, f \in elections : e.term = f.term => e.leader = f.leader

\* v's vote for c in term t has left v: it is in flight, counted by c, or part of
\* an election c won.
Grant(m, t) == m.type = "RequestVoteResponse" /\ m.voteGranted /\ m.term = t

Ballot(v, t, c) ==
    \/ <<v, c>> \in Links /\ \E k \in DOMAIN net[<<v, c>>] : Grant(net[<<v, c>>][k], t)
    \/ role[c] \in {Candidate, Leader} /\ currentTerm[c] = t /\ v \in votesReceived[c]
    \/ \E e \in elections : e.term = t /\ e.leader = c /\ v \in e.voters

VoteOnDisk(v, t, c) ==
    disk[v].term > t \/ (disk[v].term = t /\ disk[v].vote = c)

VoteSafety(T) ==
    \A t \in T, v, c \in Server :
        Ballot(v, t, c) => /\ VoteOnDisk(v, t, c)
                           /\ \A d \in Server : Ballot(v, t, d) => d = c

\* A vote that has left its node is on that node's disk, or the disk has moved on
\* to a later term, and no node ever votes for two candidates in one term: a
\* voter that restarts can not vote again (HardState, Persist before send).
VotesDurable == VoteSafety(0..MaxTerm)

-----------------------------------------------------------------------------
(***************************************************************************)
(* The log.                                                                *)
(***************************************************************************)
\* Two logs with an entry of the same term at the same index agree up to and
\* including that index (the consistency check and the conflict truncation of
\* handleAppendEntries, across crashes in the middle of Persist).
LogMatching ==
    \A i, j \in Server :
        \A n \in 1..Min(LastIndex(log[i]), LastIndex(log[j])) :
            log[i].entries[n].term = log[j].entries[n].term
              => \A x \in 1..n : log[i].entries[x] = log[j].entries[x]

\* The cluster implements the abstract ReplicatedLog: what a node counts as
\* committed, and so applies, is one common sequence that only grows, and a node
\* steps back in it only by restarting (commitIndex, maybeAdvanceCommitIndex).
Chosen == INSTANCE ReplicatedLog WITH
    chosen  <- committed,
    applied <- [i \in Server |-> SubSeq(log[i].entries, 1, commitIndex[i])]

ImplementsReplicatedLog == Chosen!Spec

\* The same of every step alone, for the runs that start from a later state.
StepsImplementReplicatedLog == [][Chosen!Next]_(Chosen!lVars)

\* Every committed entry is on the disks of a majority: no crash of a minority
\* can lose it (persist before the AppendEntriesResponse is sent).
CommittedOnMajority ==
    \A n \in 1..Len(committed) :
        HasMajority({i \in Server : /\ n <= LastIndex(disk[i].log)
                                    /\ disk[i].log.entries[n] = committed[n]})

\* The leader of the newest term has every committed entry (logOK in
\* handleRequestVote and the own-term rule of maybeAdvanceCommitIndex).
LeaderCompleteness ==
    \A i \in Server :
        (role[i] = Leader /\ \A j \in Server : currentTerm[j] <= currentTerm[i])
          => /\ Len(committed) <= LastIndex(log[i])
             /\ \A n \in 1..Len(committed) : log[i].entries[n] = committed[n]

\* What a leader believes a follower of its term has acknowledged, that
\* follower has, durably and equal to the leader's own (matchIndex).
MatchIndexSound ==
    \A i, p \in Server :
        (role[i] = Leader /\ p # i /\ currentTerm[p] = currentTerm[i])
          => /\ matchIndex[i][p] <= Min(LastIndex(log[i]), LastIndex(disk[p].log))
             /\ \A n \in 1..matchIndex[i][p] : disk[p].log.entries[n] = log[i].entries[n]

-----------------------------------------------------------------------------
(***************************************************************************)
(* Reads.                                                                  *)
(***************************************************************************)
\* A confirmed read, whose leader had committed an entry of its own term when
\* the read began, covers everything that was committed anywhere by then: not
\* even a deposed leader that does not know it yet gets a stale read confirmed
\* (RequestReadIndex, ackReadIndex).
ReadIndexFresh == \A r \in readStates : r.settled => r.index >= r.need

\* The same of every confirmed read, as the comment on RequestReadIndex has it.
ReadIndexCurrent == \A r \in readStates : r.index >= r.need

-----------------------------------------------------------------------------
(***************************************************************************)
(* Snapshots.                                                              *)
(***************************************************************************)
\* A snapshot, in memory, on disk or in flight, holds only committed entries
\* (CreateSnapshot, sendInstallSnapshot).
IsCommitted(entries) ==
    /\ Len(entries) <= Len(committed)
    /\ \A n \in 1..Len(entries) : entries[n] = committed[n]

SnapshotsCommitted ==
    /\ \A i \in Server : /\ IsCommitted(SubSeq(log[i].entries, 1, log[i].base))
                         /\ IsCommitted(SubSeq(disk[i].log.entries, 1, disk[i].log.base))
    /\ \A l \in Links : \A k \in DOMAIN net[l] :
         net[l][k].type = "InstallSnapshot" => IsCommitted(net[l][k].snapshot)

-----------------------------------------------------------------------------
(***************************************************************************)
(* A leader that stays.                                                    *)
(***************************************************************************)
\* Once proposals cease, every node ends up with the leader's log on its disk
\* and, if the leader has appended an entry in its term, all of it committed,
\* whatever the peer's log held, whatever was lost on the way and whether the peer
\* was sent entries or the snapshot (sendAppendEntries, sentIndex, the backoff of
\* handleAppendEntriesResponse).
CaughtUp ==
    \A i, p \in Server :
        role[i] = Leader =>
            /\ disk[p].log.entries = log[i].entries
            /\ LastTerm(log[i]) \in {0, currentTerm[i]} => commitIndex[p] = LastIndex(log[i])

CatchUp == <>[]CaughtUp

=============================================================================
