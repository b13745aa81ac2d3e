----------------------------- MODULE RaftKinds ------------------------------
(***************************************************************************)
(* What a step of Raft may do to the roles, the logs, the leaders' view of *)
(* their peers, the votes and the messages in flight: the steps fall into  *)
(* eight kinds.  The proofs about the logs go through the kinds instead of *)
(* the actions.                                                            *)
(***************************************************************************)
EXTENDS RaftFacts

-----------------------------------------------------------------------------
(***************************************************************************)
(* What becomes of the nodes that take no part in a step.                  *)
(***************************************************************************)
OthersRoles(i) ==
    \A x \in Server \ {i} : role'[x] = role[x] /\ currentTerm'[x] = currentTerm[x]

OthersLogs(i) ==
    \A x \in Server \ {i} : /\ log'[x] = log[x] /\ disk'[x] = disk[x]
                            /\ commitIndex'[x] = commitIndex[x]

ProgressSame(x) ==
    /\ nextIndex'[x] = nextIndex[x]
    /\ matchIndex'[x] = matchIndex[x]
    /\ sentIndex'[x] = sentIndex[x]

OthersProgress(i) == \A x \in Server \ {i} : ProgressSame(x)

\* A snapshot holds only what was counted as committed, and a node that takes no
\* snapshots keeps its whole log.
BasesRecorded(i) == log[i].base <= Len(committed) /\ disk[i].log.base <= Len(committed)

StaysWhole(i) ==
    /\ BasesRecorded(i)'
    /\ SnapshotThreshold = 0 /\ log[i].base = 0 /\ disk[i].log.base = 0
         => log'[i].base = 0 /\ disk'[i].log.base = 0

Frame(i) == OthersRoles(i) /\ OthersLogs(i) /\ OthersProgress(i) /\ StaysWhole(i)

(***************************************************************************)
(* What becomes of the node that takes the step.                           *)
(***************************************************************************)
LogBecomes(i, es) == log'[i].entries = es /\ disk'[i].log.entries = es

CommitSame(i) == commitIndex'[i] = commitIndex[i] /\ UNCHANGED committed

CommitBecomes(i, es, ci) ==
    /\ commitIndex'[i] = ci
    /\ committed' = Recorded(committed, es, ci)

\* Only the snapshot counts as committed after a restart.
CommitForgotten(i) ==
    role'[i] = Follower /\ commitIndex'[i] = log'[i].base /\ UNCHANGED committed

\* It may lose a role, it wins none.
RoleKept(i) ==
    /\ currentTerm'[i] >= currentTerm[i]
    /\ role'[i] \in {Candidate, Leader} => role'[i] = role[i] /\ currentTerm'[i] = currentTerm[i]

\* Every vote that is counted or in flight was before, but for this one.
OneNewBallot(who, when, whom) ==
    \A t \in Nat, v, c \in Server :
        Ballot(v, t, c)' => Ballot(v, t, c) \/ (v = who /\ t = when /\ c = whom)

(***************************************************************************)
(* What becomes of the messages.                                           *)
(***************************************************************************)
InTransit(l, m) == \E y \in DOMAIN net[l] : net[l][y] = m

NothingSent == \A l \in Links : \A x \in DOMAIN net'[l] : InTransit(l, net'[l][x])

\* Messages that carry neither entries, nor a vote, nor an acknowledgement.
Plain(m) ==
    \/ m.type \in {"PreVote", "PreVoteResponse"}
    \/ m.type = "RequestVoteResponse" /\ ~m.voteGranted
    \/ m.type = "AppendEntriesResponse" /\ ~m.success

PlainSent(i) == \A l \in Links : \A x \in DOMAIN net'[l] :
    InTransit(l, net'[l][x]) \/ (l[1] = i /\ Plain(net'[l][x]))

\* To everyone, the same message.
SentToAll(i, m) == \A l \in Links : \A x \in DOMAIN net'[l] :
    InTransit(l, net'[l][x]) \/ (l[1] = i /\ net'[l][x] = m)

SentTo(i, j, m) == \A l \in Links : \A x \in DOMAIN net'[l] :
    InTransit(l, net'[l][x]) \/ (l = <<i, j>> /\ net'[l][x] = m)

\* What the leader i, whose log is lg, may send a peer.
AppendSent(i, lg) == \A l \in Links : \A x \in DOMAIN net'[l] :
    \/ InTransit(l, net'[l][x])
    \/ /\ l[1] = i
       /\ \E next \in 1..nextIndex[i][l[2]], sent \in {0, sentIndex[i][l[2]]}, ctx \in Nat :
            net'[l][x] = AppendMsg(currentTerm[i], lg, commitIndex[i], next, sent, ctx)

\* Facts that hold between any two events: the disk has what memory has, and
\* nothing counts as committed that was not recorded.
DiskHasLog == \A i \in Server : disk[i].log.entries = log[i].entries

CommitRecorded == \A i \in Server : commitIndex[i] <= Len(committed) /\ BasesRecorded(i)

Settled == TypeOK /\ DiskHasLog /\ CommitRecorded

-----------------------------------------------------------------------------
(***************************************************************************)
(* The kinds of step.                                                      *)
(***************************************************************************)
\* Nothing of interest: a poll, a message dropped or refused, a restart.
Quiet(i) ==
    /\ Frame(i) /\ UNCHANGED elections
    /\ LogBecomes(i, log[i].entries)
    /\ CommitSame(i) \/ CommitForgotten(i)
    /\ RoleKept(i)
    /\ role'[i] = Leader => ProgressSame(i)
    /\ NoNewBallot
    /\ PlainSent(i)

\* i stands for election.
Runs(i) ==
    /\ Frame(i) /\ UNCHANGED elections
    /\ LogBecomes(i, log[i].entries) /\ CommitSame(i)
    /\ currentTerm'[i] = currentTerm[i] + 1 /\ role'[i] = Candidate
    /\ OneNewBallot(i, currentTerm[i] + 1, i)
    /\ SentToAll(i, RequestVoteMsg(currentTerm[i] + 1, log[i]))

\* i votes for j, whose request is m.
Grants(i, j, m) ==
    /\ Frame(i) /\ UNCHANGED elections
    /\ LogBecomes(i, log[i].entries) /\ CommitSame(i)
    /\ <<j, i>> \in Links /\ InTransit(<<j, i>>, m)
    /\ m.type = "RequestVote" /\ LogOK(m, log[i])
    /\ RoleKept(i) /\ currentTerm'[i] = m.term
    /\ role'[i] = Leader => ProgressSame(i)
    /\ OneNewBallot(i, m.term, j)
    /\ SentTo(i, j, VoteReply("RequestVoteResponse", m.term, TRUE))

\* i wins the election in term t.
Wins(i, t, voters) ==
    /\ Frame(i)
    /\ role[i] # Leader /\ role'[i] = Leader /\ currentTerm'[i] = t
    /\ \/ role[i] = Candidate /\ currentTerm[i] = t /\ \A v \in voters : Ballot(v, t, i)
       \/ Server = {i} /\ currentTerm[i] + 1 = t /\ voters = {i}
    /\ elections' = elections \cup
         {[term |-> t, leader |-> i, voters |-> voters, log |-> log[i].entries]}
    /\ LogBecomes(i, log[i].entries) /\ CommitSame(i)
    /\ \A p \in Server : /\ nextIndex'[i][p] = LastIndex(log[i]) + 1 /\ matchIndex'[i][p] = 0
                         /\ sentIndex'[i][p] \in {0, LastIndex(log[i])}
    /\ OneNewBallot(i, t, i)
    /\ SentToAll(i, AppendMsg(t, log[i], commitIndex[i], LastIndex(log[i]) + 1, 0, 0))

\* The leader i, its log now being lg, sends to its peers.
Leads(i, lg) ==
    /\ Frame(i) /\ UNCHANGED elections
    /\ role[i] = Leader /\ role'[i] = Leader /\ currentTerm'[i] = currentTerm[i]
    /\ lg \in Log /\ lg.base = log[i].base
    /\ LastIndex(log[i]) <= LastIndex(lg)
    /\ \A n \in 1..LastIndex(lg) : IF n <= LastIndex(log[i])
                                   THEN lg.entries[n] = log[i].entries[n]
                                   ELSE lg.entries[n].term = currentTerm[i]
    /\ LogBecomes(i, lg.entries)
    /\ \/ CommitSame(i)
       \/ CommitBecomes(i, lg.entries, AdvanceCommit(i, lg, matchIndex[i]))
    /\ matchIndex'[i] = matchIndex[i]
    /\ \A p \in Server : /\ nextIndex'[i][p] <= nextIndex[i][p]
                         /\ sentIndex'[i][p] <= Max(sentIndex[i][p], LastIndex(lg))
    /\ NoNewBallot
    /\ AppendSent(i, lg)

\* The leader i hears from j how far j's log agrees with its own.
Counts(i, j, m) ==
    /\ Frame(i) /\ UNCHANGED elections
    /\ role[i] = Leader /\ role'[i] = Leader /\ currentTerm'[i] = currentTerm[i]
    /\ LogBecomes(i, log[i].entries)
    /\ <<j, i>> \in Links /\ InTransit(<<j, i>>, m) /\ m.term = currentTerm[i]
    /\ \/ m.type = "AppendEntriesResponse" /\ m.success
       \/ m.type = "InstallSnapshotResponse"
    /\ CommitBecomes(i, log[i].entries, AdvanceCommit(i, log[i], matchIndex'[i]))
    /\ \A p \in Server :
         /\ matchIndex'[i][p] = IF p = j THEN Max(matchIndex[i][p], m.matchIndex) ELSE matchIndex[i][p]
         /\ nextIndex'[i][p] \in {nextIndex[i][p], m.matchIndex + 1}
    /\ sentIndex'[i] = sentIndex[i]
    /\ NoNewBallot
    /\ NothingSent

\* i takes over entries from the leader j; its log becomes es.
Follows(i, j, m, es) ==
    /\ Frame(i) /\ UNCHANGED elections
    /\ <<j, i>> \in Links /\ InTransit(<<j, i>>, m) /\ m \in AppendRequest
    /\ m.term >= currentTerm[i] /\ currentTerm'[i] = m.term /\ role'[i] = Follower
    /\ PrevMatches(log[i], m) /\ ~CutsSnapshot(log[i], m)
    /\ LogBecomes(i, es)
    /\ \/ /\ es = Merge(log[i], m).entries
          /\ CommitBecomes(i, es, CommitAfter(commitIndex[i], Merge(log[i], m), m))
          /\ SentTo(i, j, AppendReply(m.term, TRUE, m.prevLogIndex + Len(m.entries), m.readContext))
       \/ /\ \E n \in KeptUpTo(log[i], m)..LastIndex(Merge(log[i], m)) :
                es = SubSeq(Merge(log[i], m).entries, 1, n)
          /\ CommitForgotten(i)
          /\ NothingSent
    /\ NoNewBallot

\* i answers a snapshot, and may replace its log by it.
Installs(i, j, m) ==
    /\ OthersRoles(i) /\ OthersLogs(i) /\ OthersProgress(i) /\ UNCHANGED elections
    /\ <<j, i>> \in Links /\ InTransit(<<j, i>>, m) /\ m \in SnapshotRequest
    /\ RoleKept(i)
    /\ \/ LogBecomes(i, log[i].entries)
       \/ LogBecomes(i, m.snapshot) /\ role'[i] = Follower
    /\ commitIndex'[i] <= Len(committed') /\ Len(committed) <= Len(committed') /\ BasesRecorded(i)'
    /\ NoNewBallot
    /\ \A l \in Links : \A x \in DOMAIN net'[l] :
         InTransit(l, net'[l][x]) \/ (l[1] = i /\ net'[l][x].type = "InstallSnapshotResponse")

AnyKind ==
    \E i \in Server :
        \/ Quiet(i)
        \/ Runs(i)
        \/ \E j \in Server, m \in Message : Grants(i, j, m)
        \/ \E t \in Nat, voters \in SUBSET Server : Wins(i, t, voters)
        \/ \E lg \in Log : Leads(i, lg)
        \/ \E j \in Server, m \in Message : Counts(i, j, m)
        \/ \E j \in Server, m \in Message, es \in Seq(Entry) : Follows(i, j, m, es)
        \/ \E j \in Server, m \in Message : Installs(i, j, m)

=============================================================================
