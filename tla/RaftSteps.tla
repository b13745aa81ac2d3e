----------------------------- MODULE RaftSteps ------------------------------
(***************************************************************************)
(* Every action of Raft is a step of one of the kinds of RaftKinds, for    *)
(* every cluster and every bound.                                          *)
(***************************************************************************)
EXTENDS RaftKinds

-----------------------------------------------------------------------------
(***************************************************************************)
(* The parts of an action.                                                 *)
(***************************************************************************)
LEMMA PumpEffect ==
    ASSUME Settled, NEW i \in Server, NEW lg \in Log, NEW ci \in Nat, Pump(i, lg, ci)
    PROVE  /\ OthersLogs(i)
           /\ LogBecomes(i, lg.entries)
           /\ CommitBecomes(i, lg.entries, ci)
           /\ lg.base <= Len(committed) \/ lg.base <= ci => BasesRecorded(i)'
           /\ lg.base = log[i].base => StaysWhole(i)
<1>1. /\ \A x \in Server : /\ disk'[x] = IF x = i THEN Persisted(i, lg) ELSE disk[x]
                           /\ log'[x] = IF x = i THEN MaybeSnapshot(lg, ci) ELSE log[x]
                           /\ commitIndex'[x] = IF x = i THEN ci ELSE commitIndex[x]
  BY Zenon DEF Pump, Settled, TypeOK
<1>2. disk'[i].log = lg
  BY <1>1 DEF Persisted
<1>3. log'[i].entries = lg.entries /\ (SnapshotThreshold = 0 => log'[i] = lg)
  <2>1. log'[i] = MaybeSnapshot(lg, ci)
    BY <1>1, Zenon
  <2>2. MaybeSnapshot(lg, ci).entries = lg.entries
    BY LogFacts DEF MaybeSnapshot, CreateSnapshot
  <2>3. SnapshotThreshold = 0 => MaybeSnapshot(lg, ci) = lg
    BY DEF MaybeSnapshot
  <2> QED BY <2>1, <2>2, <2>3, Zenon
<1>4. OthersLogs(i)
  BY <1>1, Zenon DEF OthersLogs
<1>5. LogBecomes(i, lg.entries)
  BY <1>2, <1>3, Zenon DEF LogBecomes
<1>6. CommitBecomes(i, lg.entries, ci)
  BY <1>1, Zenon DEF CommitBecomes, Recorded, Pump, LastIndex
<1>7. ASSUME lg.base <= Len(committed) \/ lg.base <= ci
      PROVE  BasesRecorded(i)'
  <2>1. /\ lg.entries \in Seq(Entry) /\ lg.base \in Nat /\ lg.base <= Len(lg.entries) /\ Len(lg.entries) \in Nat
        /\ committed \in Seq(Entry) /\ Len(committed) \in Nat
    BY LogFacts, SeqLen, Zenon DEF LastIndex, Settled, TypeOK
  <2>2. /\ Len(committed') \in Nat /\ Len(committed) <= Len(committed')
        /\ Min(ci, Len(lg.entries)) <= Len(committed')
    BY <1>6, <2>1, CommittedGrows, Zenon DEF CommitBecomes
  <2>3. lg.base <= Len(committed')
    BY <1>7, <2>1, <2>2 DEF Min
  <2>4. log'[i].base \in {lg.base, Min(ci, Len(lg.entries))}
    <3>1. CreateSnapshot(lg, Min(ci, LastIndex(lg))).base = Min(ci, LastIndex(lg))
      BY LogFacts DEF CreateSnapshot
    <3>2. MaybeSnapshot(lg, ci).base \in {lg.base, Min(ci, LastIndex(lg))}
      BY <3>1, Zenon DEF MaybeSnapshot
    <3> QED BY <1>1, <3>2, Zenon DEF LastIndex
  <2>5. log'[i].base <= Len(committed') /\ disk'[i].log.base <= Len(committed')
    BY <1>2, <2>2, <2>3, <2>4, Zenon
  <2> QED BY <2>5, Zenon DEF BasesRecorded
<1>8. lg.base = log[i].base => StaysWhole(i)
  <2>1. log[i].base <= Len(committed)
    BY Zenon DEF Settled, CommitRecorded, BasesRecorded
  <2> QED BY <1>2, <1>3, <1>7, <2>1, Zenon DEF StaysWhole
<1> QED BY <1>4, <1>5, <1>6, <1>7, <1>8, Zenon

LEMMA PumpOnlyEffect ==
    ASSUME Settled, NEW i \in Server, PumpOnly(i)
    PROVE  /\ OthersLogs(i) /\ StaysWhole(i)
           /\ LogBecomes(i, log[i].entries) /\ CommitSame(i)
<1>1. log[i] \in Log /\ commitIndex[i] \in Nat /\ Pump(i, log[i], commitIndex[i])
  BY Zenon DEF Settled, TypeOK, PumpOnly
<1>2. /\ OthersLogs(i) /\ StaysWhole(i) /\ LogBecomes(i, log[i].entries)
      /\ CommitBecomes(i, log[i].entries, commitIndex[i])
  BY <1>1, PumpEffect, Zenon DEF Settled
<1>3. ~(commitIndex[i] > Len(committed))
  <2>1. commitIndex[i] <= Len(committed) /\ Len(committed) \in Nat
    BY SeqLen, Zenon DEF Settled, CommitRecorded, TypeOK
  <2> QED BY <1>1, <2>1
<1>4. CommitSame(i)
  BY <1>2, <1>3, Zenon DEF CommitBecomes, Recorded, CommitSame
<1> QED BY <1>2, <1>4, Zenon

LEMMA RestartEffect ==
    ASSUME Settled, NEW i \in Server,
           NEW d \in [term : Nat, vote : Server \cup {Nil}, log : Log], RestartFrom(i, d),
           d.term >= currentTerm[i]
    PROVE  /\ OthersLogs(i) /\ OthersRoles(i) /\ OthersProgress(i)
           /\ LogBecomes(i, d.log.entries) /\ CommitForgotten(i)
           /\ role'[i] = Follower /\ currentTerm'[i] = d.term
           /\ d.log.base \in {log[i].base, disk[i].log.base} => StaysWhole(i)
           /\ NoNewBallot /\ NothingSent /\ UNCHANGED elections
<1> USE DEF Settled
<1>1. \A x \in Server : /\ disk'[x] = IF x = i THEN d ELSE disk[x]
                        /\ log'[x] = IF x = i THEN d.log ELSE log[x]
                        /\ commitIndex'[x] = IF x = i THEN d.log.base ELSE commitIndex[x]
                        /\ role'[x] = IF x = i THEN Follower ELSE role[x]
                        /\ currentTerm'[x] = IF x = i THEN d.term ELSE currentTerm[x]
                        /\ x # i => votesReceived'[x] = votesReceived[x]
  BY Zenon DEF RestartFrom, RecoveredCommit, TypeOK
<1>2. OthersProgress(i)
  <2>1. \A x \in Server \ {i} : nextIndex'[x] = nextIndex[x]
    BY Zenon DEF RestartFrom, TypeOK
  <2>2. \A x \in Server \ {i} : matchIndex'[x] = matchIndex[x]
    BY Zenon DEF RestartFrom, TypeOK
  <2>3. \A x \in Server \ {i} : sentIndex'[x] = sentIndex[x]
    BY Zenon DEF RestartFrom, TypeOK
  <2> QED BY <2>1, <2>2, <2>3, Zenon DEF OthersProgress, ProgressSame
<1>3. NothingSent
  <2>1. \A l \in Links : net'[l] = IF l[2] = i THEN <<>> ELSE net[l]
    BY Zenon DEF RestartFrom
  <2>2. DOMAIN <<>> = {}
    OBVIOUS
  <2> QED BY <2>1, <2>2, Zenon DEF NothingSent, InTransit
<1>4. NoNewBallot
  <2>1. NoVoteSent
    BY <1>3, Zenon DEF NothingSent, NoVoteSent, InTransit
  <2>2. NoVoteCounted
    BY <1>1, Zenon DEF NoVoteCounted, Follower, Candidate, Leader
  <2>3. UNCHANGED elections
    BY Zenon DEF RestartFrom
  <2> QED BY <2>1, <2>2, <2>3, NoBallotAppears, Zenon
<1>5. CommitForgotten(i)
  BY <1>1, Zenon DEF CommitForgotten, RestartFrom
<1>6. d.log.base \in {log[i].base, disk[i].log.base} => StaysWhole(i)
  <2>1. log[i].base <= Len(committed) /\ disk[i].log.base <= Len(committed)
    BY Zenon DEF CommitRecorded, BasesRecorded
  <2>2. log'[i] = d.log /\ disk'[i] = d /\ committed' = committed
    BY <1>1, Zenon DEF RestartFrom
  <2> QED BY <2>1, <2>2, Zenon DEF StaysWhole, BasesRecorded
<1>7. UNCHANGED elections
  BY Zenon DEF RestartFrom
<1> QED BY <1>1, <1>2, <1>3, <1>4, <1>5, <1>6, <1>7, Zenon
        DEF OthersLogs, OthersRoles, LogBecomes

LEMMA NoReplySends ==
    ASSUME TypeOK, NEW i, NEW j, NEW k, Arrives(i, j, k), NoReply(i, j, k)
    PROVE  NothingSent
<1> DEFINE out == [p \in {} |-> Nil]
<1>1. Exchange(i, j, k, out)
  BY Zenon DEF NoReply
<1>2. DOMAIN out = {} /\ \A p \in DOMAIN out : out[p] \in Message
  BY Zenon
<1> HIDE DEF out
<1>3. OldOrSent(i, out)
  BY <1>1, <1>2, ExchangeKeeps, Zenon
<1> QED BY <1>2, <1>3, Zenon DEF OldOrSent, NothingSent, InTransit

LEMMA ReplySends ==
    ASSUME TypeOK, NEW i, NEW j, NEW k, Arrives(i, j, k), NEW m \in Message, Reply(i, j, k, m)
    PROVE  SentTo(i, j, m)
<1> DEFINE out == [p \in {j} |-> m]
<1>1. Exchange(i, j, k, out)
  BY Zenon DEF Reply
<1>2. DOMAIN out = {j} /\ out[j] = m /\ \A p \in DOMAIN out : out[p] \in Message
  BY Zenon
<1> HIDE DEF out
<1>3. OldOrSent(i, out)
  BY <1>1, <1>2, ExchangeKeeps, Zenon
<1>4. \A l \in Links : l = <<l[1], l[2]>>
  BY LinkEnds, Zenon
<1> QED BY <1>2, <1>3, <1>4, Zenon DEF OldOrSent, SentTo, InTransit

\* The same message to every peer.
LEMMA BroadcastSends ==
    ASSUME TypeOK, NEW i, NEW j, NEW k, k = 0 \/ Arrives(i, j, k), NEW m \in Message,
           Exchange(i, j, k, [p \in Peers(i) |-> m])
    PROVE  SentToAll(i, m)
<1> DEFINE out == [p \in Peers(i) |-> m]
<1>1. \A p \in DOMAIN out : out[p] \in Message /\ out[p] = m
  BY Zenon
<1>2. Exchange(i, j, k, out)
  OBVIOUS
<1> HIDE DEF out
<1>3. OldOrSent(i, out)
  BY <1>1, <1>2, ExchangeKeeps, Zenon
<1> QED BY <1>1, <1>3, Zenon DEF OldOrSent, SentToAll, InTransit

-----------------------------------------------------------------------------
(***************************************************************************)
(* Quiet actions.                                                          *)
(***************************************************************************)
\* What is the same for every action: most leave a node's tally alone.
OthersTallies(i) == \A x \in Server \ {i} : votesReceived'[x] = votesReceived[x]

LEMMA NothingIsPlain ==
    ASSUME NEW i, NothingSent
    PROVE  PlainSent(i)
BY Zenon DEF NothingSent, PlainSent

LEMMA PlainIsNoVote ==
    ASSUME NEW i, PlainSent(i)
    PROVE  NoVoteSent
<1>1. \A m, t : Plain(m) => ~Grant(m, t)
  BY DEF Plain, Grant
<1> QED BY <1>1, Zenon DEF PlainSent, NoVoteSent, InTransit

LEMMA ReplyIsPlain ==
    ASSUME NEW i, NEW j, NEW m, SentTo(i, j, m), Plain(m)
    PROVE  PlainSent(i)
<1>1. <<i, j>>[1] = i
  OBVIOUS
<1> QED BY <1>1, Zenon DEF SentTo, PlainSent

LEMMA QuietIntro ==
    ASSUME Settled, NEW i \in Server, PumpOnly(i), OthersRoles(i), RoleKept(i),
           UNCHANGED <<leaderVars, elections>>, PlainSent(i),
           OthersTallies(i), role'[i] \in {Candidate, Leader} => votesReceived'[i] = votesReceived[i]
    PROVE  Quiet(i)
<1>1. /\ OthersLogs(i) /\ StaysWhole(i)
      /\ LogBecomes(i, log[i].entries) /\ CommitSame(i)
  BY PumpOnlyEffect, Zenon
<1>2. OthersProgress(i) /\ ProgressSame(i)
  BY Zenon DEF OthersProgress, ProgressSame, leaderVars
<1>3. NoNewBallot
  <2>1. NoVoteCounted
    BY Zenon DEF NoVoteCounted, OthersRoles, OthersTallies, RoleKept
  <2> QED BY <2>1, PlainIsNoVote, NoBallotAppears, Zenon
<1> QED BY <1>1, <1>2, <1>3, Zenon DEF Quiet, Frame

LEMMA SteadyRoles ==
    ASSUME TypeOK, NEW i \in Server, UNCHANGED electionVars
    PROVE  /\ OthersRoles(i) /\ RoleKept(i) /\ OthersTallies(i)
           /\ votesReceived'[i] = votesReceived[i]
<1>1. currentTerm'[i] >= currentTerm[i]
  BY DEF electionVars, TypeOK
<1> QED BY <1>1, Zenon DEF electionVars, OthersRoles, RoleKept, OthersTallies

LEMMA FollowerRoles ==
    ASSUME TypeOK, NEW i \in Server, NEW t \in Nat, BecomeFollower(i, t), UNCHANGED votesReceived
    PROVE  /\ OthersRoles(i) /\ RoleKept(i) /\ OthersTallies(i)
           /\ votesReceived'[i] = votesReceived[i]
           /\ role'[i] = Follower /\ currentTerm'[i] = Max(currentTerm[i], t)
<1>1. /\ \A x \in Server : /\ role'[x] = IF x = i THEN Follower ELSE role[x]
                           /\ currentTerm'[x] = IF x = i THEN Max(currentTerm[i], t) ELSE currentTerm[x]
      /\ currentTerm[i] \in Nat
  BY Zenon DEF BecomeFollower, TypeOK
<1>2. currentTerm'[i] >= currentTerm[i]
  BY <1>1 DEF Max
<1> QED BY <1>1, <1>2, Zenon DEF OthersRoles, RoleKept, OthersTallies, Follower, Candidate, Leader

LEMMA StepDownQuiet ==
    ASSUME Settled, NEW i, NEW j, NEW k, Arrives(i, j, k), NEW t \in Nat, StepDown(i, j, k, t)
    PROVE  i \in Server /\ Quiet(i)
<1>1. i \in Server /\ TypeOK
  BY Zenon DEF Arrives, Settled
<1>2. PlainSent(i)
  BY <1>1, NoReplySends, NothingIsPlain, Zenon DEF StepDown
<1>3. BecomeFollower(i, t) /\ UNCHANGED votesReceived /\ UNCHANGED <<leaderVars, elections>> /\ PumpOnly(i)
  BY Zenon DEF StepDown
<1> QED BY <1>1, <1>2, <1>3, FollowerRoles, QuietIntro, Zenon

LEMMA IgnoreQuiet ==
    ASSUME Settled, NEW i, NEW j, NEW k, Arrives(i, j, k), Ignore(i, j, k)
    PROVE  i \in Server /\ Quiet(i)
<1>1. i \in Server /\ TypeOK
  BY Zenon DEF Arrives, Settled
<1>2. PlainSent(i)
  BY <1>1, NoReplySends, NothingIsPlain, Zenon DEF Ignore
<1>3. UNCHANGED electionVars /\ UNCHANGED <<leaderVars, elections>> /\ PumpOnly(i)
  BY Zenon DEF Ignore
<1> QED BY <1>1, <1>2, <1>3, SteadyRoles, QuietIntro, Zenon

LEMMA IdleTickQuiet ==
    ASSUME Settled, NEW i \in Server, IdleTick(i)
    PROVE  Quiet(i)
<1>1. PlainSent(i)
  BY Zenon DEF IdleTick, PlainSent, InTransit
<1>2. UNCHANGED electionVars /\ UNCHANGED <<leaderVars, elections>> /\ PumpOnly(i)
  BY Zenon DEF IdleTick
<1>3. TypeOK
  BY Zenon DEF Settled
<1> QED BY <1>1, <1>2, <1>3, SteadyRoles, QuietIntro, Zenon

LEMMA ElectionTimeoutQuiet ==
    ASSUME Settled, NEW i \in Server, ElectionTimeout(i)
    PROVE  Quiet(i)
<1> DEFINE m == PreVoteMsg(currentTerm[i], log[i])
<1>1. TypeOK /\ log[i] \in Log /\ currentTerm[i] \in Nat
  BY Zenon DEF Settled, TypeOK
<1>2. m \in Message /\ Plain(m)
  BY <1>1, VoteRequestType DEF PreVoteMsg, Plain
<1>3. Exchange(i, i, 0, [p \in Peers(i) |-> m])
  BY Zenon DEF ElectionTimeout, Broadcast
<1> HIDE DEF m
<1>4. PlainSent(i)
  <2>1. SentToAll(i, m)
    BY <1>1, <1>2, <1>3, BroadcastSends, Zenon
  <2> QED BY <1>2, <2>1, Zenon DEF SentToAll, PlainSent
<1>5. \A x \in Server : role'[x] = IF x = i THEN PreCandidate ELSE role[x]
  BY Zenon DEF ElectionTimeout, Settled, TypeOK
<1>6. UNCHANGED currentTerm /\ currentTerm'[i] >= currentTerm[i]
  BY <1>1 DEF ElectionTimeout
<1>7. OthersRoles(i) /\ RoleKept(i)
  BY <1>5, <1>6, Zenon DEF OthersRoles, RoleKept, PreCandidate, Candidate, Leader
<1>8. /\ UNCHANGED <<leaderVars, elections>> /\ PumpOnly(i)
      /\ OthersTallies(i) /\ votesReceived'[i] = votesReceived[i]
  BY Zenon DEF ElectionTimeout, OthersTallies
<1> QED BY <1>4, <1>7, <1>8, QuietIntro, Zenon

LEMMA HandlePreVoteQuiet ==
    ASSUME Settled, NEW i, NEW j, NEW k, Arrives(i, j, k), HandlePreVote(i, j, k)
    PROVE  i \in Server /\ Quiet(i)
<1>1. i \in Server /\ TypeOK /\ currentTerm[i] \in Nat
  BY Zenon DEF Arrives, Settled, TypeOK
<1>2. PICK granted \in BOOLEAN : Reply(i, j, k, VoteReply("PreVoteResponse", currentTerm[i], granted))
  BY Zenon DEF HandlePreVote
<1>3. /\ VoteReply("PreVoteResponse", currentTerm[i], granted) \in Message
      /\ Plain(VoteReply("PreVoteResponse", currentTerm[i], granted))
  BY <1>1 DEF VoteReply, Plain, Message, VoteResponse
<1>4. PlainSent(i)
  BY <1>1, <1>2, <1>3, ReplySends, ReplyIsPlain, Zenon
<1>5. UNCHANGED electionVars /\ UNCHANGED <<leaderVars, elections>> /\ PumpOnly(i)
  BY Zenon DEF HandlePreVote
<1> QED BY <1>1, <1>4, <1>5, SteadyRoles, QuietIntro, Zenon

LEMMA RejectStaleAppendQuiet ==
    ASSUME Settled, NEW i, NEW j, NEW k, Arrives(i, j, k), RejectStaleAppend(i, j, k)
    PROVE  i \in Server /\ Quiet(i)
<1> DEFINE m == AppendReply(currentTerm[i], FALSE, 0, 0)
<1>1. i \in Server /\ TypeOK /\ currentTerm[i] \in Nat
  BY Zenon DEF Arrives, Settled, TypeOK
<1>2. m \in Message /\ Plain(m)
  BY <1>1 DEF AppendReply, Plain, Message, AppendResponse
<1>3. Reply(i, j, k, m) /\ UNCHANGED electionVars /\ UNCHANGED <<leaderVars, elections>> /\ PumpOnly(i)
  BY Zenon DEF RejectStaleAppend
<1> HIDE DEF m
<1>4. PlainSent(i)
  BY <1>1, <1>2, <1>3, ReplySends, ReplyIsPlain, Zenon
<1> QED BY <1>1, <1>3, <1>4, SteadyRoles, QuietIntro, Zenon

LEMMA RejectAppendQuiet ==
    ASSUME Settled, NEW i, NEW j, NEW k, Arrives(i, j, k), RejectAppend(i, j, k)
    PROVE  i \in Server /\ Quiet(i)
<1> DEFINE t == Msg(i, j, k).term
           m == AppendReply(t, FALSE, 0, Msg(i, j, k).readContext)
<1>1. i \in Server /\ TypeOK
  BY Zenon DEF Arrives, Settled
<1>2. Msg(i, j, k) \in AppendRequest
  BY <1>1, ArrivedMessage, MessageFields, Zenon DEF RejectAppend, Received, Msg
<1>3. t \in Nat /\ Msg(i, j, k).readContext \in Nat
  BY <1>2, Zenon DEF AppendRequest
<1>4. m \in Message /\ Plain(m)
  BY <1>3 DEF AppendReply, Plain, Message, AppendResponse
<1>5. /\ Reply(i, j, k, m) /\ BecomeFollower(i, t)
      /\ UNCHANGED votesReceived /\ UNCHANGED <<leaderVars, elections>> /\ PumpOnly(i)
  BY Zenon DEF RejectAppend
<1> HIDE DEF m, t
<1>6. PlainSent(i)
  BY <1>1, <1>4, <1>5, ReplySends, ReplyIsPlain, Zenon
<1> QED BY <1>1, <1>3, <1>5, <1>6, FollowerRoles, QuietIntro, Zenon

LEMMA RestartQuiet ==
    ASSUME Settled, NEW i \in Server,
           NEW d \in [term : Nat, vote : Server \cup {Nil}, log : Log], RestartFrom(i, d),
           d.term >= currentTerm[i], d.log.entries = log[i].entries,
           d.log.base \in {log[i].base, disk[i].log.base}
    PROVE  Quiet(i)
<1>1. /\ OthersLogs(i) /\ OthersRoles(i) /\ OthersProgress(i)
      /\ LogBecomes(i, d.log.entries) /\ CommitForgotten(i)
      /\ role'[i] = Follower /\ currentTerm'[i] = d.term
      /\ StaysWhole(i) /\ NoNewBallot /\ NothingSent /\ UNCHANGED elections
  BY RestartEffect, Zenon
<1>2. RoleKept(i) /\ (role'[i] = Leader => ProgressSame(i))
  BY <1>1, Zenon DEF RoleKept, Follower, Candidate, Leader
<1> QED BY <1>1, <1>2, NothingIsPlain, Zenon DEF Quiet, Frame

LEMMA CrashQuiet ==
    ASSUME Settled, HardStateOnDisk, NEW i \in Server, Crash(i)
    PROVE  Quiet(i)
<1>1. /\ disk[i] \in [term : Nat, vote : Server \cup {Nil}, log : Log]
      /\ disk[i].term = currentTerm[i] /\ currentTerm[i] \in Nat
      /\ disk[i].log.entries = log[i].entries
  BY Zenon DEF Settled, TypeOK, HardStateOnDisk, DiskHasLog
<1>2. disk[i].term >= currentTerm[i]
  BY <1>1
<1> QED BY <1>1, <1>2, RestartQuiet, Zenon DEF Crash

LEMMA PanicInAppendQuiet ==
    ASSUME Settled, HardStateOnDisk, NEW i, NEW j, NEW k, Arrives(i, j, k), PanicInAppend(i, j, k)
    PROVE  i \in Server /\ Quiet(i)
<1>1. i \in Server /\ Crash(i)
  BY Zenon DEF Arrives, PanicInAppend, Crash
<1> QED BY <1>1, CrashQuiet, Zenon

LEMMA DropConnQuiet ==
    ASSUME Settled, NEW l \in Links, DropConn(l[1], l[2])
    PROVE  l[1] \in Server /\ Quiet(l[1])
<1> DEFINE i == l[1]
<1>1. l = <<l[1], l[2]>> /\ i \in Server
  BY LinkEnds, Zenon
<1>2. UNCHANGED <<electionVars, leaderVars, logVars, elections>>
  BY Zenon DEF DropConn
<1>3. NothingSent
  <2>1. net' = [net EXCEPT ![l] = SubSeq(@, 1, Len(@) - 1)] /\ net \in [Links -> Seq(Message)]
    BY <1>1, Zenon DEF DropConn, Settled, TypeOK
  <2>2. \A c \in Links : net'[c] = IF c = l THEN SubSeq(net[l], 1, Len(net[l]) - 1) ELSE net[c]
    BY <2>1, Zenon
  <2>3. net[l] \in Seq(Message)
    BY <2>1, Zenon
  <2>4. \A x \in DOMAIN SubSeq(net[l], 1, Len(net[l]) - 1) :
          x \in DOMAIN net[l] /\ SubSeq(net[l], 1, Len(net[l]) - 1)[x] = net[l][x]
    BY <2>3
  <2> QED BY <2>2, <2>4, Zenon DEF NothingSent, InTransit
<1>4. NoNewBallot
  <2>1. NoVoteCounted
    BY <1>2, Zenon DEF NoVoteCounted, electionVars
  <2> QED BY <1>2, <1>3, <2>1, NothingIsPlain, PlainIsNoVote, NoBallotAppears, Zenon
<1>5. OthersRoles(i) /\ RoleKept(i)
  BY <1>1, <1>2, SteadyRoles, Zenon DEF Settled
<1>6. Frame(i)
  <2>1. BasesRecorded(i)'
    BY <1>1, <1>2, Zenon DEF BasesRecorded, CommitRecorded, Settled, logVars
  <2> QED BY <1>2, <1>5, <2>1, Zenon
          DEF Frame, OthersLogs, OthersProgress, ProgressSame, StaysWhole, logVars, leaderVars
<1>7. LogBecomes(i, log[i].entries) /\ CommitSame(i)
  BY <1>1, <1>2, Zenon DEF LogBecomes, CommitSame, logVars, Settled, DiskHasLog
<1>8. ProgressSame(i)
  BY <1>2, Zenon DEF ProgressSame, leaderVars
<1> HIDE DEF i
<1>9. Quiet(i)
  BY <1>2, <1>3, <1>4, <1>5, <1>6, <1>7, <1>8, NothingIsPlain, Zenon DEF Quiet
<1> QED BY <1>1, <1>9, Zenon DEF i

-----------------------------------------------------------------------------
(***************************************************************************)
(* Elections.                                                              *)
(***************************************************************************)
LEMMA HandlePreVoteResponseKind ==
    ASSUME Settled, NEW i, NEW j, NEW k, Arrives(i, j, k), HandlePreVoteResponse(i, j, k)
    PROVE  i \in Server /\ (Quiet(i) \/ Runs(i))
<1> DEFINE m     == RequestVoteMsg(currentTerm[i] + 1, log[i])
           polls == NoReply(i, j, k) /\ UNCHANGED <<role, currentTerm, votedFor, leaderID, votesReceived>>
           runs  == BecomeCandidate(i) /\ Exchange(i, j, k, [p \in Peers(i) |-> m])
           counted == (polls \/ runs) /\ UNCHANGED <<leaderVars, elections>> /\ PumpOnly(i)
<1>1. i \in Server /\ TypeOK /\ log[i] \in Log /\ currentTerm[i] \in Nat
  BY Zenon DEF Arrives, Settled, TypeOK
<1>2. Ignore(i, j, k) \/ counted
  BY Zenon DEF HandlePreVoteResponse
<1>3. CASE Ignore(i, j, k)
  BY <1>3, IgnoreQuiet, Zenon
<1>4. CASE counted /\ polls
  <2>1. PlainSent(i)
    BY <1>1, <1>4, NoReplySends, NothingIsPlain, Zenon
  <2>2. currentTerm'[i] >= currentTerm[i]
    BY <1>1, <1>4
  <2>3. OthersRoles(i) /\ RoleKept(i) /\ OthersTallies(i) /\ votesReceived'[i] = votesReceived[i]
    BY <1>4, <2>2, Zenon DEF OthersRoles, RoleKept, OthersTallies
  <2> QED BY <1>1, <1>4, <2>1, <2>3, QuietIntro, Zenon
<1>5. CASE counted /\ runs
  <2>1. /\ OthersLogs(i) /\ StaysWhole(i)
        /\ LogBecomes(i, log[i].entries) /\ CommitSame(i)
    BY <1>1, <1>5, PumpOnlyEffect, Zenon
  <2>2. OthersProgress(i)
    BY <1>5, Zenon DEF OthersProgress, ProgressSame, leaderVars
  <2>3. /\ \A x \in Server : /\ role'[x] = IF x = i THEN Candidate ELSE role[x]
                             /\ currentTerm'[x] = IF x = i THEN currentTerm[i] + 1 ELSE currentTerm[x]
                             /\ votesReceived'[x] = IF x = i THEN {i} ELSE votesReceived[x]
    BY <1>5, Zenon DEF BecomeCandidate, Settled, TypeOK
  <2>4. m \in Message /\ m.type = "RequestVote"
    <3>1. currentTerm[i] + 1 \in Nat
      BY <1>1
    <3>2. m.type = "RequestVote"
      BY DEF RequestVoteMsg
    <3> QED BY <1>1, <3>1, <3>2, VoteRequestType, Zenon
  <2>5. Exchange(i, j, k, [p \in Peers(i) |-> m])
    BY <1>5, Zenon
  <2> HIDE DEF m
  <2>6. SentToAll(i, m)
    BY <1>1, <2>4, <2>5, BroadcastSends, Zenon
  <2>7. OneNewBallot(i, currentTerm[i] + 1, i)
    <3> SUFFICES ASSUME NEW t \in Nat, NEW v \in Server, NEW c \in Server, Ballot(v, t, c)'
                 PROVE  Ballot(v, t, c) \/ (v = i /\ t = currentTerm[i] + 1 /\ c = i)
      BY Zenon DEF OneNewBallot
    <3>1. CASE <<v, c>> \in Links /\ \E y \in DOMAIN net'[<<v, c>>] : Grant(net'[<<v, c>>][y], t)
      <4>1. \A g \in Nat : ~Grant(m, g)
        BY <2>4 DEF Grant
      <4> QED BY <2>6, <3>1, <4>1, Zenon DEF SentToAll, InTransit, Ballot
    <3>2. CASE role'[c] \in {Candidate, Leader} /\ currentTerm'[c] = t /\ v \in votesReceived'[c]
      BY <2>3, <3>2, Zenon DEF Ballot
    <3>3. CASE \E e \in elections' : e.term = t /\ e.leader = c /\ v \in e.voters
      BY <1>5, <3>3, Zenon DEF Ballot
    <3> QED BY <3>1, <3>2, <3>3, Zenon DEF Ballot
  <2>8. OthersRoles(i)
    BY <2>3, Zenon DEF OthersRoles
  <2>9. UNCHANGED elections
    BY <1>5, Zenon
  <2>10. Runs(i)
    BY <1>1, <2>1, <2>2, <2>3, <2>6, <2>7, <2>8, <2>9, Zenon DEF Runs, Frame, m
  <2> QED BY <1>1, <2>10, Zenon
<1> QED BY <1>2, <1>3, <1>4, <1>5, Zenon

LEMMA HandleRequestVoteKind ==
    ASSUME Settled, NEW i, NEW j, NEW k, Arrives(i, j, k), HandleRequestVote(i, j, k)
    PROVE  /\ i \in Server /\ j \in Server /\ Msg(i, j, k) \in Message
           /\ Quiet(i) \/ Grants(i, j, Msg(i, j, k))
<1> DEFINE m     == Msg(i, j, k)
           newer == m.term > currentTerm[i]
           t     == Max(currentTerm[i], m.term)
<1>1. /\ TypeOK /\ i \in Server /\ j \in Server /\ m \in Message /\ m.term \in Nat
      /\ currentTerm[i] \in Nat /\ k \in DOMAIN net[<<j, i>>] /\ <<j, i>> \in Links
  BY ArrivedMessage, Zenon DEF Arrives, Settled, TypeOK
<1>2. PICK granted \in BOOLEAN :
        /\ granted => m.term >= currentTerm[i] /\ LogOK(m, log[i])
        /\ currentTerm' = [currentTerm EXCEPT ![i] = t]
        /\ role' = [role EXCEPT ![i] = IF newer THEN Follower ELSE @]
        /\ Reply(i, j, k, VoteReply("RequestVoteResponse", t, granted))
  BY Zenon DEF HandleRequestVote
<1>3. m.type = "RequestVote"
  BY Zenon DEF HandleRequestVote, Received, Msg
<1>4. t \in Nat /\ t >= currentTerm[i] /\ (~newer => t = currentTerm[i]) /\ (granted => t = m.term)
  BY <1>1, <1>2 DEF Max
<1>5. \A x \in Server : /\ currentTerm'[x] = IF x = i THEN t ELSE currentTerm[x]
                        /\ role'[x] = IF x = i /\ newer THEN Follower ELSE role[x]
  BY <1>2, Zenon DEF Settled, TypeOK
<1>6. UNCHANGED <<leaderVars, elections>> /\ UNCHANGED votesReceived /\ PumpOnly(i)
  BY Zenon DEF HandleRequestVote
<1> DEFINE r == VoteReply("RequestVoteResponse", t, granted)
<1>7. r \in Message
  BY <1>4, Zenon DEF VoteReply, Message, VoteResponse
<1>8. /\ r.type = "RequestVoteResponse" /\ r.term = t /\ r.voteGranted = granted
  BY DEF VoteReply
<1>9. SentTo(i, j, r)
  BY <1>1, <1>2, <1>7, ReplySends, Zenon
<1> HIDE DEF r, t
<1>10. OthersRoles(i) /\ RoleKept(i) /\ OthersTallies(i) /\ votesReceived'[i] = votesReceived[i]
  BY <1>1, <1>4, <1>5, <1>6, Zenon DEF OthersRoles, RoleKept, OthersTallies, Follower, Candidate, Leader
<1>11. CASE ~granted
  <2>1. Plain(r)
    BY <1>8, <1>11, Zenon DEF Plain
  <2>2. PlainSent(i)
    BY <1>9, <2>1, ReplyIsPlain, Zenon
  <2> QED BY <1>1, <1>6, <1>10, <2>2, QuietIntro, Zenon
<1>12. CASE granted
  <2>1. /\ OthersLogs(i) /\ StaysWhole(i)
        /\ LogBecomes(i, log[i].entries) /\ CommitSame(i)
    BY <1>1, <1>6, PumpOnlyEffect, Zenon
  <2>2. OthersProgress(i) /\ ProgressSame(i)
    BY <1>6, Zenon DEF OthersProgress, ProgressSame, leaderVars
  <2>3. InTransit(<<j, i>>, m)
    BY <1>1, Zenon DEF InTransit, Msg
  <2>4. OneNewBallot(i, m.term, j)
    <3> SUFFICES ASSUME NEW g \in Nat, NEW v \in Server, NEW c \in Server, Ballot(v, g, c)'
                 PROVE  Ballot(v, g, c) \/ (v = i /\ g = m.term /\ c = j)
      BY Zenon DEF OneNewBallot
    <3>1. ASSUME <<v, c>> \in Links, NEW y \in DOMAIN net'[<<v, c>>], Grant(net'[<<v, c>>][y], g)
          PROVE  Ballot(v, g, c) \/ (v = i /\ g = m.term /\ c = j)
      <4>1. CASE InTransit(<<v, c>>, net'[<<v, c>>][y])
        BY <3>1, <4>1, Zenon DEF InTransit, Ballot
      <4>2. CASE <<v, c>> = <<i, j>> /\ net'[<<v, c>>][y] = r
        <5>1. v = i /\ c = j
          BY <4>2
        <5>2. g = m.term
          BY <1>4, <1>8, <1>12, <3>1, <4>2, Zenon DEF Grant
        <5> QED BY <5>1, <5>2, Zenon
      <4> QED BY <1>9, <3>1, <4>1, <4>2, Zenon DEF SentTo
    <3>2. CASE role'[c] \in {Candidate, Leader} /\ currentTerm'[c] = g /\ v \in votesReceived'[c]
      <4>1. role[c] = role'[c] /\ currentTerm[c] = currentTerm'[c] /\ votesReceived'[c] = votesReceived[c]
        BY <1>6, <1>10, <3>2, Zenon DEF OthersRoles, RoleKept
      <4> QED BY <3>2, <4>1, Zenon DEF Ballot
    <3>3. CASE \E e \in elections' : e.term = g /\ e.leader = c /\ v \in e.voters
      BY <1>6, <3>3, Zenon DEF Ballot
    <3> QED BY <3>1, <3>2, <3>3, Zenon DEF Ballot
  <2>5. currentTerm'[i] = m.term /\ r = VoteReply("RequestVoteResponse", m.term, TRUE)
    <3>1. granted = TRUE
      BY <1>12, Zenon
    <3> QED BY <1>1, <1>4, <1>5, <3>1, Zenon DEF r, t
  <2>6. LogOK(m, log[i]) /\ UNCHANGED elections /\ Frame(i)
    BY <1>2, <1>6, <1>10, <1>12, <2>1, <2>2, Zenon DEF Frame
  <2> HIDE DEF m
  <2>7. Grants(i, j, m)
    BY <1>1, <1>3, <1>9, <1>10, <2>1, <2>2, <2>3, <2>4, <2>5, <2>6, Zenon DEF Grants
  <2> QED BY <1>1, <2>7, Zenon DEF m
<1> QED BY <1>11, <1>12, Zenon

LEMMA BecomeLeaderProgress ==
    ASSUME TypeOK, NEW i \in Server, NEW t, NEW voters, BecomeLeader(i, t, voters)
    PROVE  /\ OthersProgress(i)
           /\ \A p \in Server : /\ nextIndex'[i][p] = LastIndex(log[i]) + 1 /\ matchIndex'[i][p] = 0
                                /\ sentIndex'[i][p] \in {0, LastIndex(log[i])}
<1>1. \A x \in Server \ {i} : nextIndex'[x] = nextIndex[x]
  BY Zenon DEF BecomeLeader, TypeOK
<1>2. \A x \in Server \ {i} : matchIndex'[x] = matchIndex[x]
  BY Zenon DEF BecomeLeader, TypeOK
<1>3. \A x \in Server \ {i} : sentIndex'[x] = sentIndex[x]
  BY Zenon DEF BecomeLeader, TypeOK
<1>4. nextIndex'[i] = [p \in Server |-> LastIndex(log[i]) + 1]
  BY Zenon DEF BecomeLeader, TypeOK
<1>5. matchIndex'[i] = [p \in Server |-> 0]
  BY Zenon DEF BecomeLeader, TypeOK
<1>6. sentIndex'[i] = [p \in Server |-> IF p = i THEN 0 ELSE LastIndex(log[i])]
  BY Zenon DEF BecomeLeader, TypeOK
<1> QED BY <1>1, <1>2, <1>3, <1>4, <1>5, <1>6, Zenon DEF OthersProgress, ProgressSame

LEMMA HandleRequestVoteResponseKind ==
    ASSUME Settled, NEW i, NEW j, NEW k, Arrives(i, j, k), HandleRequestVoteResponse(i, j, k)
    PROVE  /\ i \in Server
           /\ \/ Quiet(i)
              \/ \E t \in Nat, voters \in SUBSET Server : Wins(i, t, voters)
<1> DEFINE m     == Msg(i, j, k)
           t     == currentTerm[i]
           votes == votesReceived[i] \cup {j}
           a     == AppendMsg(t, log[i], commitIndex[i], LastIndex(log[i]) + 1, 0, 0)
           stays == NoReply(i, j, k) /\ UNCHANGED <<role, leaderVars, elections>>
           wins  == BecomeLeader(i, t, votes) /\ Exchange(i, j, k, [p \in Peers(i) |-> a])
           counted == /\ m.term = t /\ role[i] = Candidate /\ m.voteGranted
                      /\ votesReceived' = [votesReceived EXCEPT ![i] = votes]
                      /\ stays \/ wins
                      /\ UNCHANGED currentTerm
                      /\ PumpOnly(i)
<1>1. /\ TypeOK /\ i \in Server /\ j \in Server /\ m \in Message /\ m.term \in Nat
      /\ t \in Nat /\ k \in DOMAIN net[<<j, i>>] /\ <<j, i>> \in Links
      /\ log[i] \in Log /\ commitIndex[i] \in Nat /\ votes \in SUBSET Server
  BY ArrivedMessage, Zenon DEF Arrives, Settled, TypeOK
<1>2. StepDown(i, j, k, m.term) \/ Ignore(i, j, k) \/ counted
  BY Zenon DEF HandleRequestVoteResponse
<1>3. CASE StepDown(i, j, k, m.term)
  BY <1>1, <1>3, StepDownQuiet, Zenon
<1>4. CASE Ignore(i, j, k)
  BY <1>4, IgnoreQuiet, Zenon
<1>5. CASE counted
  <2>1. m.type = "RequestVoteResponse"
    BY Zenon DEF HandleRequestVoteResponse, Received, Msg
  <2>2. \A v \in votes : Ballot(v, t, i)
    <3>1. Ballot(j, t, i)
      BY <1>1, <1>5, <2>1, Zenon DEF Ballot, Grant, Msg
    <3>2. \A v \in votesReceived[i] : Ballot(v, t, i)
      BY <1>5, Zenon DEF Ballot
    <3> QED BY <3>1, <3>2, Zenon
  <2>3. /\ OthersLogs(i) /\ StaysWhole(i)
        /\ LogBecomes(i, log[i].entries) /\ CommitSame(i)
    BY <1>1, <1>5, PumpOnlyEffect, Zenon
  <2>4. \A x \in Server : votesReceived'[x] = IF x = i THEN votes ELSE votesReceived[x]
    BY <1>5, Zenon DEF Settled, TypeOK
  <2>5. UNCHANGED currentTerm /\ role[i] = Candidate /\ currentTerm'[i] >= currentTerm[i]
    BY <1>1, <1>5
  <2> DEFINE new == [term |-> t, leader |-> i, voters |-> votes, log |-> log[i].entries]
  <2>6. ASSUME NoVoteSent, elections' \in SUBSET (elections \cup {new}),
               \A x \in Server \ {i} : role'[x] = role[x]
        PROVE  NoNewBallot
    <3> SUFFICES ASSUME NEW g \in Nat, NEW v \in Server, NEW c \in Server, Ballot(v, g, c)'
                 PROVE  Ballot(v, g, c)
      BY Zenon DEF NoNewBallot
    <3>0. new.term = t /\ new.leader = i /\ new.voters = votes
      BY Zenon
    <3> HIDE DEF new, votes
    <3>1. CASE <<v, c>> \in Links /\ \E y \in DOMAIN net'[<<v, c>>] : Grant(net'[<<v, c>>][y], g)
      BY <2>6, <3>1, Zenon DEF NoVoteSent, Ballot
    <3>2. CASE role'[c] \in {Candidate, Leader} /\ currentTerm'[c] = g /\ v \in votesReceived'[c]
      <4>1. CASE c = i
        BY <2>2, <2>4, <2>5, <3>2, <4>1, Zenon
      <4>2. CASE c # i
        BY <2>4, <2>5, <2>6, <3>2, <4>2, Zenon DEF Ballot
      <4> QED BY <4>1, <4>2, Zenon
    <3>3. ASSUME NEW e \in elections', e.term = g, e.leader = c, v \in e.voters
          PROVE  Ballot(v, g, c)
      <4>1. CASE e \in elections
        BY <3>3, <4>1, Zenon DEF Ballot
      <4>2. CASE e = new
        BY <2>2, <3>0, <3>3, <4>2, Zenon
      <4> QED BY <2>6, <4>1, <4>2, Zenon
    <3> QED BY <3>1, <3>2, <3>3, Zenon DEF Ballot
  <2>7. CASE stays
    <3>1. NothingSent
      BY <1>1, <2>7, NoReplySends, Zenon
    <3>2. NoNewBallot
      <4>1. elections' \in SUBSET (elections \cup {new}) /\ \A x \in Server \ {i} : role'[x] = role[x]
        BY <2>7, Zenon
      <4> HIDE DEF new
      <4> QED BY <2>6, <3>1, <4>1, NothingIsPlain, PlainIsNoVote, Zenon
    <3>3. OthersProgress(i) /\ ProgressSame(i) /\ OthersRoles(i) /\ RoleKept(i)
      BY <2>5, <2>7, Zenon DEF OthersProgress, ProgressSame, leaderVars, OthersRoles, RoleKept
    <3>4. UNCHANGED elections
      BY <2>7, Zenon
    <3> QED BY <1>1, <2>3, <3>1, <3>2, <3>3, <3>4, NothingIsPlain, Zenon DEF Quiet, Frame
  <2>8. CASE wins
    <3>1. a \in Message /\ a.type # "RequestVoteResponse"
      <4>1. LastIndex(log[i]) + 1 \in Nat \ {0} /\ 0 \in Nat
        BY <1>1, LogFacts
      <4>2. a \in Message /\ a.type \in {"AppendEntries", "InstallSnapshot"}
        BY <1>1, <4>1, AppendMsgType, Zenon
      <4> QED BY <4>2, Zenon
    <3>2. SentToAll(i, a)
      <4>1. Exchange(i, j, k, [p \in Peers(i) |-> a])
        BY <2>8, Zenon
      <4> HIDE DEF a
      <4> QED BY <1>1, <3>1, <4>1, BroadcastSends, Zenon
    <3>3. /\ \A x \in Server : role'[x] = IF x = i THEN Leader ELSE role[x]
          /\ elections' = elections \cup {new}
      BY <2>8, Zenon DEF BecomeLeader, Settled, TypeOK
    <3>4. /\ OthersProgress(i)
          /\ \A p \in Server : /\ nextIndex'[i][p] = LastIndex(log[i]) + 1 /\ matchIndex'[i][p] = 0
                               /\ sentIndex'[i][p] \in {0, LastIndex(log[i])}
      <4>1. BecomeLeader(i, t, votes)
        BY <2>8, Zenon
      <4> QED BY <1>1, <4>1, BecomeLeaderProgress, Zenon
    <3>5. NoVoteSent
      <4>1. \A g \in Nat : ~Grant(a, g)
        BY <3>1, Zenon DEF Grant
      <4> HIDE DEF a
      <4> QED BY <3>2, <4>1, Zenon DEF SentToAll, NoVoteSent, InTransit
    <3>6. OneNewBallot(i, t, i)
      <4>1. NoNewBallot
        <5> HIDE DEF new
        <5> QED BY <2>6, <3>3, <3>5, Zenon
      <4> QED BY <4>1, Zenon DEF NoNewBallot, OneNewBallot
    <3>7. OthersRoles(i) /\ role'[i] = Leader /\ role[i] # Leader /\ currentTerm'[i] = t
      BY <1>1, <2>5, <3>3, Zenon DEF OthersRoles, Candidate, Leader
    <3>8. Wins(i, t, votes)
      <4> HIDE DEF votes
      <4> QED BY <2>2, <2>3, <2>5, <3>2, <3>3, <3>4, <3>6, <3>7, Zenon DEF Wins, Frame
    <3> QED BY <1>1, <3>8, Zenon
  <2> QED BY <1>5, <2>7, <2>8, Zenon
<1> QED BY <1>2, <1>3, <1>4, <1>5, Zenon

LEMMA ElectionTimeoutAloneKind ==
    ASSUME Settled, NEW i \in Server, ElectionTimeoutAlone(i)
    PROVE  \E t \in Nat, voters \in SUBSET Server : Wins(i, t, voters)
<1> DEFINE t   == currentTerm[i] + 1
           new == [term |-> t, leader |-> i, voters |-> {i}, log |-> log[i].entries]
<1>1. /\ TypeOK /\ log[i] \in Log /\ currentTerm[i] \in Nat /\ Server = {i}
  <2>1. Server \ {i} = {}
    BY Zenon DEF ElectionTimeoutAlone, Peers
  <2> QED BY <2>1, ZenonT(30) DEF Settled, TypeOK
<1>2. t \in Nat /\ {i} \in SUBSET Server
  BY <1>1
<1>3. BecomeLeader(i, t, {i}) /\ UNCHANGED net /\ PumpOnly(i) /\ role[i] # Leader
  BY Zenon DEF ElectionTimeoutAlone
<1>4. /\ currentTerm'[i] = t /\ role'[i] = Leader /\ votesReceived'[i] = {i}
      /\ elections' = elections \cup {new}
  BY <1>3, Zenon DEF ElectionTimeoutAlone, BecomeLeader, Settled, TypeOK
<1>5. /\ OthersLogs(i) /\ StaysWhole(i)
      /\ LogBecomes(i, log[i].entries) /\ CommitSame(i)
  BY <1>3, PumpOnlyEffect, Zenon
<1>6. /\ OthersProgress(i)
      /\ \A p \in Server : /\ nextIndex'[i][p] = LastIndex(log[i]) + 1 /\ matchIndex'[i][p] = 0
                           /\ sentIndex'[i][p] \in {0, LastIndex(log[i])}
  BY <1>1, <1>3, BecomeLeaderProgress, Zenon
<1>7. OthersRoles(i)
  BY <1>1, Zenon DEF OthersRoles
<1>8. \A m : SentToAll(i, m)
  BY <1>3, Zenon DEF SentToAll, InTransit
<1>9. new.term = t /\ new.leader = i /\ new.voters = {i}
  BY Zenon
<1>10. OneNewBallot(i, t, i)
  <2> SUFFICES ASSUME NEW g \in Nat, NEW v \in Server, NEW c \in Server, Ballot(v, g, c)'
               PROVE  Ballot(v, g, c) \/ (v = i /\ g = t /\ c = i)
    BY Zenon DEF OneNewBallot
  <2>0. v = i /\ c = i
    BY <1>1, Zenon
  <2> HIDE DEF new, t
  <2>1. CASE <<v, c>> \in Links /\ \E y \in DOMAIN net'[<<v, c>>] : Grant(net'[<<v, c>>][y], g)
    BY <1>3, <2>1, Zenon DEF Ballot
  <2>2. CASE role'[c] \in {Candidate, Leader} /\ currentTerm'[c] = g /\ v \in votesReceived'[c]
    BY <1>4, <2>0, <2>2, Zenon
  <2>3. ASSUME NEW e \in elections', e.term = g, e.leader = c, v \in e.voters
        PROVE  Ballot(v, g, c) \/ g = t
    BY <1>4, <1>9, <2>3, Zenon DEF Ballot
  <2> QED BY <2>0, <2>1, <2>2, <2>3, Zenon DEF Ballot
<1>11. Wins(i, t, {i})
  BY <1>1, <1>3, <1>4, <1>5, <1>6, <1>7, <1>8, <1>10, Zenon DEF Wins, Frame
<1> QED BY <1>2, <1>11, Zenon

-----------------------------------------------------------------------------
(***************************************************************************)
(* What a leader does.                                                     *)
(***************************************************************************)
LEMMA AppendIsNoVote ==
    ASSUME TypeOK, NEW i \in Server, NEW lg \in Log, AppendSent(i, lg)
    PROVE  NoVoteSent
<1> SUFFICES ASSUME NEW l \in Links, NEW x \in DOMAIN net'[l], NEW t \in Nat, Grant(net'[l][x], t),
                    ~InTransit(l, net'[l][x])
             PROVE  FALSE
  BY Zenon DEF NoVoteSent, InTransit
<1>1. PICK next \in 1..nextIndex[i][l[2]], sent \in {0, sentIndex[i][l[2]]}, ctx \in Nat :
        net'[l][x] = AppendMsg(currentTerm[i], lg, commitIndex[i], next, sent, ctx)
  BY Zenon DEF AppendSent
<1>2. next \in Nat \ {0} /\ sent \in Nat /\ currentTerm[i] \in Nat /\ commitIndex[i] \in Nat
  <2>1. l[2] \in Server
    BY LinkEnds, Zenon
  <2>2. nextIndex[i][l[2]] \in Nat /\ sentIndex[i][l[2]] \in Nat
    BY <2>1 DEF TypeOK
  <2>3. next \in Nat \ {0}
    BY <2>2
  <2>4. sent \in Nat
    BY <2>2
  <2> QED BY <2>3, <2>4, Zenon DEF TypeOK
<1>3. AppendMsg(currentTerm[i], lg, commitIndex[i], next, sent, ctx).type
        \in {"AppendEntries", "InstallSnapshot"}
  BY <1>2, AppendMsgType, Zenon
<1> QED BY <1>1, <1>3, Zenon DEF Grant

LEMMA SendToAllEffect ==
    ASSUME TypeOK, NEW i \in Server, NEW lg \in Log, NEW ctx \in Nat, SendToAll(i, lg, ctx)
    PROVE  /\ AppendSent(i, lg) /\ OthersProgress(i) /\ matchIndex'[i] = matchIndex[i]
           /\ \A p \in Server : /\ nextIndex'[i][p] <= nextIndex[i][p]
                                /\ sentIndex'[i][p] <= Max(sentIndex[i][p], LastIndex(lg))
<1> DEFINE out == [p \in Peers(i) |-> AppendMsg(currentTerm[i], lg, commitIndex[i],
                                                nextIndex[i][p], sentIndex[i][p], ctx)]
<1>1. /\ currentTerm[i] \in Nat /\ commitIndex[i] \in Nat /\ LastIndex(lg) \in Nat
      /\ \A p \in Server : nextIndex[i][p] \in Nat \ {0} /\ sentIndex[i][p] \in Nat
  BY LogFacts DEF TypeOK
<1>2. Exchange(i, i, 0, out)
  BY Zenon DEF SendToAll, Broadcast
<1>3. \A p \in DOMAIN out : out[p] \in Message
  <2>1. \A p \in Peers(i) : p \in Server
    BY Zenon DEF Peers
  <2> QED BY <1>1, <2>1, AppendMsgType, Zenon
<1>4. OldOrSent(i, out)
  <2> HIDE DEF out
  <2> QED BY <1>2, <1>3, ExchangeKeeps, Zenon
<1>5. AppendSent(i, lg)
  <2> SUFFICES ASSUME NEW l \in Links, NEW x \in DOMAIN net'[l], ~InTransit(l, net'[l][x])
               PROVE  /\ l[1] = i
                      /\ \E next \in 1..nextIndex[i][l[2]], sent \in {0, sentIndex[i][l[2]]}, c \in Nat :
                           net'[l][x] = AppendMsg(currentTerm[i], lg, commitIndex[i], next, sent, c)
    BY Zenon DEF AppendSent
  <2>1. l[1] = i /\ l[2] \in DOMAIN out /\ net'[l][x] = out[l[2]]
    BY <1>4, Zenon DEF OldOrSent, InTransit
  <2>2. l[2] \in Peers(i) /\ net'[l][x] = AppendMsg(currentTerm[i], lg, commitIndex[i],
                                                    nextIndex[i][l[2]], sentIndex[i][l[2]], ctx)
    BY <2>1, Zenon
  <2>3. nextIndex[i][l[2]] \in 1..nextIndex[i][l[2]]
    BY <1>1, <2>2 DEF Peers
  <2> QED BY <2>1, <2>2, <2>3, Zenon
<1>6. /\ UNCHANGED <<nextIndex, matchIndex>>
      /\ sentIndex'[i] = [p \in Server |->
            IF p = i THEN sentIndex[i][p] ELSE SentIndex(lg, nextIndex[i][p], sentIndex[i][p])]
      /\ \A x \in Server \ {i} : sentIndex'[x] = sentIndex[x]
  BY Zenon DEF SendToAll, TypeOK
<1>7. OthersProgress(i) /\ matchIndex'[i] = matchIndex[i]
  BY <1>6, Zenon DEF OthersProgress, ProgressSame
<1>8. ASSUME NEW p \in Server
      PROVE  /\ nextIndex'[i][p] <= nextIndex[i][p]
             /\ sentIndex'[i][p] <= Max(sentIndex[i][p], LastIndex(lg))
  <2>1. sentIndex'[i][p] \in {sentIndex[i][p], Max(sentIndex[i][p], LastIndex(lg))}
    BY <1>6, Zenon DEF SentIndex
  <2>2. nextIndex'[i][p] = nextIndex[i][p]
    BY <1>6, Zenon
  <2> QED BY <1>1, <2>1, <2>2 DEF Max
<1> QED BY <1>5, <1>7, <1>8, Zenon

LEMMA LeadsIntro ==
    ASSUME Settled, NEW i \in Server, role[i] = Leader, UNCHANGED <<electionVars, elections>>,
           NEW lg \in Log, lg.base = log[i].base, LastIndex(log[i]) <= LastIndex(lg),
           \A n \in 1..LastIndex(lg) : IF n <= LastIndex(log[i])
                                       THEN lg.entries[n] = log[i].entries[n]
                                       ELSE lg.entries[n].term = currentTerm[i],
           NEW ci \in Nat, ci \in {commitIndex[i], AdvanceCommit(i, lg, matchIndex[i])}, Pump(i, lg, ci),
           AppendSent(i, lg), OthersProgress(i), matchIndex'[i] = matchIndex[i],
           \A p \in Server : /\ nextIndex'[i][p] <= nextIndex[i][p]
                             /\ sentIndex'[i][p] <= Max(sentIndex[i][p], LastIndex(lg))
    PROVE  Leads(i, lg)
<1>1. TypeOK /\ OthersRoles(i) /\ role'[i] = Leader /\ currentTerm'[i] = currentTerm[i]
  BY Zenon DEF Settled, OthersRoles, electionVars
<1>2. /\ OthersLogs(i) /\ LogBecomes(i, lg.entries) /\ CommitBecomes(i, lg.entries, ci)
      /\ StaysWhole(i)
  BY <1>1, PumpEffect, Zenon
<1>3. CommitSame(i) \/ CommitBecomes(i, lg.entries, AdvanceCommit(i, lg, matchIndex[i]))
  <2>1. CASE ci = commitIndex[i]
    <3>1. ~(ci > Len(committed))
      <4>1. commitIndex[i] <= Len(committed) /\ Len(committed) \in Nat
        BY SeqLen, Zenon DEF Settled, CommitRecorded, TypeOK
      <4> QED BY <2>1, <4>1
    <3> QED BY <1>2, <2>1, <3>1, Zenon DEF CommitBecomes, Recorded, CommitSame
  <2> QED BY <1>2, <2>1, Zenon
<1>4. NoNewBallot
  <2>1. NoVoteCounted
    BY Zenon DEF NoVoteCounted, electionVars
  <2> QED BY <1>1, <2>1, AppendIsNoVote, NoBallotAppears, Zenon
<1>5. UNCHANGED elections
  BY Zenon
<1> QED BY <1>1, <1>2, <1>3, <1>4, <1>5, Zenon DEF Leads, Frame

\* The log did not change.
LEMMA SameLog ==
    ASSUME TypeOK, NEW i \in Server
    PROVE  /\ log[i] \in Log /\ LastIndex(log[i]) \in Nat /\ LastIndex(log[i]) <= LastIndex(log[i])
           /\ \A n \in 1..LastIndex(log[i]) : IF n <= LastIndex(log[i])
                                              THEN log[i].entries[n] = log[i].entries[n]
                                              ELSE log[i].entries[n].term = currentTerm[i]
<1>1. log[i] \in Log
  BY Zenon DEF TypeOK
<1>2. LastIndex(log[i]) \in Nat
  BY <1>1, LogFacts, Zenon
<1> QED BY <1>1, <1>2

LEMMA HeartbeatKind ==
    ASSUME Settled, NEW i \in Server, Heartbeat(i)
    PROVE  Leads(i, log[i])
<1>1. TypeOK /\ log[i] \in Log /\ commitIndex[i] \in Nat
  BY Zenon DEF Settled, TypeOK
<1>2. SendToAll(i, log[i], 0)
  BY Zenon DEF Heartbeat
<1>3. /\ AppendSent(i, log[i]) /\ OthersProgress(i) /\ matchIndex'[i] = matchIndex[i]
      /\ \A p \in Server : /\ nextIndex'[i][p] <= nextIndex[i][p]
                           /\ sentIndex'[i][p] <= Max(sentIndex[i][p], LastIndex(log[i]))
  BY <1>1, <1>2, SendToAllEffect, Zenon
<1>4. role[i] = Leader /\ UNCHANGED <<electionVars, elections>> /\ Pump(i, log[i], commitIndex[i])
  BY Zenon DEF Heartbeat, PumpOnly
<1> QED BY <1>1, <1>3, <1>4, SameLog, LeadsIntro, Zenon

LEMMA RequestReadIndexKind ==
    ASSUME Settled, NEW i \in Server, RequestReadIndex(i)
    PROVE  Leads(i, log[i])
<1>1. TypeOK /\ log[i] \in Log /\ commitIndex[i] \in Nat /\ nextReadCtx[i] \in Nat
  BY Zenon DEF Settled, TypeOK
<1>2. SendToAll(i, log[i], nextReadCtx[i]) \/ UNCHANGED <<leaderVars, net>>
  BY Zenon DEF RequestReadIndex
<1>3. /\ AppendSent(i, log[i]) /\ OthersProgress(i) /\ matchIndex'[i] = matchIndex[i]
      /\ \A p \in Server : /\ nextIndex'[i][p] <= nextIndex[i][p]
                           /\ sentIndex'[i][p] <= Max(sentIndex[i][p], LastIndex(log[i]))
  <2>1. CASE SendToAll(i, log[i], nextReadCtx[i])
    BY <1>1, <2>1, SendToAllEffect, Zenon
  <2>2. CASE UNCHANGED <<leaderVars, net>>
    <3>1. AppendSent(i, log[i]) /\ OthersProgress(i) /\ ProgressSame(i)
      BY <2>2, Zenon DEF AppendSent, InTransit, OthersProgress, ProgressSame, leaderVars
    <3>2. \A p \in Server : nextIndex[i][p] \in Nat /\ sentIndex[i][p] \in Nat
      BY <1>1 DEF TypeOK
    <3>3. LastIndex(log[i]) \in Nat
      BY <1>1, LogFacts, Zenon
    <3>4. \A p \in Server : /\ nextIndex[i][p] <= nextIndex[i][p]
                            /\ sentIndex[i][p] <= Max(sentIndex[i][p], LastIndex(log[i]))
      BY <3>2, <3>3 DEF Max
    <3> QED BY <3>1, <3>4, Zenon DEF ProgressSame
  <2> QED BY <1>2, <2>1, <2>2, Zenon
<1>4. role[i] = Leader /\ UNCHANGED <<electionVars, elections>> /\ Pump(i, log[i], commitIndex[i])
  BY Zenon DEF RequestReadIndex, PumpOnly
<1> QED BY <1>1, <1>3, <1>4, SameLog, LeadsIntro, Zenon

LEMMA ProposedEntries ==
    ASSUME TypeOK, NEW i \in Server, NEW datas \in Seq(Value)
    PROVE  /\ Proposed(i, datas).base = log[i].base
           /\ LastIndex(log[i]) <= LastIndex(Proposed(i, datas))
           /\ \A n \in 1..LastIndex(Proposed(i, datas)) :
                IF n <= LastIndex(log[i])
                THEN Proposed(i, datas).entries[n] = log[i].entries[n]
                ELSE Proposed(i, datas).entries[n].term = currentTerm[i]
<1> DEFINE new == [n \in 1..Len(datas) |-> [term |-> currentTerm[i], data |-> datas[n]]]
           es  == log[i].entries \o new
<1>1. log[i] \in Log /\ currentTerm[i] \in Nat /\ log[i].entries \in Seq(Entry) /\ Len(datas) \in Nat
  BY LogFacts, SeqLen, Zenon DEF TypeOK
<1>2. new \in Seq(Entry) /\ Len(new) \in Nat /\ \A n \in 1..Len(new) : new[n].term = currentTerm[i]
  <2>1. \A n \in 1..Len(datas) : datas[n] \in Value
    BY SeqElement, Zenon
  <2>2. \A n \in 1..Len(datas) : [term |-> currentTerm[i], data |-> datas[n]] \in Entry
    BY <1>1, <2>1, Zenon DEF Entry
  <2>3. \A n \in 1..Len(datas) : new[n].term = currentTerm[i]
    OBVIOUS
  <2>4. new \in [1..Len(datas) -> Entry]
    BY <2>2, Zenon
  <2> HIDE DEF new
  <2>5. new \in Seq(Entry) /\ Len(new) = Len(datas)
    BY <1>1, <2>4
  <2> QED BY <1>1, <2>3, <2>5
<1>3. Proposed(i, datas) = [base |-> log[i].base, entries |-> es]
  BY <1>1, WithEntries, Zenon DEF Proposed
<1> HIDE DEF new
<1>4. /\ Len(es) = Len(log[i].entries) + Len(new)
      /\ \A n \in 1..(Len(log[i].entries) + Len(new)) :
           es[n] = IF n <= Len(log[i].entries) THEN log[i].entries[n] ELSE new[n - Len(log[i].entries)]
  BY <1>1, <1>2, SeqConcat, Zenon
<1> HIDE DEF es
<1>5. Len(log[i].entries) \in Nat
  BY <1>1, SeqLen, Zenon
<1>6. ASSUME NEW n \in 1..Len(es)
      PROVE  IF n <= Len(log[i].entries) THEN es[n] = log[i].entries[n] ELSE es[n].term = currentTerm[i]
  <2>1. CASE n <= Len(log[i].entries)
    BY <1>2, <1>4, <1>5, <2>1
  <2>2. CASE ~(n <= Len(log[i].entries))
    <3>1. n - Len(log[i].entries) \in 1..Len(new)
      BY <1>2, <1>4, <1>5, <2>2
    <3>2. es[n] = new[n - Len(log[i].entries)]
      BY <1>2, <1>4, <1>5, <2>2
    <3> QED BY <1>2, <2>2, <3>1, <3>2, Zenon
  <2> QED BY <2>1, <2>2, Zenon
<1>7. Len(log[i].entries) <= Len(es)
  BY <1>2, <1>4, <1>5
<1>8. Proposed(i, datas).base = log[i].base /\ Proposed(i, datas).entries = es
  BY <1>3
<1> QED BY <1>6, <1>7, <1>8, Zenon DEF LastIndex

LEMMA ProposeBatchKind ==
    ASSUME Settled, NEW i \in Server, NEW datas \in Seq(Value), ProposeBatch(i, datas)
    PROVE  \E lg \in Log : Leads(i, lg)
<1> DEFINE lg == Proposed(i, datas)
           ci == IF Peers(i) = {} THEN AdvanceCommit(i, lg, matchIndex[i]) ELSE commitIndex[i]
<1>1. TypeOK /\ commitIndex[i] \in Nat
  BY Zenon DEF Settled, TypeOK
<1>2. lg \in Log
  BY <1>1, ProposedLogType, Zenon
<1>3. SendToAll(i, lg, 0) /\ Pump(i, lg, ci) /\ role[i] = Leader /\ UNCHANGED <<electionVars, elections>>
  BY Zenon DEF ProposeBatch
<1>4. ci \in Nat /\ ci \in {commitIndex[i], AdvanceCommit(i, lg, matchIndex[i])}
  BY <1>1, <1>2, AdvanceCommitType, Zenon
<1>5. /\ lg.base = log[i].base /\ LastIndex(log[i]) <= LastIndex(lg)
      /\ \A n \in 1..LastIndex(lg) : IF n <= LastIndex(log[i])
                                     THEN lg.entries[n] = log[i].entries[n]
                                     ELSE lg.entries[n].term = currentTerm[i]
  BY <1>1, ProposedEntries, Zenon
<1> HIDE DEF lg, ci
<1>6. /\ AppendSent(i, lg) /\ OthersProgress(i) /\ matchIndex'[i] = matchIndex[i]
      /\ \A p \in Server : /\ nextIndex'[i][p] <= nextIndex[i][p]
                           /\ sentIndex'[i][p] <= Max(sentIndex[i][p], LastIndex(lg))
  BY <1>1, <1>2, <1>3, SendToAllEffect, Zenon
<1>7. Leads(i, lg)
  BY <1>2, <1>3, <1>4, <1>5, <1>6, LeadsIntro, Zenon
<1> QED BY <1>2, <1>7, Zenon

LEMMA CountsIntro ==
    ASSUME Settled, NEW i, NEW j, NEW k, Arrives(i, j, k), role[i] = Leader,
           UNCHANGED <<electionVars, elections>>, UNCHANGED sentIndex,
           NEW m \in Message, m = Msg(i, j, k), m.term = currentTerm[i], m.matchIndex \in Nat,
           \/ m.type = "AppendEntriesResponse" /\ m.success
           \/ m.type = "InstallSnapshotResponse",
           NEW match, match = [matchIndex[i] EXCEPT ![j] = Max(@, m.matchIndex)],
           matchIndex' = [matchIndex EXCEPT ![i] = match],
           NEW next, next \in {nextIndex[i][j], m.matchIndex + 1},
           nextIndex' = [nextIndex EXCEPT ![i][j] = next],
           Pump(i, log[i], AdvanceCommit(i, log[i], match)), NoReply(i, j, k)
    PROVE  i \in Server /\ j \in Server /\ Counts(i, j, m)
<1>1. /\ i \in Server /\ j \in Server /\ TypeOK /\ log[i] \in Log
      /\ <<j, i>> \in Links /\ k \in DOMAIN net[<<j, i>>]
  BY Zenon DEF Arrives, Settled, TypeOK
<1>2. /\ OthersRoles(i) /\ role'[i] = Leader /\ currentTerm'[i] = currentTerm[i]
  BY <1>1, Zenon DEF OthersRoles, electionVars
<1>3. matchIndex'[i] = match /\ \A x \in Server \ {i} : matchIndex'[x] = matchIndex[x]
  BY <1>1, Zenon DEF TypeOK
<1>4. \A p \in Server : match[p] = IF p = j THEN Max(matchIndex[i][p], m.matchIndex) ELSE matchIndex[i][p]
  BY <1>1 DEF TypeOK
<1>5. /\ \A x \in Server \ {i} : nextIndex'[x] = nextIndex[x]
      /\ \A p \in Server : nextIndex'[i][p] = IF p = j THEN next ELSE nextIndex[i][p]
  BY <1>1 DEF TypeOK
<1>6. OthersProgress(i) /\ sentIndex'[i] = sentIndex[i]
  BY <1>3, <1>5, Zenon DEF OthersProgress, ProgressSame
<1>7. AdvanceCommit(i, log[i], match) \in Nat
  BY <1>1, AdvanceCommitType, Zenon
<1>8. /\ OthersLogs(i) /\ LogBecomes(i, log[i].entries) /\ StaysWhole(i)
      /\ CommitBecomes(i, log[i].entries, AdvanceCommit(i, log[i], match))
  BY <1>1, <1>7, PumpEffect, Zenon
<1>9. NothingSent
  BY <1>1, NoReplySends, Zenon
<1>10. NoNewBallot
  <2>1. NoVoteCounted
    BY Zenon DEF NoVoteCounted, electionVars
  <2> QED BY <1>9, <2>1, NothingIsPlain, PlainIsNoVote, NoBallotAppears, Zenon
<1>11. InTransit(<<j, i>>, m)
  BY <1>1, Zenon DEF InTransit, Msg
<1>12. \A p \in Server : nextIndex'[i][p] \in {nextIndex[i][p], m.matchIndex + 1}
  BY <1>5, Zenon
<1>13. \A p \in Server : matchIndex'[i][p] = IF p = j THEN Max(matchIndex[i][p], m.matchIndex)
                                                      ELSE matchIndex[i][p]
  BY <1>3, <1>4, Zenon
<1>14. CommitBecomes(i, log[i].entries, AdvanceCommit(i, log[i], matchIndex'[i])) /\ UNCHANGED elections
  BY <1>3, <1>8, Zenon
<1> QED BY <1>1, <1>2, <1>6, <1>8, <1>9, <1>10, <1>11, <1>12, <1>13, <1>14, Zenon DEF Counts, Frame

LEMMA HandleAppendEntriesResponseKind ==
    ASSUME Settled, NEW i, NEW j, NEW k, Arrives(i, j, k), HandleAppendEntriesResponse(i, j, k)
    PROVE  /\ i \in Server /\ j \in Server /\ Msg(i, j, k) \in Message
           /\ Quiet(i) \/ Counts(i, j, Msg(i, j, k)) \/ Leads(i, log[i])
<1> DEFINE m       == Msg(i, j, k)
           match   == [matchIndex[i] EXCEPT ![j] = Max(@, m.matchIndex)]
           next    == m.matchIndex + 1
           backoff == Backoff(nextIndex[i][j])
           a       == AppendMsg(currentTerm[i], log[i], commitIndex[i], backoff, 0, 0)
           success == /\ m.success
                      /\ matchIndex' = [matchIndex EXCEPT ![i] = match]
                      /\ nextIndex' = [nextIndex EXCEPT ![i][j] = next]
                      /\ Pump(i, log[i], AdvanceCommit(i, log[i], match))
                      /\ NoReply(i, j, k)
                      /\ UNCHANGED sentIndex
           failure == /\ nextIndex' = [nextIndex EXCEPT ![i][j] = backoff]
                      /\ sentIndex' = [sentIndex EXCEPT ![i][j] = SentIndex(log[i], backoff, 0)]
                      /\ Reply(i, j, k, a)
                      /\ PumpOnly(i)
                      /\ UNCHANGED matchIndex
           counted == /\ m.term = currentTerm[i] /\ role[i] = Leader
                      /\ UNCHANGED <<electionVars, elections>>
                      /\ success \/ failure
<1>1. /\ TypeOK /\ i \in Server /\ j \in Server /\ m \in Message /\ m.term \in Nat
      /\ log[i] \in Log /\ commitIndex[i] \in Nat /\ currentTerm[i] \in Nat /\ <<j, i>> \in Links
  BY ArrivedMessage, Zenon DEF Arrives, Settled, TypeOK
<1>2. m.type = "AppendEntriesResponse" /\ m.matchIndex \in Nat
  <2>1. m.type = "AppendEntriesResponse"
    BY Zenon DEF HandleAppendEntriesResponse, Received, Msg
  <2>2. m \in AppendResponse
    BY <1>1, <2>1, MessageFields, Zenon
  <2> QED BY <2>1, <2>2, Zenon DEF AppendResponse
<1>3. StepDown(i, j, k, m.term) \/ Ignore(i, j, k) \/ counted
  BY Zenon DEF HandleAppendEntriesResponse
<1>4. CASE StepDown(i, j, k, m.term)
  BY <1>1, <1>4, StepDownQuiet, Zenon
<1>5. CASE Ignore(i, j, k)
  BY <1>1, <1>5, IgnoreQuiet, Zenon
<1>6. CASE counted /\ success
  <2>1. match = [matchIndex[i] EXCEPT ![j] = Max(@, m.matchIndex)] /\ next \in {nextIndex[i][j], m.matchIndex + 1}
    BY Zenon
  <2>2. /\ matchIndex' = [matchIndex EXCEPT ![i] = match]
        /\ nextIndex' = [nextIndex EXCEPT ![i][j] = next]
        /\ Pump(i, log[i], AdvanceCommit(i, log[i], match)) /\ NoReply(i, j, k) /\ UNCHANGED sentIndex
        /\ m.term = currentTerm[i] /\ role[i] = Leader /\ UNCHANGED <<electionVars, elections>> /\ m.success
    BY <1>6, Zenon
  <2>3. m = Msg(i, j, k)
    OBVIOUS
  <2> HIDE DEF match, next, m
  <2>4. Counts(i, j, m)
    BY <1>1, <1>2, <2>1, <2>2, <2>3, CountsIntro, Zenon
  <2> QED BY <1>1, <2>3, <2>4, Zenon
<1>7. CASE counted /\ failure
  <2>1. /\ backoff \in Nat \ {0} /\ backoff <= nextIndex[i][j] /\ nextIndex[i][j] \in Nat
        /\ \A p \in Server : nextIndex[i][p] \in Nat /\ sentIndex[i][p] \in Nat
    <3>1. \A p \in Server : nextIndex[i][p] \in Nat \ {0} /\ sentIndex[i][p] \in Nat
      BY <1>1 DEF TypeOK
    <3>2. nextIndex[i][j] \in Nat \ {0}
      BY <1>1, <3>1, Zenon
    <3> QED BY <3>1, <3>2 DEF Backoff, Max
  <2>2. LastIndex(log[i]) \in Nat
    BY <1>1, LogFacts, Zenon
  <2>3. a \in Message
    BY <1>1, <2>1, AppendMsgType, Zenon
  <2>4. /\ \A x \in Server \ {i} : nextIndex'[x] = nextIndex[x] /\ sentIndex'[x] = sentIndex[x]
        /\ \A p \in Server : nextIndex'[i][p] = IF p = j THEN backoff ELSE nextIndex[i][p]
        /\ \A p \in Server : sentIndex'[i][p] = IF p = j THEN SentIndex(log[i], backoff, 0) ELSE sentIndex[i][p]
    <3>1. /\ nextIndex \in [Server -> [Server -> Nat \ {0}]] /\ sentIndex \in [Server -> [Server -> Nat]]
          /\ nextIndex' = [nextIndex EXCEPT ![i][j] = backoff]
          /\ sentIndex' = [sentIndex EXCEPT ![i][j] = SentIndex(log[i], backoff, 0)]
      BY <1>1, <1>7, Zenon DEF TypeOK
    <3> HIDE DEF backoff
    <3> QED BY <1>1, <3>1
  <2>5. OthersProgress(i) /\ matchIndex'[i] = matchIndex[i]
    BY <1>7, <2>4, Zenon DEF OthersProgress, ProgressSame
  <2>6. ASSUME NEW p \in Server
        PROVE  /\ nextIndex'[i][p] <= nextIndex[i][p]
               /\ sentIndex'[i][p] <= Max(sentIndex[i][p], LastIndex(log[i]))
    <3>1. SentIndex(log[i], backoff, 0) \in {0, Max(0, LastIndex(log[i]))}
      BY Zenon DEF SentIndex
    <3>2. SentIndex(log[i], backoff, 0) \in Nat /\ SentIndex(log[i], backoff, 0) <= LastIndex(log[i])
      BY <2>2, <3>1 DEF Max
    <3> HIDE DEF backoff
    <3> QED BY <2>1, <2>2, <2>4, <3>2 DEF Max
  <2>7. AppendSent(i, log[i])
    <3>1. SentTo(i, j, a)
      <4>1. Reply(i, j, k, a)
        BY <1>7, Zenon
      <4> QED BY <1>1, <2>3, <4>1, ReplySends, Zenon
    <3>2. backoff \in 1..nextIndex[i][j] /\ 0 \in Nat
      BY <2>1
    <3>3. <<i, j>>[1] = i /\ <<i, j>>[2] = j
      OBVIOUS
    <3> HIDE DEF backoff
    <3> QED BY <3>1, <3>2, <3>3, Zenon DEF SentTo, AppendSent
  <2>8. Pump(i, log[i], commitIndex[i]) /\ role[i] = Leader /\ UNCHANGED <<electionVars, elections>>
    BY <1>7, Zenon DEF PumpOnly
  <2>9. Leads(i, log[i])
    BY <1>1, <2>5, <2>6, <2>7, <2>8, SameLog, LeadsIntro, Zenon
  <2> QED BY <1>1, <2>9, Zenon
<1> QED BY <1>3, <1>4, <1>5, <1>6, <1>7, Zenon

LEMMA HandleInstallSnapshotResponseKind ==
    ASSUME Settled, NEW i, NEW j, NEW k, Arrives(i, j, k), HandleInstallSnapshotResponse(i, j, k)
    PROVE  /\ i \in Server /\ j \in Server /\ Msg(i, j, k) \in Message
           /\ Quiet(i) \/ Counts(i, j, Msg(i, j, k))
<1> DEFINE m       == Msg(i, j, k)
           match   == [matchIndex[i] EXCEPT ![j] = Max(@, m.matchIndex)]
           next    == Max(nextIndex[i][j], m.matchIndex + 1)
           counted == /\ m.term = currentTerm[i] /\ role[i] = Leader
                      /\ matchIndex' = [matchIndex EXCEPT ![i] = match]
                      /\ nextIndex' = [nextIndex EXCEPT ![i][j] = next]
                      /\ UNCHANGED <<electionVars, elections>> /\ UNCHANGED sentIndex
                      /\ Pump(i, log[i], AdvanceCommit(i, log[i], match))
                      /\ NoReply(i, j, k)
<1>1. /\ TypeOK /\ i \in Server /\ j \in Server /\ m \in Message /\ m.term \in Nat
      /\ nextIndex \in [Server -> [Server -> Nat \ {0}]]
  BY ArrivedMessage, Zenon DEF Arrives, Settled, TypeOK
<1>2. m.type = "InstallSnapshotResponse" /\ m.matchIndex \in Nat
  <2>1. m.type = "InstallSnapshotResponse"
    BY Zenon DEF HandleInstallSnapshotResponse, Received, Msg
  <2>2. m \in SnapshotResponse
    BY <1>1, <2>1, MessageFields, Zenon
  <2> QED BY <2>1, <2>2, Zenon DEF SnapshotResponse
<1>3. StepDown(i, j, k, m.term) \/ Ignore(i, j, k) \/ counted
  <2>1. [nextIndex EXCEPT ![i][j] = Max(@, m.matchIndex + 1)] = [nextIndex EXCEPT ![i][j] = next]
    BY <1>1
  <2> QED BY <2>1, Zenon DEF HandleInstallSnapshotResponse
<1>4. CASE StepDown(i, j, k, m.term)
  BY <1>1, <1>4, StepDownQuiet, Zenon
<1>5. CASE Ignore(i, j, k)
  BY <1>1, <1>5, IgnoreQuiet, Zenon
<1>6. CASE counted
  <2>1. match = [matchIndex[i] EXCEPT ![j] = Max(@, m.matchIndex)] /\ m = Msg(i, j, k)
    BY Zenon
  <2>2. next \in {nextIndex[i][j], m.matchIndex + 1}
    BY Zenon DEF Max
  <2> HIDE DEF match, next, m
  <2>3. Counts(i, j, m)
    BY <1>1, <1>2, <1>6, <2>1, <2>2, CountsIntro, Zenon
  <2> QED BY <1>1, <2>1, <2>3, Zenon
<1> QED BY <1>3, <1>4, <1>5, <1>6, Zenon

-----------------------------------------------------------------------------
(***************************************************************************)
(* Followers.                                                              *)
(***************************************************************************)
LEMMA ReplyIsNoVote ==
    ASSUME NEW i, NEW j, NEW m, SentTo(i, j, m), m.type # "RequestVoteResponse"
    PROVE  NoVoteSent
BY Zenon DEF SentTo, NoVoteSent, InTransit, Grant

\* A node that follows counts no votes.
LEMMA FollowerNoBallot ==
    ASSUME TypeOK, NEW i \in Server, NEW t \in Nat, BecomeFollower(i, t), UNCHANGED votesReceived,
           UNCHANGED elections, NoVoteSent
    PROVE  NoNewBallot
<1>1. OthersRoles(i) /\ RoleKept(i) /\ OthersTallies(i) /\ votesReceived'[i] = votesReceived[i]
  BY FollowerRoles, Zenon
<1>2. NoVoteCounted
  BY <1>1, Zenon DEF NoVoteCounted, OthersRoles, OthersTallies, RoleKept
<1> QED BY <1>2, NoBallotAppears, Zenon

LEMMA AcceptAppendKind ==
    ASSUME Settled, NEW i, NEW j, NEW k, Arrives(i, j, k), AcceptAppend(i, j, k)
    PROVE  /\ i \in Server /\ j \in Server /\ Msg(i, j, k) \in Message
           /\ Merge(log[i], Msg(i, j, k)).entries \in Seq(Entry)
           /\ Follows(i, j, Msg(i, j, k), Merge(log[i], Msg(i, j, k)).entries)
<1> DEFINE m  == Msg(i, j, k)
           lg == Merge(log[i], m)
           es == lg.entries
           ci == CommitAfter(commitIndex[i], lg, m)
           r  == AppendReply(m.term, TRUE, m.prevLogIndex + Len(m.entries), m.readContext)
<1>1. /\ i \in Server /\ j \in Server /\ m \in Message /\ m \in AppendRequest /\ log[i] \in Log
      /\ commitIndex[i] \in Nat /\ currentTerm[i] \in Nat /\ TypeOK
      /\ <<j, i>> \in Links /\ k \in DOMAIN net[<<j, i>>]
  BY ArrivedMessage, MessageFields, Zenon DEF Arrives, AcceptAppend, Received, Msg, Settled, TypeOK
<1>2. /\ m.term \in Nat /\ m.readContext \in Nat /\ m.leaderCommit \in Nat
      /\ m.prevLogIndex \in Nat /\ m.entries \in Seq(Entry)
  BY <1>1, Zenon DEF AppendRequest
<1>3. /\ m.term >= currentTerm[i] /\ PrevMatches(log[i], m) /\ ~CutsSnapshot(log[i], m)
      /\ BecomeFollower(i, m.term) /\ Reply(i, j, k, r) /\ Pump(i, lg, ci)
      /\ UNCHANGED votesReceived /\ UNCHANGED leaderVars /\ UNCHANGED elections
  BY Zenon DEF AcceptAppend, Acknowledged
<1>4. lg \in Log /\ lg.base = log[i].base
  BY <1>1, <1>3, MergeType, Zenon
<1>5. ci \in Nat
  BY <1>1, <1>2, <1>4, LogFacts, Zenon DEF CommitAfter, Min
<1>6. r \in Message /\ r.type = "AppendEntriesResponse"
  <2>1. m.prevLogIndex + Len(m.entries) \in Nat
    BY <1>2, SeqLen
  <2>2. r.type = "AppendEntriesResponse"
    BY DEF AppendReply
  <2> QED BY <1>2, <2>1, <2>2, ReplyTypes, Zenon
<1>7. InTransit(<<j, i>>, m)
  BY <1>1, Zenon DEF InTransit, Msg
<1>8. Max(currentTerm[i], m.term) = m.term
  BY <1>1, <1>2, <1>3, SMTT(30) DEF Max
<1>9. es \in Seq(Entry)
  BY <1>4, LogFacts, Zenon
<1>10. es = Merge(log[i], m).entries /\ lg = Merge(log[i], m) /\ ci = CommitAfter(commitIndex[i], lg, m)
  BY Zenon
<1>11. r = AppendReply(m.term, TRUE, m.prevLogIndex + Len(m.entries), m.readContext)
  BY Zenon
<1>12. m = Msg(i, j, k) /\ es = lg.entries
  BY Zenon
<1> HIDE DEF m, lg, es, ci, r
<1>13. SentTo(i, j, r)
  BY <1>1, <1>3, <1>6, ReplySends, Zenon
<1>14. NoNewBallot
  <2>1. r.type # "RequestVoteResponse"
    BY <1>6
  <2>2. NoVoteSent
    BY <2>1, <1>13, ReplyIsNoVote, Zenon
  <2> QED BY <1>1, <1>2, <1>3, <2>2, FollowerNoBallot, Zenon
<1>15. OthersRoles(i) /\ role'[i] = Follower /\ currentTerm'[i] = m.term
  BY <1>1, <1>2, <1>3, <1>8, FollowerRoles, Zenon
<1>16. OthersLogs(i) /\ LogBecomes(i, lg.entries) /\ CommitBecomes(i, lg.entries, ci) /\ StaysWhole(i)
  BY <1>1, <1>3, <1>4, <1>5, PumpEffect, Zenon
<1>17. OthersProgress(i)
  BY <1>3, Zenon DEF OthersProgress, ProgressSame, leaderVars
<1>18. Frame(i)
  BY <1>15, <1>16, <1>17, Zenon DEF Frame
<1>19. CommitBecomes(i, es, CommitAfter(commitIndex[i], Merge(log[i], m), m)) /\ LogBecomes(i, es)
  BY <1>10, <1>12, <1>16, Zenon
<1>20. SentTo(i, j, AppendReply(m.term, TRUE, m.prevLogIndex + Len(m.entries), m.readContext))
  BY <1>11, <1>13, Zenon
<1>21. Follows(i, j, m, es)
  BY <1>1, <1>3, <1>7, <1>10, <1>14, <1>15, <1>18, <1>19, <1>20, Zenon DEF Follows
<1> QED BY <1>1, <1>9, <1>10, <1>12, <1>21, Zenon

LEMMA CrashInPersistKind ==
    ASSUME Settled, NEW i, NEW j, NEW k, Arrives(i, j, k), CrashInPersist(i, j, k)
    PROVE  /\ i \in Server /\ j \in Server /\ Msg(i, j, k) \in Message
           /\ Quiet(i) \/ \E es \in Seq(Entry) : Follows(i, j, Msg(i, j, k), es)
<1> DEFINE m    == Msg(i, j, k)
           vote == IF m.term > currentTerm[i] THEN Nil ELSE votedFor[i]
           full == Merge(log[i], m).entries
           kept == KeptUpTo(log[i], m)
<1>1. /\ i \in Server /\ j \in Server /\ m \in Message /\ m \in AppendRequest /\ log[i] \in Log
      /\ TypeOK /\ <<j, i>> \in Links /\ k \in DOMAIN net[<<j, i>>]
  BY ArrivedMessage, MessageFields, Zenon DEF Arrives, CrashInPersist, Received, Msg, Settled, TypeOK
<1>2. m.term \in Nat /\ vote \in Server \cup {Nil}
  BY <1>1, Zenon DEF AppendRequest, TypeOK
<1>3. PICK lg \in TornLogs(log[i], m) :
        RestartFrom(i, [term |-> m.term, vote |-> vote, log |-> lg])
  BY Zenon DEF CrashInPersist
<1>4. m.term >= currentTerm[i] /\ PrevMatches(log[i], m) /\ ~CutsSnapshot(log[i], m)
  BY Zenon DEF CrashInPersist
<1>5. lg \in Log
  BY <1>1, <1>3, <1>4, TornLogsType, Zenon
<1> DEFINE d == [term |-> m.term, vote |-> vote, log |-> lg]
<1>6. /\ d \in [term : Nat, vote : Server \cup {Nil}, log : Log] /\ d.term = m.term /\ d.log = lg
      /\ RestartFrom(i, d)
  BY <1>2, <1>3, <1>5, Zenon
<1> HIDE DEF d, vote
<1>7. CASE lg = log[i]
  BY <1>1, <1>4, <1>6, <1>7, RestartQuiet, Zenon
<1>8. CASE \E n \in kept..(Len(full) - 1) : lg = [log[i] EXCEPT !.entries = SubSeq(full, 1, n)]
  <2>1. PICK n \in kept..(Len(full) - 1) : lg = [log[i] EXCEPT !.entries = SubSeq(full, 1, n)]
    BY <1>8, Zenon
  <2>2. kept \in Nat /\ Len(full) \in Nat
    <3>1. kept \in m.prevLogIndex..LastIndex(log[i]) /\ m.prevLogIndex \in Nat /\ LastIndex(log[i]) \in Nat
      BY <1>1, <1>4, KeptUpToBounds, LogFacts, Zenon DEF AppendRequest
    <3>2. full \in Seq(Entry)
      BY <1>1, <1>4, MergeType, LogFacts, Zenon
    <3>3. kept \in Nat
      BY <3>1
    <3> QED BY <3>2, <3>3, SeqLen, Zenon
  <2>3. n \in kept..Len(full)
    BY <2>2
  <2>4. lg.base = log[i].base /\ lg.entries = SubSeq(full, 1, n)
    <3>1. lg = [base |-> log[i].base, entries |-> SubSeq(full, 1, n)]
      BY <1>1, <2>1, WithEntries, Zenon
    <3> QED BY <3>1
  <2>5. /\ OthersLogs(i) /\ OthersRoles(i) /\ OthersProgress(i)
        /\ LogBecomes(i, d.log.entries) /\ CommitForgotten(i)
        /\ role'[i] = Follower /\ currentTerm'[i] = d.term
        /\ StaysWhole(i) /\ NoNewBallot /\ NothingSent /\ UNCHANGED elections
    BY <1>1, <1>4, <1>6, <2>4, RestartEffect, Zenon
  <2>6. InTransit(<<j, i>>, m)
    BY <1>1, Zenon DEF InTransit, Msg
  <2>7. \E x \in KeptUpTo(log[i], m)..LastIndex(Merge(log[i], m)) :
           lg.entries = SubSeq(Merge(log[i], m).entries, 1, x)
    BY <2>3, <2>4, Zenon DEF LastIndex
  <2>8. Frame(i) /\ LogBecomes(i, lg.entries) /\ currentTerm'[i] = m.term
    BY <1>6, <2>5, Zenon DEF Frame
  <2>9. lg.entries \in Seq(Entry)
    BY <1>5, LogFacts, Zenon
  <2> HIDE DEF m
  <2>10. Follows(i, j, m, lg.entries)
    BY <1>1, <1>4, <2>5, <2>6, <2>7, <2>8, Zenon DEF Follows
  <2> QED BY <1>1, <2>9, <2>10, Zenon DEF m
<1> QED BY <1>3, <1>7, <1>8, Zenon DEF TornLogs

\* What a node counts as committed is recorded.
LEMMA CommitStaysRecorded ==
    ASSUME Settled, NEW i \in Server, NEW es \in Seq(Entry), NEW ci \in Nat,
           ci <= Len(es) \/ ci <= Len(committed), CommitBecomes(i, es, ci)
    PROVE  commitIndex'[i] <= Len(committed') /\ Len(committed) <= Len(committed')
<1>1. committed \in Seq(Entry)
  BY Zenon DEF Settled, TypeOK
<1> QED BY <1>1, CommittedGrows, Zenon DEF CommitBecomes

LEMMA SameIsRecorded ==
    ASSUME Settled, NEW i \in Server, CommitSame(i)
    PROVE  commitIndex'[i] <= Len(committed') /\ Len(committed) <= Len(committed')
<1>1. commitIndex[i] <= Len(committed) /\ Len(committed) \in Nat
  BY SeqLen, Zenon DEF Settled, TypeOK, CommitRecorded
<1>2. Len(committed) <= Len(committed)
  BY <1>1
<1> QED BY <1>1, <1>2, Zenon DEF CommitSame

LEMMA RejectStaleSnapshotKind ==
    ASSUME Settled, NEW i, NEW j, NEW k, Arrives(i, j, k), RejectStaleSnapshot(i, j, k)
    PROVE  i \in Server /\ j \in Server /\ Msg(i, j, k) \in Message /\ Installs(i, j, Msg(i, j, k))
<1> DEFINE m == Msg(i, j, k)
           r == SnapshotReply(currentTerm[i], log[i].base)
<1>1. /\ i \in Server /\ j \in Server /\ m \in Message /\ m \in SnapshotRequest /\ log[i].base \in Nat
      /\ TypeOK /\ currentTerm[i] \in Nat /\ <<j, i>> \in Links /\ k \in DOMAIN net[<<j, i>>]
  BY ArrivedMessage, MessageFields, LogFacts, Zenon
     DEF Arrives, RejectStaleSnapshot, Received, Msg, Settled, TypeOK
<1>2. UNCHANGED electionVars /\ UNCHANGED leaderVars /\ UNCHANGED elections /\ PumpOnly(i) /\ Reply(i, j, k, r)
  BY Zenon DEF RejectStaleSnapshot
<1>3. r \in Message
  BY <1>1, ReplyTypes, Zenon
<1>4. r.type = "InstallSnapshotResponse"
  BY DEF SnapshotReply
<1>5. InTransit(<<j, i>>, m)
  BY <1>1, Zenon DEF InTransit, Msg
<1> HIDE DEF r, m
<1>6. SentTo(i, j, r)
  BY <1>1, <1>2, <1>3, ReplySends, Zenon
<1>7. OthersRoles(i) /\ RoleKept(i)
  BY <1>1, <1>2, SteadyRoles, Zenon
<1>8. NoNewBallot
  <2>1. NoVoteSent
    <3>1. r.type # "RequestVoteResponse"
      BY <1>4
    <3> QED BY <1>6, <3>1, ReplyIsNoVote, Zenon
  <2>2. NoVoteCounted
    BY <1>2, Zenon DEF NoVoteCounted, electionVars
  <2> QED BY <1>2, <2>1, <2>2, NoBallotAppears, Zenon
<1>9. OthersLogs(i) /\ LogBecomes(i, log[i].entries) /\ CommitSame(i)
  BY <1>1, <1>2, PumpOnlyEffect, Zenon
<1>10. OthersProgress(i)
  BY <1>2, Zenon DEF OthersProgress, ProgressSame, leaderVars
<1>11. \A l \in Links : \A x \in DOMAIN net'[l] :
         InTransit(l, net'[l][x]) \/ (l[1] = i /\ net'[l][x].type = "InstallSnapshotResponse")
  <2>1. <<i, j>>[1] = i
    OBVIOUS
  <2> QED BY <1>4, <1>6, <2>1, Zenon DEF SentTo
<1>12. commitIndex'[i] <= Len(committed') /\ Len(committed) <= Len(committed')
  BY <1>1, <1>9, SameIsRecorded, Zenon
<1>13. BasesRecorded(i)'
  BY <1>1, <1>2, PumpOnlyEffect, Zenon DEF StaysWhole
<1>14. Installs(i, j, m)
  BY <1>1, <1>2, <1>5, <1>7, <1>8, <1>9, <1>10, <1>11, <1>12, <1>13, Zenon DEF Installs
<1> QED BY <1>1, <1>14, Zenon DEF m

LEMMA InstallSnapshotKind ==
    ASSUME Settled, NEW i, NEW j, NEW k, Arrives(i, j, k), InstallSnapshot(i, j, k)
    PROVE  i \in Server /\ j \in Server /\ Msg(i, j, k) \in Message /\ Installs(i, j, Msg(i, j, k))
<1> DEFINE m     == Msg(i, j, k)
           index == Len(m.snapshot)
           lg    == [base |-> index, entries |-> m.snapshot]
           known == PumpOnly(i) /\ Reply(i, j, k, SnapshotReply(m.term, log[i].base))
           new   == Pump(i, lg, Max(commitIndex[i], index)) /\ Reply(i, j, k, SnapshotReply(m.term, index))
<1>1. /\ i \in Server /\ j \in Server /\ m \in Message /\ m \in SnapshotRequest /\ log[i].base \in Nat
      /\ TypeOK /\ commitIndex[i] \in Nat /\ <<j, i>> \in Links /\ k \in DOMAIN net[<<j, i>>]
  BY ArrivedMessage, MessageFields, LogFacts, Zenon
     DEF Arrives, InstallSnapshot, Received, Msg, Settled, TypeOK
<1>2. m.term \in Nat /\ m.snapshot \in Seq(Entry)
  BY <1>1, Zenon DEF SnapshotRequest
<1>3. index \in Nat
  BY <1>2, SeqLen, Zenon
<1>4. /\ BecomeFollower(i, m.term) /\ UNCHANGED votesReceived /\ UNCHANGED leaderVars /\ UNCHANGED elections
      /\ known \/ new
  BY Zenon DEF InstallSnapshot
<1>5. InTransit(<<j, i>>, m)
  BY <1>1, Zenon DEF InTransit, Msg
<1>6. PICK b \in Nat : Reply(i, j, k, SnapshotReply(m.term, b))
  BY <1>1, <1>3, <1>4, Zenon
<1> DEFINE r == SnapshotReply(m.term, b)
<1>7. r \in Message
  BY <1>2, ReplyTypes, Zenon
<1>8. r.type = "InstallSnapshotResponse" /\ r.type # "RequestVoteResponse"
  BY DEF SnapshotReply
<1>9. SentTo(i, j, r)
  BY <1>1, <1>6, <1>7, ReplySends, Zenon
<1> HIDE DEF r
<1>10. OthersRoles(i) /\ RoleKept(i) /\ role'[i] = Follower
  BY <1>1, <1>2, <1>4, FollowerRoles, Zenon
<1>11. NoNewBallot
  <2>1. NoVoteSent
    BY <1>8, <1>9, ReplyIsNoVote, Zenon
  <2> QED BY <1>1, <1>2, <1>4, <2>1, FollowerNoBallot, Zenon
<1>12. OthersProgress(i)
  BY <1>4, Zenon DEF OthersProgress, ProgressSame, leaderVars
<1>13. \A l \in Links : \A x \in DOMAIN net'[l] :
         InTransit(l, net'[l][x]) \/ (l[1] = i /\ net'[l][x].type = "InstallSnapshotResponse")
  <2>1. <<i, j>>[1] = i
    OBVIOUS
  <2> QED BY <1>8, <1>9, <2>1, Zenon DEF SentTo
<1>14. /\ OthersLogs(i)
       /\ LogBecomes(i, log[i].entries) \/ LogBecomes(i, m.snapshot)
       /\ commitIndex'[i] <= Len(committed') /\ Len(committed) <= Len(committed') /\ BasesRecorded(i)'
  <2>1. CASE known
    BY <1>1, <2>1, PumpOnlyEffect, SameIsRecorded, Zenon DEF StaysWhole
  <2>2. CASE new
    <3>1. index <= Len(m.snapshot)
      BY <1>3
    <3>2. lg.entries = m.snapshot
      OBVIOUS
    <3>3. lg \in Log
      <4> HIDE DEF index, m
      <4> QED BY <1>2, <1>3, <3>1, LogIntro, Zenon
    <3> DEFINE ci == Max(commitIndex[i], index)
    <3>4. ci \in Nat /\ (ci <= Len(m.snapshot) \/ ci <= Len(committed)) /\ lg.base <= ci
      <4>1. commitIndex[i] <= Len(committed)
        BY <1>1, Zenon DEF Settled, CommitRecorded
      <4>2. ci \in {commitIndex[i], index}
        BY Zenon DEF Max
      <4>3. lg.base = index /\ index <= ci
        BY <1>1, <1>3 DEF Max
      <4> QED BY <1>1, <1>3, <3>1, <4>1, <4>2, <4>3, Zenon
    <3>5. Pump(i, lg, ci)
      BY <2>2, Zenon
    <3> HIDE DEF lg, ci, m
    <3>6. /\ OthersLogs(i) /\ LogBecomes(i, lg.entries) /\ CommitBecomes(i, lg.entries, ci)
          /\ BasesRecorded(i)'
      BY <1>1, <3>3, <3>4, <3>5, PumpEffect, Zenon
    <3> QED BY <1>1, <1>2, <3>2, <3>4, <3>6, CommitStaysRecorded, Zenon
  <2> QED BY <1>4, <2>1, <2>2, Zenon
<1> HIDE DEF m
<1>15. Installs(i, j, m)
  BY <1>1, <1>4, <1>5, <1>10, <1>11, <1>12, <1>13, <1>14, Zenon DEF Installs
<1> QED BY <1>1, <1>15, Zenon DEF m

-----------------------------------------------------------------------------
(***************************************************************************)
(* Every step is of one of the kinds.                                      *)
(***************************************************************************)
LEMMA StepKind ==
    ASSUME Settled, HardStateOnDisk, NEW i, NEW j, NEW k, Arrives(i, j, k), Step(i, j, k)
    PROVE  AnyKind
<1>1. CASE HandlePreVote(i, j, k)
  BY <1>1, HandlePreVoteQuiet, Zenon DEF AnyKind
<1>2. CASE HandlePreVoteResponse(i, j, k)
  BY <1>2, HandlePreVoteResponseKind, Zenon DEF AnyKind
<1>3. CASE HandleRequestVote(i, j, k)
  BY <1>3, HandleRequestVoteKind, Zenon DEF AnyKind
<1>4. CASE HandleRequestVoteResponse(i, j, k)
  BY <1>4, HandleRequestVoteResponseKind, Zenon DEF AnyKind
<1>5. CASE RejectStaleAppend(i, j, k)
  BY <1>5, RejectStaleAppendQuiet, Zenon DEF AnyKind
<1>6. CASE RejectAppend(i, j, k)
  BY <1>6, RejectAppendQuiet, Zenon DEF AnyKind
<1>7. CASE AcceptAppend(i, j, k)
  BY <1>7, AcceptAppendKind, Zenon DEF AnyKind
<1>8. CASE PanicInAppend(i, j, k)
  BY <1>8, PanicInAppendQuiet, Zenon DEF AnyKind
<1>9. CASE HandleAppendEntriesResponse(i, j, k)
  <2>1. i \in Server => log[i] \in Log
    BY Zenon DEF Settled, TypeOK
  <2> QED BY <1>9, <2>1, HandleAppendEntriesResponseKind, Zenon DEF AnyKind
<1>10. CASE RejectStaleSnapshot(i, j, k)
  BY <1>10, RejectStaleSnapshotKind, Zenon DEF AnyKind
<1>11. CASE InstallSnapshot(i, j, k)
  BY <1>11, InstallSnapshotKind, Zenon DEF AnyKind
<1>12. CASE HandleInstallSnapshotResponse(i, j, k)
  BY <1>12, HandleInstallSnapshotResponseKind, Zenon DEF AnyKind
<1> QED BY <1>1, <1>2, <1>3, <1>4, <1>5, <1>6, <1>7, <1>8, <1>9, <1>10, <1>11, <1>12, Zenon
        DEF Step, HandleAppendEntries, HandleInstallSnapshot

LEMMA NextKind ==
    ASSUME Settled, HardStateOnDisk, [Next]_vars
    PROVE  AnyKind \/ UNCHANGED vars
<1>1. CASE Progress
  <2>1. CASE \E i \in Server : IdleTick(i) \/ Heartbeat(i)
    BY <2>1, IdleTickQuiet, HeartbeatKind, Zenon DEF AnyKind, Settled, TypeOK
  <2>2. CASE Request
    <3>1. CASE \E i \in Server : RequestReadIndex(i)
      BY <3>1, RequestReadIndexKind, Zenon DEF AnyKind, Settled, TypeOK
    <3>2. CASE \E i \in Server, n \in 1..MaxIndex : \E datas \in [1..n -> Value] : ProposeBatch(i, datas)
      <4>1. PICK i \in Server, n \in 1..MaxIndex : \E datas \in [1..n -> Value] : ProposeBatch(i, datas)
        BY <3>2, Zenon
      <4>2. PICK datas \in [1..n -> Value] : ProposeBatch(i, datas)
        BY <4>1, Zenon
      <4>3. datas \in Seq(Value)
        BY BoundsAssumption
      <4>4. Proposed(i, datas) \in Log
        BY <4>3, ProposedLogType, Zenon DEF Settled
      <4> QED BY <4>2, <4>3, <4>4, ProposeBatchKind, Zenon DEF AnyKind
    <3> QED BY <2>2, <3>1, <3>2, Zenon DEF Request
  <2>3. CASE \E l \in Links : Deliver(l)
    <3>1. PICK l \in Links : \E k \in DOMAIN net[l] : Step(l[2], l[1], k)
      BY <2>3, Zenon DEF Deliver
    <3>2. PICK k \in DOMAIN net[l] : Step(l[2], l[1], k)
      BY <3>1, Zenon
    <3>3. Arrives(l[2], l[1], k)
      BY DEF Arrives, Links
    <3> QED BY <3>2, <3>3, StepKind, Zenon
  <2> QED BY <1>1, <2>1, <2>2, <2>3, Zenon DEF Progress
<1>2. CASE Timeout
  BY <1>2, ElectionTimeoutQuiet, ElectionTimeoutAloneKind, Zenon DEF Timeout, AnyKind
<1>3. CASE Fault
  <2>1. CASE \E l \in Links : \E k \in DOMAIN net[l] : CrashInPersist(l[2], l[1], k)
    <3>1. PICK l \in Links : \E k \in DOMAIN net[l] : CrashInPersist(l[2], l[1], k)
      BY <2>1, Zenon
    <3>2. PICK k \in DOMAIN net[l] : CrashInPersist(l[2], l[1], k)
      BY <3>1, Zenon
    <3>3. Arrives(l[2], l[1], k)
      BY DEF Arrives, Links
    <3> QED BY <3>2, <3>3, CrashInPersistKind, Zenon DEF AnyKind
  <2>2. CASE \E i \in Server : Crash(i)
    BY <2>2, CrashQuiet, Zenon DEF AnyKind
  <2>3. CASE \E l \in Links : DropConn(l[1], l[2])
    BY <2>3, DropConnQuiet, Zenon DEF AnyKind
  <2>4. CASE \E l \in Links : Overtake(l)
    <3>1. PICK l \in Links : \E k \in DOMAIN net[l] : Step(l[2], l[1], k)
      BY <2>4, Zenon DEF Overtake
    <3>2. PICK k \in DOMAIN net[l] : Step(l[2], l[1], k)
      BY <3>1, Zenon
    <3>3. Arrives(l[2], l[1], k)
      BY DEF Arrives, Links
    <3> QED BY <3>2, <3>3, StepKind, Zenon
  <2> QED BY <1>3, <2>1, <2>2, <2>3, <2>4, Zenon DEF Fault
<1> QED BY <1>1, <1>2, <1>3, Zenon DEF Next

=============================================================================
