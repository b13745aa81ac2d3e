---------------------------- MODULE RaftElection ----------------------------
(***************************************************************************)
(* Type correctness of Raft, and at most one leader per term, for every    *)
(* cluster and every bound.                                                *)
(*                                                                         *)
(* ElectionSafety alone is not inductive: that two majorities can not form *)
(* rests on what becomes of every single vote.  The invariant VoteInv adds *)
(* that a node's term and vote are on its disk between any two events,     *)
(* that every vote that has left its node is still on that disk, and that  *)
(* a won election had a majority.                                          *)
(***************************************************************************)
EXTENDS RaftFacts

-----------------------------------------------------------------------------
(***************************************************************************)
(* TypeOK, by the groups of variables that actions change together.        *)
(***************************************************************************)
RoleTypes ==
    /\ role \in [Server -> {Follower, PreCandidate, Candidate, Leader}]
    /\ currentTerm \in [Server -> Nat]
    /\ votedFor \in [Server -> Server \cup {Nil}]

LeaderTypes ==
    /\ nextIndex \in [Server -> [Server -> Nat \ {0}]]
    /\ matchIndex \in [Server -> [Server -> Nat]]
    /\ sentIndex \in [Server -> [Server -> Nat]]

LogTypes ==
    /\ disk \in [Server -> [term : Nat, vote : Server \cup {Nil}, log : Log]]
    /\ log \in [Server -> Log]
    /\ commitIndex \in [Server -> Nat]
    /\ committed \in Seq(Entry)

NetType == net \in [Links -> Seq(Message)]

TallyTypes ==
    /\ leaderID \in [Server -> Server \cup {Nil}]
    /\ preVotesReceived \in [Server -> SUBSET Server]
    /\ votesReceived \in [Server -> SUBSET Server]

ReadTypes ==
    /\ pendingReads \in [Server -> SUBSET Read]
    /\ nextReadCtx \in [Server -> Nat]
    /\ readStates \in SUBSET Read

ElectionsType ==
    elections \in SUBSET Election

BoundsType == timeouts \in Nat /\ faults \in Nat

LEMMA TypeGroups ==
    TypeOK <=> /\ RoleTypes /\ TallyTypes /\ LeaderTypes /\ ReadTypes /\ LogTypes
               /\ NetType /\ ElectionsType /\ BoundsType
BY Zenon DEF TypeOK, RoleTypes, TallyTypes, LeaderTypes, ReadTypes, LogTypes, NetType, ElectionsType,
       BoundsType

LEMMA TypeGroupsPrime ==
    TypeOK' <=> /\ RoleTypes' /\ TallyTypes' /\ LeaderTypes' /\ ReadTypes' /\ LogTypes'
                /\ NetType' /\ ElectionsType' /\ BoundsType'
BY Zenon DEF TypeOK, RoleTypes, TallyTypes, LeaderTypes, ReadTypes, LogTypes, NetType, ElectionsType,
       BoundsType

LEMMA ExchangeType ==
    ASSUME TypeOK, NEW i, NEW j, NEW k, k = 0 \/ Arrives(i, j, k),
           NEW out, \A p \in DOMAIN out : out[p] \in Message,
           Exchange(i, j, k, out)
    PROVE  NetType'
<1> DEFINE q(l) == IF k > 0 /\ l = <<j, i>> THEN Without(net[l], k)
                   ELSE IF l[1] = i /\ l[2] \in DOMAIN out THEN Append(net[l], out[l[2]])
                   ELSE net[l]
<1>1. net' = [l \in Links |-> q(l)]
  BY Zenon DEF Exchange
<1>2. ASSUME NEW l \in Links PROVE q(l) \in Seq(Message)
  <2>1. net[l] \in Seq(Message)
    BY Zenon DEF TypeOK
  <2>2. CASE k > 0 /\ l = <<j, i>>
    <3>1. k \in DOMAIN net[l]
      BY <2>2 DEF Arrives
    <3> QED BY <2>1, <2>2, <3>1, WithoutType, Zenon
  <2>3. CASE ~(k > 0 /\ l = <<j, i>>) /\ l[1] = i /\ l[2] \in DOMAIN out
    BY <2>1, <2>3, SeqAppend, Zenon
  <2> QED BY <2>1, <2>2, <2>3, Zenon
<1> QED BY <1>1, <1>2, Zenon DEF NetType

LEMMA ReplyType ==
    ASSUME TypeOK, NEW i, NEW j, NEW k, Arrives(i, j, k), NEW m \in Message, Reply(i, j, k, m)
    PROVE  NetType'
BY ExchangeType DEF Reply

LEMMA PumpType ==
    ASSUME TypeOK, NEW i \in Server, NEW lg \in Log, NEW ci \in Nat,
           currentTerm'[i] \in Nat, votedFor'[i] \in Server \cup {Nil},
           Pump(i, lg, ci)
    PROVE  LogTypes'
<1>1. Persisted(i, lg) \in [term : Nat, vote : Server \cup {Nil}, log : Log]
  BY Zenon DEF Persisted
<1>2. disk' \in [Server -> [term : Nat, vote : Server \cup {Nil}, log : Log]]
  BY <1>1, Zenon DEF Pump, TypeOK
<1>3. log' \in [Server -> Log]
  BY MaybeSnapshotType, Zenon DEF Pump, TypeOK
<1>4. commitIndex' \in [Server -> Nat]
  BY Zenon DEF Pump, TypeOK
<1>5. committed' \in Seq(Entry)
  <2> DEFINE more == SubSeq(lg.entries, Len(committed) + 1, Min(ci, LastIndex(lg)))
  <2>0. committed \in Seq(Entry)
    BY Zenon DEF TypeOK
  <2>1. committed \in Seq(Entry) /\ Len(committed) + 1 \in Nat \ {0}
    BY <2>0, SeqLen
  <2>2. Min(ci, LastIndex(lg)) \in Int /\ Min(ci, LastIndex(lg)) <= Len(lg.entries)
    BY LogFacts DEF Min, LastIndex
  <2>3. more \in Seq(Entry)
    BY <2>1, <2>2, LogFacts, SeqPart, Zenon
  <2>4. committed \o more \in Seq(Entry)
    BY <2>1, <2>3, SeqConcat, Zenon
  <2> QED BY <2>1, <2>4, Zenon DEF Pump
<1> QED BY <1>2, <1>3, <1>4, <1>5, Zenon DEF LogTypes

LEMMA PumpOnlyType ==
    ASSUME TypeOK, NEW i \in Server,
           currentTerm'[i] \in Nat, votedFor'[i] \in Server \cup {Nil},
           PumpOnly(i)
    PROVE  LogTypes'
<1>1. log[i] \in Log /\ commitIndex[i] \in Nat
  BY Zenon DEF TypeOK
<1> QED BY <1>1, PumpType, Zenon DEF PumpOnly

LEMMA SendToAllType ==
    ASSUME TypeOK, NEW i \in Server, NEW lg \in Log, NEW ctx \in Nat, SendToAll(i, lg, ctx)
    PROVE  /\ NetType'
           /\ LeaderTypes'
<1>1. /\ currentTerm[i] \in Nat /\ commitIndex[i] \in Nat
      /\ \A p \in Server : nextIndex[i][p] \in Nat \ {0} /\ sentIndex[i][p] \in Nat
  BY DEF TypeOK
<1> DEFINE out == [p \in Peers(i) |-> AppendMsg(currentTerm[i], lg, commitIndex[i],
                                                nextIndex[i][p], sentIndex[i][p], ctx)]
<1>2. \A p \in DOMAIN out : out[p] \in Message
  BY <1>1, AppendMsgType, Zenon DEF Peers
<1>3. NetType'
  <2>1. Exchange(i, i, 0, out)
    BY Zenon DEF SendToAll, Broadcast
  <2> HIDE DEF out
  <2> QED BY <1>2, <2>1, ExchangeType, Zenon
<1>4. sentIndex' \in [Server -> [Server -> Nat]]
  <2>1. \A p \in Server : SentIndex(lg, nextIndex[i][p], sentIndex[i][p]) \in Nat
    BY <1>1, AppendMsgType, Zenon
  <2> QED BY <1>1, <2>1, Zenon DEF SendToAll, TypeOK
<1> QED BY <1>3, <1>4, Zenon DEF SendToAll, TypeOK, LeaderTypes

LEMMA BecomeFollowerType ==
    ASSUME TypeOK, NEW i \in Server, NEW t \in Nat, BecomeFollower(i, t)
    PROVE  RoleTypes'
BY Zenon DEF BecomeFollower, TypeOK, Max, RoleTypes

LEMMA RowType ==
    ASSUME NEW T, NEW f \in [Server -> T], NEW i \in Server, NEW x \in T
    PROVE  [f EXCEPT ![i] = x] \in [Server -> T]
BY Zenon

LEMMA BecomeCandidateType ==
    ASSUME TypeOK, NEW i \in Server, BecomeCandidate(i)
    PROVE  /\ RoleTypes'
           /\ leaderID' \in [Server -> Server \cup {Nil}]
           /\ votesReceived' \in [Server -> SUBSET Server]
<1>1. currentTerm[i] + 1 \in Nat
  BY DEF TypeOK
<1>2. RoleTypes'
  BY <1>1, Zenon DEF BecomeCandidate, TypeOK, RoleTypes
<1>3. leaderID' \in [Server -> Server \cup {Nil}] /\ votesReceived' \in [Server -> SUBSET Server]
  BY Zenon DEF BecomeCandidate, TypeOK
<1> QED BY <1>2, <1>3, Zenon

LEMMA BecomeLeaderType ==
    ASSUME TypeOK, NEW i \in Server, NEW t \in Nat, NEW voters \in SUBSET Server,
           BecomeLeader(i, t, voters)
    PROVE  /\ role' \in [Server -> {Follower, PreCandidate, Candidate, Leader}]
           /\ leaderID' \in [Server -> Server \cup {Nil}]
           /\ LeaderTypes'
           /\ pendingReads' \in [Server -> SUBSET Read]
           /\ ElectionsType'
<1>1. LastIndex(log[i]) \in Nat
  BY LogFacts, Zenon DEF TypeOK
<1>2. role' \in [Server -> {Follower, PreCandidate, Candidate, Leader}]
  BY Zenon DEF BecomeLeader, TypeOK
<1>3. leaderID' \in [Server -> Server \cup {Nil}]
  BY Zenon DEF BecomeLeader, TypeOK
<1>4. nextIndex' \in [Server -> [Server -> Nat \ {0}]]
  <2>1. [p \in Server |-> LastIndex(log[i]) + 1] \in [Server -> Nat \ {0}]
    BY <1>1
  <2>2. nextIndex \in [Server -> [Server -> Nat \ {0}]] /\ nextIndex' = [nextIndex EXCEPT ![i] = [p \in Server |-> LastIndex(log[i]) + 1]]
    BY Zenon DEF BecomeLeader, TypeOK
  <2> QED BY <2>1, <2>2, RowType, Zenon
<1>5. matchIndex' \in [Server -> [Server -> Nat]]
  <2>1. [p \in Server |-> 0] \in [Server -> Nat]
    BY Zenon
  <2>2. matchIndex \in [Server -> [Server -> Nat]] /\ matchIndex' = [matchIndex EXCEPT ![i] = [p \in Server |-> 0]]
    BY Zenon DEF BecomeLeader, TypeOK
  <2> QED BY <2>1, <2>2, RowType, Zenon
<1>6. sentIndex' \in [Server -> [Server -> Nat]]
  <2>1. [p \in Server |-> IF p = i THEN 0 ELSE LastIndex(log[i])] \in [Server -> Nat]
    BY <1>1, Zenon
  <2>2. sentIndex \in [Server -> [Server -> Nat]] /\ sentIndex' = [sentIndex EXCEPT ![i] = [p \in Server |-> IF p = i THEN 0 ELSE LastIndex(log[i])]]
    BY Zenon DEF BecomeLeader, TypeOK
  <2> QED BY <2>1, <2>2, RowType, Zenon
<1>7. pendingReads' \in [Server -> SUBSET Read]
  <2>1. pendingReads \in [Server -> SUBSET Read] /\ pendingReads' = [pendingReads EXCEPT ![i] = {}]
    BY Zenon DEF BecomeLeader, TypeOK
  <2> QED BY <2>1, Zenon
<1>8. ElectionsType'
  <2>0. log[i].entries \in Seq(Entry)
    BY LogFacts, Zenon DEF TypeOK
  <2>1. [term |-> t, leader |-> i, voters |-> voters, log |-> log[i].entries] \in Election
    BY <2>0, Zenon DEF Election
  <2>2. elections' = elections \cup {[term |-> t, leader |-> i, voters |-> voters, log |-> log[i].entries]}
    BY Zenon DEF BecomeLeader
  <2>3. elections \in SUBSET Election
    BY Zenon DEF TypeOK
  <2> QED BY <2>1, <2>2, <2>3, Zenon DEF ElectionsType
<1> QED BY <1>2, <1>3, <1>4, <1>5, <1>6, <1>7, <1>8, Zenon DEF LeaderTypes

-----------------------------------------------------------------------------
(***************************************************************************)
(* One lemma per action.                                                   *)
(***************************************************************************)
LEMMA StepDownType ==
    ASSUME TypeOK, BoundsType', NEW i, NEW j, NEW k, Arrives(i, j, k),
           NEW t \in Nat, StepDown(i, j, k, t)
    PROVE  TypeOK'
<1>1. i \in Server
  BY Zenon DEF Arrives
<1>2. RoleTypes'
  BY <1>1, BecomeFollowerType, Zenon DEF StepDown
<1>3. NetType'
  BY ExchangeType DEF StepDown, NoReply
<1>4. LogTypes'
  BY <1>1, <1>2, PumpOnlyType, Zenon DEF StepDown, RoleTypes
<1> QED BY <1>2, <1>3, <1>4, Zenon
        DEF TypeOK, RoleTypes, TallyTypes, LeaderTypes, ReadTypes, LogTypes, NetType, BoundsType,
            StepDown, NoConfirmedRead, leaderVars, readVars

LEMMA IgnoreType ==
    ASSUME TypeOK, BoundsType', NEW i, NEW j, NEW k, Arrives(i, j, k), Ignore(i, j, k)
    PROVE  TypeOK'
<1>1. i \in Server /\ currentTerm'[i] \in Nat /\ votedFor'[i] \in Server \cup {Nil}
  BY Zenon DEF Arrives, Ignore, electionVars, TypeOK
<1>2. NetType'
  BY ExchangeType DEF Ignore, NoReply
<1>3. LogTypes'
  BY <1>1, PumpOnlyType, Zenon DEF Ignore
<1> QED BY <1>2, <1>3, Zenon
        DEF TypeOK, RoleTypes, TallyTypes, LeaderTypes, ReadTypes, LogTypes, NetType, BoundsType,
            Ignore, NoConfirmedRead, electionVars, leaderVars, readVars

LEMMA IdleTickType ==
    ASSUME TypeOK, BoundsType', NEW i \in Server, IdleTick(i)
    PROVE  TypeOK'
<1>1. currentTerm'[i] \in Nat /\ votedFor'[i] \in Server \cup {Nil}
  BY Zenon DEF IdleTick, electionVars, TypeOK
<1>2. LogTypes'
  BY <1>1, PumpOnlyType, Zenon DEF IdleTick
<1> QED BY <1>2, Zenon
        DEF TypeOK, RoleTypes, TallyTypes, LeaderTypes, ReadTypes, LogTypes, NetType, BoundsType,
            IdleTick, NoConfirmedRead, electionVars, leaderVars, readVars

LEMMA HeartbeatType ==
    ASSUME TypeOK, BoundsType', NEW i \in Server, Heartbeat(i)
    PROVE  TypeOK'
<1>1. log[i] \in Log /\ currentTerm'[i] \in Nat /\ votedFor'[i] \in Server \cup {Nil}
  BY Zenon DEF Heartbeat, electionVars, TypeOK
<1>2. /\ NetType'
      /\ LeaderTypes'
  BY <1>1, SendToAllType, Zenon DEF Heartbeat
<1>3. LogTypes'
  BY <1>1, PumpOnlyType, Zenon DEF Heartbeat
<1> QED BY <1>2, <1>3, Zenon
        DEF TypeOK, RoleTypes, TallyTypes, LeaderTypes, ReadTypes, LogTypes, NetType, BoundsType,
            Heartbeat, NoConfirmedRead, electionVars, readVars

LEMMA ElectionTimeoutType ==
    ASSUME TypeOK, BoundsType', NEW i \in Server, ElectionTimeout(i)
    PROVE  TypeOK'
<1>1. /\ log[i] \in Log /\ currentTerm[i] \in Nat
      /\ currentTerm'[i] \in Nat /\ votedFor'[i] \in Server \cup {Nil}
  BY Zenon DEF ElectionTimeout, TypeOK
<1>2. NetType'
  <2> DEFINE out == [p \in Peers(i) |-> PreVoteMsg(currentTerm[i], log[i])]
  <2>1. Exchange(i, i, 0, out) /\ \A p \in DOMAIN out : out[p] \in Message
    BY <1>1, VoteRequestType, Zenon DEF ElectionTimeout, Broadcast
  <2> HIDE DEF out
  <2> QED BY <2>1, ExchangeType, Zenon
<1>3. LogTypes'
  BY <1>1, PumpOnlyType, Zenon DEF ElectionTimeout
<1>4. /\ role' \in [Server -> {Follower, PreCandidate, Candidate, Leader}]
      /\ leaderID' \in [Server -> Server \cup {Nil}]
      /\ preVotesReceived' \in [Server -> SUBSET Server]
  BY Zenon DEF ElectionTimeout, TypeOK
<1> QED BY <1>2, <1>3, <1>4, Zenon
        DEF TypeOK, RoleTypes, TallyTypes, LeaderTypes, ReadTypes, LogTypes, NetType, BoundsType,
            ElectionTimeout, NoConfirmedRead, leaderVars, readVars

LEMMA ElectionTimeoutAloneType ==
    ASSUME TypeOK, BoundsType', NEW i \in Server, ElectionTimeoutAlone(i)
    PROVE  TypeOK'
<1>1. /\ log[i] \in Log /\ LastIndex(log[i]) \in Nat /\ currentTerm[i] \in Nat
      /\ currentTerm'[i] \in Nat /\ votedFor'[i] \in Server \cup {Nil}
  BY LogFacts DEF ElectionTimeoutAlone, TypeOK
<1>2. LogTypes'
  BY <1>1, PumpOnlyType, Zenon DEF ElectionTimeoutAlone
<1>3. currentTerm[i] + 1 \in Nat /\ {i} \in SUBSET Server
  BY <1>1
<1>4. BecomeLeader(i, currentTerm[i] + 1, {i})
  BY Zenon DEF ElectionTimeoutAlone
<1>5. /\ role' \in [Server -> {Follower, PreCandidate, Candidate, Leader}]
      /\ leaderID' \in [Server -> Server \cup {Nil}]
      /\ LeaderTypes'
      /\ pendingReads' \in [Server -> SUBSET Read]
      /\ ElectionsType'
  BY <1>3, <1>4, BecomeLeaderType, Zenon
<1>6. /\ currentTerm' \in [Server -> Nat]
      /\ votedFor' \in [Server -> Server \cup {Nil}]
      /\ preVotesReceived' \in [Server -> SUBSET Server]
      /\ votesReceived' \in [Server -> SUBSET Server]
  BY <1>3, Zenon DEF ElectionTimeoutAlone, TypeOK
<1>7. RoleTypes' /\ TallyTypes' /\ ReadTypes' /\ NetType'
  BY <1>5, <1>6, Zenon DEF ElectionTimeoutAlone, NoConfirmedRead, TypeOK, RoleTypes, TallyTypes,
                    ReadTypes, NetType
<1> QED BY <1>2, <1>5, <1>7, TypeGroupsPrime, Zenon

LEMMA HandlePreVoteType ==
    ASSUME TypeOK, BoundsType', NEW i, NEW j, NEW k, Arrives(i, j, k), HandlePreVote(i, j, k)
    PROVE  TypeOK'
<1>1. /\ i \in Server /\ currentTerm[i] \in Nat
      /\ currentTerm'[i] \in Nat /\ votedFor'[i] \in Server \cup {Nil}
  BY Zenon DEF Arrives, HandlePreVote, electionVars, TypeOK
<1>2. LogTypes'
  BY <1>1, PumpOnlyType, Zenon DEF HandlePreVote
<1>3. PICK granted \in BOOLEAN :
        Reply(i, j, k, VoteReply("PreVoteResponse", currentTerm[i], granted))
  BY Zenon DEF HandlePreVote
<1>4. NetType'
  <2>1. VoteReply("PreVoteResponse", currentTerm[i], granted) \in Message
    BY <1>1, ReplyTypes, Zenon
  <2> QED BY <1>3, <2>1, ReplyType, Zenon
<1> QED BY <1>2, <1>4, Zenon
        DEF TypeOK, RoleTypes, TallyTypes, LeaderTypes, ReadTypes, LogTypes, NetType, BoundsType,
            HandlePreVote, NoConfirmedRead, electionVars, leaderVars, readVars

LEMMA HandlePreVoteResponseType ==
    ASSUME TypeOK, BoundsType', NEW i, NEW j, NEW k, Arrives(i, j, k),
           HandlePreVoteResponse(i, j, k)
    PROVE  TypeOK'
<1>1. /\ i \in Server /\ j \in Server /\ log[i] \in Log /\ currentTerm[i] \in Nat
  BY Zenon DEF Arrives, TypeOK
<1> DEFINE counts == role[i] = PreCandidate /\ Msg(i, j, k).voteGranted
           votes  == preVotesReceived[i] \cup {j}
<1>2. CASE ~counts
  BY <1>2, IgnoreType, Zenon DEF HandlePreVoteResponse
<1>3. CASE counts
  <2>1. /\ preVotesReceived' = [preVotesReceived EXCEPT ![i] = votes]
        /\ \/ /\ NoReply(i, j, k)
              /\ UNCHANGED <<role, currentTerm, votedFor, leaderID, votesReceived>>
           \/ /\ BecomeCandidate(i)
              /\ Exchange(i, j, k, [p \in Peers(i) |-> RequestVoteMsg(currentTerm[i] + 1, log[i])])
        /\ UNCHANGED <<leaderVars, readVars, elections>>
        /\ PumpOnly(i)
        /\ NoConfirmedRead
    BY <1>3, Zenon DEF HandlePreVoteResponse, Ignore
  <2>2. RoleTypes' /\ TallyTypes'
    <3>1. preVotesReceived' \in [Server -> SUBSET Server]
      BY <1>1, <2>1, Zenon DEF TypeOK
    <3>2. CASE BecomeCandidate(i)
      BY <1>1, <3>1, <3>2, BecomeCandidateType, Zenon DEF TallyTypes
    <3>3. CASE UNCHANGED <<role, currentTerm, votedFor, leaderID, votesReceived>>
      BY <3>1, <3>3, Zenon DEF TypeOK, RoleTypes, TallyTypes
    <3> QED BY <2>1, <3>2, <3>3, Zenon
  <2>3. NetType'
    <3>1. RequestVoteMsg(currentTerm[i] + 1, log[i]) \in Message
      BY <1>1, VoteRequestType
    <3>2. CASE NoReply(i, j, k)
      BY <3>2, ExchangeType DEF NoReply
    <3>3. CASE Exchange(i, j, k, [p \in Peers(i) |-> RequestVoteMsg(currentTerm[i] + 1, log[i])])
      BY <3>1, <3>3, ExchangeType
    <3> QED BY <2>1, <3>2, <3>3, Zenon
  <2>4. LogTypes'
    BY <1>1, <2>1, <2>2, PumpOnlyType, Zenon DEF RoleTypes
  <2> QED BY <2>1, <2>2, <2>3, <2>4, Zenon
          DEF TypeOK, RoleTypes, TallyTypes, LogTypes, NetType, BoundsType, NoConfirmedRead,
              leaderVars, readVars
<1> QED BY <1>2, <1>3, Zenon

LEMMA HandleRequestVoteType ==
    ASSUME TypeOK, BoundsType', NEW i, NEW j, NEW k, Arrives(i, j, k), HandleRequestVote(i, j, k)
    PROVE  TypeOK'
<1>1. /\ i \in Server /\ j \in Server /\ currentTerm[i] \in Nat /\ Msg(i, j, k).term \in Nat
  BY ArrivedMessage, Zenon DEF Arrives, TypeOK
<1>2. PICK granted \in BOOLEAN :
        /\ currentTerm' = [currentTerm EXCEPT ![i] = Max(@, Msg(i, j, k).term)]
        /\ votedFor' = [votedFor EXCEPT ![i] =
                          IF granted THEN j ELSE IF Msg(i, j, k).term > currentTerm[i] THEN Nil ELSE @]
        /\ role' = [role EXCEPT ![i] = IF Msg(i, j, k).term > currentTerm[i] THEN Follower ELSE @]
        /\ Reply(i, j, k, VoteReply("RequestVoteResponse", Max(currentTerm[i], Msg(i, j, k).term), granted))
  BY Zenon DEF HandleRequestVote
<1>3. RoleTypes'
  BY <1>1, <1>2, Zenon DEF TypeOK, RoleTypes, Max
<1>4. NetType'
  <2>1. VoteReply("RequestVoteResponse", Max(currentTerm[i], Msg(i, j, k).term), granted) \in Message
    BY <1>1, ReplyTypes, Zenon DEF Max
  <2> QED BY <1>2, <2>1, ReplyType, Zenon
<1>5. LogTypes'
  BY <1>1, <1>3, PumpOnlyType, Zenon DEF HandleRequestVote, RoleTypes
<1> QED BY <1>3, <1>4, <1>5, Zenon
        DEF TypeOK, RoleTypes, LogTypes, NetType, BoundsType, HandleRequestVote, NoConfirmedRead,
            leaderVars, readVars

LEMMA HandleRequestVoteResponseType ==
    ASSUME TypeOK, BoundsType', NEW i, NEW j, NEW k, Arrives(i, j, k),
           HandleRequestVoteResponse(i, j, k)
    PROVE  TypeOK'
<1>1. /\ i \in Server /\ j \in Server /\ log[i] \in Log /\ currentTerm[i] \in Nat
      /\ votesReceived[i] \in SUBSET Server /\ Msg(i, j, k).term \in Nat
      /\ commitIndex[i] \in Nat /\ votedFor[i] \in Server \cup {Nil}
  BY ArrivedMessage, Zenon DEF Arrives, TypeOK
<1> DEFINE m      == Msg(i, j, k)
           votes  == votesReceived[i] \cup {j}
           out    == [p \in Peers(i) |-> AppendMsg(currentTerm[i], log[i], commitIndex[i],
                                                   LastIndex(log[i]) + 1, 0, 0)]
           stays  == NoReply(i, j, k) /\ UNCHANGED <<role, leaderID, leaderVars, pendingReads, elections>>
           wins   == BecomeLeader(i, currentTerm[i], votes) /\ Exchange(i, j, k, out)
           counted == /\ votesReceived' = [votesReceived EXCEPT ![i] = votes]
                      /\ stays \/ wins
                      /\ UNCHANGED <<currentTerm, votedFor, preVotesReceived, nextReadCtx>>
                      /\ PumpOnly(i)
                      /\ NoConfirmedRead
<1>2. StepDown(i, j, k, m.term) \/ Ignore(i, j, k) \/ counted
  BY Zenon DEF HandleRequestVoteResponse
<1>3. CASE counted
  <2>1. LogTypes'
    BY <1>1, <1>3, PumpOnlyType, Zenon
  <2>2. /\ currentTerm' \in [Server -> Nat] /\ votedFor' \in [Server -> Server \cup {Nil}]
        /\ preVotesReceived' \in [Server -> SUBSET Server] /\ nextReadCtx' \in [Server -> Nat]
        /\ readStates' \in SUBSET Read
        /\ votesReceived' \in [Server -> SUBSET Server]
    BY <1>1, <1>3, Zenon DEF TypeOK, NoConfirmedRead
  <2>3. CASE stays
    <3>1. NetType'
      BY <2>3, ExchangeType DEF NoReply
    <3> QED BY <2>1, <2>2, <2>3, <3>1, Zenon
            DEF TypeOK, LogTypes, NetType, BoundsType, leaderVars
  <2>4. CASE wins
    <3>1. NetType'
      <4>1. LastIndex(log[i]) + 1 \in Nat \ {0}
        BY <1>1, LogFacts
      <4>2. AppendMsg(currentTerm[i], log[i], commitIndex[i], LastIndex(log[i]) + 1, 0, 0) \in Message
        BY <1>1, <4>1, AppendMsgType, Zenon
      <4>3. \A p \in DOMAIN out : out[p] \in Message
        BY <4>2, Zenon
      <4>4. Exchange(i, j, k, out)
        BY <2>4, Zenon
      <4> HIDE DEF out
      <4> QED BY <4>3, <4>4, ExchangeType, Zenon
    <3>2. votes \in SUBSET Server
      BY <1>1, Zenon
    <3>3. BecomeLeader(i, currentTerm[i], votes)
      BY <2>4, Zenon
    <3> HIDE DEF votes
    <3> QED BY <1>1, <2>1, <2>2, <3>1, <3>2, <3>3, BecomeLeaderType, Zenon
            DEF TypeOK, LogTypes, NetType, LeaderTypes, ElectionsType, BoundsType
  <2> QED BY <1>3, <2>3, <2>4, Zenon
<1> QED BY <1>1, <1>2, <1>3, StepDownType, IgnoreType, Zenon

LEMMA RejectStaleAppendType ==
    ASSUME TypeOK, BoundsType', NEW i, NEW j, NEW k, Arrives(i, j, k), RejectStaleAppend(i, j, k)
    PROVE  TypeOK'
<1>1. /\ i \in Server /\ currentTerm[i] \in Nat
      /\ currentTerm'[i] \in Nat /\ votedFor'[i] \in Server \cup {Nil}
  BY Zenon DEF Arrives, RejectStaleAppend, electionVars, TypeOK
<1>2. LogTypes'
  BY <1>1, PumpOnlyType, Zenon DEF RejectStaleAppend
<1>3. NetType'
  <2>1. AppendReply(currentTerm[i], FALSE, 0, 0) \in Message
    BY <1>1, ReplyTypes, Zenon
  <2> QED BY <2>1, ReplyType, Zenon DEF RejectStaleAppend
<1> QED BY <1>2, <1>3, Zenon
        DEF TypeOK, RoleTypes, TallyTypes, LeaderTypes, ReadTypes, LogTypes, NetType, BoundsType,
            RejectStaleAppend, NoConfirmedRead, electionVars, leaderVars, readVars

LEMMA RejectAppendType ==
    ASSUME TypeOK, BoundsType', NEW i, NEW j, NEW k, Arrives(i, j, k), RejectAppend(i, j, k)
    PROVE  TypeOK'
<1>1. i \in Server /\ j \in Server /\ Msg(i, j, k) \in AppendRequest
  BY ArrivedMessage, MessageFields, Zenon DEF Arrives, RejectAppend, Received, Msg
<1>2. Msg(i, j, k).term \in Nat /\ Msg(i, j, k).readContext \in Nat
  BY <1>1, Zenon DEF AppendRequest
<1>3. RoleTypes'
  BY <1>1, <1>2, BecomeFollowerType, Zenon DEF RejectAppend
<1>4. LogTypes'
  BY <1>1, <1>3, PumpOnlyType, Zenon DEF RejectAppend, RoleTypes
<1>5. NetType'
  <2>1. AppendReply(Msg(i, j, k).term, FALSE, 0, Msg(i, j, k).readContext) \in Message
    BY <1>2, ReplyTypes, Zenon
  <2>2. Reply(i, j, k, AppendReply(Msg(i, j, k).term, FALSE, 0, Msg(i, j, k).readContext))
    BY Zenon DEF RejectAppend
  <2> QED BY <2>1, <2>2, ReplyType, Zenon
<1> QED BY <1>1, <1>3, <1>4, <1>5, Zenon
        DEF TypeOK, RoleTypes, LogTypes, NetType, BoundsType, RejectAppend, NoConfirmedRead,
            leaderVars, readVars

LEMMA AcceptAppendType ==
    ASSUME TypeOK, BoundsType', NEW i, NEW j, NEW k, Arrives(i, j, k), AcceptAppend(i, j, k)
    PROVE  TypeOK'
<1> DEFINE m  == Msg(i, j, k)
           lg == Merge(log[i], m)
<1>1. i \in Server /\ j \in Server /\ m \in AppendRequest /\ log[i] \in Log /\ commitIndex[i] \in Nat
  BY ArrivedMessage, MessageFields, Zenon DEF Arrives, AcceptAppend, Received, Msg, TypeOK
<1>2. /\ m.term \in Nat /\ m.readContext \in Nat /\ m.leaderCommit \in Nat
      /\ Acknowledged(lg, m) \in Nat
  <2>1. /\ m.term \in Nat /\ m.readContext \in Nat /\ m.leaderCommit \in Nat
        /\ m.prevLogIndex \in Nat /\ m.entries \in Seq(Entry)
    BY <1>1, Zenon DEF AppendRequest
  <2>2. Len(m.entries) \in Nat
    BY <2>1, SeqLen, Zenon
  <2> QED BY <2>1, <2>2 DEF Acknowledged
<1>3. RoleTypes'
  BY <1>1, <1>2, BecomeFollowerType, Zenon DEF AcceptAppend
<1>4. lg \in Log
  BY <1>1, MergeType, Zenon DEF AcceptAppend
<1>5. NetType'
  <2>1. AppendReply(m.term, TRUE, Acknowledged(lg, m), m.readContext) \in Message
    BY <1>2, ReplyTypes, Zenon
  <2>2. Reply(i, j, k, AppendReply(m.term, TRUE, Acknowledged(lg, m), m.readContext))
    BY Zenon DEF AcceptAppend
  <2> QED BY <2>1, <2>2, ReplyType, Zenon
<1>6. LogTypes'
  <2>1. CommitAfter(commitIndex[i], lg, m) \in Nat
    BY <1>1, <1>2, <1>4, LogFacts, Zenon DEF CommitAfter, Min
  <2>2. Pump(i, lg, CommitAfter(commitIndex[i], lg, m))
    BY Zenon DEF AcceptAppend
  <2> HIDE DEF lg
  <2> QED BY <1>1, <1>3, <1>4, <2>1, <2>2, PumpType, Zenon DEF RoleTypes
<1> QED BY <1>1, <1>3, <1>5, <1>6, Zenon
        DEF TypeOK, RoleTypes, LogTypes, NetType, BoundsType, AcceptAppend, NoConfirmedRead,
            leaderVars, readVars

LEMMA AckReadIndexType ==
    ASSUME TypeOK, NEW i \in Server, NEW j \in Server, NEW ctx, AckReadIndex(i, j, ctx),
           UNCHANGED nextReadCtx
    PROVE  ReadTypes'
<1>1. pendingReads[i] \in SUBSET Read
  BY Zenon DEF TypeOK
<1>2. Acked(i, j, ctx) \in SUBSET Read
  <2>1. \A r \in Read : [r EXCEPT !.acked = @ \cup {j}] \in Read
    BY Zenon DEF Read
  <2> QED BY <1>1, <2>1, Zenon DEF Acked
<1> QED BY <1>1, <1>2, Zenon DEF AckReadIndex, TypeOK, ReadTypes

\* The progress of a follower moves forward or one step back.
LEMMA ProgressType ==
    ASSUME TypeOK, NEW i \in Server, NEW j \in Server, NEW acked \in Nat
    PROVE  /\ [matchIndex[i] EXCEPT ![j] = Max(@, acked)] \in [Server -> Nat]
           /\ Max(nextIndex[i][j], acked + 1) \in Nat \ {0}
           /\ Backoff(nextIndex[i][j]) \in Nat \ {0}
<1>1. /\ matchIndex[i] \in [Server -> Nat] /\ matchIndex[i][j] \in Nat
      /\ nextIndex[i][j] \in Nat \ {0}
  BY DEF TypeOK
<1>2. Max(matchIndex[i][j], acked) \in Nat
  BY <1>1, Zenon DEF Max
<1>3. /\ Max(nextIndex[i][j], acked + 1) \in Nat \ {0}
      /\ Backoff(nextIndex[i][j]) \in Nat \ {0}
  BY <1>1 DEF Max, Backoff
<1> QED BY <1>1, <1>2, <1>3, Zenon

LEMMA UpdateType ==
    ASSUME NEW T, NEW f \in [Server -> [Server -> T]], NEW i \in Server, NEW j \in Server, NEW x \in T
    PROVE  [f EXCEPT ![i][j] = x] \in [Server -> [Server -> T]]
BY Zenon

LEMMA HandleAppendEntriesResponseType ==
    ASSUME TypeOK, BoundsType', NEW i, NEW j, NEW k, Arrives(i, j, k),
           HandleAppendEntriesResponse(i, j, k)
    PROVE  TypeOK'
<1> DEFINE m       == Msg(i, j, k)
           match   == [matchIndex[i] EXCEPT ![j] = Max(@, m.matchIndex)]
           backoff == Backoff(nextIndex[i][j])
           success == /\ matchIndex' = [matchIndex EXCEPT ![i] = match]
                      /\ nextIndex' = [nextIndex EXCEPT ![i][j] = m.matchIndex + 1]
                      /\ Pump(i, log[i], AdvanceCommit(i, log[i], match))
                      /\ NoReply(i, j, k)
                      /\ UNCHANGED sentIndex
           failure == /\ nextIndex' = [nextIndex EXCEPT ![i][j] = backoff]
                      /\ sentIndex' = [sentIndex EXCEPT ![i][j] = SentIndex(log[i], backoff, 0)]
                      /\ Reply(i, j, k, AppendMsg(currentTerm[i], log[i], commitIndex[i], backoff, 0, 0))
                      /\ PumpOnly(i)
                      /\ UNCHANGED matchIndex
           counted == /\ UNCHANGED <<electionVars, nextReadCtx, elections>>
                      /\ AckReadIndex(i, j, m.readContext)
                      /\ success \/ failure
<1>1. i \in Server /\ j \in Server /\ m \in AppendResponse /\ log[i] \in Log
  BY ArrivedMessage, MessageFields, Zenon DEF Arrives, HandleAppendEntriesResponse, Received, Msg, TypeOK
<1>2. m.term \in Nat /\ m.matchIndex \in Nat
  BY <1>1, Zenon DEF AppendResponse
<1>3. StepDown(i, j, k, m.term) \/ Ignore(i, j, k) \/ counted
  BY Zenon DEF HandleAppendEntriesResponse
<1>4. CASE counted
  <2>1. /\ RoleTypes' /\ TallyTypes' /\ ElectionsType'
        /\ currentTerm'[i] \in Nat /\ votedFor'[i] \in Server \cup {Nil}
    BY <1>1, <1>4, Zenon DEF TypeOK, RoleTypes, TallyTypes, ElectionsType, electionVars
  <2>2. ReadTypes'
    BY <1>1, <1>4, AckReadIndexType, Zenon
  <2>3. CASE success
    <3>1. match \in [Server -> Nat]
      BY <1>1, <1>2, ProgressType, Zenon
    <3>2. LeaderTypes'
      <4>1. nextIndex' \in [Server -> [Server -> Nat \ {0}]]
        <5>1. m.matchIndex + 1 \in Nat \ {0} /\ nextIndex \in [Server -> [Server -> Nat \ {0}]]
          BY <1>2 DEF TypeOK
        <5> QED BY <1>1, <2>3, <5>1, UpdateType, Zenon
      <4>2. matchIndex' \in [Server -> [Server -> Nat]]
        BY <1>1, <2>3, <3>1, Zenon DEF TypeOK
      <4> QED BY <2>3, <4>1, <4>2, Zenon DEF TypeOK, LeaderTypes
    <3>3. AdvanceCommit(i, log[i], match) \in Nat
      BY <1>1, <3>1, AdvanceCommitType, Zenon
    <3>4. Pump(i, log[i], AdvanceCommit(i, log[i], match))
      BY <2>3, Zenon
    <3>5. NetType'
      BY <2>3, ExchangeType DEF NoReply
    <3> HIDE DEF match
    <3>6. LogTypes'
      BY <1>1, <2>1, <3>3, <3>4, PumpType, Zenon
    <3> QED BY <2>1, <2>2, <3>2, <3>5, <3>6, TypeGroupsPrime, Zenon
  <2>4. CASE failure
    <3>1. backoff \in Nat \ {0} /\ currentTerm[i] \in Nat /\ commitIndex[i] \in Nat
      BY <1>1, <1>2, ProgressType, Zenon DEF TypeOK
    <3>2. /\ AppendMsg(currentTerm[i], log[i], commitIndex[i], backoff, 0, 0) \in Message
          /\ SentIndex(log[i], backoff, 0) \in Nat
      <4> HIDE DEF backoff
      <4> QED BY <1>1, <3>1, AppendMsgType, Zenon
    <3>3. LeaderTypes'
      <4>1. nextIndex' \in [Server -> [Server -> Nat \ {0}]]
        <5>1. nextIndex \in [Server -> [Server -> Nat \ {0}]]
          BY Zenon DEF TypeOK
        <5> HIDE DEF backoff
        <5> QED BY <1>1, <2>4, <3>1, <5>1, UpdateType, Zenon
      <4>2. sentIndex' \in [Server -> [Server -> Nat]]
        <5>1. sentIndex \in [Server -> [Server -> Nat]]
          BY Zenon DEF TypeOK
        <5> QED BY <1>1, <2>4, <3>2, <5>1, UpdateType, Zenon
      <4> QED BY <2>4, <4>1, <4>2, Zenon DEF TypeOK, LeaderTypes
    <3>4. NetType'
      BY <2>4, <3>2, ReplyType, Zenon
    <3>5. LogTypes'
      BY <1>1, <2>1, <2>4, PumpOnlyType, Zenon
    <3> QED BY <2>1, <2>2, <3>3, <3>4, <3>5, TypeGroupsPrime, Zenon
  <2> QED BY <1>4, <2>3, <2>4, Zenon
<1> QED BY <1>2, <1>3, <1>4, StepDownType, IgnoreType, Zenon

LEMMA RejectStaleSnapshotType ==
    ASSUME TypeOK, BoundsType', NEW i, NEW j, NEW k, Arrives(i, j, k), RejectStaleSnapshot(i, j, k)
    PROVE  TypeOK'
<1>1. /\ i \in Server /\ currentTerm[i] \in Nat /\ log[i].base \in Nat
      /\ currentTerm'[i] \in Nat /\ votedFor'[i] \in Server \cup {Nil}
  BY LogFacts, Zenon DEF Arrives, RejectStaleSnapshot, electionVars, TypeOK
<1>2. LogTypes'
  BY <1>1, PumpOnlyType, Zenon DEF RejectStaleSnapshot
<1>3. NetType'
  <2>1. SnapshotReply(currentTerm[i], log[i].base) \in Message
    BY <1>1, ReplyTypes, Zenon
  <2> QED BY <2>1, ReplyType, Zenon DEF RejectStaleSnapshot
<1> QED BY <1>2, <1>3, Zenon
        DEF TypeOK, RoleTypes, TallyTypes, LeaderTypes, ReadTypes, LogTypes, NetType, BoundsType,
            RejectStaleSnapshot, NoConfirmedRead, electionVars, leaderVars, readVars

LEMMA InstallSnapshotType ==
    ASSUME TypeOK, BoundsType', NEW i, NEW j, NEW k, Arrives(i, j, k), InstallSnapshot(i, j, k)
    PROVE  TypeOK'
<1> DEFINE m     == Msg(i, j, k)
           index == Len(m.snapshot)
           known == PumpOnly(i) /\ Reply(i, j, k, SnapshotReply(m.term, log[i].base))
           new   == /\ Pump(i, [base |-> index, entries |-> m.snapshot], Max(commitIndex[i], index))
                    /\ Reply(i, j, k, SnapshotReply(m.term, index))
<1>1. /\ i \in Server /\ j \in Server /\ m \in SnapshotRequest /\ log[i].base \in Nat
      /\ commitIndex[i] \in Nat
  BY ArrivedMessage, MessageFields, LogFacts, Zenon DEF Arrives, InstallSnapshot, Received, Msg, TypeOK
<1>2. m.term \in Nat /\ m.snapshot \in Seq(Entry)
  BY <1>1, Zenon DEF SnapshotRequest
<1>3. index \in Nat /\ Max(commitIndex[i], index) \in Nat
  BY <1>1, <1>2, SeqLen, Zenon DEF Max
<1>4. RoleTypes'
  BY <1>1, <1>2, BecomeFollowerType, Zenon DEF InstallSnapshot
<1>5. known \/ new
  BY Zenon DEF InstallSnapshot
<1>6. NetType'
  <2>1. SnapshotReply(m.term, log[i].base) \in Message /\ SnapshotReply(m.term, index) \in Message
    BY <1>1, <1>2, <1>3, ReplyTypes, Zenon
  <2> QED BY <1>5, <2>1, ReplyType, Zenon
<1>7. LogTypes'
  <2>1. CASE known
    BY <1>1, <1>4, <2>1, PumpOnlyType, Zenon DEF RoleTypes
  <2>2. CASE new
    <3>0. index <= Len(m.snapshot)
      BY <1>3
    <3>1. [base |-> index, entries |-> m.snapshot] \in Log
      <4> HIDE DEF index, m
      <4> QED BY <1>2, <1>3, <3>0, LogIntro, Zenon
    <3>2. Pump(i, [base |-> index, entries |-> m.snapshot], Max(commitIndex[i], index))
      BY <2>2, Zenon
    <3> HIDE DEF index, m
    <3> QED BY <1>1, <1>3, <1>4, <3>1, <3>2, PumpType, Zenon DEF RoleTypes
  <2> QED BY <1>5, <2>1, <2>2, Zenon
<1> QED BY <1>1, <1>4, <1>6, <1>7, Zenon
        DEF TypeOK, RoleTypes, LogTypes, NetType, BoundsType, InstallSnapshot, NoConfirmedRead,
            leaderVars, readVars

LEMMA HandleInstallSnapshotResponseType ==
    ASSUME TypeOK, BoundsType', NEW i, NEW j, NEW k, Arrives(i, j, k),
           HandleInstallSnapshotResponse(i, j, k)
    PROVE  TypeOK'
<1> DEFINE m       == Msg(i, j, k)
           match   == [matchIndex[i] EXCEPT ![j] = Max(@, m.matchIndex)]
           counted == /\ matchIndex' = [matchIndex EXCEPT ![i] = match]
                      /\ nextIndex' = [nextIndex EXCEPT ![i][j] = Max(@, m.matchIndex + 1)]
                      /\ UNCHANGED <<electionVars, sentIndex, readVars, elections>>
                      /\ Pump(i, log[i], AdvanceCommit(i, log[i], match))
                      /\ NoReply(i, j, k)
                      /\ NoConfirmedRead
<1>1. i \in Server /\ j \in Server /\ m \in SnapshotResponse /\ log[i] \in Log
  BY ArrivedMessage, MessageFields, Zenon DEF Arrives, HandleInstallSnapshotResponse, Received, Msg, TypeOK
<1>2. m.term \in Nat /\ m.matchIndex \in Nat
  BY <1>1, Zenon DEF SnapshotResponse
<1>3. StepDown(i, j, k, m.term) \/ Ignore(i, j, k) \/ counted
  BY Zenon DEF HandleInstallSnapshotResponse
<1>4. CASE counted
  <2>1. /\ RoleTypes' /\ TallyTypes' /\ ElectionsType'
        /\ currentTerm'[i] \in Nat /\ votedFor'[i] \in Server \cup {Nil}
    BY <1>1, <1>4, Zenon DEF TypeOK, RoleTypes, TallyTypes, ElectionsType, electionVars
  <2>2. ReadTypes'
    BY <1>4, Zenon DEF TypeOK, ReadTypes, NoConfirmedRead, readVars
  <2>3. match \in [Server -> Nat] /\ Max(nextIndex[i][j], m.matchIndex + 1) \in Nat \ {0}
    BY <1>1, <1>2, ProgressType, Zenon
  <2>4. LeaderTypes'
    <3>1. nextIndex' \in [Server -> [Server -> Nat \ {0}]]
      <4>1. nextIndex \in [Server -> [Server -> Nat \ {0}]]
        BY Zenon DEF TypeOK
      <4> QED BY <1>1, <1>4, <2>3, <4>1, UpdateType, Zenon
    <3>2. matchIndex' \in [Server -> [Server -> Nat]]
      BY <1>1, <1>4, <2>3, Zenon DEF TypeOK
    <3> QED BY <1>4, <3>1, <3>2, Zenon DEF TypeOK, LeaderTypes
  <2>5. AdvanceCommit(i, log[i], match) \in Nat
    BY <1>1, AdvanceCommitType, Zenon
  <2>6. Pump(i, log[i], AdvanceCommit(i, log[i], match))
    BY <1>4, Zenon
  <2>7. NetType'
    BY <1>4, ExchangeType DEF NoReply
  <2> HIDE DEF match
  <2>8. LogTypes'
    BY <1>1, <2>1, <2>5, <2>6, PumpType, Zenon
  <2> QED BY <2>1, <2>2, <2>4, <2>7, <2>8, TypeGroupsPrime, Zenon
<1> QED BY <1>2, <1>3, <1>4, StepDownType, IgnoreType, Zenon

LEMMA ProposeBatchType ==
    ASSUME TypeOK, BoundsType', NEW i \in Server, NEW datas \in Seq(Value), ProposeBatch(i, datas)
    PROVE  TypeOK'
<1> DEFINE lg == Proposed(i, datas)
           ci == IF Peers(i) = {} THEN AdvanceCommit(i, lg, matchIndex[i]) ELSE commitIndex[i]
<1>1. /\ log[i] \in Log /\ currentTerm[i] \in Nat /\ commitIndex[i] \in Nat
      /\ currentTerm'[i] \in Nat /\ votedFor'[i] \in Server \cup {Nil}
  BY Zenon DEF ProposeBatch, electionVars, TypeOK
<1>3. lg \in Log
  BY ProposedLogType, Zenon
<1>4. SendToAll(i, lg, 0) /\ Pump(i, lg, ci)
  BY Zenon DEF ProposeBatch
<1> HIDE DEF lg
<1>5. NetType' /\ LeaderTypes'
  BY <1>3, <1>4, SendToAllType, Zenon
<1>6. ci \in Nat
  BY <1>1, <1>3, AdvanceCommitType, Zenon
<1> HIDE DEF ci
<1>7. LogTypes'
  BY <1>1, <1>3, <1>4, <1>6, PumpType, Zenon
<1>8. RoleTypes' /\ TallyTypes' /\ ReadTypes' /\ ElectionsType'
  BY Zenon DEF ProposeBatch, NoConfirmedRead, electionVars, readVars, TypeOK, RoleTypes, TallyTypes,
         ReadTypes, ElectionsType
<1> QED BY <1>5, <1>7, <1>8, TypeGroupsPrime, Zenon

LEMMA RequestReadIndexType ==
    ASSUME TypeOK, BoundsType', NEW i \in Server, RequestReadIndex(i)
    PROVE  TypeOK'
<1> DEFINE r == [ctx     |-> nextReadCtx[i],
                 index   |-> commitIndex[i],
                 acked   |-> {i},
                 need    |-> Len(committed),
                 settled |-> TermAt(log[i], commitIndex[i]) = currentTerm[i]]
           alone == /\ readStates' = {r}
                    /\ UNCHANGED <<pendingReads, leaderVars, net>>
           asks  == /\ pendingReads' = [pendingReads EXCEPT ![i] = @ \cup {r}]
                    /\ SendToAll(i, log[i], nextReadCtx[i])
                    /\ NoConfirmedRead
<1>1. /\ log[i] \in Log /\ nextReadCtx[i] \in Nat
      /\ currentTerm'[i] \in Nat /\ votedFor'[i] \in Server \cup {Nil}
  BY Zenon DEF RequestReadIndex, electionVars, TypeOK
<1>2. alone \/ asks
  BY Zenon DEF RequestReadIndex
<1>3. r \in Read
  <2>1. committed \in Seq(Entry) /\ commitIndex[i] \in Nat
    BY Zenon DEF TypeOK
  <2>2. Len(committed) \in Nat
    BY <2>1, SeqLen, Zenon
  <2> QED BY <1>1, <2>1, <2>2, Zenon DEF Read
<1>4. LogTypes'
  BY <1>1, PumpOnlyType, Zenon DEF RequestReadIndex
<1>5. nextReadCtx' \in [Server -> Nat]
  <2>1. nextReadCtx' = [nextReadCtx EXCEPT ![i] = @ + 1]
    BY Zenon DEF RequestReadIndex
  <2>2. nextReadCtx \in [Server -> Nat] /\ nextReadCtx[i] + 1 \in Nat
    BY DEF TypeOK
  <2> QED BY <2>1, <2>2, Zenon
<1>6. RoleTypes' /\ TallyTypes' /\ ElectionsType'
  BY Zenon DEF RequestReadIndex, electionVars, TypeOK, RoleTypes, TallyTypes, ElectionsType
<1> HIDE DEF r
<1>7. CASE alone
  BY <1>3, <1>4, <1>5, <1>6, <1>7, TypeGroupsPrime, Zenon
     DEF TypeOK, LeaderTypes, ReadTypes, NetType, leaderVars
<1>8. CASE asks
  <2>1. NetType' /\ LeaderTypes'
    BY <1>1, <1>8, SendToAllType, Zenon
  <2>2. ReadTypes'
    BY <1>3, <1>5, <1>8, Zenon DEF TypeOK, ReadTypes, NoConfirmedRead
  <2> QED BY <1>4, <1>6, <2>1, <2>2, TypeGroupsPrime, Zenon
<1> QED BY <1>2, <1>7, <1>8, Zenon

LEMMA RestartFromType ==
    ASSUME TypeOK, BoundsType', NEW i \in Server,
           NEW d \in [term : Nat, vote : Server \cup {Nil}, log : Log], RestartFrom(i, d)
    PROVE  TypeOK'
<1>1. d.term \in Nat /\ d.vote \in Server \cup {Nil} /\ d.log \in Log /\ d.log.base \in Nat
  BY LogFacts, Zenon
<1>2. RoleTypes'
  BY <1>1, Zenon DEF RestartFrom, TypeOK, RoleTypes
<1>3. TallyTypes'
  BY Zenon DEF RestartFrom, TypeOK, TallyTypes
<1>4. LogTypes'
  BY <1>1, Zenon DEF RestartFrom, RecoveredCommit, TypeOK, LogTypes
<1>5. LeaderTypes'
  <2>1. nextIndex' \in [Server -> [Server -> Nat \ {0}]]
    <3>1. [p \in Server |-> 1] \in [Server -> Nat \ {0}]
      OBVIOUS
    <3>2. nextIndex \in [Server -> [Server -> Nat \ {0}]] /\ nextIndex' = [nextIndex EXCEPT ![i] = [p \in Server |-> 1]]
      BY Zenon DEF RestartFrom, TypeOK
    <3> QED BY <3>1, <3>2, RowType, Zenon
  <2>2. matchIndex' \in [Server -> [Server -> Nat]]
    <3>1. [p \in Server |-> 0] \in [Server -> Nat]
      BY Zenon
    <3>2. matchIndex \in [Server -> [Server -> Nat]] /\ matchIndex' = [matchIndex EXCEPT ![i] = [p \in Server |-> 0]]
      BY Zenon DEF RestartFrom, TypeOK
    <3> QED BY <3>1, <3>2, RowType, Zenon
  <2>3. sentIndex' \in [Server -> [Server -> Nat]]
    <3>1. [p \in Server |-> 0] \in [Server -> Nat]
      BY Zenon
    <3>2. sentIndex \in [Server -> [Server -> Nat]] /\ sentIndex' = [sentIndex EXCEPT ![i] = [p \in Server |-> 0]]
      BY Zenon DEF RestartFrom, TypeOK
    <3> QED BY <3>1, <3>2, RowType, Zenon
  <2> QED BY <2>1, <2>2, <2>3, Zenon DEF LeaderTypes
<1>6. ReadTypes'
  BY Zenon DEF RestartFrom, NoConfirmedRead, TypeOK, ReadTypes
<1>7. NetType'
  <2>1. <<>> \in Seq(Message)
    OBVIOUS
  <2>2. net' = [l \in Links |-> IF l[2] = i THEN <<>> ELSE net[l]]
    BY Zenon DEF RestartFrom
  <2> QED BY <2>1, <2>2, Zenon DEF TypeOK, NetType
<1>8. ElectionsType'
  BY Zenon DEF RestartFrom, TypeOK, ElectionsType
<1> QED BY <1>2, <1>3, <1>4, <1>5, <1>6, <1>7, <1>8, TypeGroupsPrime, Zenon

LEMMA CrashType ==
    ASSUME TypeOK, BoundsType', NEW i \in Server, Crash(i)
    PROVE  TypeOK'
<1>1. disk[i] \in [term : Nat, vote : Server \cup {Nil}, log : Log]
  BY Zenon DEF TypeOK
<1> QED BY <1>1, RestartFromType, Zenon DEF Crash

LEMMA PanicInAppendType ==
    ASSUME TypeOK, BoundsType', NEW i, NEW j, NEW k, Arrives(i, j, k), PanicInAppend(i, j, k)
    PROVE  TypeOK'
<1>1. i \in Server /\ Crash(i)
  BY Zenon DEF Arrives, PanicInAppend, Crash
<1> QED BY <1>1, CrashType, Zenon

LEMMA CrashInPersistType ==
    ASSUME TypeOK, BoundsType', NEW i, NEW j, NEW k, Arrives(i, j, k), CrashInPersist(i, j, k)
    PROVE  TypeOK'
<1> DEFINE m == Msg(i, j, k)
           vote == IF m.term > currentTerm[i] THEN Nil ELSE votedFor[i]
<1>1. i \in Server /\ m \in AppendRequest /\ log[i] \in Log
  BY ArrivedMessage, MessageFields, Zenon DEF Arrives, CrashInPersist, Received, Msg, TypeOK
<1>2. m.term \in Nat /\ vote \in Server \cup {Nil}
  BY <1>1, Zenon DEF AppendRequest, TypeOK
<1>3. PICK lg \in TornLogs(log[i], m) :
        RestartFrom(i, [term |-> m.term, vote |-> vote, log |-> lg])
  BY Zenon DEF CrashInPersist
<1>4. lg \in Log
  BY <1>1, <1>3, TornLogsType, Zenon DEF CrashInPersist
<1>5. [term |-> m.term, vote |-> vote, log |-> lg] \in [term : Nat, vote : Server \cup {Nil}, log : Log]
  BY <1>2, <1>4, Zenon
<1> HIDE DEF vote, m
<1> QED BY <1>1, <1>3, <1>5, RestartFromType, Zenon

LEMMA DropConnType ==
    ASSUME TypeOK, BoundsType', NEW l \in Links, DropConn(l[1], l[2])
    PROVE  TypeOK'
<1>1. l = <<l[1], l[2]>>
  BY DEF Links
<1>2. net[l] \in Seq(Message) /\ net[l] # <<>>
  BY <1>1, Zenon DEF DropConn, TypeOK
<1>3. Len(net[l]) - 1 \in Int /\ Len(net[l]) - 1 <= Len(net[l])
  BY <1>2, SeqLen
<1>4. SubSeq(net[l], 1, Len(net[l]) - 1) \in Seq(Message)
  BY <1>2, <1>3, SeqPart
<1>5. net' = [net EXCEPT ![l] = SubSeq(@, 1, Len(@) - 1)]
  BY <1>1, Zenon DEF DropConn
<1>6. NetType'
  BY <1>4, <1>5, Zenon DEF TypeOK, NetType
<1> QED BY <1>6, Zenon
        DEF TypeOK, NetType, BoundsType, DropConn, NoConfirmedRead, electionVars, leaderVars,
            readVars, logVars

LEMMA StepType ==
    ASSUME TypeOK, BoundsType', NEW i, NEW j, NEW k, Arrives(i, j, k), Step(i, j, k)
    PROVE  TypeOK'
BY HandlePreVoteType, HandlePreVoteResponseType, HandleRequestVoteType,
   HandleRequestVoteResponseType, RejectStaleAppendType, RejectAppendType, AcceptAppendType,
   HandleAppendEntriesResponseType, RejectStaleSnapshotType, InstallSnapshotType,
   HandleInstallSnapshotResponseType, PanicInAppendType, Zenon
   DEF Step, HandleAppendEntries, HandleInstallSnapshot

-----------------------------------------------------------------------------
LEMMA InitType == Init => TypeOK
<1> SUFFICES ASSUME Init PROVE TypeOK
  BY Zenon
<1>1. EmptyLog \in Log
  <2>1. [base |-> 0, entries |-> <<>>] \in [base : Nat, entries : Seq(Entry)]
    OBVIOUS
  <2> QED BY <2>1 DEF EmptyLog, Log
<1>2. RoleTypes /\ TallyTypes
  BY Zenon DEF Init, RoleTypes, TallyTypes
<1>3. LeaderTypes
  BY DEF Init, LeaderTypes
<1>4. ReadTypes /\ NetType /\ ElectionsType /\ BoundsType
  BY DEF Init, ReadTypes, NetType, ElectionsType, BoundsType
<1>5. LogTypes
  BY <1>1 DEF Init, LogTypes
<1> QED BY <1>2, <1>3, <1>4, <1>5, TypeGroups, Zenon

LEMMA NextType == TypeOK /\ [Next]_vars => TypeOK'
<1> SUFFICES ASSUME TypeOK, [Next]_vars PROVE TypeOK'
  BY Zenon
<1>1. CASE Progress /\ UNCHANGED boundVars
  <2>1. BoundsType'
    BY <1>1, Zenon DEF TypeOK, BoundsType, boundVars
  <2>2. CASE \E i \in Server : IdleTick(i) \/ Heartbeat(i)
    BY <2>1, <2>2, IdleTickType, HeartbeatType, Zenon
  <2>3. CASE Request
    <3>1. CASE \E i \in Server : RequestReadIndex(i)
      BY <2>1, <3>1, RequestReadIndexType, Zenon
    <3>2. CASE \E i \in Server, n \in 1..MaxIndex : \E datas \in [1..n -> Value] : ProposeBatch(i, datas)
      <4>1. PICK i \in Server, n \in 1..MaxIndex : \E datas \in [1..n -> Value] : ProposeBatch(i, datas)
        BY <3>2, Zenon
      <4>2. PICK datas \in [1..n -> Value] : ProposeBatch(i, datas)
        BY <4>1, Zenon
      <4>3. datas \in Seq(Value)
        BY BoundsAssumption
      <4> QED BY <2>1, <4>2, <4>3, ProposeBatchType, Zenon
    <3> QED BY <2>3, <3>1, <3>2, Zenon DEF Request
  <2>4. CASE \E l \in Links : Deliver(l)
    <3>1. PICK l \in Links : \E k \in DOMAIN net[l] : Step(l[2], l[1], k)
      BY <2>4, Zenon DEF Deliver
    <3>2. PICK k \in DOMAIN net[l] : Step(l[2], l[1], k)
      BY <3>1, Zenon
    <3>3. Arrives(l[2], l[1], k)
      BY DEF Arrives, Links
    <3> QED BY <2>1, <3>2, <3>3, StepType, Zenon
  <2> QED BY <1>1, <2>2, <2>3, <2>4, Zenon DEF Progress
<1>2. CASE Timeout /\ timeouts' = timeouts + 1 /\ UNCHANGED faults
  <2>1. BoundsType'
    BY <1>2 DEF TypeOK, BoundsType
  <2> QED BY <1>2, <2>1, ElectionTimeoutType, ElectionTimeoutAloneType, Zenon DEF Timeout
<1>3. CASE Fault /\ faults' = faults + 1 /\ UNCHANGED timeouts
  <2>1. BoundsType'
    BY <1>3 DEF TypeOK, BoundsType
  <2>2. CASE \E l \in Links : \E k \in DOMAIN net[l] : CrashInPersist(l[2], l[1], k)
    <3>1. PICK l \in Links : \E k \in DOMAIN net[l] : CrashInPersist(l[2], l[1], k)
      BY <2>2, Zenon
    <3>2. PICK k \in DOMAIN net[l] : CrashInPersist(l[2], l[1], k)
      BY <3>1, Zenon
    <3>3. Arrives(l[2], l[1], k)
      BY DEF Arrives, Links
    <3> QED BY <2>1, <3>2, <3>3, CrashInPersistType, Zenon
  <2>3. CASE \E i \in Server : Crash(i)
    BY <2>1, <2>3, CrashType, Zenon
  <2>4. CASE \E l \in Links : DropConn(l[1], l[2])
    BY <2>1, <2>4, DropConnType, Zenon
  <2>5. CASE \E l \in Links : Overtake(l)
    <3>1. PICK l \in Links : \E k \in DOMAIN net[l] : Step(l[2], l[1], k)
      BY <2>5, Zenon DEF Overtake
    <3>2. PICK k \in DOMAIN net[l] : Step(l[2], l[1], k)
      BY <3>1, Zenon
    <3>3. Arrives(l[2], l[1], k)
      BY DEF Arrives, Links
    <3> QED BY <2>1, <3>2, <3>3, StepType, Zenon
  <2> QED BY <1>3, <2>2, <2>3, <2>4, <2>5, Zenon DEF Fault
<1>4. CASE UNCHANGED vars
  BY <1>4, Zenon DEF TypeOK, vars, electionVars, leaderVars, readVars, logVars, boundVars
<1> QED BY <1>1, <1>2, <1>3, <1>4, Zenon DEF Next

\* TypeOK always holds: whatever the cluster, the thresholds and the bounds, no
\* sequence of events, lost messages and crashes leaves a node with a log that
\* does not reach its snapshot boundary or a follower's nextIndex at 0.
THEOREM TypeCorrect == Spec => []TypeOK
BY InitType, NextType, PTL DEF Spec

-----------------------------------------------------------------------------
(***************************************************************************)
(* What a step must do to preserve VoteInv.                                *)
(***************************************************************************)
\* A node's durable term only grows and within a term its vote does not change
\* once it is cast.
DiskGrows(v) ==
    \/ disk'[v].term > disk[v].term
    \/ disk'[v].term = disk[v].term /\ (disk'[v].vote = disk[v].vote \/ disk[v].vote = Nil)

\* A vote that appears was cast by this very step, and is on disk with it.
NewBallotsOnDisk ==
    \A t \in Nat, v, c \in Server :
        Ballot(v, t, c)' => Ballot(v, t, c) \/ (disk'[v].term = t /\ disk'[v].vote = c)

LEMMA VoteSafetyPreserved ==
    ASSUME TypeOK, TypeOK', VoteSafety(Nat), \A v \in Server : DiskGrows(v), NewBallotsOnDisk
    PROVE  VoteSafety(Nat)'
<1>1. ASSUME NEW t \in Nat, NEW v \in Server, NEW c \in Server, Ballot(v, t, c)'
      PROVE  VoteOnDisk(v, t, c)'
  <2>1. CASE disk'[v].term = t /\ disk'[v].vote = c
    BY <2>1, Zenon DEF VoteOnDisk
  <2>2. CASE Ballot(v, t, c)
    <3>1. VoteOnDisk(v, t, c)
      BY <2>2, Zenon DEF VoteSafety
    <3>2. disk[v].term \in Nat /\ disk'[v].term \in Nat /\ c # Nil
      BY ServerAssumption, Zenon DEF TypeOK
    <3>3. DiskGrows(v)
      BY Zenon
    <3> QED BY <3>1, <3>2, <3>3 DEF VoteOnDisk, DiskGrows
  <2> QED BY <1>1, <2>1, <2>2, Zenon DEF NewBallotsOnDisk
<1>2. ASSUME NEW t \in Nat, NEW v \in Server, NEW c \in Server, NEW d \in Server,
             Ballot(v, t, c)', Ballot(v, t, d)'
      PROVE  d = c
  <2>1. CASE Ballot(v, t, c) /\ Ballot(v, t, d)
    BY <2>1, Zenon DEF VoteSafety
  <2>2. CASE disk'[v].term = t
    <3>1. VoteOnDisk(v, t, c)' /\ VoteOnDisk(v, t, d)'
      BY <1>1, <1>2, Zenon
    <3> QED BY <2>2, <3>1 DEF VoteOnDisk
  <2> QED BY <1>2, <2>1, <2>2, Zenon DEF NewBallotsOnDisk
<1> QED BY <1>1, <1>2, Zenon DEF VoteSafety

LEMMA QuietStep ==
    ASSUME NoVoteSent, NoVoteCounted, UNCHANGED elections
    PROVE  NewBallotsOnDisk
BY NoBallotAppears, Zenon DEF NoNewBallot, NewBallotsOnDisk

\* Messages other than votes.
LEMMA SendsNoVote ==
    ASSUME TypeOK, NEW i, NEW j, NEW k, k = 0 \/ Arrives(i, j, k), NEW out,
           \A p \in DOMAIN out : out[p] \in Message /\ out[p].type # "RequestVoteResponse",
           Exchange(i, j, k, out)
    PROVE  NoVoteSent
<1> SUFFICES ASSUME NEW l \in Links, NEW x \in DOMAIN net'[l], NEW t \in Nat, Grant(net'[l][x], t)
             PROVE  \E y \in DOMAIN net[l] : net'[l][x] = net[l][y]
  BY Zenon DEF NoVoteSent
<1>1. \A p \in DOMAIN out : out[p] \in Message
  BY Zenon
<1>2. \/ \E y \in DOMAIN net[l] : net'[l][x] = net[l][y]
      \/ l[1] = i /\ l[2] \in DOMAIN out /\ net'[l][x] = out[l[2]]
  <2>1. OldOrSent(i, out)
    BY <1>1, ExchangeKeeps, Zenon
  <2> QED BY <2>1, Zenon DEF OldOrSent
<1>3. net'[l][x].type = "RequestVoteResponse"
  BY Zenon DEF Grant
<1> QED BY <1>2, <1>3, Zenon

LEMMA NoReplyNoVote ==
    ASSUME TypeOK, NEW i, NEW j, NEW k, Arrives(i, j, k), NoReply(i, j, k)
    PROVE  NoVoteSent
<1> DEFINE out == [p \in {} |-> Nil]
<1>1. Exchange(i, j, k, out)
  BY Zenon DEF NoReply
<1>2. \A p \in DOMAIN out : out[p] \in Message /\ out[p].type # "RequestVoteResponse"
  BY Zenon
<1> HIDE DEF out
<1> QED BY <1>1, <1>2, SendsNoVote, Zenon

LEMMA ReplyNoVote ==
    ASSUME TypeOK, NEW i, NEW j, NEW k, Arrives(i, j, k), NEW m \in Message,
           m.type # "RequestVoteResponse", Reply(i, j, k, m)
    PROVE  NoVoteSent
<1> DEFINE out == [p \in {j} |-> m]
<1>1. Exchange(i, j, k, out)
  BY Zenon DEF Reply
<1>2. \A p \in DOMAIN out : out[p] \in Message /\ out[p].type # "RequestVoteResponse"
  BY Zenon
<1> HIDE DEF out
<1> QED BY <1>1, <1>2, SendsNoVote, Zenon

LEMMA SendToAllNoVote ==
    ASSUME TypeOK, NEW i \in Server, NEW lg \in Log, NEW ctx \in Nat, SendToAll(i, lg, ctx)
    PROVE  NoVoteSent
<1> DEFINE out == [p \in Peers(i) |-> AppendMsg(currentTerm[i], lg, commitIndex[i],
                                                nextIndex[i][p], sentIndex[i][p], ctx)]
<1>1. Exchange(i, i, 0, out)
  BY Zenon DEF SendToAll, Broadcast
<1>2. \A p \in DOMAIN out : out[p] \in Message /\ out[p].type # "RequestVoteResponse"
  <2> SUFFICES ASSUME NEW p \in Peers(i)
               PROVE  out[p] \in Message /\ out[p].type # "RequestVoteResponse"
    BY Zenon
  <2>1. /\ currentTerm[i] \in Nat /\ commitIndex[i] \in Nat
        /\ nextIndex[i][p] \in Nat \ {0} /\ sentIndex[i][p] \in Nat
    BY DEF TypeOK, Peers
  <2>2. out[p] = AppendMsg(currentTerm[i], lg, commitIndex[i], nextIndex[i][p], sentIndex[i][p], ctx)
    BY Zenon
  <2>3. out[p] \in Message /\ out[p].type \in {"AppendEntries", "InstallSnapshot"}
    BY <2>1, <2>2, AppendMsgType, Zenon
  <2> QED BY <2>3, Zenon
<1> HIDE DEF out
<1> QED BY <1>1, <1>2, SendsNoVote, Zenon

\* Persist: the hard state an event leaves behind is on disk when it ends.
HardStateGrows(i) ==
    /\ \A n \in Server \ {i} : currentTerm'[n] = currentTerm[n] /\ votedFor'[n] = votedFor[n]
    /\ \/ currentTerm'[i] > currentTerm[i]
       \/ /\ currentTerm'[i] = currentTerm[i]
          /\ votedFor'[i] = votedFor[i] \/ votedFor[i] = Nil

LEMMA PumpSavesHardState ==
    ASSUME TypeOK, HardStateOnDisk, NEW i \in Server, NEW lg, NEW ci, Pump(i, lg, ci),
           HardStateGrows(i)
    PROVE  /\ HardStateOnDisk'
           /\ \A v \in Server : DiskGrows(v)
<1>1. \A n \in Server : disk'[n] = IF n = i THEN Persisted(i, lg) ELSE disk[n]
  BY Zenon DEF Pump, TypeOK
<1>2. disk'[i].term = currentTerm'[i] /\ disk'[i].vote = votedFor'[i]
  BY <1>1 DEF Persisted
<1>3. \A n \in Server \ {i} : disk'[n] = disk[n]
  BY <1>1, Zenon
<1>4. HardStateOnDisk'
  BY <1>2, <1>3, Zenon DEF HardStateOnDisk, HardStateGrows
<1>5. \A v \in Server : DiskGrows(v)
  BY <1>2, <1>3, Zenon DEF HardStateOnDisk, HardStateGrows, DiskGrows
<1> QED BY <1>4, <1>5, Zenon

-----------------------------------------------------------------------------
(***************************************************************************)
(* The kinds of step.                                                      *)
(***************************************************************************)
\* A step that changes no role, term or vote.
LEMMA SteadyStep ==
    ASSUME VoteInv, TypeOK', NEW i \in Server, NEW lg, NEW ci, Pump(i, lg, ci),
           UNCHANGED <<electionVars, elections>>, NoVoteSent
    PROVE  VoteInv'
<1>1. HardStateGrows(i)
  BY Zenon DEF HardStateGrows, electionVars
<1>2. HardStateOnDisk' /\ \A v \in Server : DiskGrows(v)
  BY <1>1, PumpSavesHardState, Zenon DEF VoteInv
<1>3. NewBallotsOnDisk
  <2>1. NoVoteCounted
    BY Zenon DEF NoVoteCounted, electionVars
  <2> QED BY <2>1, QuietStep, Zenon
<1>4. WonByMajority'
  BY Zenon DEF VoteInv, WonByMajority
<1> QED BY <1>2, <1>3, <1>4, VoteSafetyPreserved, Zenon DEF VoteInv

\* A step in which a node adopts a term as a follower.
LEMMA FollowStep ==
    ASSUME VoteInv, TypeOK', NEW i \in Server, NEW t \in Nat, BecomeFollower(i, t),
           NEW lg, NEW ci, Pump(i, lg, ci), UNCHANGED <<votesReceived, elections>>, NoVoteSent
    PROVE  VoteInv'
<1>1. HardStateGrows(i)
  BY SMTT(30) DEF HardStateGrows, BecomeFollower, Max, VoteInv, TypeOK
<1>2. HardStateOnDisk' /\ \A v \in Server : DiskGrows(v)
  BY <1>1, PumpSavesHardState, Zenon DEF VoteInv
<1>3. NewBallotsOnDisk
  <2>1. role'[i] = Follower /\ \A n \in Server \ {i} : role'[n] = role[n] /\ currentTerm'[n] = currentTerm[n]
    BY ZenonT(30) DEF BecomeFollower, VoteInv, TypeOK
  <2>2. NoVoteCounted
    BY <2>1, Zenon DEF NoVoteCounted, Follower, Candidate, Leader
  <2> QED BY <2>2, QuietStep, Zenon
<1>4. WonByMajority'
  BY Zenon DEF VoteInv, WonByMajority
<1> QED BY <1>2, <1>3, <1>4, VoteSafetyPreserved, Zenon DEF VoteInv

\* A node restarts from a disk that has lost no term and no vote.
LEMMA RestartStep ==
    ASSUME VoteInv, TypeOK', NEW i \in Server,
           NEW d \in [term : Nat, vote : Server \cup {Nil}, log : Log], RestartFrom(i, d),
           \/ d.term > currentTerm[i]
           \/ d.term = currentTerm[i] /\ d.vote = votedFor[i]
    PROVE  VoteInv'
<1>1. \A n \in Server : /\ disk'[n] = IF n = i THEN d ELSE disk[n]
                        /\ currentTerm'[n] = IF n = i THEN d.term ELSE currentTerm[n]
                        /\ votedFor'[n] = IF n = i THEN d.vote ELSE votedFor[n]
                        /\ role'[n] = IF n = i THEN Follower ELSE role[n]
                        /\ n # i => votesReceived'[n] = votesReceived[n]
  <2>1. /\ DOMAIN disk = Server /\ DOMAIN currentTerm = Server /\ DOMAIN votedFor = Server
        /\ DOMAIN role = Server /\ DOMAIN votesReceived = Server
    BY Zenon DEF VoteInv, TypeOK
  <2>2. /\ disk' = [disk EXCEPT ![i] = d] /\ currentTerm' = [currentTerm EXCEPT ![i] = d.term]
        /\ votedFor' = [votedFor EXCEPT ![i] = d.vote] /\ role' = [role EXCEPT ![i] = Follower]
        /\ votesReceived' = [votesReceived EXCEPT ![i] = {}]
    BY Zenon DEF RestartFrom
  <2> QED BY <2>1, <2>2, Zenon
<1>2. HardStateOnDisk'
  BY <1>1, Zenon DEF VoteInv, HardStateOnDisk
<1>3. \A v \in Server : DiskGrows(v)
  BY <1>1, Zenon DEF VoteInv, HardStateOnDisk, DiskGrows
<1>4. NoVoteCounted
  BY <1>1, Zenon DEF NoVoteCounted, Follower, Candidate, Leader
<1>5. NoVoteSent
  <2>1. \A l \in Links : net'[l] = IF l[2] = i THEN <<>> ELSE net[l]
    BY Zenon DEF RestartFrom
  <2> QED BY <2>1 DEF NoVoteSent
<1>6. UNCHANGED elections
  BY Zenon DEF RestartFrom
<1>7. WonByMajority'
  BY <1>6, Zenon DEF VoteInv, WonByMajority
<1> QED BY <1>2, <1>3, <1>4, <1>5, <1>6, <1>7, QuietStep, VoteSafetyPreserved, Zenon DEF VoteInv

-----------------------------------------------------------------------------
(***************************************************************************)
(* One lemma per action; first those that cast and count no vote.          *)
(***************************************************************************)
LEMMA StepDownVotes ==
    ASSUME VoteInv, TypeOK', NEW i, NEW j, NEW k, Arrives(i, j, k), NEW t \in Nat, StepDown(i, j, k, t)
    PROVE  VoteInv'
<1>1. i \in Server /\ NoVoteSent
  BY NoReplyNoVote, Zenon DEF Arrives, StepDown, VoteInv
<1>2. Pump(i, log[i], commitIndex[i]) /\ BecomeFollower(i, t) /\ UNCHANGED <<votesReceived, elections>>
  BY Zenon DEF StepDown, PumpOnly
<1> QED BY <1>1, <1>2, FollowStep, Zenon

LEMMA IgnoreVotes ==
    ASSUME VoteInv, TypeOK', NEW i, NEW j, NEW k, Arrives(i, j, k), Ignore(i, j, k)
    PROVE  VoteInv'
<1>1. i \in Server /\ NoVoteSent
  BY NoReplyNoVote, Zenon DEF Arrives, Ignore, VoteInv
<1>2. Pump(i, log[i], commitIndex[i]) /\ UNCHANGED <<electionVars, elections>>
  BY Zenon DEF Ignore, PumpOnly
<1> QED BY <1>1, <1>2, SteadyStep, Zenon

LEMMA IdleTickVotes ==
    ASSUME VoteInv, TypeOK', NEW i \in Server, IdleTick(i)
    PROVE  VoteInv'
<1>1. NoVoteSent
  BY Zenon DEF IdleTick, NoVoteSent
<1>2. Pump(i, log[i], commitIndex[i]) /\ UNCHANGED <<electionVars, elections>>
  BY Zenon DEF IdleTick, PumpOnly
<1> QED BY <1>1, <1>2, SteadyStep, Zenon

LEMMA HeartbeatVotes ==
    ASSUME VoteInv, TypeOK', NEW i \in Server, Heartbeat(i)
    PROVE  VoteInv'
<1>1. log[i] \in Log /\ TypeOK
  BY Zenon DEF VoteInv, TypeOK
<1>2. NoVoteSent
  BY <1>1, SendToAllNoVote, Zenon DEF Heartbeat
<1>3. Pump(i, log[i], commitIndex[i]) /\ UNCHANGED <<electionVars, elections>>
  BY Zenon DEF Heartbeat, PumpOnly
<1> QED BY <1>2, <1>3, SteadyStep, Zenon

LEMMA ElectionTimeoutVotes ==
    ASSUME VoteInv, TypeOK', NEW i \in Server, ElectionTimeout(i)
    PROVE  VoteInv'
<1>1. TypeOK /\ log[i] \in Log /\ currentTerm[i] \in Nat
  BY Zenon DEF VoteInv, TypeOK
<1>2. NoVoteSent
  <2> DEFINE out == [p \in Peers(i) |-> PreVoteMsg(currentTerm[i], log[i])]
  <2>1. Exchange(i, i, 0, out)
    BY Zenon DEF ElectionTimeout, Broadcast
  <2>2. \A p \in DOMAIN out : out[p] \in Message /\ out[p].type # "RequestVoteResponse"
    BY <1>1, VoteRequestType, Zenon DEF PreVoteMsg
  <2> HIDE DEF out
  <2> QED BY <1>1, <2>1, <2>2, SendsNoVote, Zenon
<1>3. HardStateGrows(i)
  BY Zenon DEF HardStateGrows, ElectionTimeout
<1>4. HardStateOnDisk' /\ \A v \in Server : DiskGrows(v)
  BY <1>3, PumpSavesHardState, Zenon DEF VoteInv, ElectionTimeout, PumpOnly
<1>5. NoVoteCounted
  <2>1. \A n \in Server : role'[n] = IF n = i THEN PreCandidate ELSE role[n]
    BY <1>1, Zenon DEF ElectionTimeout, TypeOK
  <2> QED BY <2>1, SMTT(30) DEF NoVoteCounted, ElectionTimeout, PreCandidate, Candidate, Leader
<1>6. UNCHANGED elections /\ WonByMajority'
  BY Zenon DEF ElectionTimeout, VoteInv, WonByMajority
<1> QED BY <1>2, <1>4, <1>5, <1>6, QuietStep, VoteSafetyPreserved, Zenon DEF VoteInv

LEMMA HandlePreVoteVotes ==
    ASSUME VoteInv, TypeOK', NEW i, NEW j, NEW k, Arrives(i, j, k), HandlePreVote(i, j, k)
    PROVE  VoteInv'
<1>1. TypeOK /\ i \in Server /\ currentTerm[i] \in Nat
  BY Zenon DEF Arrives, VoteInv, TypeOK
<1>2. PICK granted \in BOOLEAN :
        Reply(i, j, k, VoteReply("PreVoteResponse", currentTerm[i], granted))
  BY Zenon DEF HandlePreVote
<1>3. /\ VoteReply("PreVoteResponse", currentTerm[i], granted) \in Message
      /\ VoteReply("PreVoteResponse", currentTerm[i], granted).type # "RequestVoteResponse"
  BY <1>1, ReplyTypes, Zenon DEF VoteReply
<1>4. NoVoteSent
  BY <1>1, <1>2, <1>3, ReplyNoVote, Zenon
<1>5. Pump(i, log[i], commitIndex[i]) /\ UNCHANGED <<electionVars, elections>>
  BY Zenon DEF HandlePreVote, PumpOnly
<1> QED BY <1>1, <1>4, <1>5, SteadyStep, Zenon

LEMMA CrashVotes ==
    ASSUME VoteInv, TypeOK', NEW i \in Server, Crash(i)
    PROVE  VoteInv'
<1>1. /\ disk[i] \in [term : Nat, vote : Server \cup {Nil}, log : Log]
      /\ disk[i].term = currentTerm[i] /\ disk[i].vote = votedFor[i]
  BY Zenon DEF VoteInv, TypeOK, HardStateOnDisk
<1> QED BY <1>1, RestartStep, Zenon DEF Crash

LEMMA HandleAppendEntriesVotes ==
    ASSUME VoteInv, TypeOK', NEW i, NEW j, NEW k, Arrives(i, j, k), HandleAppendEntries(i, j, k)
    PROVE  VoteInv'
<1> DEFINE m == Msg(i, j, k)
<1>1. TypeOK /\ i \in Server /\ currentTerm[i] \in Nat
  BY Zenon DEF Arrives, VoteInv, TypeOK
<1>2. m \in AppendRequest
  BY <1>1, ArrivedMessage, MessageFields, Zenon
     DEF HandleAppendEntries, RejectStaleAppend, RejectAppend, AcceptAppend, PanicInAppend,
         Received, Msg
<1>3. /\ m.term \in Nat /\ m.readContext \in Nat /\ m.prevLogIndex \in Nat
      /\ m.entries \in Seq(Entry)
  BY <1>2, Zenon DEF AppendRequest
<1>4. m.prevLogIndex + Len(m.entries) \in Nat
  BY <1>3, SeqLen
<1>5. ASSUME NEW t \in Nat, NEW ok \in BOOLEAN, NEW match \in Nat, NEW ctx \in Nat,
             Reply(i, j, k, AppendReply(t, ok, match, ctx))
      PROVE  NoVoteSent
  <2>1. /\ AppendReply(t, ok, match, ctx) \in Message
        /\ AppendReply(t, ok, match, ctx).type # "RequestVoteResponse"
    BY ReplyTypes, Zenon DEF AppendReply
  <2> QED BY <1>1, <1>5, <2>1, ReplyNoVote, Zenon
<1>6. CASE RejectStaleAppend(i, j, k)
  <2>1. NoVoteSent
    BY <1>1, <1>5, <1>6, Zenon DEF RejectStaleAppend
  <2>2. Pump(i, log[i], commitIndex[i]) /\ UNCHANGED <<electionVars, elections>>
    BY <1>6, Zenon DEF RejectStaleAppend, PumpOnly
  <2> QED BY <1>1, <2>1, <2>2, SteadyStep, Zenon
<1>7. CASE RejectAppend(i, j, k)
  <2>1. NoVoteSent
    BY <1>3, <1>5, <1>7, Zenon DEF RejectAppend
  <2>2. /\ Pump(i, log[i], commitIndex[i]) /\ BecomeFollower(i, m.term)
        /\ UNCHANGED <<votesReceived, elections>>
    BY <1>7, Zenon DEF RejectAppend, PumpOnly
  <2> QED BY <1>1, <1>3, <2>1, <2>2, FollowStep, Zenon
<1>8. CASE AcceptAppend(i, j, k)
  <2>1. NoVoteSent
    BY <1>3, <1>4, <1>5, <1>8, Zenon DEF AcceptAppend, Acknowledged
  <2>2. PICK lg, ci : Pump(i, lg, ci)
    BY <1>8, Zenon DEF AcceptAppend
  <2>3. BecomeFollower(i, m.term) /\ UNCHANGED <<votesReceived, elections>>
    BY <1>8, Zenon DEF AcceptAppend
  <2> QED BY <1>1, <1>3, <2>1, <2>2, <2>3, FollowStep, Zenon
<1>9. CASE PanicInAppend(i, j, k)
  <2>1. Crash(i)
    BY <1>9, Zenon DEF PanicInAppend, Crash
  <2> QED BY <1>1, <2>1, CrashVotes, Zenon
<1> QED BY <1>6, <1>7, <1>8, <1>9, Zenon DEF HandleAppendEntries

LEMMA HandleAppendEntriesResponseVotes ==
    ASSUME VoteInv, TypeOK', NEW i, NEW j, NEW k, Arrives(i, j, k),
           HandleAppendEntriesResponse(i, j, k)
    PROVE  VoteInv'
<1> DEFINE m       == Msg(i, j, k)
           match   == [matchIndex[i] EXCEPT ![j] = Max(@, m.matchIndex)]
           backoff == Backoff(nextIndex[i][j])
           success == /\ Pump(i, log[i], AdvanceCommit(i, log[i], match))
                      /\ NoReply(i, j, k)
           failure == /\ Reply(i, j, k, AppendMsg(currentTerm[i], log[i], commitIndex[i], backoff, 0, 0))
                      /\ PumpOnly(i)
           counted == UNCHANGED <<electionVars, elections>> /\ (success \/ failure)
<1>1. /\ TypeOK /\ i \in Server /\ j \in Server /\ log[i] \in Log
      /\ currentTerm[i] \in Nat /\ commitIndex[i] \in Nat
  BY Zenon DEF Arrives, VoteInv, TypeOK
<1>2. m \in AppendResponse
  BY <1>1, ArrivedMessage, MessageFields, Zenon DEF HandleAppendEntriesResponse, Received, Msg
<1>3. m.term \in Nat /\ m.matchIndex \in Nat
  BY <1>2, Zenon DEF AppendResponse
<1>4. StepDown(i, j, k, m.term) \/ Ignore(i, j, k) \/ counted
  BY Zenon DEF HandleAppendEntriesResponse
<1>5. CASE counted
  <2>1. PICK lg, ci : Pump(i, lg, ci)
    BY <1>5, Zenon DEF PumpOnly
  <2>2. NoVoteSent
    <3>1. CASE success
      BY <1>1, <3>1, NoReplyNoVote, Zenon
    <3>2. CASE failure
      <4>1. backoff \in Nat \ {0}
        BY <1>1, <1>3, ProgressType, Zenon
      <4> HIDE DEF backoff
      <4> DEFINE r == AppendMsg(currentTerm[i], log[i], commitIndex[i], backoff, 0, 0)
      <4>2. r \in Message /\ r.type \in {"AppendEntries", "InstallSnapshot"}
        BY <1>1, <4>1, AppendMsgType, Zenon
      <4>3. Reply(i, j, k, r)
        BY <3>2, Zenon
      <4> HIDE DEF r
      <4>4. r.type # "RequestVoteResponse"
        BY <4>2, Zenon
      <4> QED BY <1>1, <4>2, <4>3, <4>4, ReplyNoVote, Zenon
    <3> QED BY <1>5, <3>1, <3>2, Zenon
  <2>3. UNCHANGED <<electionVars, elections>>
    BY <1>5, Zenon
  <2> QED BY <1>1, <2>1, <2>2, <2>3, SteadyStep, Zenon
<1> QED BY <1>3, <1>4, <1>5, StepDownVotes, IgnoreVotes, Zenon

LEMMA HandleInstallSnapshotVotes ==
    ASSUME VoteInv, TypeOK', NEW i, NEW j, NEW k, Arrives(i, j, k), HandleInstallSnapshot(i, j, k)
    PROVE  VoteInv'
<1> DEFINE m == Msg(i, j, k)
<1>1. TypeOK /\ i \in Server /\ currentTerm[i] \in Nat /\ log[i].base \in Nat
  BY LogFacts, Zenon DEF Arrives, VoteInv, TypeOK
<1>2. m \in SnapshotRequest
  BY <1>1, ArrivedMessage, MessageFields, Zenon
     DEF HandleInstallSnapshot, RejectStaleSnapshot, InstallSnapshot, Received, Msg
<1>3. m.term \in Nat /\ m.snapshot \in Seq(Entry)
  BY <1>2, Zenon DEF SnapshotRequest
<1>4. Len(m.snapshot) \in Nat
  BY <1>3, SeqLen, Zenon
<1>5. ASSUME NEW t \in Nat, NEW match \in Nat, Reply(i, j, k, SnapshotReply(t, match))
      PROVE  NoVoteSent
  <2>1. SnapshotReply(t, match) \in Message /\ SnapshotReply(t, match).type # "RequestVoteResponse"
    BY ReplyTypes, Zenon DEF SnapshotReply
  <2> QED BY <1>1, <1>5, <2>1, ReplyNoVote, Zenon
<1>6. CASE RejectStaleSnapshot(i, j, k)
  <2>1. NoVoteSent
    BY <1>1, <1>5, <1>6, Zenon DEF RejectStaleSnapshot
  <2>2. Pump(i, log[i], commitIndex[i]) /\ UNCHANGED <<electionVars, elections>>
    BY <1>6, Zenon DEF RejectStaleSnapshot, PumpOnly
  <2> QED BY <1>1, <2>1, <2>2, SteadyStep, Zenon
<1>7. CASE InstallSnapshot(i, j, k)
  <2>1. NoVoteSent
    BY <1>1, <1>3, <1>4, <1>5, <1>7, Zenon DEF InstallSnapshot
  <2>2. PICK lg, ci : Pump(i, lg, ci)
    BY <1>7, Zenon DEF InstallSnapshot, PumpOnly
  <2>3. BecomeFollower(i, m.term) /\ UNCHANGED <<votesReceived, elections>>
    BY <1>7, Zenon DEF InstallSnapshot
  <2> QED BY <1>1, <1>3, <2>1, <2>2, <2>3, FollowStep, Zenon
<1> QED BY <1>6, <1>7, Zenon DEF HandleInstallSnapshot

LEMMA HandleInstallSnapshotResponseVotes ==
    ASSUME VoteInv, TypeOK', NEW i, NEW j, NEW k, Arrives(i, j, k),
           HandleInstallSnapshotResponse(i, j, k)
    PROVE  VoteInv'
<1> DEFINE m       == Msg(i, j, k)
           match   == [matchIndex[i] EXCEPT ![j] = Max(@, m.matchIndex)]
           counted == /\ UNCHANGED <<electionVars, elections>>
                      /\ Pump(i, log[i], AdvanceCommit(i, log[i], match))
                      /\ NoReply(i, j, k)
<1>1. TypeOK /\ i \in Server /\ m.term \in Nat
  BY ArrivedMessage, Zenon DEF Arrives, VoteInv
<1>2. StepDown(i, j, k, m.term) \/ Ignore(i, j, k) \/ counted
  BY Zenon DEF HandleInstallSnapshotResponse
<1>3. CASE counted
  <2>1. NoVoteSent
    BY <1>1, <1>3, NoReplyNoVote, Zenon
  <2>2. PICK lg, ci : Pump(i, lg, ci)
    BY <1>3, Zenon
  <2> QED BY <1>1, <1>3, <2>1, <2>2, SteadyStep, Zenon
<1> QED BY <1>1, <1>2, <1>3, StepDownVotes, IgnoreVotes, Zenon

LEMMA ProposeBatchVotes ==
    ASSUME VoteInv, TypeOK', NEW i \in Server, NEW datas \in Seq(Value), ProposeBatch(i, datas)
    PROVE  VoteInv'
<1>1. TypeOK
  BY Zenon DEF VoteInv
<1>2. Proposed(i, datas) \in Log /\ SendToAll(i, Proposed(i, datas), 0)
  BY <1>1, ProposedLogType, Zenon DEF ProposeBatch
<1>3. NoVoteSent
  BY <1>1, <1>2, SendToAllNoVote, Zenon
<1>4. PICK lg, ci : Pump(i, lg, ci)
  BY Zenon DEF ProposeBatch
<1>5. UNCHANGED <<electionVars, elections>>
  BY Zenon DEF ProposeBatch
<1> QED BY <1>3, <1>4, <1>5, SteadyStep, Zenon

LEMMA RequestReadIndexVotes ==
    ASSUME VoteInv, TypeOK', NEW i \in Server, RequestReadIndex(i)
    PROVE  VoteInv'
<1>1. TypeOK /\ log[i] \in Log /\ nextReadCtx[i] \in Nat
  BY Zenon DEF VoteInv, TypeOK
<1>2. UNCHANGED net \/ SendToAll(i, log[i], nextReadCtx[i])
  BY Zenon DEF RequestReadIndex
<1>3. NoVoteSent
  <2>1. CASE UNCHANGED net
    BY <2>1, Zenon DEF NoVoteSent
  <2>2. CASE SendToAll(i, log[i], nextReadCtx[i])
    BY <1>1, <2>2, SendToAllNoVote, Zenon
  <2> QED BY <1>2, <2>1, <2>2, Zenon
<1>4. Pump(i, log[i], commitIndex[i]) /\ UNCHANGED <<electionVars, elections>>
  BY Zenon DEF RequestReadIndex, PumpOnly
<1> QED BY <1>3, <1>4, SteadyStep, Zenon

-----------------------------------------------------------------------------
(***************************************************************************)
(* The steps that cast and count votes.                                    *)
(***************************************************************************)
\* The voter: a granted vote is new, and on disk before it is sent.
LEMMA HandleRequestVoteVotes ==
    ASSUME VoteInv, TypeOK', NEW i, NEW j, NEW k, Arrives(i, j, k), HandleRequestVote(i, j, k)
    PROVE  VoteInv'
<1> DEFINE m     == Msg(i, j, k)
           newer == m.term > currentTerm[i]
           t     == Max(currentTerm[i], m.term)
<1>1. TypeOK /\ i \in Server /\ j \in Server /\ m.term \in Nat /\ currentTerm[i] \in Nat
  BY ArrivedMessage, Zenon DEF Arrives, VoteInv, TypeOK
<1>2. PICK granted \in BOOLEAN :
        /\ granted => m.term >= currentTerm[i] /\ (newer \/ votedFor[i] \in {Nil, j})
        /\ currentTerm' = [currentTerm EXCEPT ![i] = t]
        /\ votedFor' = [votedFor EXCEPT ![i] = IF granted THEN j ELSE IF newer THEN Nil ELSE @]
        /\ role' = [role EXCEPT ![i] = IF newer THEN Follower ELSE @]
        /\ Reply(i, j, k, VoteReply("RequestVoteResponse", t, granted))
  BY Zenon DEF HandleRequestVote
<1>3. t \in Nat /\ (IF newer THEN t = m.term ELSE t = currentTerm[i])
  BY <1>1 DEF Max
<1>4. \A n \in Server :
        /\ currentTerm'[n] = IF n = i THEN t ELSE currentTerm[n]
        /\ votedFor'[n] = IF n = i THEN (IF granted THEN j ELSE IF newer THEN Nil ELSE votedFor[i])
                          ELSE votedFor[n]
        /\ role'[n] = IF n = i /\ newer THEN Follower ELSE role[n]
  BY <1>1, <1>2, Zenon DEF TypeOK
<1>5. HardStateGrows(i)
  BY <1>1, <1>2, <1>3, <1>4, Zenon DEF HardStateGrows
<1>6. HardStateOnDisk' /\ \A v \in Server : DiskGrows(v)
  BY <1>1, <1>5, PumpSavesHardState, Zenon DEF VoteInv, HandleRequestVote, PumpOnly
<1>7. NoVoteCounted
  <2> SUFFICES ASSUME NEW c \in Server, role'[c] \in {Candidate, Leader}
               PROVE  /\ role[c] \in {Candidate, Leader} /\ currentTerm'[c] = currentTerm[c]
                      /\ votesReceived'[c] = votesReceived[c]
    BY Zenon DEF NoVoteCounted
  <2>1. UNCHANGED votesReceived
    BY Zenon DEF HandleRequestVote
  <2>2. ~(c = i /\ newer)
    <3>1. Follower \notin {Candidate, Leader}
      BY Zenon DEF Follower, Candidate, Leader
    <3> QED BY <1>4, <3>1, Zenon
  <2>3. role'[c] = role[c]
    BY <1>4, <2>2, Zenon
  <2>4. currentTerm'[c] = currentTerm[c]
    BY <1>3, <1>4, <2>2, Zenon
  <2> QED BY <2>1, <2>3, <2>4, Zenon
<1>8. UNCHANGED elections /\ WonByMajority'
  BY Zenon DEF HandleRequestVote, VoteInv, WonByMajority
<1>9. NewBallotsOnDisk
  <2> DEFINE r   == VoteReply("RequestVoteResponse", t, granted)
             out == [p \in {j} |-> r]
  <2>1. OldOrSent(i, out)
    <3>1. r \in Message
      BY <1>3, ReplyTypes, Zenon
    <3>2. \A p \in DOMAIN out : out[p] \in Message
      BY <3>1, Zenon
    <3>3. Exchange(i, j, k, out)
      BY <1>2, Zenon DEF Reply
    <3> HIDE DEF out
    <3> QED BY <1>1, <3>2, <3>3, ExchangeKeeps, Zenon
  <2> SUFFICES ASSUME NEW s \in Nat, NEW v \in Server, NEW c \in Server, Ballot(v, s, c)'
               PROVE  Ballot(v, s, c) \/ (disk'[v].term = s /\ disk'[v].vote = c)
    BY Zenon DEF NewBallotsOnDisk
  <2>2. CASE <<v, c>> \in Links /\ \E x \in DOMAIN net'[<<v, c>>] : Grant(net'[<<v, c>>][x], s)
    <3>1. PICK x \in DOMAIN net'[<<v, c>>] : Grant(net'[<<v, c>>][x], s)
      BY <2>2, Zenon
    <3>2. CASE \E y \in DOMAIN net[<<v, c>>] : net'[<<v, c>>][x] = net[<<v, c>>][y]
      BY <2>2, <3>1, <3>2, Zenon DEF Ballot
    <3>3. CASE v = i /\ c = j /\ net'[<<v, c>>][x] = r
      <4>1. granted /\ s = t
        BY <3>1, <3>3 DEF Grant, VoteReply
      <4>2. currentTerm'[i] = t /\ votedFor'[i] = j
        BY <1>1, <1>4, <4>1, Zenon
      <4> QED BY <1>1, <1>6, <3>3, <4>1, <4>2, Zenon DEF HardStateOnDisk
    <3> QED BY <2>1, <2>2, <3>2, <3>3, Zenon DEF OldOrSent
  <2>3. CASE role'[c] \in {Candidate, Leader} /\ currentTerm'[c] = s /\ v \in votesReceived'[c]
    BY <1>7, <2>3, Zenon DEF NoVoteCounted, Ballot
  <2>4. CASE \E e \in elections' : e.term = s /\ e.leader = c /\ v \in e.voters
    BY <1>8, <2>4, Zenon DEF Ballot
  <2> QED BY <2>2, <2>3, <2>4, Zenon DEF Ballot
<1> QED BY <1>6, <1>8, <1>9, VoteSafetyPreserved, Zenon DEF VoteInv

\* The candidate votes for itself in a term it has never voted in.
LEMMA HandlePreVoteResponseVotes ==
    ASSUME VoteInv, TypeOK', NEW i, NEW j, NEW k, Arrives(i, j, k), HandlePreVoteResponse(i, j, k)
    PROVE  VoteInv'
<1> DEFINE out   == [p \in Peers(i) |-> RequestVoteMsg(currentTerm[i] + 1, log[i])]
           polls == NoReply(i, j, k) /\ UNCHANGED <<role, currentTerm, votedFor, leaderID, votesReceived>>
           runs  == BecomeCandidate(i) /\ Exchange(i, j, k, out)
           counted == (polls \/ runs) /\ UNCHANGED elections /\ PumpOnly(i)
<1>1. TypeOK /\ i \in Server /\ log[i] \in Log /\ currentTerm[i] \in Nat
  BY Zenon DEF Arrives, VoteInv, TypeOK
<1>2. Ignore(i, j, k) \/ counted
  BY Zenon DEF HandlePreVoteResponse
<1>3. CASE counted
  <2>1. WonByMajority'
    BY <1>3, Zenon DEF VoteInv, WonByMajority
  <2>2. Pump(i, log[i], commitIndex[i])
    BY <1>3, Zenon DEF PumpOnly
  <2>3. CASE polls
    <3>1. NoVoteSent
      BY <1>1, <2>3, NoReplyNoVote, Zenon
    <3>2. HardStateGrows(i) /\ NoVoteCounted
      BY <2>3, Zenon DEF HardStateGrows, NoVoteCounted
    <3>3. HardStateOnDisk' /\ \A v \in Server : DiskGrows(v)
      BY <1>1, <2>2, <3>2, PumpSavesHardState, Zenon DEF VoteInv
    <3> QED BY <1>3, <2>1, <3>1, <3>2, <3>3, QuietStep, VoteSafetyPreserved, Zenon DEF VoteInv
  <2>4. CASE runs
    <3>1. \A n \in Server :
            /\ currentTerm'[n] = IF n = i THEN currentTerm[i] + 1 ELSE currentTerm[n]
            /\ votedFor'[n] = IF n = i THEN i ELSE votedFor[n]
            /\ role'[n] = IF n = i THEN Candidate ELSE role[n]
            /\ votesReceived'[n] = IF n = i THEN {i} ELSE votesReceived[n]
      BY <1>1, <2>4, SMTT(30) DEF BecomeCandidate, TypeOK
    <3>2. HardStateGrows(i)
      <4>1. currentTerm'[i] = currentTerm[i] + 1
        BY <1>1, <3>1, Zenon
      <4>2. currentTerm'[i] > currentTerm[i]
        BY <1>1, <4>1
      <4>3. \A n \in Server \ {i} : currentTerm'[n] = currentTerm[n] /\ votedFor'[n] = votedFor[n]
        BY <3>1, Zenon
      <4> QED BY <4>2, <4>3, Zenon DEF HardStateGrows
    <3>3. HardStateOnDisk' /\ \A v \in Server : DiskGrows(v)
      BY <1>1, <2>2, <3>2, PumpSavesHardState, Zenon DEF VoteInv
    <3>4. NoVoteSent
      <4> DEFINE r == RequestVoteMsg(currentTerm[i] + 1, log[i])
      <4>1. r \in Message /\ r.type # "RequestVoteResponse"
        <5>1. currentTerm[i] + 1 \in Nat
          BY <1>1
        <5>2. r \in Message
          BY <1>1, <5>1, VoteRequestType, Zenon
        <5>3. r.type = "RequestVote"
          BY Zenon DEF RequestVoteMsg
        <5> QED BY <5>2, <5>3, Zenon
      <4>2. Exchange(i, j, k, out) /\ out = [p \in Peers(i) |-> r]
        BY <2>4, Zenon
      <4> HIDE DEF r
      <4>3. \A p \in DOMAIN out : out[p] \in Message /\ out[p].type # "RequestVoteResponse"
        BY <4>1, <4>2, Zenon
      <4> HIDE DEF out
      <4> QED BY <1>1, <4>2, <4>3, SendsNoVote, Zenon
    <3>5. NewBallotsOnDisk
      <4> SUFFICES ASSUME NEW s \in Nat, NEW v \in Server, NEW c \in Server, Ballot(v, s, c)'
                   PROVE  Ballot(v, s, c) \/ (disk'[v].term = s /\ disk'[v].vote = c)
        BY Zenon DEF NewBallotsOnDisk
      <4>1. CASE <<v, c>> \in Links /\ \E x \in DOMAIN net'[<<v, c>>] : Grant(net'[<<v, c>>][x], s)
        BY <3>4, <4>1, Zenon DEF NoVoteSent, Ballot
      <4>2. CASE role'[c] \in {Candidate, Leader} /\ currentTerm'[c] = s /\ v \in votesReceived'[c]
        <5>1. CASE c = i
          <6>1. votesReceived'[i] = {i} /\ votedFor'[i] = i
            BY <1>1, <3>1, Zenon
          <6>2. v = i
            BY <4>2, <5>1, <6>1, Zenon
          <6>3. disk'[i].term = currentTerm'[i] /\ disk'[i].vote = votedFor'[i]
            BY <1>1, <3>3, Zenon DEF HardStateOnDisk
          <6> QED BY <4>2, <5>1, <6>1, <6>2, <6>3, Zenon
        <5>2. CASE c # i
          BY <3>1, <4>2, <5>2, Zenon DEF Ballot
        <5> QED BY <5>1, <5>2, Zenon
      <4>3. CASE \E e \in elections' : e.term = s /\ e.leader = c /\ v \in e.voters
        BY <1>3, <4>3, Zenon DEF Ballot
      <4> QED BY <4>1, <4>2, <4>3, Zenon DEF Ballot
    <3> QED BY <2>1, <3>3, <3>5, VoteSafetyPreserved, Zenon DEF VoteInv
  <2> QED BY <1>3, <2>3, <2>4, Zenon
<1> QED BY <1>2, <1>3, IgnoreVotes, Zenon

\* The tally: a counted vote was in flight, and a winner's votes were all counted.
LEMMA HandleRequestVoteResponseVotes ==
    ASSUME VoteInv, TypeOK', NEW i, NEW j, NEW k, Arrives(i, j, k),
           HandleRequestVoteResponse(i, j, k)
    PROVE  VoteInv'
<1> DEFINE m     == Msg(i, j, k)
           votes == votesReceived[i] \cup {j}
           out   == [p \in Peers(i) |-> AppendMsg(currentTerm[i], log[i], commitIndex[i],
                                                  LastIndex(log[i]) + 1, 0, 0)]
           stays == NoReply(i, j, k) /\ UNCHANGED <<role, elections>>
           wins  == /\ HasMajority(votes)
                    /\ BecomeLeader(i, currentTerm[i], votes)
                    /\ Exchange(i, j, k, out)
           counted == /\ m.term = currentTerm[i] /\ role[i] = Candidate /\ m.voteGranted
                      /\ votesReceived' = [votesReceived EXCEPT ![i] = votes]
                      /\ stays \/ wins
                      /\ UNCHANGED <<currentTerm, votedFor>>
                      /\ PumpOnly(i)
<1>1. /\ TypeOK /\ i \in Server /\ j \in Server /\ m.term \in Nat
      /\ log[i] \in Log /\ currentTerm[i] \in Nat /\ commitIndex[i] \in Nat
  BY ArrivedMessage, Zenon DEF Arrives, VoteInv, TypeOK
<1>2. StepDown(i, j, k, m.term) \/ Ignore(i, j, k) \/ counted
  BY Zenon DEF HandleRequestVoteResponse
<1>3. CASE counted
  <2>1. HardStateOnDisk' /\ \A v \in Server : DiskGrows(v)
    <3>1. HardStateGrows(i)
      BY <1>3, Zenon DEF HardStateGrows
    <3> QED BY <1>1, <1>3, <3>1, PumpSavesHardState, Zenon DEF VoteInv, PumpOnly
  <2>2. Ballot(j, currentTerm[i], i)
    <3>1. <<j, i>> \in Links /\ k \in DOMAIN net[<<j, i>>] /\ net[<<j, i>>][k] = m
      BY Zenon DEF Arrives, Msg
    <3>2. Grant(m, currentTerm[i])
      BY <1>3, Zenon DEF HandleRequestVoteResponse, Received, Msg, Grant
    <3> QED BY <3>1, <3>2, Zenon DEF Ballot
  <2>3. \A v \in votes : Ballot(v, currentTerm[i], i)
    <3>1. \A v \in votesReceived[i] : Ballot(v, currentTerm[i], i)
      BY <1>3, Zenon DEF Ballot
    <3> QED BY <2>2, <3>1, Zenon
  <2>4. NoVoteSent
    <3>1. CASE stays
      BY <1>1, <3>1, NoReplyNoVote, Zenon
    <3>2. CASE wins
      <4>1. LastIndex(log[i]) + 1 \in Nat \ {0}
        BY <1>1, LogFacts
      <4> DEFINE r == AppendMsg(currentTerm[i], log[i], commitIndex[i], LastIndex(log[i]) + 1, 0, 0)
      <4>2. r \in Message /\ r.type \in {"AppendEntries", "InstallSnapshot"}
        BY <1>1, <4>1, AppendMsgType, Zenon
      <4>3. out = [p \in Peers(i) |-> r]
        BY Zenon
      <4> HIDE DEF r
      <4>4. \A p \in DOMAIN out : out[p] \in Message /\ out[p].type # "RequestVoteResponse"
        BY <4>2, <4>3, Zenon
      <4>5. Exchange(i, j, k, out)
        BY <3>2, Zenon
      <4> HIDE DEF out
      <4> QED BY <1>1, <4>4, <4>5, SendsNoVote, Zenon
    <3> QED BY <1>3, <3>1, <3>2, Zenon
  <2>5. \A e \in elections' : \/ e \in elections
                              \/ /\ e.term = currentTerm[i] /\ e.leader = i /\ e.voters = votes
                                 /\ HasMajority(votes)
    <3>1. CASE stays
      BY <3>1, Zenon
    <3>2. CASE wins
      <4>1. elections' = elections \cup {[term |-> currentTerm[i], leader |-> i, voters |-> votes,
                                          log |-> log[i].entries]}
        BY <3>2, Zenon DEF BecomeLeader
      <4>2. HasMajority(votes)
        BY <3>2, Zenon
      <4> HIDE DEF votes
      <4> QED BY <4>1, <4>2
    <3> QED BY <1>3, <3>1, <3>2, Zenon
  <2>6. WonByMajority'
    BY <2>5, Zenon DEF VoteInv, WonByMajority, HasMajority
  <2>7. NewBallotsOnDisk
    <3> SUFFICES ASSUME NEW s \in Nat, NEW v \in Server, NEW c \in Server, Ballot(v, s, c)'
                 PROVE  Ballot(v, s, c)
      BY Zenon DEF NewBallotsOnDisk
    <3>1. CASE <<v, c>> \in Links /\ \E x \in DOMAIN net'[<<v, c>>] : Grant(net'[<<v, c>>][x], s)
      BY <2>4, <3>1, Zenon DEF NoVoteSent, Ballot
    <3>2. CASE role'[c] \in {Candidate, Leader} /\ currentTerm'[c] = s /\ v \in votesReceived'[c]
      <4>1. CASE c = i
        <5>1. v \in votes /\ s = currentTerm[i]
          <6>1. DOMAIN votesReceived = Server /\ i \in Server
            BY <1>1, Zenon DEF TypeOK
          <6>2. votesReceived' = [votesReceived EXCEPT ![i] = votes] /\ currentTerm' = currentTerm
            BY <1>3, Zenon
          <6> HIDE DEF votes
          <6> QED BY <3>2, <4>1, <6>1, <6>2, Zenon
        <5> QED BY <2>3, <4>1, <5>1, Zenon
      <4>2. CASE c # i
        <5>1. role'[c] = role[c] /\ votesReceived'[c] = votesReceived[c]
          <6>1. role' = role \/ role' = [role EXCEPT ![i] = Leader]
            BY <1>3, Zenon DEF BecomeLeader
          <6>2. votesReceived' = [votesReceived EXCEPT ![i] = votes]
            BY <1>3, Zenon
          <6>3. DOMAIN role = Server /\ DOMAIN votesReceived = Server
            BY <1>1, Zenon DEF TypeOK
          <6> QED BY <4>2, <6>1, <6>2, <6>3, Zenon
        <5> QED BY <1>3, <3>2, <5>1, Zenon DEF Ballot
      <4> QED BY <4>1, <4>2, Zenon
    <3>3. CASE \E e \in elections' : e.term = s /\ e.leader = c /\ v \in e.voters
      BY <2>3, <2>5, <3>3, ZenonT(30) DEF Ballot
    <3> QED BY <3>1, <3>2, <3>3, Zenon DEF Ballot
  <2> QED BY <2>1, <2>6, <2>7, VoteSafetyPreserved, Zenon DEF VoteInv
<1> QED BY <1>1, <1>2, <1>3, StepDownVotes, IgnoreVotes, Zenon

\* A cluster of one elects itself in a term it has never voted in.
LEMMA ElectionTimeoutAloneVotes ==
    ASSUME VoteInv, TypeOK', NEW i \in Server, ElectionTimeoutAlone(i)
    PROVE  VoteInv'
<1>1. TypeOK /\ currentTerm[i] \in Nat /\ Server = {i}
  <2>1. TypeOK /\ currentTerm[i] \in Nat
    BY Zenon DEF VoteInv, TypeOK
  <2>2. Server \ {i} = {}
    BY Zenon DEF ElectionTimeoutAlone, Peers
  <2> QED BY <2>1, <2>2, Zenon
<1>2. /\ currentTerm'[i] = currentTerm[i] + 1 /\ votedFor'[i] = i /\ votesReceived'[i] = {i}
      /\ UNCHANGED net
  BY <1>1, Zenon DEF ElectionTimeoutAlone, TypeOK
<1>3. HardStateOnDisk' /\ \A v \in Server : DiskGrows(v)
  <2>1. HardStateGrows(i)
    BY <1>1, <1>2 DEF HardStateGrows
  <2> QED BY <1>1, <2>1, PumpSavesHardState, Zenon DEF VoteInv, ElectionTimeoutAlone, PumpOnly
<1>4. \A e \in elections' : \/ e \in elections
                            \/ e.term = currentTerm[i] + 1 /\ e.leader = i /\ e.voters = {i}
  BY DEF ElectionTimeoutAlone, BecomeLeader
<1>5. WonByMajority'
  <2>1. HasMajority({i})
    <3>1. Cardinality({i}) = 1
      BY FS_Singleton, Zenon
    <3>2. Cardinality(Server) = 1
      BY <1>1, <3>1, Zenon
    <3> QED BY <3>1, <3>2 DEF HasMajority
  <2> QED BY <1>4, <2>1, Zenon DEF VoteInv, WonByMajority, HasMajority
<1>6. NewBallotsOnDisk
  <2> SUFFICES ASSUME NEW s \in Nat, NEW v \in Server, NEW c \in Server, Ballot(v, s, c)'
               PROVE  Ballot(v, s, c) \/ (disk'[v].term = s /\ disk'[v].vote = c)
    BY Zenon DEF NewBallotsOnDisk
  <2>1. v = i /\ c = i /\ disk'[v].term = currentTerm[i] + 1 /\ disk'[v].vote = i
    BY <1>1, <1>2, <1>3, Zenon DEF HardStateOnDisk
  <2>2. CASE <<v, c>> \in Links
    BY <2>1, <2>2, Zenon DEF Links
  <2>3. CASE currentTerm'[c] = s
    BY <1>2, <2>1, <2>3, Zenon
  <2>4. CASE \E e \in elections' : e.term = s /\ e.leader = c /\ v \in e.voters
    BY <1>4, <2>1, <2>4, Zenon DEF Ballot
  <2> QED BY <2>2, <2>3, <2>4, Zenon DEF Ballot
<1> QED BY <1>3, <1>5, <1>6, VoteSafetyPreserved, Zenon DEF VoteInv

-----------------------------------------------------------------------------
(***************************************************************************)
(* Faults.                                                                 *)
(***************************************************************************)
LEMMA CrashInPersistVotes ==
    ASSUME VoteInv, TypeOK', NEW i, NEW j, NEW k, Arrives(i, j, k), CrashInPersist(i, j, k)
    PROVE  VoteInv'
<1> DEFINE m == Msg(i, j, k)
           vote == IF m.term > currentTerm[i] THEN Nil ELSE votedFor[i]
<1>1. TypeOK /\ i \in Server /\ log[i] \in Log /\ currentTerm[i] \in Nat
  BY Zenon DEF Arrives, VoteInv, TypeOK
<1>2. m \in AppendRequest
  BY <1>1, ArrivedMessage, MessageFields, Zenon DEF CrashInPersist, Received, Msg
<1>3. m.term \in Nat /\ m.term >= currentTerm[i] /\ vote \in Server \cup {Nil}
  BY <1>1, <1>2, Zenon DEF AppendRequest, CrashInPersist, TypeOK
<1>4. PICK lg \in TornLogs(log[i], m) :
        RestartFrom(i, [term |-> m.term, vote |-> vote, log |-> lg])
  BY Zenon DEF CrashInPersist
<1>5. lg \in Log
  BY <1>1, <1>2, <1>4, TornLogsType, Zenon DEF CrashInPersist
<1> DEFINE d == [term |-> m.term, vote |-> vote, log |-> lg]
<1>6. d \in [term : Nat, vote : Server \cup {Nil}, log : Log] /\ RestartFrom(i, d)
  BY <1>3, <1>4, <1>5, Zenon
<1>7. d.term > currentTerm[i] \/ (d.term = currentTerm[i] /\ d.vote = votedFor[i])
  <2>1. m.term > currentTerm[i] \/ (m.term = currentTerm[i] /\ ~(m.term > currentTerm[i]))
    <3>1. \A x, y \in Nat : x >= y => x > y \/ (x = y /\ ~(x > y))
      OBVIOUS
    <3> QED BY <1>1, <1>3, <3>1, Zenon
  <2>2. d.term = m.term /\ d.vote = vote
    BY Zenon
  <2> QED BY <2>1, <2>2, Zenon
<1> HIDE DEF d
<1> QED BY <1>1, <1>6, <1>7, RestartStep, Zenon

LEMMA DropConnVotes ==
    ASSUME VoteInv, TypeOK', NEW l \in Links, DropConn(l[1], l[2])
    PROVE  VoteInv'
<1>1. l = <<l[1], l[2]>> /\ net \in [Links -> Seq(Message)] /\ net[l] # <<>>
  <2>1. l = <<l[1], l[2]>>
    BY DEF Links
  <2>2. net[l] # <<>>
    BY <2>1, Zenon DEF DropConn
  <2> QED BY <2>1, <2>2, Zenon DEF VoteInv, TypeOK
<1>2. net' = [net EXCEPT ![l] = SubSeq(@, 1, Len(@) - 1)]
  BY <1>1, Zenon DEF DropConn
<1>3. NoVoteSent
  <2> SUFFICES ASSUME NEW p \in Links, NEW x \in DOMAIN net'[p]
               PROVE  \E y \in DOMAIN net[p] : net'[p][x] = net[p][y]
    BY Zenon DEF NoVoteSent
  <2>1. CASE p # l
    BY <1>1, <1>2, <2>1, Zenon
  <2>2. CASE p = l
    <3> DEFINE q == net[l]
    <3>1. q \in Seq(Message) /\ q # <<>> /\ net'[l] = SubSeq(q, 1, Len(q) - 1)
      BY <1>1, <1>2, Zenon
    <3> HIDE DEF q
    <3>2. x \in 1..(Len(q) - 1) /\ net'[l][x] = q[x] /\ x \in DOMAIN q
      BY <2>2, <3>1
    <3> QED BY <2>2, <3>2, Zenon DEF q
  <2> QED BY <2>1, <2>2, Zenon
<1>4. UNCHANGED <<electionVars, elections, disk>>
  BY Zenon DEF DropConn, logVars
<1>5. NoVoteCounted /\ WonByMajority' /\ HardStateOnDisk' /\ \A v \in Server : DiskGrows(v)
  BY <1>4, Zenon DEF electionVars, NoVoteCounted, VoteInv, WonByMajority, HardStateOnDisk, DiskGrows
<1> QED BY <1>3, <1>4, <1>5, QuietStep, VoteSafetyPreserved, Zenon DEF VoteInv

-----------------------------------------------------------------------------
LEMMA StepVotes ==
    ASSUME VoteInv, TypeOK', NEW i, NEW j, NEW k, Arrives(i, j, k), Step(i, j, k)
    PROVE  VoteInv'
BY HandlePreVoteVotes, HandlePreVoteResponseVotes, HandleRequestVoteVotes,
   HandleRequestVoteResponseVotes, HandleAppendEntriesVotes, HandleAppendEntriesResponseVotes,
   HandleInstallSnapshotVotes, HandleInstallSnapshotResponseVotes, Zenon
   DEF Step

LEMMA InitVotes == Init => VoteInv
<1> SUFFICES ASSUME Init PROVE VoteInv
  BY Zenon
<1>1. HardStateOnDisk /\ WonByMajority
  BY Zenon DEF Init, HardStateOnDisk, WonByMajority
<1>2. \A t, v, c : c \in Server => ~Ballot(v, t, c)
  <2> SUFFICES ASSUME NEW t, NEW v, NEW c \in Server PROVE ~Ballot(v, t, c)
    BY Zenon
  <2>1. <<v, c>> \in Links => net[<<v, c>>] = <<>>
    BY Zenon DEF Init
  <2>2. <<v, c>> \in Links => DOMAIN net[<<v, c>>] = {}
    BY <2>1
  <2>3. votesReceived[c] = {} /\ elections = {}
    BY Zenon DEF Init
  <2> QED BY <2>2, <2>3, Zenon DEF Ballot
<1> QED BY <1>1, <1>2, InitType, Zenon DEF VoteInv, VoteSafety

LEMMA NextVotes == VoteInv /\ TypeOK' /\ [Next]_vars => VoteInv'
<1> SUFFICES ASSUME VoteInv, TypeOK', [Next]_vars PROVE VoteInv'
  BY Zenon
<1>1. CASE Progress
  <2>1. CASE \E i \in Server : IdleTick(i) \/ Heartbeat(i)
    BY <2>1, IdleTickVotes, HeartbeatVotes, Zenon
  <2>2. CASE Request
    <3>1. CASE \E i \in Server : RequestReadIndex(i)
      BY <3>1, RequestReadIndexVotes, Zenon
    <3>2. CASE \E i \in Server, n \in 1..MaxIndex : \E datas \in [1..n -> Value] : ProposeBatch(i, datas)
      <4>1. PICK i \in Server, n \in 1..MaxIndex : \E datas \in [1..n -> Value] : ProposeBatch(i, datas)
        BY <3>2, Zenon
      <4>2. PICK datas \in [1..n -> Value] : ProposeBatch(i, datas)
        BY <4>1, Zenon
      <4>3. datas \in Seq(Value)
        BY BoundsAssumption
      <4> QED BY <4>2, <4>3, ProposeBatchVotes, Zenon
    <3> QED BY <2>2, <3>1, <3>2, Zenon DEF Request
  <2>3. CASE \E l \in Links : Deliver(l)
    <3>1. PICK l \in Links : \E k \in DOMAIN net[l] : Step(l[2], l[1], k)
      BY <2>3, Zenon DEF Deliver
    <3>2. PICK k \in DOMAIN net[l] : Step(l[2], l[1], k)
      BY <3>1, Zenon
    <3>3. Arrives(l[2], l[1], k)
      BY DEF Arrives, Links
    <3> QED BY <3>2, <3>3, StepVotes, Zenon
  <2> QED BY <1>1, <2>1, <2>2, <2>3, Zenon DEF Progress
<1>2. CASE Timeout
  BY <1>2, ElectionTimeoutVotes, ElectionTimeoutAloneVotes, Zenon DEF Timeout
<1>3. CASE Fault
  <2>1. CASE \E l \in Links : \E k \in DOMAIN net[l] : CrashInPersist(l[2], l[1], k)
    <3>1. PICK l \in Links : \E k \in DOMAIN net[l] : CrashInPersist(l[2], l[1], k)
      BY <2>1, Zenon
    <3>2. PICK k \in DOMAIN net[l] : CrashInPersist(l[2], l[1], k)
      BY <3>1, Zenon
    <3>3. Arrives(l[2], l[1], k)
      BY DEF Arrives, Links
    <3> QED BY <3>2, <3>3, CrashInPersistVotes, Zenon
  <2>2. CASE \E i \in Server : Crash(i)
    BY <2>2, CrashVotes, Zenon
  <2>3. CASE \E l \in Links : DropConn(l[1], l[2])
    BY <2>3, DropConnVotes, Zenon
  <2>4. CASE \E l \in Links : Overtake(l)
    <3>1. PICK l \in Links : \E k \in DOMAIN net[l] : Step(l[2], l[1], k)
      BY <2>4, Zenon DEF Overtake
    <3>2. PICK k \in DOMAIN net[l] : Step(l[2], l[1], k)
      BY <3>1, Zenon
    <3>3. Arrives(l[2], l[1], k)
      BY DEF Arrives, Links
    <3> QED BY <3>2, <3>3, StepVotes, Zenon
  <2> QED BY <1>3, <2>1, <2>2, <2>3, <2>4, Zenon DEF Fault
<1>4. CASE UNCHANGED vars
  <2>1. UNCHANGED <<role, currentTerm, votedFor, votesReceived, disk, net, elections>>
    BY <1>4, Zenon DEF vars, electionVars, logVars
  <2>2. NoVoteSent /\ NoVoteCounted /\ WonByMajority' /\ HardStateOnDisk'
        /\ \A v \in Server : DiskGrows(v)
    BY <2>1, Zenon DEF NoVoteSent, NoVoteCounted, VoteInv, WonByMajority, HardStateOnDisk, DiskGrows
  <2> QED BY <2>1, <2>2, QuietStep, VoteSafetyPreserved, Zenon DEF VoteInv
<1> QED BY <1>1, <1>2, <1>3, <1>4, Zenon DEF Next

LEMMA VoteInvariant == Spec => []VoteInv
<1>1. VoteInv /\ [Next]_vars => VoteInv'
  BY NextType, NextVotes, Zenon DEF VoteInv
<1> QED BY InitVotes, <1>1, PTL DEF Spec

\* In every cluster no node ever votes for two candidates in one term, and a vote
\* that has left its node is on its disk for as long as that term matters, across
\* any crash, lost message and reordering.
THEOREM VotesAreDurable == Spec => []VotesDurable
<1>1. VoteInv => VotesDurable
  <2>1. 0..MaxTerm \in SUBSET Nat
    BY BoundsAssumption
  <2> QED BY <2>1, Zenon DEF VoteInv, VotesDurable, VoteSafety
<1> QED BY <1>1, VoteInvariant, PTL

\* Two winners of one term share a voter, and that voter voted only once.
LEMMA OneWinner == VoteInv => ElectionSafety
<1> SUFFICES ASSUME VoteInv, NEW e \in elections, NEW f \in elections, e.term = f.term
             PROVE  e.leader = f.leader
  BY Zenon DEF ElectionSafety
<1>1. e \in Election /\ f \in Election
  BY Zenon DEF VoteInv, TypeOK
<1>2. /\ e.term \in Nat /\ e.leader \in Server /\ e.voters \in SUBSET Server
      /\ f.leader \in Server /\ f.voters \in SUBSET Server
  BY <1>1, Zenon DEF Election
<1>3. HasMajority(e.voters) /\ HasMajority(f.voters)
  BY Zenon DEF VoteInv, WonByMajority
<1>4. PICK v \in Server : v \in e.voters /\ v \in f.voters
  BY <1>2, <1>3, MajoritiesMeet, Zenon
<1>5. Ballot(v, e.term, e.leader) /\ Ballot(v, e.term, f.leader)
  BY <1>4, Zenon DEF Ballot
<1> QED BY <1>2, <1>5, Zenon DEF VoteInv, VoteSafety

\* In every cluster at most one node ever wins an election in a given term.
THEOREM OneLeaderPerTerm == Spec => []ElectionSafety
BY OneWinner, VoteInvariant, PTL

=============================================================================
