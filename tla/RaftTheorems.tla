---------------------------- MODULE RaftTheorems ----------------------------
(***************************************************************************)
(* What Raft guarantees about its logs, for every cluster and every bound. *)
(***************************************************************************)
EXTENDS RaftElection, RaftSteps, RaftLog

LEMMA OneWinnerNext == VoteInv' => ElectionSafety'
BY OneWinner, PTL

LEMMA InitLogs == Init => LogInv
<1> SUFFICES ASSUME Init PROVE LogInv
  BY Zenon
<1>1. TypeOK /\ VoteInv
  BY InitType, InitVotes, Zenon
<1>2. /\ \A x \in Server : /\ log[x] = EmptyLog /\ disk[x].log = EmptyLog /\ role[x] = Follower
                           /\ commitIndex[x] = 0
      /\ elections = {} /\ committed = <<>> /\ \A l \in Links : net[l] = <<>>
  BY DEF Init
<1>3. EmptyLog.entries = <<>> /\ EmptyLog.base = 0
  BY DEF EmptyLog
<1>4. DiskHasLog
  BY <1>2, Zenon DEF DiskHasLog
<1>5. CommitRecorded
  <2>1. Len(committed) = 0 /\ 0 <= Len(committed)
    BY <1>2
  <2> QED BY <1>2, <1>3, <2>1, Zenon DEF CommitRecorded, BasesRecorded
<1>6. ElectionInv
  BY <1>2, Zenon DEF ElectionInv, Follower, Leader
<1>7. Known = {}
  <2>1. Chain(<<>>, 0, 0) = {}
    BY DEF Chain
  <2>2. \A l \in Links : DOMAIN net[l] = {}
    BY <1>2
  <2>3. \A f \in Known : FALSE
    BY <1>2, <1>3, <2>1, <2>2, Zenon DEF Known
  <2> QED BY <2>3, Zenon
<1>8. FactInv(Known)
  BY <1>7, Zenon DEF FactInv
<1> QED BY <1>1, <1>4, <1>5, <1>6, <1>8, Zenon DEF LogInv

LEMMA NextLogs == LogInv /\ [Next]_vars => LogInv'
<1> SUFFICES ASSUME LogInv, [Next]_vars PROVE LogInv'
  BY Zenon
<1>1. TypeOK /\ VoteInv /\ HardStateOnDisk /\ DiskHasLog /\ CommitRecorded /\ ElectionInv /\ FactInv(Known)
  BY Zenon DEF LogInv, VoteInv
<1>2. TypeOK'
  BY <1>1, NextType, Zenon
<1>3. VoteInv'
  BY <1>1, <1>2, NextVotes, Zenon
<1>4. CASE AnyKind
  <2>1. ElectionSafety'
    BY <1>3, OneWinnerNext, Zenon
  <2>2. DiskHasLog' /\ CommitRecorded' /\ ElectionInv' /\ FactInv(Known)'
    BY <1>2, <1>4, <2>1, LogKept, Zenon
  <2> QED BY <1>3, <2>2, Zenon DEF LogInv
<1>5. CASE UNCHANGED vars
  <2>1. /\ UNCHANGED <<role, currentTerm, log, disk, commitIndex, net, elections, committed>>
    BY <1>5, Zenon DEF vars, electionVars, logVars
  <2>2. DiskHasLog' /\ CommitRecorded' /\ ElectionInv'
    BY <1>1, <2>1, Zenon DEF DiskHasLog, CommitRecorded, BasesRecorded, ElectionInv
  <2>3. Known' = Known
    BY <2>1, Zenon DEF Known
  <2>4. FactInv(Known)'
    BY <1>1, <2>1, <2>3, Zenon DEF FactInv
  <2> QED BY <1>3, <2>2, <2>4, Zenon DEF LogInv
<1>6. Settled
  BY <1>1, Zenon DEF Settled
<1> QED BY <1>1, <1>4, <1>5, <1>6, NextKind, Zenon

LEMMA LogInvariant == Spec => []LogInv
BY InitLogs, NextLogs, PTL DEF Spec

\* Two logs that hold an entry of the same index and term hold the same entries
\* up to it, whatever is lost, delayed or reordered, whoever crashes in the
\* middle of a write and whatever is replaced by a snapshot
\* (handleAppendEntries, maybeAppend, handleInstallSnapshot).
THEOREM LogsMatch == Spec => []LogMatching
BY LogInvariant, LogsAgree, PTL

=============================================================================
