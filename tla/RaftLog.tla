------------------------------ MODULE RaftLog -------------------------------
(***************************************************************************)
(* Logs that agree on one entry agree on everything before it, for every   *)
(* cluster and every bound, with crashes, torn writes and snapshots.       *)
(*                                                                         *)
(* An entry in a log, in a message or in a snapshot is a fact: its index,  *)
(* the entry, and the term of the entry before it.  LogInv says that all   *)
(* the facts in the cluster that agree on index and term are the same, and *)
(* why the next entry a leader appends is no exception: the term belongs   *)
(* to one election, and the leader that won it has every fact of its term. *)
(***************************************************************************)
EXTENDS RaftKinds

Fact == [index : Nat, entry : Entry, prev : Nat]

\* The facts in a run of entries that follows index p, whose term is t.
Chain(es, p, t) ==
    {f \in Fact : /\ f.index \in (p + 1)..(p + Len(es))
                  /\ f.entry = es[f.index - p]
                  /\ f.prev = IF f.index = p + 1 THEN t ELSE es[f.index - p - 1].term}

Carries(m, f) ==
    \/ m.type = "AppendEntries" /\ f \in Chain(m.entries, m.prevLogIndex, m.prevLogTerm)
    \/ m.type = "InstallSnapshot" /\ f \in Chain(m.snapshot, 0, 0)

Known ==
    {f \in Fact : \/ \E i \in Server : f \in Chain(log[i].entries, 0, 0)
                  \/ \E l \in Links : \E k \in DOMAIN net[l] : Carries(net[l][k], f)
                  \/ \E w \in elections : f \in Chain(w.log, 0, 0)}

FactInv(K) ==
    /\ \A f, g \in K : f.index = g.index /\ f.entry.term = g.entry.term
                         => f.entry = g.entry /\ f.prev = g.prev
    /\ \A f \in K : \E w \in elections : w.term = f.entry.term
    /\ \A x \in Server, f \in K :
         role[x] = Leader /\ f.entry.term = currentTerm[x] => f.index <= LastIndex(log[x])

\* A term is won at most once, its winner never runs in it again, and whoever
\* leads has won.
ElectionInv ==
    /\ \A w \in elections : /\ w.term <= currentTerm[w.leader]
                            /\ w.term = currentTerm[w.leader] => role[w.leader] # Candidate
    /\ \A x \in Server : role[x] = Leader => \E w \in elections : w.term = currentTerm[x] /\ w.leader = x
    /\ \A v, w \in elections : v.term = w.term => v = w

LogInv == VoteInv /\ DiskHasLog /\ CommitRecorded /\ ElectionInv /\ FactInv(Known)

-----------------------------------------------------------------------------
(***************************************************************************)
(* Roles.                                                                  *)
(***************************************************************************)
\* Nobody becomes leader, terms do not fall, and a leader's log does not shrink.
Steady ==
    /\ UNCHANGED elections
    /\ \A x \in Server :
         /\ currentTerm[x] <= currentTerm'[x]
         /\ role'[x] = Leader => /\ role[x] = Leader /\ currentTerm'[x] = currentTerm[x]
                                 /\ LastIndex(log[x]) <= LastIndex(log'[x])
         /\ role'[x] = Candidate => (role[x] = Candidate \/ currentTerm[x] < currentTerm'[x])

LEMMA SteadyIntro ==
    ASSUME TypeOK, NEW i \in Server, UNCHANGED elections, OthersRoles(i), OthersLogs(i),
           currentTerm[i] <= currentTerm'[i],
           role'[i] = Leader => /\ role[i] = Leader /\ currentTerm'[i] = currentTerm[i]
                                /\ LastIndex(log[i]) <= LastIndex(log'[i]),
           role'[i] = Candidate => (role[i] = Candidate \/ currentTerm[i] < currentTerm'[i])
    PROVE  Steady
<1>1. \A x \in Server : currentTerm[x] \in Nat /\ LastIndex(log[x]) \in Nat
  BY LogFacts, Zenon DEF TypeOK
<1>2. \A n \in Nat : n <= n
  OBVIOUS
<1>3. ASSUME NEW x \in Server \ {i}
      PROVE  /\ currentTerm'[x] = currentTerm[x] /\ role'[x] = role[x] /\ log'[x] = log[x]
             /\ currentTerm[x] <= currentTerm'[x] /\ LastIndex(log[x]) <= LastIndex(log'[x])
  BY <1>1, <1>2, Zenon DEF OthersRoles, OthersLogs
<1> QED BY <1>3, Zenon DEF Steady

LEMMA QuietSteady ==
    ASSUME TypeOK, NEW i \in Server, Quiet(i)
    PROVE  Steady
<1>1. /\ UNCHANGED elections /\ OthersRoles(i) /\ OthersLogs(i) /\ RoleKept(i)
      /\ log'[i].entries = log[i].entries
  BY Zenon DEF Quiet, Frame, LogBecomes
<1>2. currentTerm[i] \in Nat /\ LastIndex(log[i]) \in Nat /\ log[i].entries \in Seq(Entry)
  BY LogFacts, Zenon DEF TypeOK
<1>3. currentTerm[i] <= currentTerm'[i]
  BY <1>1, <1>2 DEF RoleKept
<1>4. LastIndex(log[i]) <= LastIndex(log'[i])
  <2>1. LastIndex(log'[i]) = LastIndex(log[i])
    BY <1>1, Zenon DEF LastIndex
  <2> QED BY <1>2, <2>1
<1> QED BY <1>1, <1>3, <1>4, SteadyIntro, Zenon DEF RoleKept

LEMMA RunsSteady ==
    ASSUME TypeOK, NEW i \in Server, Runs(i)
    PROVE  Steady
<1>1. /\ UNCHANGED elections /\ OthersRoles(i) /\ OthersLogs(i)
      /\ currentTerm'[i] = currentTerm[i] + 1 /\ role'[i] = Candidate
  BY Zenon DEF Runs, Frame
<1>2. currentTerm[i] < currentTerm'[i] /\ currentTerm[i] <= currentTerm'[i]
  BY <1>1 DEF TypeOK
<1>3. role'[i] # Leader
  BY <1>1, Zenon DEF Candidate, Leader
<1> QED BY <1>1, <1>2, <1>3, SteadyIntro, Zenon

LEMMA GrantsSteady ==
    ASSUME TypeOK, NEW i \in Server, NEW j, NEW m, Grants(i, j, m)
    PROVE  Steady
<1>1. /\ UNCHANGED elections /\ OthersRoles(i) /\ OthersLogs(i) /\ RoleKept(i)
      /\ log'[i].entries = log[i].entries
  BY Zenon DEF Grants, Frame, LogBecomes
<1>2. currentTerm[i] \in Nat /\ LastIndex(log[i]) \in Nat
  BY LogFacts, Zenon DEF TypeOK
<1>3. currentTerm[i] <= currentTerm'[i]
  BY <1>1, <1>2 DEF RoleKept
<1>4. LastIndex(log[i]) <= LastIndex(log'[i])
  <2>1. LastIndex(log'[i]) = LastIndex(log[i])
    BY <1>1, Zenon DEF LastIndex
  <2> QED BY <1>2, <2>1
<1> QED BY <1>1, <1>3, <1>4, SteadyIntro, Zenon DEF RoleKept

LEMMA LeadsSteady ==
    ASSUME TypeOK, NEW i \in Server, NEW lg, Leads(i, lg)
    PROVE  Steady
<1>1. /\ UNCHANGED elections /\ OthersRoles(i) /\ OthersLogs(i)
      /\ role[i] = Leader /\ currentTerm'[i] = currentTerm[i] /\ role'[i] = Leader
      /\ log'[i].entries = lg.entries /\ LastIndex(log[i]) <= LastIndex(lg)
  BY Zenon DEF Leads, Frame, LogBecomes
<1>2. currentTerm[i] <= currentTerm'[i]
  BY <1>1 DEF TypeOK
<1>3. LastIndex(log[i]) <= LastIndex(log'[i])
  BY <1>1, Zenon DEF LastIndex
<1>4. role'[i] # Candidate
  BY <1>1, Zenon DEF Candidate, Leader
<1> QED BY <1>1, <1>2, <1>3, <1>4, SteadyIntro, Zenon

LEMMA CountsSteady ==
    ASSUME TypeOK, NEW i \in Server, NEW j, NEW m, Counts(i, j, m)
    PROVE  Steady
<1>1. /\ UNCHANGED elections /\ OthersRoles(i) /\ OthersLogs(i)
      /\ role[i] = Leader /\ currentTerm'[i] = currentTerm[i] /\ role'[i] = Leader
      /\ log'[i].entries = log[i].entries
  BY Zenon DEF Counts, Frame, LogBecomes
<1>2. currentTerm[i] <= currentTerm'[i]
  BY <1>1 DEF TypeOK
<1>3. LastIndex(log[i]) <= LastIndex(log'[i])
  <2>1. LastIndex(log'[i]) = LastIndex(log[i]) /\ LastIndex(log[i]) \in Nat
    BY <1>1, LogFacts, Zenon DEF LastIndex, TypeOK
  <2> QED BY <2>1
<1>4. role'[i] # Candidate
  BY <1>1, Zenon DEF Candidate, Leader
<1> QED BY <1>1, <1>2, <1>3, <1>4, SteadyIntro, Zenon

LEMMA FollowsSteady ==
    ASSUME TypeOK, NEW i \in Server, NEW j, NEW m, NEW es, Follows(i, j, m, es)
    PROVE  Steady
<1>1. /\ UNCHANGED elections /\ OthersRoles(i) /\ OthersLogs(i) /\ m \in AppendRequest
      /\ m.term >= currentTerm[i] /\ currentTerm'[i] = m.term /\ role'[i] = Follower
  BY Zenon DEF Follows, Frame
<1>2. currentTerm[i] <= currentTerm'[i]
  <2>1. m.term \in Nat /\ currentTerm[i] \in Nat
    BY <1>1, Zenon DEF AppendRequest, TypeOK
  <2> QED BY <1>1, <2>1
<1>3. role'[i] # Candidate /\ role'[i] # Leader
  BY <1>1, Zenon DEF Follower, Candidate, Leader
<1> QED BY <1>1, <1>2, <1>3, SteadyIntro, Zenon

LEMMA InstallsSteady ==
    ASSUME TypeOK, NEW i \in Server, NEW j, NEW m, Installs(i, j, m)
    PROVE  Steady
<1>1. /\ UNCHANGED elections /\ OthersRoles(i) /\ OthersLogs(i) /\ RoleKept(i)
      /\ log'[i].entries = log[i].entries \/ role'[i] = Follower
  BY Zenon DEF Installs, LogBecomes
<1>2. currentTerm[i] \in Nat /\ LastIndex(log[i]) \in Nat
  BY LogFacts, Zenon DEF TypeOK
<1>3. currentTerm[i] <= currentTerm'[i]
  BY <1>1, <1>2 DEF RoleKept
<1>4. role'[i] = Leader => LastIndex(log[i]) <= LastIndex(log'[i])
  <2>1. role'[i] = Leader => LastIndex(log'[i]) = LastIndex(log[i])
    BY <1>1, Zenon DEF LastIndex, Leader, Follower
  <2> QED BY <1>2, <2>1
<1> QED BY <1>1, <1>3, <1>4, SteadyIntro, Zenon DEF RoleKept

LEMMA SteadyElections ==
    ASSUME TypeOK, TypeOK', ElectionInv, Steady
    PROVE  ElectionInv'
<1>1. ASSUME NEW w \in elections
      PROVE  /\ w.term <= currentTerm'[w.leader]
             /\ w.term = currentTerm'[w.leader] => role'[w.leader] # Candidate
  <2>1. w.leader \in Server /\ w.term \in Nat
    BY Zenon DEF TypeOK, Election
  <2>2. /\ w.term <= currentTerm[w.leader] /\ currentTerm[w.leader] \in Nat
        /\ w.term = currentTerm[w.leader] => role[w.leader] # Candidate
    BY <2>1, Zenon DEF ElectionInv, TypeOK
  <2>3. /\ currentTerm[w.leader] <= currentTerm'[w.leader]
        /\ role'[w.leader] = Candidate => (role[w.leader] = Candidate \/ currentTerm[w.leader] < currentTerm'[w.leader])
    BY <2>1, Zenon DEF Steady
  <2>4. w.term <= currentTerm'[w.leader] /\ currentTerm'[w.leader] \in Nat
    <3>1. currentTerm'[w.leader] \in Nat
      BY <2>1, Zenon DEF TypeOK
    <3> QED BY <2>1, <2>2, <2>3, <3>1
  <2>5. /\ w.term = currentTerm'[w.leader] => w.term = currentTerm[w.leader]
        /\ currentTerm[w.leader] < currentTerm'[w.leader] => w.term # currentTerm'[w.leader]
    BY <2>1, <2>2, <2>3, <2>4
  <2> QED BY <2>2, <2>3, <2>4, <2>5, Zenon
<1>2. ASSUME NEW x \in Server, role'[x] = Leader
      PROVE  \E w \in elections : w.term = currentTerm'[x] /\ w.leader = x
  <2>1. role[x] = Leader /\ currentTerm'[x] = currentTerm[x]
    BY <1>2, Zenon DEF Steady
  <2>2. \E w \in elections : w.term = currentTerm[x] /\ w.leader = x
    BY <2>1, Zenon DEF ElectionInv
  <2> QED BY <2>1, <2>2, Zenon
<1>3. \A v, w \in elections : v.term = w.term => v = w
  BY Zenon DEF ElectionInv
<1>4. elections' = elections
  BY Zenon DEF Steady
<1> QED BY <1>1, <1>2, <1>3, <1>4, Zenon DEF ElectionInv

\* An election is the first of its term.
LEMMA FirstOfTerm ==
    ASSUME TypeOK, ElectionSafety', ElectionInv,
           NEW i \in Server, NEW t \in Nat, NEW voters, Wins(i, t, voters)
    PROVE  \A w \in elections : w.term # t
<1> DEFINE e == [term |-> t, leader |-> i, voters |-> voters, log |-> log[i].entries]
<1>1. e \in elections' /\ elections \subseteq elections' /\ e.term = t /\ e.leader = i
  BY Zenon DEF Wins
<1>2. ElectionSafety'
  OBVIOUS
<1> HIDE DEF e
<1> SUFFICES ASSUME NEW w \in elections, w.term = t PROVE FALSE
  BY Zenon
<1>3. w.leader = i
  BY <1>1, <1>2, Zenon DEF ElectionSafety
<1>4. t <= currentTerm[i] /\ (t = currentTerm[i] => role[i] # Candidate) /\ currentTerm[i] \in Nat
  BY <1>3, Zenon DEF ElectionInv, TypeOK
<1>5. currentTerm[i] + 1 # t
  BY <1>4
<1> QED BY <1>4, <1>5, Zenon DEF Wins

LEMMA WinsElections ==
    ASSUME TypeOK, ElectionSafety', ElectionInv,
           NEW i \in Server, NEW t \in Nat, NEW voters, Wins(i, t, voters)
    PROVE  ElectionInv'
<1> DEFINE e == [term |-> t, leader |-> i, voters |-> voters, log |-> log[i].entries]
<1>1. elections' = elections \cup {e} /\ e.term = t /\ e.leader = i
  BY Zenon DEF Wins
<1>2. \A w \in elections : w.term # t
  BY FirstOfTerm, Zenon
<1> HIDE DEF e
<1>3. /\ role'[i] = Leader /\ role'[i] # Candidate /\ currentTerm'[i] = t
      /\ \A x \in Server \ {i} : role'[x] = role[x] /\ currentTerm'[x] = currentTerm[x]
  BY Zenon DEF Wins, Frame, OthersRoles, Leader, Candidate
<1>4. ASSUME NEW w \in elections'
      PROVE  /\ w.term <= currentTerm'[w.leader]
             /\ w.term = currentTerm'[w.leader] => role'[w.leader] # Candidate
  <2>1. CASE w.leader = i
    <3>1. w.term <= t
      <4>1. CASE w = e
        BY <1>1, <4>1
      <4>2. CASE w \in elections
        <5>1. w.term \in Nat /\ w.term <= currentTerm[i] /\ currentTerm[i] \in Nat
          BY <2>1, <4>2, Zenon DEF ElectionInv, TypeOK, Election
        <5>2. currentTerm[i] = t \/ currentTerm[i] + 1 = t
          BY Zenon DEF Wins
        <5> QED BY <5>1, <5>2
      <4> QED BY <1>1, <4>1, <4>2, Zenon
    <3> QED BY <1>3, <2>1, <3>1, Zenon
  <2>2. CASE w.leader # i
    <3>1. w \in elections /\ w.leader \in Server \ {i}
      BY <1>1, <2>2, Zenon DEF TypeOK, Election
    <3> QED BY <1>3, <3>1, Zenon DEF ElectionInv
  <2> QED BY <2>1, <2>2, Zenon
<1>5. ASSUME NEW x \in Server, role'[x] = Leader
      PROVE  \E w \in elections' : w.term = currentTerm'[x] /\ w.leader = x
  <2>1. CASE x = i
    BY <1>1, <1>3, <2>1, Zenon
  <2>2. CASE x # i
    <3>1. role[x] = Leader /\ currentTerm'[x] = currentTerm[x]
      BY <1>3, <1>5, <2>2, Zenon
    <3>2. \E w \in elections : w.term = currentTerm[x] /\ w.leader = x
      BY <3>1, Zenon DEF ElectionInv
    <3> QED BY <1>1, <3>1, <3>2, Zenon
  <2> QED BY <2>1, <2>2, Zenon
<1>6. ASSUME NEW v \in elections', NEW w \in elections', v.term = w.term
      PROVE  v = w
  BY <1>1, <1>2, <1>6, Zenon DEF ElectionInv
<1> QED BY <1>4, <1>5, <1>6, Zenon DEF ElectionInv

-----------------------------------------------------------------------------
(***************************************************************************)
(* Facts.  K are the facts before a step, J those after it.                *)
(***************************************************************************)
FactInvNext(J) ==
    /\ \A f, g \in J : f.index = g.index /\ f.entry.term = g.entry.term
                         => f.entry = g.entry /\ f.prev = g.prev
    /\ \A f \in J : \E w \in elections' : w.term = f.entry.term
    /\ \A x \in Server, f \in J :
         role'[x] = Leader /\ f.entry.term = currentTerm'[x] => f.index <= LastIndex(log'[x])

LEMMA FactsKept ==
    ASSUME TypeOK, TypeOK', NEW K \in SUBSET Fact, NEW J \in SUBSET K, FactInv(K), Steady
    PROVE  FactInvNext(J)
<1>1. \A f, g \in J : f.index = g.index /\ f.entry.term = g.entry.term
                        => f.entry = g.entry /\ f.prev = g.prev
  BY Zenon DEF FactInv
<1>2. \A f \in J : \E w \in elections' : w.term = f.entry.term
  BY Zenon DEF FactInv, Steady
<1>3. ASSUME NEW x \in Server, NEW f \in J, role'[x] = Leader, f.entry.term = currentTerm'[x]
      PROVE  f.index <= LastIndex(log'[x])
  <2>1. role[x] = Leader /\ currentTerm'[x] = currentTerm[x] /\ LastIndex(log[x]) <= LastIndex(log'[x])
    BY <1>3, Zenon DEF Steady
  <2>2. f.index <= LastIndex(log[x])
    BY <1>3, <2>1, Zenon DEF FactInv
  <2>3. f.index \in Nat /\ LastIndex(log[x]) \in Nat /\ LastIndex(log'[x]) \in Nat
    <3>1. f.index \in Nat
      BY Zenon DEF Fact
    <3>2. log[x] \in Log /\ log'[x] \in Log
      BY Zenon DEF TypeOK
    <3> QED BY <3>1, <3>2, LogFacts, Zenon
  <2> QED BY <2>1, <2>2, <2>3
<1> QED BY <1>1, <1>2, <1>3, Zenon DEF FactInvNext

LEMMA FactsWon ==
    ASSUME TypeOK, NEW K \in SUBSET Fact, NEW J \in SUBSET K, FactInv(K), ElectionSafety', ElectionInv,
           NEW i \in Server, NEW t \in Nat, NEW voters, Wins(i, t, voters)
    PROVE  FactInvNext(J)
<1>1. elections \subseteq elections'
  BY Zenon DEF Wins
<1>2. \A f, g \in J : f.index = g.index /\ f.entry.term = g.entry.term
                        => f.entry = g.entry /\ f.prev = g.prev
  BY Zenon DEF FactInv
<1>3. \A f \in J : \E w \in elections' : w.term = f.entry.term
  BY <1>1, Zenon DEF FactInv
<1>4. ASSUME NEW x \in Server, NEW f \in J, role'[x] = Leader, f.entry.term = currentTerm'[x]
      PROVE  f.index <= LastIndex(log'[x])
  <2>1. CASE x = i
    <3>1. f.entry.term # t
      BY FirstOfTerm, Zenon DEF FactInv
    <3> QED BY <1>4, <2>1, <3>1, Zenon DEF Wins
  <2>2. CASE x # i
    <3>1. role'[x] = role[x] /\ currentTerm'[x] = currentTerm[x] /\ log'[x] = log[x]
      BY <2>2, Zenon DEF Wins, Frame, OthersRoles, OthersLogs
    <3> QED BY <1>4, <3>1, Zenon DEF FactInv
  <2> QED BY <2>1, <2>2, Zenon
<1> QED BY <1>2, <1>3, <1>4, Zenon DEF FactInvNext

\* The facts of a leader's new entries.
NewFacts(i, lg) ==
    {f \in Chain(lg.entries, 0, 0) : f.index > LastIndex(log[i]) /\ f.entry.term = currentTerm[i]}

LEMMA FactsGrow ==
    ASSUME TypeOK, TypeOK', NEW K \in SUBSET Fact, FactInv(K), ElectionInv,
           NEW i \in Server, NEW lg, Leads(i, lg), NEW J \in SUBSET (K \cup NewFacts(i, lg))
    PROVE  FactInvNext(J)
<1>1. /\ role[i] = Leader /\ role'[i] = Leader /\ currentTerm'[i] = currentTerm[i] /\ lg \in Log
      /\ log'[i].entries = lg.entries /\ UNCHANGED elections
  BY Zenon DEF Leads, LogBecomes
<1>2. Steady
  BY LeadsSteady, Zenon
<1>3. FactInvNext(K)
  BY <1>2, FactsKept, Zenon
<1>4. ASSUME NEW f \in NewFacts(i, lg)
      PROVE  /\ f \in Fact /\ f.index > LastIndex(log[i]) /\ f.entry.term = currentTerm[i]
             /\ f.index \in 1..Len(lg.entries) /\ f.entry = lg.entries[f.index]
             /\ f.prev = IF f.index = 1 THEN 0 ELSE lg.entries[f.index - 1].term
  <2>1. /\ f \in Fact /\ f.index > LastIndex(log[i]) /\ f.entry.term = currentTerm[i]
        /\ f.index \in (0 + 1)..(0 + Len(lg.entries)) /\ f.entry = lg.entries[f.index - 0]
        /\ f.prev = IF f.index = 0 + 1 THEN 0 ELSE lg.entries[f.index - 0 - 1].term
    BY <1>4, Zenon DEF NewFacts, Chain
  <2>2. Len(lg.entries) \in Nat /\ f.index \in Nat
    BY <1>1, <2>1, LogFacts, SeqLen, Zenon DEF Fact
  <2>3. 0 + Len(lg.entries) = Len(lg.entries) /\ f.index - 0 = f.index /\ 0 + 1 = 1
    BY <2>2
  <2> QED BY <2>1, <2>3, Zenon
<1>5. ASSUME NEW f \in NewFacts(i, lg), NEW g \in K, f.index = g.index, f.entry.term = g.entry.term
      PROVE  FALSE
  <2>1. g.index <= LastIndex(log[i])
    BY <1>1, <1>4, <1>5, Zenon DEF FactInv
  <2>2. f.index \in Nat /\ LastIndex(log[i]) \in Nat
    BY <1>4, LogFacts, Zenon DEF TypeOK, Fact
  <2> QED BY <1>4, <1>5, <2>1, <2>2
<1>6. ASSUME NEW f \in J, NEW g \in J, f.index = g.index, f.entry.term = g.entry.term
      PROVE  f.entry = g.entry /\ f.prev = g.prev
  <2>1. CASE f \in K /\ g \in K
    BY <1>3, <1>6, <2>1, Zenon DEF FactInvNext
  <2>2. CASE f \in NewFacts(i, lg) /\ g \in NewFacts(i, lg)
    BY <1>4, <1>6, <2>2, Zenon
  <2> QED BY <1>5, <1>6, <2>1, <2>2, Zenon
<1>7. ASSUME NEW f \in J
      PROVE  \E w \in elections' : w.term = f.entry.term
  <2>1. CASE f \in K
    BY <1>3, <2>1, Zenon DEF FactInvNext
  <2>2. CASE f \in NewFacts(i, lg)
    <3>1. f.entry.term = currentTerm[i]
      BY <1>4, <2>2, Zenon
    <3>2. \E w \in elections : w.term = currentTerm[i] /\ w.leader = i
      BY <1>1, Zenon DEF ElectionInv
    <3> QED BY <1>1, <3>1, <3>2, Zenon
  <2> QED BY <2>1, <2>2, Zenon
<1>8. ASSUME NEW x \in Server, NEW f \in J, role'[x] = Leader, f.entry.term = currentTerm'[x]
      PROVE  f.index <= LastIndex(log'[x])
  <2>1. CASE f \in K
    BY <1>3, <1>8, <2>1, Zenon DEF FactInvNext
  <2>2. CASE f \in NewFacts(i, lg)
    <3>1. role[x] = Leader /\ currentTerm[x] = currentTerm[i]
      BY <1>2, <1>4, <1>8, <2>2, Zenon DEF Steady
    <3>2. x = i
      <4>1. PICK v \in elections : v.term = currentTerm[i] /\ v.leader = i
        BY <1>1, Zenon DEF ElectionInv
      <4>2. PICK w \in elections : w.term = currentTerm[x] /\ w.leader = x
        BY <3>1, Zenon DEF ElectionInv
      <4>3. v.term = w.term
        BY <3>1, <4>1, <4>2, Zenon
      <4>4. v = w
        BY <4>3, Zenon DEF ElectionInv
      <4> QED BY <4>1, <4>2, <4>4, Zenon
    <3>3. f.index \in 1..Len(lg.entries) /\ LastIndex(log'[i]) = Len(lg.entries)
      BY <1>1, <1>4, <2>2, Zenon DEF LastIndex
    <3> QED BY <3>2, <3>3
  <2> QED BY <2>1, <2>2, Zenon
<1> QED BY <1>6, <1>7, <1>8, Zenon DEF FactInvNext

-----------------------------------------------------------------------------
(***************************************************************************)
(* Where the facts after a step come from.                                 *)
(***************************************************************************)
LogFact(es, f) ==
    /\ f \in Fact /\ f.index \in 1..Len(es) /\ f.entry = es[f.index]
    /\ f.prev = IF f.index = 1 THEN 0 ELSE es[f.index - 1].term

LEMMA LogChain ==
    ASSUME NEW es \in Seq(Entry), NEW f
    PROVE  f \in Chain(es, 0, 0) <=> LogFact(es, f)
<1>1. Len(es) \in Nat
  BY SeqLen, Zenon
<1>2. 0 + Len(es) = Len(es) /\ 0 + 1 = 1
  BY <1>1
<1>3. f \in Fact => f.index \in Nat
  BY Zenon DEF Fact
<1>4. f \in Fact => f.index - 0 = f.index
  BY <1>3
<1> QED BY <1>2, <1>4, Zenon DEF Chain, LogFact

LEMMA PrefixChain ==
    ASSUME NEW es \in Seq(Entry), NEW n \in 0..Len(es), NEW f \in Chain(SubSeq(es, 1, n), 0, 0)
    PROVE  f \in Chain(es, 0, 0)
<1> DEFINE part == SubSeq(es, 1, n)
<1>1. Len(es) \in Nat
  BY SeqLen, Zenon
<1>2. part \in Seq(Entry) /\ Len(part) = n /\ \A x \in 1..n : part[x] = es[x]
  BY <1>1
<1>3. LogFact(part, f)
  BY <1>2, LogChain, Zenon
<1> HIDE DEF part
<1>4. f \in Fact /\ f.index \in 1..n /\ f.index \in Nat
  BY <1>2, <1>3, Zenon DEF LogFact, Fact
<1>5. f.index \in 1..Len(es) /\ (f.index # 1 => f.index - 1 \in 1..n)
  BY <1>1, <1>4
<1>6. f.entry = es[f.index]
  BY <1>2, <1>3, <1>4, Zenon DEF LogFact
<1>7. f.prev = IF f.index = 1 THEN 0 ELSE es[f.index - 1].term
  BY <1>2, <1>3, <1>5, Zenon DEF LogFact
<1> QED BY <1>4, <1>5, <1>6, <1>7, LogChain, Zenon DEF LogFact

\* What a leader sends, it has.
LEMMA AppendCarries ==
    ASSUME NEW t \in Nat, NEW lg \in Log, NEW ci \in Nat, NEW next \in Nat \ {0}, NEW sent \in Nat,
           NEW ctx \in Nat, NEW f, Carries(AppendMsg(t, lg, ci, next, sent, ctx), f)
    PROVE  f \in Chain(lg.entries, 0, 0)
<1> DEFINE prev == Max(next - 1, sent)
           es   == lg.entries
           part == Entries(lg, prev, LastIndex(lg))
           s    == [type |-> "InstallSnapshot", term |-> t, snapshot |-> SubSeq(lg.entries, 1, lg.base)]
           a    == [type |-> "AppendEntries", term |-> t, prevLogIndex |-> prev,
                    prevLogTerm |-> TermAt(lg, prev), entries |-> part,
                    leaderCommit |-> ci, readContext |-> ctx]
<1>1. es \in Seq(Entry) /\ Len(es) \in Nat /\ lg.base \in 0..Len(es)
  BY LogFacts DEF LastIndex
<1>2. CASE NeedsSnapshot(lg, next)
  <2>1. AppendMsg(t, lg, ci, next, sent, ctx) = s
    BY <1>2, Zenon DEF AppendMsg
  <2>2. s.type = "InstallSnapshot" /\ s.snapshot = SubSeq(es, 1, lg.base) /\ s.type # "AppendEntries"
    OBVIOUS
  <2> HIDE DEF s
  <2>3. f \in Chain(SubSeq(es, 1, lg.base), 0, 0)
    BY <2>1, <2>2, Zenon DEF Carries
  <2> QED BY <1>1, <2>3, PrefixChain, Zenon
<1>3. CASE ~NeedsSnapshot(lg, next)
  <2>1. AppendMsg(t, lg, ci, next, sent, ctx) = a
    BY <1>3, Zenon DEF AppendMsg
  <2>2. /\ a.type = "AppendEntries" /\ a.entries = part /\ a.prevLogIndex = prev
        /\ a.prevLogTerm = TermAt(lg, prev) /\ a.type # "InstallSnapshot"
    OBVIOUS
  <2>3. prev \in Nat /\ prev >= lg.base
    BY <1>1, <1>3 DEF NeedsSnapshot, Max
  <2> HIDE DEF a, prev
  <2>4. part = SubSeq(es, prev + 1, Len(es))
    <3>1. Max(prev, lg.base) = prev /\ Min(LastIndex(lg), LastIndex(lg)) = Len(es)
      BY <1>1, <2>3 DEF Max, Min, LastIndex
    <3> QED BY <3>1, Zenon DEF Entries
  <2>5. f \in Chain(part, prev, TermAt(lg, prev))
    BY <2>1, <2>2, Zenon DEF Carries
  <2> DEFINE tp == TermAt(lg, prev)
  <2> HIDE DEF part, tp
  <2>6. /\ f \in Fact /\ f.index \in (prev + 1)..(prev + Len(part)) /\ f.entry = part[f.index - prev]
        /\ f.prev = IF f.index = prev + 1 THEN tp ELSE part[f.index - prev - 1].term
    BY <2>5, Zenon DEF Chain, tp
  <2>7. Len(part) = (IF prev <= Len(es) THEN Len(es) - prev ELSE 0)
    <3> HIDE DEF es
    <3> QED BY <1>1, <2>3, <2>4
  <2>8. \A x \in 1..(Len(es) - prev) : part[x] = es[prev + x]
    <3> HIDE DEF es
    <3> QED BY <1>1, <2>3, <2>4
  <2>9. f.index \in Nat /\ f.index \in (prev + 1)..Len(es) /\ prev < Len(es)
    <3>1. f.index \in Nat
      BY <2>6, Zenon DEF Fact
    <3>2. f.index \in (prev + 1)..(prev + Len(part))
      BY <2>6, Zenon
    <3> QED BY <1>1, <2>3, <2>7, <3>1, <3>2
  <2>10. /\ f.index - prev \in 1..(Len(es) - prev) /\ prev + (f.index - prev) = f.index
         /\ f.index # prev + 1 => /\ f.index - prev - 1 \in 1..(Len(es) - prev)
                                  /\ prev + (f.index - prev - 1) = f.index - 1
    <3> DEFINE ix == f.index
               n  == Len(es)
    <3>1. ix \in Nat /\ n \in Nat /\ prev \in Nat /\ ix \in (prev + 1)..n
      BY <1>1, <2>3, <2>9, Zenon
    <3> HIDE DEF ix, n
    <3>2. /\ ix - prev \in 1..(n - prev) /\ prev + (ix - prev) = ix
          /\ ix # prev + 1 => ix - prev - 1 \in 1..(n - prev) /\ prev + (ix - prev - 1) = ix - 1
      BY <3>1
    <3> QED BY <3>2, Zenon DEF ix, n
  <2>11. f.entry = es[f.index]
    BY <2>6, <2>8, <2>10, Zenon
  <2>12. f.prev = IF f.index = 1 THEN 0 ELSE es[f.index - 1].term
    <3>1. CASE f.index # prev + 1
      <4>1. f.prev = es[f.index - 1].term
        BY <2>6, <2>8, <2>10, <3>1, Zenon
      <4>2. f.index # 1
        BY <2>3, <2>9, <3>1
      <4> QED BY <4>1, <4>2, Zenon
    <3>2. CASE f.index = prev + 1
      <4>1. f.prev = tp /\ f.index - 1 = prev /\ (f.index = 1 <=> prev = 0)
        BY <2>3, <2>6, <3>2
      <4>2. ~(prev < lg.base) /\ ~(prev > LastIndex(lg))
        BY <1>1, <2>3, <2>9 DEF LastIndex
      <4>3. tp = IF prev = 0 THEN 0 ELSE es[prev].term
        BY <4>2, Zenon DEF TermAt, tp
      <4> QED BY <4>1, <4>3, Zenon
    <3> QED BY <3>1, <3>2, Zenon
  <2>13. f.index \in 1..Len(es) /\ f \in Fact
    BY <1>1, <2>3, <2>6, <2>9
  <2> QED BY <1>1, <2>11, <2>12, <2>13, LogChain, Zenon DEF LogFact
<1> QED BY <1>2, <1>3, Zenon

\* Up to the cut, the log has the terms the message has.
LEMMA KeptAgrees ==
    ASSUME NEW lg \in Log, NEW m \in AppendRequest, PrevMatches(lg, m),
           NEW n \in Nat, m.prevLogIndex < n, n <= KeptUpTo(lg, m), n <= m.prevLogIndex + Len(m.entries),
           lg.base <= n
    PROVE  lg.entries[n].term = m.entries[n - m.prevLogIndex].term
<1> DEFINE prev == m.prevLogIndex
           L    == Len(m.entries)
           C    == Conflicts(lg, m)
<1>1. prev \in Nat /\ m.entries \in Seq(Entry) /\ L \in Nat /\ LastIndex(lg) \in Nat /\ lg.base \in Nat
  BY LogFacts, SeqLen, Zenon DEF AppendRequest
<1>2. KeptUpTo(lg, m) \in prev..LastIndex(lg)
  BY KeptUpToBounds, Zenon
<1>3. n \in (prev + 1)..Min(LastIndex(lg), prev + L) /\ n <= LastIndex(lg) /\ n # 0
  BY <1>1, <1>2 DEF Min
<1>4. n \notin C
  <2>1. CASE C = {}
    BY <2>1, Zenon
  <2>2. CASE C # {}
    <3>1. C \in SUBSET Nat
      <4>1. Min(LastIndex(lg), prev + L) \in Nat
        BY <1>1 DEF Min
      <4> HIDE DEF prev, L
      <4> QED BY <1>1, <4>1 DEF Conflicts, prev, L
    <3>2. \E x \in C : \A y \in C : x <= y
      BY <2>2, <3>1, SmallestExists, Zenon
    <3>3. FirstConflict(lg, m) \in C /\ \A y \in C : FirstConflict(lg, m) <= y
      BY <3>2, Zenon DEF FirstConflict
    <3>4. KeptUpTo(lg, m) = FirstConflict(lg, m) - 1
      BY <2>2, Zenon DEF KeptUpTo
    <3>5. FirstConflict(lg, m) \in Nat /\ (n \in C => FirstConflict(lg, m) <= n)
      BY <3>1, <3>3, Zenon
    <3> QED BY <3>4, <3>5
  <2> QED BY <2>1, <2>2, Zenon
<1>5. TermAt(lg, n) = m.entries[n - prev].term
  BY <1>3, <1>4, Zenon DEF Conflicts
<1>6. ~(n < lg.base) /\ ~(n > LastIndex(lg))
  BY <1>1, <1>3
<1> QED BY <1>3, <1>5, <1>6, Zenon DEF TermAt

LEMMA MergeEntries ==
    ASSUME NEW lg \in Log, NEW m \in AppendRequest, PrevMatches(lg, m), ~CutsSnapshot(lg, m)
    PROVE  LET es   == lg.entries
               new  == Merge(lg, m).entries
               kept == KeptUpTo(lg, m)
               prev == m.prevLogIndex
               L    == Len(m.entries)
           IN  /\ Len(new) \in Nat /\ new \in Seq(Entry)
               /\ Len(new) = IF kept <= prev + L THEN prev + L ELSE kept
               /\ \A n \in 1..kept : new[n] = es[n]
               /\ \A n \in (kept + 1)..Len(new) : n - prev \in 1..L /\ new[n] = m.entries[n - prev]
<1> DEFINE es   == lg.entries
           me   == m.entries
           kept == KeptUpTo(lg, m)
           prev == m.prevLogIndex
           L    == Len(me)
           a    == SubSeq(es, 1, kept)
           b    == SubSeq(me, kept - prev + 1, L)
           new  == a \o b
<1>1. prev \in Nat /\ me \in Seq(Entry) /\ L \in Nat /\ es \in Seq(Entry) /\ Len(es) \in Nat
  BY LogFacts, SeqLen, Zenon DEF AppendRequest
<1>2. kept \in prev..Len(es) /\ kept \in Nat /\ kept - prev \in Nat
  <2>1. kept \in prev..Len(es)
    BY KeptUpToBounds, Zenon DEF LastIndex
  <2> HIDE DEF prev, es, kept
  <2> QED BY <1>1, <2>1
<1>3. Merge(lg, m).entries = new
  <2>1. Merge(lg, m) = [base |-> lg.base, entries |-> new]
    BY WithEntries, Zenon DEF Merge
  <2> HIDE DEF new
  <2> QED BY <2>1
<1> DEFINE q == kept - prev
<1>4. q \in Nat /\ kept \in Nat /\ prev \in Nat /\ L \in Nat /\ kept = prev + q /\ kept <= Len(es)
  <2> HIDE DEF kept, prev, L, es
  <2> QED BY <1>1, <1>2
<1> HIDE DEF q, kept, prev, es, me
<1>5. /\ a \in Seq(Entry) /\ Len(a) = kept
      /\ \A n \in 1..kept : a[n] = es[n]
  BY <1>1, <1>4
<1>6. b = SubSeq(me, q + 1, L)
  BY DEF q
<1>7. /\ b \in Seq(Entry) /\ Len(b) = IF q <= L THEN L - q ELSE 0
      /\ \A x \in 1..(L - q) : b[x] = me[q + x]
  <2>1. L <= Len(me) /\ me \in Seq(Entry) /\ q \in Nat /\ L \in Nat
    BY <1>1, <1>4
  <2> HIDE DEF L, b
  <2> QED BY <1>6, <2>1, SeqSlice, Zenon
<1> HIDE DEF a, b
<1>8. /\ new \in Seq(Entry) /\ Len(new) = kept + Len(b)
      /\ \A n \in 1..(kept + Len(b)) : new[n] = IF n <= kept THEN a[n] ELSE b[n - kept]
  BY <1>5, <1>7, SeqConcat, Zenon
<1> HIDE DEF new, L
<1>9. Len(new) = IF kept <= prev + L THEN prev + L ELSE kept
  <2>1. Len(b) = (IF q <= L THEN L - q ELSE 0) /\ Len(new) = kept + Len(b)
    BY <1>7, <1>8, Zenon
  <2> QED BY <1>4, <2>1
<1>10. ASSUME NEW n \in 1..kept PROVE new[n] = es[n]
  <2>1. n \in 1..(kept + Len(b)) /\ n <= kept
    <3>1. Len(b) \in Nat
      BY <1>7, SeqLen, Zenon
    <3> QED BY <1>4, <3>1
  <2> QED BY <1>5, <1>8, <1>10, <2>1, Zenon
<1>11. ASSUME NEW n \in (kept + 1)..Len(new) PROVE n - prev \in 1..L /\ new[n] = me[n - prev]
  <2>1. /\ n \in Nat /\ Len(b) \in Nat /\ n \in 1..(kept + Len(b)) /\ ~(n <= kept)
        /\ n - kept \in 1..Len(b)
    <3>1. Len(b) \in Nat /\ Len(new) = kept + Len(b)
      BY <1>7, <1>8, SeqLen, Zenon
    <3> QED BY <1>4, <3>1
  <2>2. /\ n - kept \in 1..(L - q) /\ q + (n - kept) = n - prev /\ n - prev \in 1..L
    <3>1. Len(b) = IF q <= L THEN L - q ELSE 0
      BY <1>7, Zenon
    <3> QED BY <1>4, <2>1, <3>1
  <2>3. new[n] = b[n - kept]
    BY <1>8, <2>1, Zenon
  <2> QED BY <1>7, <2>2, <2>3, Zenon
<1>12. Len(new) \in Nat /\ new \in Seq(Entry)
  BY <1>8, SeqLen, Zenon
<1> QED BY <1>3, <1>9, <1>10, <1>11, <1>12, Zenon DEF es, me, kept, prev, L

\* Taking over entries creates no fact: at the seam the terms agree.
LEMMA MergeCarries ==
    ASSUME NEW lg \in Log, NEW m \in AppendRequest, PrevMatches(lg, m), ~CutsSnapshot(lg, m),
           NEW f \in Chain(Merge(lg, m).entries, 0, 0)
    PROVE  f \in Chain(lg.entries, 0, 0) \/ Carries(m, f)
<1> DEFINE es   == lg.entries
           me   == m.entries
           new  == Merge(lg, m).entries
           kept == KeptUpTo(lg, m)
           prev == m.prevLogIndex
           L    == Len(me)
           n    == f.index
<1>1. /\ prev \in Nat /\ me \in Seq(Entry) /\ L \in Nat /\ es \in Seq(Entry) /\ Len(es) \in Nat
      /\ lg.base \in Nat /\ m.type = "AppendEntries" /\ LastIndex(lg) = Len(es)
  BY LogFacts, SeqLen, Zenon DEF AppendRequest, LastIndex
<1>2. kept \in prev..Len(es) /\ lg.base <= kept
  BY KeptUpToBounds, Zenon DEF LastIndex
<1>3. /\ Len(new) \in Nat /\ new \in Seq(Entry)
      /\ \A x \in 1..kept : new[x] = es[x]
      /\ \A x \in (kept + 1)..Len(new) : x - prev \in 1..L /\ new[x] = me[x - prev]
  BY MergeEntries, Zenon
<1>4. /\ f \in Fact /\ n \in 1..Len(new) /\ f.entry = new[n]
      /\ f.prev = IF n = 1 THEN 0 ELSE new[n - 1].term
  BY <1>3, LogChain, Zenon DEF LogFact
<1>5. kept \in Nat /\ n \in Nat /\ prev <= kept /\ kept <= Len(es)
  <2> HIDE DEF kept, prev, n, es
  <2> QED BY <1>1, <1>2, <1>4
<1>6. CASE n <= kept
  <2>1. n \in 1..kept /\ n \in 1..Len(es) /\ (n # 1 => n - 1 \in 1..kept)
    <3> HIDE DEF kept, prev, n, es
    <3> QED BY <1>1, <1>4, <1>5, <1>6
  <2>2. f.entry = es[n] /\ f.prev = IF n = 1 THEN 0 ELSE es[n - 1].term
    BY <1>3, <1>4, <2>1, Zenon
  <2>3. LogFact(es, f)
    BY <1>4, <2>1, <2>2, Zenon DEF LogFact
  <2> QED BY <1>1, <2>3, LogChain, Zenon
<1>7. CASE kept < n
  <2>1. n \in (kept + 1)..Len(new)
    <3> HIDE DEF kept, n, new
    <3> QED BY <1>3, <1>4, <1>5, <1>7
  <2>2. n - prev \in 1..L /\ f.entry = me[n - prev]
    BY <1>3, <1>4, <2>1, Zenon
  <2>3. n \in (prev + 1)..(prev + L)
    <3> HIDE DEF prev, n, L
    <3> QED BY <1>1, <1>5, <2>2
  <2>4. f.prev = IF n = prev + 1 THEN m.prevLogTerm ELSE me[n - prev - 1].term
    <3>1. CASE kept + 1 < n
      <4>1. n - 1 \in (kept + 1)..Len(new) /\ n # 1 /\ n # prev + 1 /\ n - 1 - prev = n - prev - 1
        <5> HIDE DEF prev, n, kept, new
        <5> QED BY <1>1, <1>3, <1>4, <1>5, <3>1
      <4>2. new[n - 1] = me[n - 1 - prev]
        BY <1>3, <4>1, Zenon
      <4> QED BY <1>4, <4>1, <4>2, Zenon
    <3>2. CASE kept + 1 = n /\ kept = prev
      <4>1. n = prev + 1 /\ (n = 1 <=> prev = 0) /\ n - 1 = kept
        <5> HIDE DEF prev, n, kept
        <5> QED BY <1>1, <1>5, <3>2
      <4>2. TermAt(lg, prev) = m.prevLogTerm
        BY Zenon DEF PrevMatches
      <4>3. ~(prev < lg.base) /\ ~(prev > LastIndex(lg))
        <5> HIDE DEF prev, kept, es
        <5> QED BY <1>1, <1>2, <1>5, <3>2
      <4>4. m.prevLogTerm = IF prev = 0 THEN 0 ELSE es[prev].term
        BY <4>2, <4>3, Zenon DEF TermAt
      <4>5. prev # 0 => new[kept] = es[kept]
        <5>1. prev # 0 => kept \in 1..kept
          <6> HIDE DEF kept, prev
          <6> QED BY <1>1, <1>5
        <5> QED BY <1>3, <5>1, Zenon
      <4> QED BY <1>4, <3>2, <4>1, <4>4, <4>5, Zenon
    <3>3. CASE kept + 1 = n /\ kept > prev
      <4>1. n # prev + 1 /\ n # 1 /\ n - 1 = kept /\ kept \in 1..kept /\ n - prev - 1 = kept - prev
        <5> HIDE DEF prev, n, kept
        <5> QED BY <1>1, <1>5, <3>3
      <4>2. new[kept] = es[kept]
        BY <1>3, <4>1, Zenon
      <4>3. kept \in Nat /\ prev < kept /\ kept <= kept /\ kept <= prev + L /\ lg.base <= kept
        <5> HIDE DEF prev, n, kept, L
        <5> QED BY <1>1, <1>2, <1>5, <2>3, <3>3
      <4>4. es[kept].term = me[kept - prev].term
        BY <4>3, KeptAgrees, Zenon
      <4> QED BY <1>4, <4>1, <4>2, <4>4, Zenon
    <3> HIDE DEF prev, n, kept
    <3> QED BY <1>1, <1>5, <1>7, <3>1, <3>2, <3>3
  <2>5. f \in Chain(me, prev, m.prevLogTerm)
    BY <1>4, <2>2, <2>3, <2>4, Zenon DEF Chain
  <2> QED BY <1>1, <2>5, Zenon DEF Carries
<1> HIDE DEF n, kept
<1> QED BY <1>5, <1>6, <1>7

LEMMA KnownFrom ==
    ASSUME NEW K, Known \subseteq K,
           \A x \in Server : Chain(log'[x].entries, 0, 0) \subseteq K,
           \A l \in Links : \A y \in DOMAIN net'[l] :
             InTransit(l, net'[l][y]) \/ \A f \in Fact : Carries(net'[l][y], f) => f \in K,
           \A w \in elections' : w \in elections \/ Chain(w.log, 0, 0) \subseteq K
    PROVE  Known' \subseteq K
<1> SUFFICES ASSUME NEW f \in Known' PROVE f \in K
  BY Zenon
<1>1. f \in Fact
  BY Zenon DEF Known
<1>2. CASE \E i \in Server : f \in Chain(log'[i].entries, 0, 0)
  BY <1>2, Zenon
<1>3. ASSUME NEW l \in Links, NEW y \in DOMAIN net'[l], Carries(net'[l][y], f)
      PROVE  f \in K
  <2>1. CASE InTransit(l, net'[l][y])
    <3>1. PICK z \in DOMAIN net[l] : net[l][z] = net'[l][y]
      BY <2>1, Zenon DEF InTransit
    <3>2. Carries(net[l][z], f)
      BY <1>3, <3>1, Zenon
    <3>3. f \in Known
      BY <1>1, <3>2, Zenon DEF Known
    <3> QED BY <3>3, Zenon
  <2> QED BY <1>1, <1>3, <2>1, Zenon
<1>4. ASSUME NEW w \in elections', f \in Chain(w.log, 0, 0)
      PROVE  f \in K
  BY <1>1, <1>4, Zenon DEF Known
<1> QED BY <1>2, <1>3, <1>4, Zenon DEF Known

LEMMA OwnChain ==
    ASSUME NEW i \in Server
    PROVE  Chain(log[i].entries, 0, 0) \subseteq Known
<1>1. Chain(log[i].entries, 0, 0) \subseteq Fact
  BY Zenon DEF Chain
<1> QED BY <1>1, Zenon DEF Known

LEMMA KnownAfter ==
    ASSUME NEW K, Known \subseteq K, NEW i \in Server, OthersLogs(i), UNCHANGED elections,
           Chain(log'[i].entries, 0, 0) \subseteq K,
           \A l \in Links : \A y \in DOMAIN net'[l] :
             InTransit(l, net'[l][y]) \/ \A f \in Fact : Carries(net'[l][y], f) => f \in K
    PROVE  Known' \subseteq K
<1>1. ASSUME NEW x \in Server PROVE Chain(log'[x].entries, 0, 0) \subseteq K
  <2>1. CASE x # i
    <3>1. log'[x] = log[x]
      BY <2>1, Zenon DEF OthersLogs
    <3>2. Chain(log'[x].entries, 0, 0) = Chain(log[x].entries, 0, 0)
      BY <3>1, Zenon
    <3> QED BY <3>2, OwnChain, Zenon
  <2> QED BY <2>1, Zenon
<1>2. \A w \in elections' : w \in elections
  BY Zenon
<1> QED BY <1>1, <1>2, KnownFrom, Zenon

\* Only appends and snapshots carry facts.
LEMMA NoCarrier ==
    ASSUME NEW m, m.type # "AppendEntries", m.type # "InstallSnapshot", NEW f
    PROVE  ~Carries(m, f)
BY Zenon DEF Carries

LEMMA QuietKnown ==
    ASSUME NEW i \in Server, Quiet(i)
    PROVE  Known' \subseteq Known
<1>1. OthersLogs(i) /\ UNCHANGED elections /\ log'[i].entries = log[i].entries /\ PlainSent(i)
  BY Zenon DEF Quiet, Frame, LogBecomes
<1>2. Chain(log'[i].entries, 0, 0) \subseteq Known
  BY <1>1, OwnChain, Zenon
<1>3. \A m : Plain(m) => m.type # "AppendEntries" /\ m.type # "InstallSnapshot"
  BY DEF Plain
<1>4. \A l \in Links : \A y \in DOMAIN net'[l] :
        InTransit(l, net'[l][y]) \/ \A f \in Fact : Carries(net'[l][y], f) => f \in Known
  BY <1>1, <1>3, NoCarrier, Zenon DEF PlainSent
<1> QED BY <1>1, <1>2, <1>4, KnownAfter, Zenon

LEMMA RunsKnown ==
    ASSUME NEW i \in Server, Runs(i)
    PROVE  Known' \subseteq Known
<1> DEFINE m == RequestVoteMsg(currentTerm[i] + 1, log[i])
<1>1. OthersLogs(i) /\ UNCHANGED elections /\ log'[i].entries = log[i].entries /\ SentToAll(i, m)
  BY Zenon DEF Runs, Frame, LogBecomes
<1>2. Chain(log'[i].entries, 0, 0) \subseteq Known
  BY <1>1, OwnChain, Zenon
<1>3. m.type # "AppendEntries" /\ m.type # "InstallSnapshot"
  BY DEF RequestVoteMsg
<1> HIDE DEF m
<1>4. \A l \in Links : \A y \in DOMAIN net'[l] :
        InTransit(l, net'[l][y]) \/ \A f \in Fact : Carries(net'[l][y], f) => f \in Known
  BY <1>1, <1>3, NoCarrier, Zenon DEF SentToAll
<1> QED BY <1>1, <1>2, <1>4, KnownAfter, Zenon

LEMMA GrantsKnown ==
    ASSUME NEW i \in Server, NEW j, NEW q, Grants(i, j, q)
    PROVE  Known' \subseteq Known
<1> DEFINE m == VoteReply("RequestVoteResponse", q.term, TRUE)
<1>1. OthersLogs(i) /\ UNCHANGED elections /\ log'[i].entries = log[i].entries /\ SentTo(i, j, m)
  BY Zenon DEF Grants, Frame, LogBecomes
<1>2. Chain(log'[i].entries, 0, 0) \subseteq Known
  BY <1>1, OwnChain, Zenon
<1>3. m.type # "AppendEntries" /\ m.type # "InstallSnapshot"
  BY DEF VoteReply
<1> HIDE DEF m
<1>4. \A l \in Links : \A y \in DOMAIN net'[l] :
        InTransit(l, net'[l][y]) \/ \A f \in Fact : Carries(net'[l][y], f) => f \in Known
  BY <1>1, <1>3, NoCarrier, Zenon DEF SentTo
<1> QED BY <1>1, <1>2, <1>4, KnownAfter, Zenon

LEMMA CountsKnown ==
    ASSUME NEW i \in Server, NEW j, NEW m, Counts(i, j, m)
    PROVE  Known' \subseteq Known
<1>1. OthersLogs(i) /\ UNCHANGED elections /\ log'[i].entries = log[i].entries /\ NothingSent
  BY Zenon DEF Counts, Frame, LogBecomes
<1>2. Chain(log'[i].entries, 0, 0) \subseteq Known
  BY <1>1, OwnChain, Zenon
<1> QED BY <1>1, <1>2, KnownAfter, Zenon DEF NothingSent

LEMMA WinsKnown ==
    ASSUME TypeOK, NEW i \in Server, NEW t \in Nat, NEW voters, Wins(i, t, voters)
    PROVE  Known' \subseteq Known
<1> DEFINE m == AppendMsg(t, log[i], commitIndex[i], LastIndex(log[i]) + 1, 0, 0)
           e == [term |-> t, leader |-> i, voters |-> voters, log |-> log[i].entries]
<1>1. /\ OthersLogs(i) /\ log'[i].entries = log[i].entries /\ SentToAll(i, m)
      /\ elections' = elections \cup {e} /\ e.log = log[i].entries
  BY Zenon DEF Wins, Frame, LogBecomes
<1> HIDE DEF e
<1>2. ASSUME NEW x \in Server PROVE Chain(log'[x].entries, 0, 0) \subseteq Known
  <2>1. log'[x].entries = log[x].entries
    BY <1>1, Zenon DEF OthersLogs
  <2> QED BY <2>1, OwnChain, Zenon
<1>3. log[i] \in Log /\ commitIndex[i] \in Nat /\ LastIndex(log[i]) + 1 \in Nat \ {0} /\ 0 \in Nat
  <2>1. log[i] \in Log /\ commitIndex[i] \in Nat /\ LastIndex(log[i]) \in Nat
    BY LogFacts, Zenon DEF TypeOK
  <2> QED BY <2>1
<1>4. \A f \in Fact : Carries(m, f) => f \in Known
  BY <1>3, AppendCarries, OwnChain, Zenon
<1> HIDE DEF m
<1>5. \A l \in Links : \A y \in DOMAIN net'[l] :
        InTransit(l, net'[l][y]) \/ \A f \in Fact : Carries(net'[l][y], f) => f \in Known
  BY <1>1, <1>4, Zenon DEF SentToAll
<1>6. \A w \in elections' : w \in elections \/ Chain(w.log, 0, 0) \subseteq Known
  BY <1>1, OwnChain, Zenon
<1> QED BY <1>2, <1>5, <1>6, KnownFrom, Zenon

\* What the leader appends are new facts; what it has is known.
LEMMA LeadsChain ==
    ASSUME TypeOK, NEW i \in Server, NEW lg, Leads(i, lg), NEW f \in Chain(lg.entries, 0, 0)
    PROVE  f \in Chain(log[i].entries, 0, 0) \/ f \in NewFacts(i, lg)
<1> DEFINE es == log[i].entries
           n  == f.index
<1>1. /\ lg \in Log /\ lg.entries \in Seq(Entry) /\ es \in Seq(Entry) /\ Len(es) \in Nat
      /\ Len(lg.entries) \in Nat
  BY LogFacts, SeqLen, Zenon DEF Leads, TypeOK
<1>2. \A x \in 1..Len(lg.entries) : IF x <= Len(es) THEN lg.entries[x] = es[x]
                                    ELSE lg.entries[x].term = currentTerm[i]
  BY Zenon DEF Leads, LastIndex
<1>3. /\ f \in Fact /\ n \in 1..Len(lg.entries) /\ f.entry = lg.entries[n] /\ n \in Nat
      /\ f.prev = IF n = 1 THEN 0 ELSE lg.entries[n - 1].term
  <2>1. LogFact(lg.entries, f)
    BY <1>1, LogChain, Zenon
  <2> QED BY <2>1, Zenon DEF LogFact, Fact
<1>4. CASE n <= Len(es)
  <2>1. n \in 1..Len(es) /\ (n # 1 => n - 1 \in 1..Len(lg.entries) /\ n - 1 <= Len(es))
    <3> HIDE DEF n, es
    <3> QED BY <1>1, <1>3, <1>4
  <2>2. f.entry = es[n] /\ f.prev = IF n = 1 THEN 0 ELSE es[n - 1].term
    BY <1>2, <1>3, <1>4, <2>1, Zenon
  <2>3. LogFact(es, f)
    BY <1>3, <2>1, <2>2, Zenon DEF LogFact
  <2> QED BY <1>1, <2>3, LogChain, Zenon
<1>5. CASE ~(n <= Len(es))
  <2>1. f.entry.term = currentTerm[i]
    BY <1>2, <1>3, <1>5, Zenon
  <2>2. n > LastIndex(log[i])
    <3>1. LastIndex(log[i]) = Len(es)
      BY Zenon DEF LastIndex
    <3> HIDE DEF n, es
    <3> QED BY <1>1, <1>3, <1>5, <3>1
  <2> QED BY <2>1, <2>2, Zenon DEF NewFacts
<1> QED BY <1>4, <1>5, Zenon

LEMMA LeadsKnown ==
    ASSUME TypeOK, NEW i \in Server, NEW lg, Leads(i, lg)
    PROVE  Known' \subseteq Known \cup NewFacts(i, lg)
<1> DEFINE K == Known \cup NewFacts(i, lg)
<1>1. /\ OthersLogs(i) /\ UNCHANGED elections /\ log'[i].entries = lg.entries /\ lg \in Log
      /\ AppendSent(i, lg)
  BY Zenon DEF Leads, Frame, LogBecomes
<1>2. Known \subseteq K
  BY Zenon
<1>3. Chain(lg.entries, 0, 0) \subseteq K
  BY LeadsChain, OwnChain, Zenon
<1> HIDE DEF K
<1>4. ASSUME NEW l \in Links, NEW y \in DOMAIN net'[l], ~InTransit(l, net'[l][y]),
             NEW f \in Fact, Carries(net'[l][y], f)
      PROVE  f \in K
  <2>1. PICK next \in 1..nextIndex[i][l[2]], sent \in {0, sentIndex[i][l[2]]}, ctx \in Nat :
          net'[l][y] = AppendMsg(currentTerm[i], lg, commitIndex[i], next, sent, ctx)
    BY <1>1, <1>4, Zenon DEF AppendSent
  <2>2. l[2] \in Server
    BY LinkEnds, Zenon
  <2>3. nextIndex[i][l[2]] \in Nat /\ sentIndex[i][l[2]] \in Nat /\ currentTerm[i] \in Nat /\ commitIndex[i] \in Nat
    BY <2>2, Zenon DEF TypeOK
  <2>4. next \in Nat \ {0} /\ sent \in Nat
    BY <2>3
  <2>5. Carries(AppendMsg(currentTerm[i], lg, commitIndex[i], next, sent, ctx), f)
    BY <1>4, <2>1, Zenon
  <2>6. f \in Chain(lg.entries, 0, 0)
    BY <1>1, <2>3, <2>4, <2>5, AppendCarries, Zenon
  <2> QED BY <1>3, <2>6, Zenon
<1>5. \A l \in Links : \A y \in DOMAIN net'[l] :
        InTransit(l, net'[l][y]) \/ \A f \in Fact : Carries(net'[l][y], f) => f \in K
  BY <1>4, Zenon
<1>6. Chain(log'[i].entries, 0, 0) \subseteq K
  BY <1>1, <1>3, Zenon
<1>7. Known' \subseteq K
  BY <1>1, <1>2, <1>5, <1>6, KnownAfter, Zenon
<1> QED BY <1>7, Zenon DEF K

\* What a message in flight carries is known.
LEMMA CarriedKnown ==
    ASSUME NEW l \in Links, NEW m, InTransit(l, m), NEW f \in Fact, Carries(m, f)
    PROVE  f \in Known
<1>1. PICK y \in DOMAIN net[l] : net[l][y] = m
  BY Zenon DEF InTransit
<1>2. Carries(net[l][y], f)
  BY <1>1, Zenon
<1> QED BY <1>2, Zenon DEF Known

LEMMA FollowsKnown ==
    ASSUME TypeOK, NEW i \in Server, NEW j, NEW m, NEW es, Follows(i, j, m, es)
    PROVE  Known' \subseteq Known
<1> DEFINE new == Merge(log[i], m).entries
           r   == AppendReply(m.term, TRUE, m.prevLogIndex + Len(m.entries), m.readContext)
<1>1. /\ OthersLogs(i) /\ UNCHANGED elections /\ log'[i].entries = es /\ log[i] \in Log
      /\ <<j, i>> \in Links /\ InTransit(<<j, i>>, m) /\ m \in AppendRequest
      /\ PrevMatches(log[i], m) /\ ~CutsSnapshot(log[i], m)
  BY Zenon DEF Follows, Frame, LogBecomes, TypeOK
<1>2. Merge(log[i], m) \in Log /\ new \in Seq(Entry) /\ Len(new) \in Nat /\ KeptUpTo(log[i], m) \in Nat
  <2>1. KeptUpTo(log[i], m) \in m.prevLogIndex..LastIndex(log[i])
    BY <1>1, KeptUpToBounds, Zenon
  <2>2. m.prevLogIndex \in Nat /\ LastIndex(log[i]) \in Nat
    BY <1>1, LogFacts, Zenon DEF AppendRequest
  <2>3. KeptUpTo(log[i], m) \in Nat
    BY <2>1, <2>2
  <2> QED BY <1>1, <2>3, MergeType, LogFacts, SeqLen, Zenon
<1>3. Chain(new, 0, 0) \subseteq Known
  <2> SUFFICES ASSUME NEW f \in Chain(new, 0, 0) PROVE f \in Known
    BY Zenon
  <2>1. f \in Fact
    BY Zenon DEF Chain
  <2>2. f \in Chain(log[i].entries, 0, 0) \/ Carries(m, f)
    BY <1>1, MergeCarries, Zenon
  <2> QED BY <1>1, <2>1, <2>2, OwnChain, CarriedKnown, Zenon
<1>4. Chain(es, 0, 0) \subseteq Known
  <2>1. CASE es = new
    BY <1>3, <2>1, Zenon
  <2>2. ASSUME NEW n \in KeptUpTo(log[i], m)..LastIndex(Merge(log[i], m)), es = SubSeq(new, 1, n)
        PROVE  Chain(es, 0, 0) \subseteq Known
    <3>1. LastIndex(Merge(log[i], m)) = Len(new)
      BY Zenon DEF LastIndex
    <3>2. n \in 0..Len(new)
      <4> HIDE DEF new
      <4> QED BY <1>2, <3>1
    <3> QED BY <1>2, <1>3, <2>2, <3>2, PrefixChain, Zenon
  <2> QED BY <2>1, <2>2, Zenon DEF Follows
<1>5. r.type # "AppendEntries" /\ r.type # "InstallSnapshot"
  BY DEF AppendReply
<1>6. NothingSent \/ SentTo(i, j, r)
  BY Zenon DEF Follows
<1> HIDE DEF r
<1>7. \A l \in Links : \A y \in DOMAIN net'[l] :
        InTransit(l, net'[l][y]) \/ \A f \in Fact : Carries(net'[l][y], f) => f \in Known
  BY <1>5, <1>6, NoCarrier, Zenon DEF SentTo, NothingSent
<1> QED BY <1>1, <1>4, <1>7, KnownAfter, Zenon

LEMMA InstallsKnown ==
    ASSUME NEW i \in Server, NEW j, NEW m, Installs(i, j, m)
    PROVE  Known' \subseteq Known
<1>1. /\ OthersLogs(i) /\ UNCHANGED elections /\ log'[i].entries \in {log[i].entries, m.snapshot}
      /\ <<j, i>> \in Links /\ InTransit(<<j, i>>, m) /\ m \in SnapshotRequest
  BY Zenon DEF Installs, LogBecomes
<1>2. \A f \in Chain(m.snapshot, 0, 0) : f \in Fact /\ Carries(m, f)
  BY <1>1, Zenon DEF Carries, Chain, SnapshotRequest
<1>3. Chain(m.snapshot, 0, 0) \subseteq Known
  BY <1>1, <1>2, CarriedKnown, Zenon
<1>4. Chain(log'[i].entries, 0, 0) \subseteq Known
  BY <1>1, <1>3, OwnChain, Zenon
<1>5. \A m2 : m2.type = "InstallSnapshotResponse" => m2.type # "AppendEntries" /\ m2.type # "InstallSnapshot"
  OBVIOUS
<1>6. \A l \in Links : \A y \in DOMAIN net'[l] :
        InTransit(l, net'[l][y]) \/ \A f \in Fact : Carries(net'[l][y], f) => f \in Known
  BY <1>5, NoCarrier, Zenon DEF Installs
<1> QED BY <1>1, <1>4, <1>6, KnownAfter, Zenon

-----------------------------------------------------------------------------
(***************************************************************************)
(* What is on disk, and what is recorded as committed.                     *)
(***************************************************************************)
LEMMA RecordsKept ==
    ASSUME TypeOK, TypeOK', DiskHasLog, CommitRecorded, NEW i \in Server, OthersLogs(i),
           disk'[i].log.entries = log'[i].entries, BasesRecorded(i)',
           Len(committed) <= Len(committed'), commitIndex'[i] <= Len(committed')
    PROVE  DiskHasLog' /\ CommitRecorded'
<1>1. ASSUME NEW x \in Server
      PROVE  /\ disk'[x].log.entries = log'[x].entries
             /\ commitIndex'[x] <= Len(committed')
             /\ log'[x].base <= Len(committed') /\ disk'[x].log.base <= Len(committed')
  <2>1. CASE x = i
    BY <2>1, Zenon DEF BasesRecorded
  <2>2. CASE x # i
    <3>1. log'[x] = log[x] /\ disk'[x] = disk[x] /\ commitIndex'[x] = commitIndex[x]
      BY <2>2, Zenon DEF OthersLogs
    <3>2. /\ commitIndex[x] <= Len(committed) /\ log[x].base <= Len(committed)
          /\ disk[x].log.base <= Len(committed) /\ disk[x].log.entries = log[x].entries
      BY Zenon DEF DiskHasLog, CommitRecorded, BasesRecorded
    <3>3. commitIndex[x] \in Nat /\ log[x].base \in Nat /\ disk[x].log.base \in Nat
      BY LogFacts, Zenon DEF TypeOK
    <3>4. Len(committed) \in Nat /\ Len(committed') \in Nat
      BY SeqLen, Zenon DEF TypeOK
    <3>5. \A a, b, c \in Nat : a <= b /\ b <= c => a <= c
      OBVIOUS
    <3> QED BY <3>1, <3>2, <3>3, <3>4, <3>5, Zenon
  <2> QED BY <2>1, <2>2, Zenon
<1> QED BY <1>1, Zenon DEF DiskHasLog, CommitRecorded, BasesRecorded

LEMMA RecordedFrom ==
    ASSUME TypeOK, TypeOK', DiskHasLog, CommitRecorded, NEW i \in Server, Frame(i), NEW es, LogBecomes(i, es),
           CommitSame(i) \/ CommitForgotten(i)
    PROVE  DiskHasLog' /\ CommitRecorded'
<1>1. /\ OthersLogs(i) /\ disk'[i].log.entries = log'[i].entries /\ BasesRecorded(i)' /\ committed' = committed
      /\ commitIndex'[i] = commitIndex[i] \/ commitIndex'[i] = log'[i].base
  BY Zenon DEF Frame, LogBecomes, StaysWhole, CommitSame, CommitForgotten
<1>2. Len(committed) <= Len(committed')
  BY <1>1, SeqLen DEF TypeOK
<1>3. commitIndex'[i] <= Len(committed')
  BY <1>1, Zenon DEF CommitRecorded, BasesRecorded
<1> QED BY <1>1, <1>2, <1>3, RecordsKept, Zenon

LEMMA RecordedGrows ==
    ASSUME TypeOK, TypeOK', DiskHasLog, CommitRecorded, NEW i \in Server, Frame(i),
           NEW es \in Seq(Entry), LogBecomes(i, es), NEW ci \in Nat, CommitBecomes(i, es, ci),
           ci = commitIndex[i] \/ ci <= Len(es)
    PROVE  DiskHasLog' /\ CommitRecorded'
<1>1. /\ OthersLogs(i) /\ disk'[i].log.entries = log'[i].entries /\ BasesRecorded(i)'
      /\ commitIndex'[i] = ci
  BY Zenon DEF Frame, LogBecomes, StaysWhole, CommitBecomes
<1>2. committed' = Recorded(committed, es, ci)
  BY Zenon DEF CommitBecomes
<1>3. committed \in Seq(Entry) /\ (ci <= Len(es) \/ ci <= Len(committed))
  BY Zenon DEF TypeOK, CommitRecorded
<1>4. ci <= Len(committed') /\ Len(committed) <= Len(committed')
  BY <1>2, <1>3, CommittedGrows, Zenon
<1> QED BY <1>1, <1>4, RecordsKept, Zenon

\* The commit index stays, or moves to an entry of the leader's term that a
\* majority has acknowledged.
LEMMA AdvanceCommitIs ==
    ASSUME TypeOK, NEW i \in Server, NEW lg \in Log, NEW match
    PROVE  LET n == AdvanceCommit(i, lg, match)
           IN  \/ n = commitIndex[i]
               \/ /\ n \in (commitIndex[i] + 1)..LastIndex(lg) /\ TermAt(lg, n) = currentTerm[i]
                  /\ HasMajority({i} \cup {p \in Peers(i) : match[p] >= n})
<1> DEFINE ok == {n \in (commitIndex[i] + 1)..LastIndex(lg) :
                    /\ TermAt(lg, n) = currentTerm[i]
                    /\ HasMajority({i} \cup {p \in Peers(i) : match[p] >= n})}
<1>1. commitIndex[i] \in Nat /\ LastIndex(lg) \in Nat
  BY LogFacts, Zenon DEF TypeOK
<1>2. ok \in SUBSET (0..LastIndex(lg))
  BY <1>1
<1>3. AdvanceCommit(i, lg, match) =
        IF ok = {} THEN commitIndex[i] ELSE CHOOSE n \in ok : \A x \in ok : x <= n
  BY Zenon DEF AdvanceCommit
<1>4. CASE ok # {}
  <2> HIDE DEF ok
  <2>1. \E n \in ok : \A x \in ok : x <= n
    BY <1>1, <1>2, <1>4, LargestExists, Zenon
  <2>2. (CHOOSE n \in ok : \A x \in ok : x <= n) \in ok
    BY <2>1, Zenon
  <2>3. AdvanceCommit(i, lg, match) \in ok
    BY <1>3, <1>4, <2>2, Zenon
  <2> QED BY <2>3, Zenon DEF ok
<1> QED BY <1>3, <1>4, Zenon

LEMMA LeadsRecorded ==
    ASSUME TypeOK, TypeOK', DiskHasLog, CommitRecorded, NEW i \in Server, NEW lg, Leads(i, lg)
    PROVE  DiskHasLog' /\ CommitRecorded'
<1> DEFINE ci == AdvanceCommit(i, lg, matchIndex[i])
<1>1. /\ Frame(i) /\ LogBecomes(i, lg.entries) /\ lg \in Log
      /\ CommitSame(i) \/ CommitBecomes(i, lg.entries, ci)
  BY Zenon DEF Leads
<1>2. ci \in Nat /\ lg.entries \in Seq(Entry)
  BY <1>1, AdvanceCommitType, LogFacts, Zenon
<1>3. ci = commitIndex[i] \/ ci \in (commitIndex[i] + 1)..LastIndex(lg)
  BY <1>1, AdvanceCommitIs, Zenon
<1> HIDE DEF ci
<1>4. ci = commitIndex[i] \/ ci <= Len(lg.entries)
  BY <1>3 DEF LastIndex, TypeOK
<1> QED BY <1>1, <1>2, <1>4, RecordedFrom, RecordedGrows, Zenon

LEMMA CountsRecorded ==
    ASSUME TypeOK, TypeOK', DiskHasLog, CommitRecorded, NEW i \in Server, NEW j, NEW m, Counts(i, j, m)
    PROVE  DiskHasLog' /\ CommitRecorded'
<1> DEFINE ci == AdvanceCommit(i, log[i], matchIndex'[i])
<1>1. /\ Frame(i) /\ LogBecomes(i, log[i].entries) /\ log[i] \in Log
      /\ CommitBecomes(i, log[i].entries, ci)
  BY Zenon DEF Counts, TypeOK
<1>2. ci \in Nat /\ log[i].entries \in Seq(Entry)
  BY <1>1, AdvanceCommitType, LogFacts, Zenon
<1>3. ci = commitIndex[i] \/ ci \in (commitIndex[i] + 1)..LastIndex(log[i])
  BY <1>1, AdvanceCommitIs, Zenon
<1> HIDE DEF ci
<1>4. ci = commitIndex[i] \/ ci <= Len(log[i].entries)
  BY <1>3 DEF LastIndex, TypeOK
<1> QED BY <1>1, <1>2, <1>4, RecordedGrows, Zenon

LEMMA FollowsRecorded ==
    ASSUME TypeOK, TypeOK', DiskHasLog, CommitRecorded, NEW i \in Server, NEW j, NEW m,
           NEW es \in Seq(Entry), Follows(i, j, m, es)
    PROVE  DiskHasLog' /\ CommitRecorded'
<1> DEFINE lg == Merge(log[i], m)
           ci == CommitAfter(commitIndex[i], lg, m)
<1>1. /\ Frame(i) /\ LogBecomes(i, es) /\ m \in AppendRequest /\ log[i] \in Log
      /\ PrevMatches(log[i], m) /\ ~CutsSnapshot(log[i], m)
      /\ CommitForgotten(i) \/ (es = lg.entries /\ CommitBecomes(i, es, ci))
  BY Zenon DEF Follows, TypeOK
<1>2. lg \in Log
  BY <1>1, MergeType, Zenon
<1> HIDE DEF lg
<1>3. ci = commitIndex[i] \/ ci = Min(m.leaderCommit, LastIndex(lg))
  BY Zenon DEF CommitAfter
<1>4. m.leaderCommit \in Nat /\ LastIndex(lg) \in Nat /\ commitIndex[i] \in Nat
  BY <1>1, <1>2, LogFacts, Zenon DEF AppendRequest, TypeOK
<1> HIDE DEF ci
<1>5. ci \in Nat /\ (ci = commitIndex[i] \/ ci <= LastIndex(lg))
  BY <1>3, <1>4 DEF Min
<1> QED BY <1>1, <1>5, RecordedFrom, RecordedGrows, Zenon DEF LastIndex

LEMMA InstallsRecorded ==
    ASSUME TypeOK, TypeOK', DiskHasLog, CommitRecorded, NEW i \in Server, NEW j, NEW m, Installs(i, j, m)
    PROVE  DiskHasLog' /\ CommitRecorded'
<1>1. /\ OthersLogs(i) /\ disk'[i].log.entries = log'[i].entries /\ BasesRecorded(i)'
      /\ Len(committed) <= Len(committed') /\ commitIndex'[i] <= Len(committed')
  BY Zenon DEF Installs, LogBecomes
<1> QED BY <1>1, RecordsKept, Zenon

-----------------------------------------------------------------------------
(***************************************************************************)
(* The invariant.                                                          *)
(***************************************************************************)
LEMMA KnownFacts == Known \subseteq Fact
BY Zenon DEF Known

LEMMA FactsNext ==
    ASSUME FactInvNext(Known')
    PROVE  FactInv(Known)'
<1>1. /\ \A f, g \in Known' : f.index = g.index /\ f.entry.term = g.entry.term
                                => f.entry = g.entry /\ f.prev = g.prev
      /\ \A f \in Known' : \E w \in elections' : w.term = f.entry.term
      /\ \A x \in Server, f \in Known' :
           role'[x] = Leader /\ f.entry.term = currentTerm'[x] => f.index <= LastIndex(log'[x])
  BY Zenon DEF FactInvNext
<1> QED BY <1>1, Zenon DEF FactInv

LEMMA SteadyLogs ==
    ASSUME LogInv, TypeOK', Steady, Known' \subseteq Known
    PROVE  ElectionInv' /\ FactInv(Known)'
<1>1. TypeOK /\ ElectionInv /\ FactInv(Known)
  BY Zenon DEF LogInv, VoteInv
<1>2. FactInvNext(Known')
  BY <1>1, KnownFacts, FactsKept, Zenon
<1> QED BY <1>1, <1>2, FactsNext, SteadyElections, Zenon

LEMMA LogKept ==
    ASSUME LogInv, TypeOK', ElectionSafety', AnyKind
    PROVE  DiskHasLog' /\ CommitRecorded' /\ ElectionInv' /\ FactInv(Known)'
<1>1. TypeOK /\ DiskHasLog /\ CommitRecorded /\ ElectionInv /\ FactInv(Known)
  BY Zenon DEF LogInv, VoteInv
<1>2. ASSUME NEW i \in Server, Quiet(i)
      PROVE  DiskHasLog' /\ CommitRecorded' /\ ElectionInv' /\ FactInv(Known)'
  <2>1. DiskHasLog' /\ CommitRecorded'
    BY <1>1, <1>2, RecordedFrom, Zenon DEF Quiet
  <2> QED BY <1>1, <1>2, <2>1, QuietSteady, QuietKnown, SteadyLogs, Zenon
<1>3. ASSUME NEW i \in Server, Runs(i)
      PROVE  DiskHasLog' /\ CommitRecorded' /\ ElectionInv' /\ FactInv(Known)'
  <2>1. DiskHasLog' /\ CommitRecorded'
    BY <1>1, <1>3, RecordedFrom, Zenon DEF Runs
  <2> QED BY <1>1, <1>3, <2>1, RunsSteady, RunsKnown, SteadyLogs, Zenon
<1>4. ASSUME NEW i \in Server, NEW j \in Server, NEW m \in Message, Grants(i, j, m)
      PROVE  DiskHasLog' /\ CommitRecorded' /\ ElectionInv' /\ FactInv(Known)'
  <2>1. DiskHasLog' /\ CommitRecorded'
    BY <1>1, <1>4, RecordedFrom, Zenon DEF Grants
  <2> QED BY <1>1, <1>4, <2>1, GrantsSteady, GrantsKnown, SteadyLogs, Zenon
<1>5. ASSUME NEW i \in Server, NEW t \in Nat, NEW voters \in SUBSET Server, Wins(i, t, voters)
      PROVE  DiskHasLog' /\ CommitRecorded' /\ ElectionInv' /\ FactInv(Known)'
  <2>1. DiskHasLog' /\ CommitRecorded'
    BY <1>1, <1>5, RecordedFrom, Zenon DEF Wins
  <2>2. FactInvNext(Known')
    BY <1>1, <1>5, WinsKnown, KnownFacts, FactsWon, Zenon
  <2> QED BY <1>1, <1>5, <2>1, <2>2, FactsNext, WinsElections, Zenon
<1>6. ASSUME NEW i \in Server, NEW lg \in Log, Leads(i, lg)
      PROVE  DiskHasLog' /\ CommitRecorded' /\ ElectionInv' /\ FactInv(Known)'
  <2>1. DiskHasLog' /\ CommitRecorded'
    BY <1>1, <1>6, LeadsRecorded, Zenon
  <2>2. FactInvNext(Known')
    <3> DEFINE K == Known
               J == Known'
    <3>1. K \in SUBSET Fact /\ FactInv(K) /\ J \in SUBSET (K \cup NewFacts(i, lg))
      BY <1>1, <1>6, LeadsKnown, KnownFacts, Zenon
    <3> HIDE DEF K, J
    <3>2. FactInvNext(J)
      BY <1>1, <1>6, <3>1, FactsGrow, Zenon
    <3> QED BY <3>2, Zenon DEF J
  <2>3. ElectionInv'
    BY <1>1, <1>6, LeadsSteady, SteadyElections, Zenon
  <2> QED BY <2>1, <2>2, <2>3, FactsNext, Zenon
<1>7. ASSUME NEW i \in Server, NEW j \in Server, NEW m \in Message, Counts(i, j, m)
      PROVE  DiskHasLog' /\ CommitRecorded' /\ ElectionInv' /\ FactInv(Known)'
  BY <1>1, <1>7, CountsRecorded, CountsSteady, CountsKnown, SteadyLogs, Zenon
<1>8. ASSUME NEW i \in Server, NEW j \in Server, NEW m \in Message, NEW es \in Seq(Entry), Follows(i, j, m, es)
      PROVE  DiskHasLog' /\ CommitRecorded' /\ ElectionInv' /\ FactInv(Known)'
  BY <1>1, <1>8, FollowsRecorded, FollowsSteady, FollowsKnown, SteadyLogs, Zenon
<1>9. ASSUME NEW i \in Server, NEW j \in Server, NEW m \in Message, Installs(i, j, m)
      PROVE  DiskHasLog' /\ CommitRecorded' /\ ElectionInv' /\ FactInv(Known)'
  BY <1>1, <1>9, InstallsRecorded, InstallsSteady, InstallsKnown, SteadyLogs, Zenon
<1> QED BY <1>2, <1>3, <1>4, <1>5, <1>6, <1>7, <1>8, <1>9, Zenon DEF AnyKind

Consistent(K) ==
    \A f, g \in K : f.index = g.index /\ f.entry.term = g.entry.term
                      => f.entry = g.entry /\ f.prev = g.prev

\* The fact that a log's entry at index y is.
FactAt(es, y) == [index |-> y, entry |-> es[y], prev |-> IF y = 1 THEN 0 ELSE es[y - 1].term]

LEMMA FactInChain ==
    ASSUME NEW es \in Seq(Entry), NEW y \in Nat, y \in 1..Len(es)
    PROVE  /\ FactAt(es, y) \in Chain(es, 0, 0)
           /\ FactAt(es, y).index = y /\ FactAt(es, y).entry = es[y]
           /\ FactAt(es, y).prev = IF y = 1 THEN 0 ELSE es[y - 1].term
<1>1. y # 1 => y - 1 \in 1..Len(es)
  BY SeqLen
<1>2. es[y] \in Entry /\ (y # 1 => es[y - 1] \in Entry)
  BY <1>1, SeqElement, Zenon
<1>3. (IF y = 1 THEN 0 ELSE es[y - 1].term) \in Nat
  BY <1>2 DEF Entry
<1>4. FactAt(es, y) \in Fact
  BY <1>2, <1>3, Zenon DEF Fact, FactAt
<1>5. /\ FactAt(es, y).index = y /\ FactAt(es, y).entry = es[y]
      /\ FactAt(es, y).prev = IF y = 1 THEN 0 ELSE es[y - 1].term
  BY Zenon DEF FactAt
<1>6. LogFact(es, FactAt(es, y))
  BY <1>4, <1>5, Zenon DEF LogFact
<1> QED BY <1>5, <1>6, LogChain, Zenon

\* Entries of one index and term in two runs of known facts agree, and so do
\* all the entries before them.
LEMMA ChainsAgree ==
    ASSUME NEW K, Consistent(K), NEW es \in Seq(Entry), NEW fs \in Seq(Entry),
           Chain(es, 0, 0) \subseteq K, Chain(fs, 0, 0) \subseteq K,
           NEW n \in Nat, n \in 1..Len(es), n \in 1..Len(fs), es[n].term = fs[n].term,
           NEW x \in 1..n
    PROVE  es[x] = fs[x]
<1>1. \A y \in 1..n : y \in Nat /\ y \in 1..Len(es) /\ y \in 1..Len(fs) /\ (y # 1 => y - 1 \in 1..n)
  BY SeqLen
<1>3. ASSUME NEW y \in 1..n, es[y].term = fs[y].term
      PROVE  es[y] = fs[y] /\ (y # 1 => es[y - 1].term = fs[y - 1].term)
  <2>1. y \in Nat /\ y \in 1..Len(es) /\ y \in 1..Len(fs)
    BY <1>1, Zenon
  <2>3. /\ FactAt(es, y) \in K /\ FactAt(es, y).index = y /\ FactAt(es, y).entry = es[y]
        /\ FactAt(es, y).prev = IF y = 1 THEN 0 ELSE es[y - 1].term
    BY <2>1, FactInChain, Zenon
  <2>4. /\ FactAt(fs, y) \in K /\ FactAt(fs, y).index = y /\ FactAt(fs, y).entry = fs[y]
        /\ FactAt(fs, y).prev = IF y = 1 THEN 0 ELSE fs[y - 1].term
    BY <2>1, FactInChain, Zenon
  <2>5. FactAt(es, y).index = FactAt(fs, y).index /\ FactAt(es, y).entry.term = FactAt(fs, y).entry.term
    BY <1>3, <2>3, <2>4, Zenon
  <2>6. FactAt(es, y).entry = FactAt(fs, y).entry /\ FactAt(es, y).prev = FactAt(fs, y).prev
    BY <2>3, <2>4, <2>5, Zenon DEF Consistent
  <2>7. es[y] = fs[y]
    BY <2>3, <2>4, <2>6, Zenon
  <2>8. y # 1 => es[y - 1].term = fs[y - 1].term
    BY <2>3, <2>4, <2>6, Zenon
  <2> QED BY <2>7, <2>8, Zenon
<1> DEFINE T == {y \in 1..n : es[y].term # fs[y].term}
<1>4. T = {}
  <2> SUFFICES ASSUME T # {} PROVE FALSE
    BY Zenon
  <2>1. T \in SUBSET (0..n)
    OBVIOUS
  <2>2. PICK z \in T : \A y \in T : y <= z
    BY <2>1, LargestExists, Zenon
  <2>3. z \in 1..n /\ es[z].term # fs[z].term
    BY Zenon
  <2>4. z # n /\ z + 1 \in 1..n /\ ~(z + 1 <= z) /\ z + 1 # 1 /\ z + 1 - 1 = z
    <3>1. z # n
      BY <2>3, Zenon
    <3> QED BY <2>3, <3>1
  <2>5. z + 1 \notin T
    BY <2>2, <2>4, Zenon
  <2>6. es[z + 1].term = fs[z + 1].term
    BY <2>4, <2>5, Zenon
  <2>7. es[z].term = fs[z].term
    <3> DEFINE u == z + 1
    <3>1. u \in 1..n /\ u # 1 /\ es[u].term = fs[u].term
      BY <2>4, <2>6, Zenon
    <3> HIDE DEF u
    <3>2. es[u - 1].term = fs[u - 1].term
      BY <1>3, <3>1, Zenon
    <3>3. u - 1 = z
      BY <2>3 DEF u
    <3> QED BY <3>2, <3>3, Zenon
  <2> QED BY <2>3, <2>7, Zenon
<1>5. es[x].term = fs[x].term
  BY <1>4, Zenon
<1> QED BY <1>3, <1>5, Zenon

LEMMA LogsAgree == LogInv => LogMatching
<1> SUFFICES ASSUME LogInv, NEW i \in Server, NEW j \in Server,
                    NEW n \in 1..Min(LastIndex(log[i]), LastIndex(log[j])),
                    log[i].entries[n].term = log[j].entries[n].term, NEW x \in 1..n
             PROVE  log[i].entries[x] = log[j].entries[x]
  BY Zenon DEF LogMatching
<1> DEFINE es == log[i].entries
           fs == log[j].entries
<1>1. /\ es \in Seq(Entry) /\ fs \in Seq(Entry) /\ LastIndex(log[i]) = Len(es) /\ LastIndex(log[j]) = Len(fs)
      /\ Len(es) \in Nat /\ Len(fs) \in Nat
  BY LogFacts, Zenon DEF LogInv, VoteInv, TypeOK, LastIndex
<1>2. Chain(es, 0, 0) \subseteq Known /\ Chain(fs, 0, 0) \subseteq Known /\ Consistent(Known)
  BY OwnChain, Zenon DEF LogInv, FactInv, Consistent
<1>3. n \in Nat /\ n \in 1..Len(es) /\ n \in 1..Len(fs)
  <2> HIDE DEF es, fs
  <2> QED BY <1>1 DEF Min
<1> QED BY <1>1, <1>2, <1>3, ChainsAgree, Zenon

=============================================================================
