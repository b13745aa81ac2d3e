------------------------------- MODULE MCRaft -------------------------------
(***************************************************************************)
(* Raft for TLC.                                                           *)
(***************************************************************************)
EXTENDS Raft, TLC

CONSTANTS
    FewInFlight,   \* bound: messages in flight in the whole cluster,
    MaxInFlight    \* and the same from term 3 on

Symmetry == Permutations(Server)

\* States that differ only in values no step reads any more are one state to
\* TLC: the tallies of a poll that is over, the progress of a leader that
\* stepped down, the hint leaderID, the log a leader was elected with.
Live(f, roles, dead) == [i \in Server |-> IF role[i] \in roles THEN f[i] ELSE dead]

View ==
    <<role, currentTerm, votedFor,
      Live(preVotesReceived, {PreCandidate}, {}),
      Live(votesReceived, {Candidate, Leader}, {}),
      Live(nextIndex, {Leader}, Nil), Live(matchIndex, {Leader}, Nil),
      Live(sentIndex, {Leader}, Nil), Live(pendingReads, {Leader}, {}),
      nextReadCtx, readStates, log, commitIndex, disk, net, timeouts, faults,
      {<<e.term, e.leader, e.voters>> : e \in elections}, committed>>

-----------------------------------------------------------------------------
(***************************************************************************)
(* Starting states.  Each is one the cluster reaches from Init; the runs   *)
(* that start there look at what happens next.                             *)
(***************************************************************************)
LogOf(terms) ==
    [base |-> 0,
     entries |-> [n \in 1..Len(terms) |-> [term |-> terms[n], data |-> CHOOSE v \in Value : TRUE]]]

\* What is left of the bounds: a counter starts at its bound less that.
Left(reads, elects, breaks) ==
    /\ nextReadCtx = [i \in Server |-> MaxReads - reads + 1]
    /\ timeouts = MaxTimeouts - elects
    /\ faults = MaxFaults - breaks

AllLeft == Left(MaxReads, MaxTimeouts, MaxFaults)

\* Every process has just been restarted: only what its disk holds is left.
Recovered(d) ==
    /\ role = [i \in Server |-> Follower]
    /\ disk = d
    /\ currentTerm = [i \in Server |-> d[i].term]
    /\ votedFor = [i \in Server |-> d[i].vote]
    /\ log = [i \in Server |-> d[i].log]
    /\ commitIndex = [i \in Server |-> d[i].log.base]
    /\ leaderID = [i \in Server |-> Nil]
    /\ preVotesReceived = [i \in Server |-> {}]
    /\ votesReceived = [i \in Server |-> {}]
    /\ nextIndex = [i \in Server |-> [p \in Server |-> 1]]
    /\ matchIndex = [i \in Server |-> [p \in Server |-> 0]]
    /\ sentIndex = [i \in Server |-> [p \in Server |-> 0]]
    /\ pendingReads = [i \in Server |-> {}]
    /\ readStates = {}
    /\ net = [l \in Links |-> <<>>]

\* Nothing has happened yet: Init, but for the bounds.
FreshInit ==
    /\ Recovered([i \in Server |-> [term |-> 0, vote |-> Nil, log |-> EmptyLog]])
    /\ elections = {}
    /\ committed = <<>>

\* a leads, elected by b, with nothing in flight.  The nodes are in
\* the given terms, with the votes vote and the logs lg; ci and match are the
\* commit indices and what the followers have acknowledged, next is nextIndex.
Leads(a, b, terms, vote, lg, ci, match, next) ==
    /\ role = [i \in Server |-> IF i = a THEN Leader ELSE Follower]
    /\ disk = [i \in Server |-> [term |-> terms[i], vote |-> vote[i], log |-> lg[i]]]
    /\ currentTerm = terms
    /\ votedFor = vote
    /\ log = lg
    /\ commitIndex = ci
    /\ leaderID = [i \in Server |-> IF terms[i] = terms[a] THEN a ELSE Nil]
    /\ preVotesReceived = [i \in Server |-> {}]
    /\ votesReceived = [i \in Server |-> IF i = a THEN {a, b} ELSE {}]
    /\ nextIndex = [i \in Server |-> [p \in Server |-> IF i = a THEN next[p] ELSE 1]]
    /\ matchIndex = [i \in Server |-> [p \in Server |-> IF i = a THEN match[p] ELSE 0]]
    /\ sentIndex = [i \in Server |-> [p \in Server |-> IF i = a /\ p # a THEN next[p] - 1 ELSE 0]]
    /\ pendingReads = [i \in Server |-> {}]
    /\ readStates = {}
    /\ net = [l \in Links |-> <<>>]

\* a won term t with b's vote and the log lg.
Elected(a, b, t, lg) == [term |-> t, leader |-> a, voters |-> {a, b}, log |-> lg.entries]

\* Leader of term 1 with the third vote coming in late.
Led(a, b, lg, ci, match) ==
    /\ Leads(a, b, [i \in Server |-> 1], [i \in Server |-> a], lg, ci, match,
             [p \in Server |-> match[p] + 1])
    /\ elections = {Elected(a, b, 1, EmptyLog)}
    /\ committed = SubSeq(lg[a].entries, 1, ci[a])

\* The first leader is elected, but one node has not heard of its term.
UnheardInit ==
    \E a, b, c \in Server :
        /\ Cardinality({a, b, c}) = 3
        /\ Leads(a, b, (a :> 1) @@ (b :> 1) @@ (c :> 0), (a :> a) @@ (b :> a) @@ (c :> Nil),
                 [i \in Server |-> EmptyLog], [i \in Server |-> 0], [i \in Server |-> 0],
                 [p \in Server |-> 1])
        /\ elections = {Elected(a, b, 1, EmptyLog)}
        /\ committed = <<>>

\* a and c have led terms 1 and 2 (in some order) with b's vote and appended
\* entries nobody received.  a leads again, in term 3; its first appends were
\* lost, and c has adopted the term.
DivergedInit ==
    \E a, b, c \in Server : \E ours, theirs \in {<<1, 1>>, <<2>>} :
        /\ Cardinality({a, b, c}) = 3
        /\ ours[1] # theirs[1]
        /\ Leads(a, b, [i \in Server |-> 3], (a :> a) @@ (b :> a) @@ (c :> Nil),
                 (a :> LogOf(ours)) @@ (b :> EmptyLog) @@ (c :> LogOf(theirs)),
                 [i \in Server |-> 0], [i \in Server |-> 0],
                 [p \in Server |-> Len(ours) + 1])
        /\ elections = {Elected(a, b, ours[1], EmptyLog), Elected(c, b, theirs[1], EmptyLog),
                        Elected(a, b, 3, LogOf(ours))}
        /\ committed = <<>>

\* The leader has just been elected, all logs are empty.
ElectedInit ==
    \E l \in Links : Led(l[1], l[2], [i \in Server |-> EmptyLog],
                          [i \in Server |-> 0], [i \in Server |-> 0])

ElectedStart == ElectedInit /\ AllLeft

ElectedSpec == ElectedStart /\ [][Next]_vars

\* One entry is everywhere; only the leader knows that it is committed.
SettledInit ==
    \E l \in Links : Led(l[1], l[2], [i \in Server |-> LogOf(<<1>>)],
                          [i \in Server |-> IF i = l[1] THEN 1 ELSE 0],
                          [i \in Server |-> IF i = l[1] THEN 0 ELSE 1])

SettledStart == SettledInit /\ AllLeft

SettledSpec == SettledStart /\ [][Next]_vars

\* Two entries are everywhere and committed; the leader and one follower have
\* compacted them, the other follower has not been told yet.
CompactedInit ==
    \E l \in Links :
        LET a == l[1]
            b == l[2]
        IN  Led(a, b, [i \in Server |-> [LogOf(<<1, 1>>) EXCEPT !.base = IF i = b THEN 0 ELSE 2]],
                [i \in Server |-> IF i = b THEN 0 ELSE 2],
                [i \in Server |-> IF i = a THEN 0 ELSE 2])

CompactedStart == CompactedInit /\ AllLeft

CompactedSpec == CompactedStart /\ [][Next]_vars

\* The settled cluster's leader a has been cut off: c leads the next term with
\* b's vote, and all that a will still hear is b's answer to its last heartbeat.
DeposedInit ==
    \E a, b, c \in Server :
        /\ Cardinality({a, b, c}) = 3
        /\ role = [i \in Server |-> IF i = b THEN Follower ELSE Leader]
        /\ currentTerm = [i \in Server |-> IF i = a THEN 2 ELSE 3]
        /\ votedFor = (a :> a) @@ (b :> c) @@ (c :> c)
        /\ log = [i \in Server |-> LogOf(<<2>>)]
        /\ disk = [i \in Server |-> [term |-> currentTerm[i], vote |-> votedFor[i], log |-> log[i]]]
        /\ commitIndex = [i \in Server |-> IF i = a THEN 1 ELSE 0]
        /\ leaderID = (a :> a) @@ (b :> c) @@ (c :> c)
        /\ preVotesReceived = [i \in Server |-> {}]
        /\ votesReceived = (a :> {a, b}) @@ (b :> {}) @@ (c :> {b, c})
        /\ nextIndex = [i \in Server |-> [p \in Server |-> IF i = b THEN 1 ELSE 2]]
        /\ matchIndex = [i \in Server |-> [p \in Server |-> IF i = a /\ p # a THEN 1 ELSE 0]]
        /\ sentIndex = [i \in Server |-> [p \in Server |-> IF i # b /\ p # i THEN 1 ELSE 0]]
        /\ pendingReads = [i \in Server |-> {}]
        /\ readStates = {}
        /\ net = [l \in Links |-> IF l = <<b, a>> THEN <<AppendReply(2, TRUE, 1, 0)>> ELSE <<>>]
        /\ elections = {Elected(a, b, 2, EmptyLog), Elected(c, b, 3, log[c])}
        /\ committed = log[a].entries

\* Several starts in one run, each with the bounds it is about.
ScenarioStart ==
    \/ FreshInit /\ Left(0, 2, 0)
    \/ UnheardInit /\ Left(0, 1, 1)
    \/ DivergedInit /\ Left(0, 1, 0)
    \/ DeposedInit /\ Left(1, 0, 0)

ScenarioSpec == ScenarioStart /\ [][Next]_vars

InFlight == UNION {{l} \X DOMAIN net[l] : l \in Links}

\* More in flight is left out.  A bound per connection alone would leave the two
\* ends of a busy one waiting for each other.
Bound ==
    Cardinality(InFlight) <=
        IF \E i \in Server : currentTerm[i] >= 3 THEN MaxInFlight ELSE FewInFlight

-----------------------------------------------------------------------------
(***************************************************************************)
(* A stable leader: no election timeout fires, and the heartbeat interval  *)
(* is longer than a round trip, so a heartbeat finds the connections idle. *)
(* Timers fire, and a message that was not lost is handled.                *)
(***************************************************************************)
IdleHeartbeat(i) ==
    /\ \A p \in Peers(i) : net[<<i, p>>] = <<>> /\ net[<<p, i>>] = <<>>
    /\ Heartbeat(i)
    /\ UNCHANGED boundVars

StableNext ==
    \/ \E i \in Server : IdleHeartbeat(i) \/ (IdleTick(i) /\ UNCHANGED boundVars)
    \/ (Request \/ \E l \in Links : Deliver(l)) /\ UNCHANGED boundVars
    \/ Fault /\ faults < MaxFaults /\ faults' = faults + 1 /\ UNCHANGED timeouts

StableStart == (ElectedInit \/ DivergedInit) /\ AllLeft

StableLeaderSpec ==
    /\ StableStart
    /\ [][StableNext]_vars
    /\ \A i \in Server : WF_vars(IdleHeartbeat(i))
    /\ \A l \in Links : WF_vars(Deliver(l) /\ UNCHANGED boundVars)

=============================================================================
