----------------------------- MODULE RaftFacts ------------------------------
(***************************************************************************)
(* Facts about numbers, sequences, and the operators and messages of Raft  *)
(* that the proofs about it cite, for every cluster and every bound.       *)
(***************************************************************************)
EXTENDS Raft, TLAPS, WellFoundedInduction, FiniteSetTheorems

LessThan == {ss \in Nat \X Nat : ss[1] < ss[2]}

\* Every nonempty set of naturals has a least element: the first conflict of an
\* append exists.
LEMMA SmallestExists ==
    ASSUME NEW T \in SUBSET Nat, T # {}
    PROVE  \E x \in T : \A y \in T : x <= y
<1>1. IsWellFoundedOn(LessThan, Nat)
  BY NatLessThanWellFounded DEF OpToRel, LessThan
<1>2. PICK x \in T : \A y \in T : ~ (<<y, x>> \in LessThan)
  BY <1>1, WFMin, Zenon
<1>3. ASSUME NEW y \in T PROVE x <= y
  <2>1. <<y, x>> \in Nat \X Nat
    OBVIOUS
  <2>2. ~(y < x)
    BY <1>2, <2>1 DEF LessThan
  <2> QED BY <2>2
<1> QED BY <1>3

\* Every nonempty set of naturals below a bound has a greatest element: the
\* highest index a majority holds exists.
LEMMA LargestExists ==
    ASSUME NEW b \in Nat, NEW T \in SUBSET (0..b), T # {}
    PROVE  \E x \in T : \A y \in T : y <= x
<1> DEFINE U == {b - y : y \in T}
<1>1. \A y \in T : b - y \in Nat
  OBVIOUS
<1>2. U \in SUBSET Nat
  BY <1>1
<1>3. U # {}
  BY Zenon
<1>4. PICK u \in U : \A w \in U : u <= w
  BY <1>2, <1>3, SmallestExists, Zenon
<1>5. PICK x \in T : u = b - x
  BY <1>4
<1>6. ASSUME NEW y \in T PROVE y <= x
  <2>1. b - y \in U
    OBVIOUS
  <2>2. u <= b - y
    BY <1>4, <2>1
  <2>3. b \in Nat /\ x \in 0..b /\ y \in 0..b
    BY Zenon
  <2> QED BY <1>5, <2>2, <2>3
<1> QED BY <1>6

-----------------------------------------------------------------------------
LEMMA SeqLen ==
    ASSUME NEW S, NEW s \in Seq(S)
    PROVE  Len(s) \in Nat /\ DOMAIN s = 1..Len(s)
OBVIOUS

LEMMA SeqElement ==
    ASSUME NEW S, NEW s \in Seq(S), NEW n \in 1..Len(s)
    PROVE  s[n] \in S
OBVIOUS

LEMMA SeqAppend ==
    ASSUME NEW S, NEW s \in Seq(S), NEW e \in S
    PROVE  /\ Append(s, e) \in Seq(S)
           /\ Len(Append(s, e)) = Len(s) + 1
           /\ \A n \in 1..Len(s) : Append(s, e)[n] = s[n]
           /\ Append(s, e)[Len(s) + 1] = e
OBVIOUS

LEMMA SeqConcat ==
    ASSUME NEW S, NEW s \in Seq(S), NEW t \in Seq(S)
    PROVE  /\ s \o t \in Seq(S)
           /\ Len(s \o t) = Len(s) + Len(t)
           /\ \A n \in 1..(Len(s) + Len(t)) :
                (s \o t)[n] = IF n <= Len(s) THEN s[n] ELSE t[n - Len(s)]
OBVIOUS

\* A part of a sequence, cut anywhere inside it.
LEMMA SeqPart ==
    ASSUME NEW S, NEW s \in Seq(S), NEW m \in Nat \ {0}, NEW n \in Int, n <= Len(s)
    PROVE  /\ SubSeq(s, m, n) \in Seq(S)
           /\ Len(SubSeq(s, m, n)) = IF m <= n THEN n - m + 1 ELSE 0
           /\ \A x \in 1..(n - m + 1) : SubSeq(s, m, n)[x] = s[m + x - 1]
OBVIOUS

\* The elements from p + 1 up to n.
LEMMA SeqSlice ==
    ASSUME NEW S, NEW s \in Seq(S), NEW p \in Nat, NEW n \in Nat, n <= Len(s)
    PROVE  /\ SubSeq(s, p + 1, n) \in Seq(S)
           /\ Len(SubSeq(s, p + 1, n)) = IF p <= n THEN n - p ELSE 0
           /\ \A x \in 1..(n - p) : SubSeq(s, p + 1, n)[x] = s[p + x]
OBVIOUS

-----------------------------------------------------------------------------
(***************************************************************************)
(* Queues and logs.                                                        *)
(***************************************************************************)
\* Removing the k-th message leaves a queue of messages, each of them an old one.
LEMMA WithoutType ==
    ASSUME NEW S, NEW q \in Seq(S), NEW k \in DOMAIN q
    PROVE  /\ Without(q, k) \in Seq(S)
           /\ \A x \in DOMAIN Without(q, k) : \E y \in DOMAIN q : Without(q, k)[x] = q[y]
<1>1. Len(q) \in Nat /\ DOMAIN q = 1..Len(q) /\ k \in 1..Len(q)
  BY SeqLen, Zenon
<1> DEFINE a == SubSeq(q, 1, k - 1)
           b == SubSeq(q, k + 1, Len(q))
<1>2. /\ a \in Seq(S) /\ Len(a) = k - 1
      /\ \A x \in 1..(k - 1) : a[x] = q[x]
  <2>1. /\ a \in Seq(S) /\ Len(a) = IF 1 <= k - 1 THEN k - 1 - 1 + 1 ELSE 0
        /\ \A x \in 1..(k - 1 - 1 + 1) : a[x] = q[1 + x - 1]
    BY <1>1, SeqPart
  <2> QED BY <1>1, <2>1
<1>3. /\ b \in Seq(S) /\ Len(b) = Len(q) - k
      /\ \A x \in 1..(Len(q) - k) : b[x] = q[k + x]
  <2>1. k \in Nat /\ k <= Len(q) /\ Len(q) <= Len(q)
    BY <1>1
  <2>2. /\ b \in Seq(S) /\ Len(b) = IF k <= Len(q) THEN Len(q) - k ELSE 0
        /\ \A x \in 1..(Len(q) - k) : b[x] = q[k + x]
    BY <1>1, <2>1, SeqSlice, ZenonT(30)
  <2> QED BY <2>1, <2>2, Zenon
<1> HIDE DEF a, b
<1>4. /\ a \o b \in Seq(S) /\ Len(a \o b) = Len(a) + Len(b)
      /\ \A x \in 1..(Len(a) + Len(b)) :
            (a \o b)[x] = IF x <= Len(a) THEN a[x] ELSE b[x - Len(a)]
  BY <1>2, <1>3, SeqConcat, Zenon
<1>5. ASSUME NEW x \in DOMAIN (a \o b) PROVE \E y \in DOMAIN q : (a \o b)[x] = q[y]
  <2>1. x \in 1..(Len(q) - 1)
    BY <1>1, <1>2, <1>3, <1>4, SeqLen
  <2>2. CASE x <= k - 1
    BY <1>1, <1>2, <1>3, <1>4, <2>1, <2>2
  <2>3. CASE x > k - 1
    <3>1. (a \o b)[x] = q[x + 1]
      <4>1. (a \o b)[x] = b[x - (k - 1)]
        BY <1>1, <1>2, <1>3, <1>4, <2>1, <2>3
      <4>2. x - (k - 1) \in 1..(Len(q) - k) /\ k + (x - (k - 1)) = x + 1
        BY <1>1, <2>1, <2>3
      <4> QED BY <1>3, <4>1, <4>2, Zenon
    <3> QED BY <1>1, <2>1, <3>1
  <2> QED BY <1>1, <2>1, <2>2, <2>3
<1> QED BY <1>4, <1>5, Zenon DEF Without, a, b

-----------------------------------------------------------------------------
(***************************************************************************)
(* Logs and what is computed from them.                                    *)
(***************************************************************************)
LEMMA LogFacts ==
    ASSUME NEW lg \in Log
    PROVE  /\ lg.base \in Nat /\ lg.entries \in Seq(Entry)
           /\ LastIndex(lg) \in Nat /\ lg.base <= LastIndex(lg)
           /\ lg = [base |-> lg.base, entries |-> lg.entries]
<1>1. lg \in [base : Nat, entries : Seq(Entry)] /\ lg.base <= Len(lg.entries)
  BY Zenon DEF Log
<1> QED BY <1>1, SeqLen, Zenon DEF LastIndex

LEMMA LogIntro ==
    ASSUME NEW b \in Nat, NEW es \in Seq(Entry), b <= Len(es)
    PROVE  [base |-> b, entries |-> es] \in Log
BY Zenon DEF Log

LEMMA WithEntries ==
    ASSUME NEW lg \in Log, NEW es
    PROVE  [lg EXCEPT !.entries = es] = [base |-> lg.base, entries |-> es]
<1>1. lg \in [base : Nat, entries : Seq(Entry)]
  BY Zenon DEF Log
<1> QED BY <1>1

LEMMA TermAtType ==
    ASSUME NEW lg \in Log, NEW index \in Nat
    PROVE  TermAt(lg, index) \in Nat
<1>1. CASE index \in 1..LastIndex(lg)
  <2>1. lg.entries[index] \in Entry
    BY <1>1, LogFacts, SeqElement, Zenon DEF LastIndex
  <2> QED BY <2>1, Zenon DEF TermAt, Entry
<1> QED BY <1>1, LogFacts DEF TermAt

LEMMA EntriesType ==
    ASSUME NEW lg \in Log, NEW start \in Nat, NEW end \in Nat
    PROVE  Entries(lg, start, end) \in Seq(Entry)
<1>1. Max(start, lg.base) + 1 \in Nat \ {0}
  BY LogFacts DEF Max
<1>2. Min(end, LastIndex(lg)) \in Int /\ Min(end, LastIndex(lg)) <= Len(lg.entries)
  BY LogFacts DEF Min, LastIndex
<1> QED BY <1>1, <1>2, LogFacts, SeqPart, Zenon DEF Entries

LEMMA MaybeSnapshotType ==
    ASSUME NEW lg \in Log, NEW ci \in Nat
    PROVE  MaybeSnapshot(lg, ci) \in Log
<1> DEFINE applied == Min(ci, LastIndex(lg))
<1>1. applied \in Nat /\ applied <= Len(lg.entries)
  BY LogFacts DEF Min, LastIndex
<1>2. [lg EXCEPT !.base = applied] = [base |-> applied, entries |-> lg.entries]
  BY LogFacts
<1>3. [lg EXCEPT !.base = applied] \in Log
  BY <1>1, <1>2, LogFacts, LogIntro, Zenon
<1> QED BY <1>3, Zenon DEF MaybeSnapshot, CreateSnapshot

-----------------------------------------------------------------------------
(***************************************************************************)
(* Messages.                                                               *)
(***************************************************************************)
LEMMA VoteRequestType ==
    ASSUME NEW t \in Nat, NEW lg \in Log
    PROVE  PreVoteMsg(t, lg) \in Message /\ RequestVoteMsg(t, lg) \in Message
<1>1. LastIndex(lg) \in Nat /\ LastTerm(lg) \in Nat
  BY LogFacts, TermAtType, Zenon DEF LastTerm
<1> QED BY <1>1, Zenon DEF PreVoteMsg, RequestVoteMsg, Message, VoteRequest

LEMMA ReplyTypes ==
    ASSUME NEW t \in Nat, NEW granted \in BOOLEAN, NEW match \in Nat, NEW ctx \in Nat
    PROVE  /\ VoteReply("PreVoteResponse", t, granted) \in Message
           /\ VoteReply("RequestVoteResponse", t, granted) \in Message
           /\ AppendReply(t, granted, match, ctx) \in Message
           /\ SnapshotReply(t, match) \in Message
BY Zenon DEF VoteReply, AppendReply, SnapshotReply, Message, VoteResponse, AppendResponse, SnapshotResponse

LEMMA AppendMsgType ==
    ASSUME NEW t \in Nat, NEW lg \in Log, NEW ci \in Nat, NEW next \in Nat \ {0},
           NEW sent \in Nat, NEW ctx \in Nat
    PROVE  /\ AppendMsg(t, lg, ci, next, sent, ctx) \in Message
           /\ AppendMsg(t, lg, ci, next, sent, ctx).type \in {"AppendEntries", "InstallSnapshot"}
           /\ SentIndex(lg, next, sent) \in Nat
<1> DEFINE prev == Max(next - 1, sent)
<1>1. prev \in Nat /\ LastIndex(lg) \in Nat
  BY LogFacts DEF Max
<1>2. TermAt(lg, prev) \in Nat /\ Entries(lg, prev, LastIndex(lg)) \in Seq(Entry)
  BY <1>1, TermAtType, EntriesType, Zenon
<1>3. SubSeq(lg.entries, 1, lg.base) \in Seq(Entry)
  BY LogFacts, SeqPart DEF LastIndex
<1>4. CASE NeedsSnapshot(lg, next)
  BY <1>1, <1>3, <1>4, Zenon DEF AppendMsg, SentIndex, Message, SnapshotRequest
<1>5. CASE ~NeedsSnapshot(lg, next)
  BY <1>1, <1>2, <1>5, Zenon DEF AppendMsg, SentIndex, Message, AppendRequest, Max
<1> QED BY <1>4, <1>5, Zenon

\* The fields of a message follow from its type.
LEMMA MessageFields ==
    ASSUME NEW m \in Message
    PROVE  /\ m.term \in Nat
           /\ m.type \in {"PreVote", "RequestVote"} => m \in VoteRequest
           /\ m.type \in {"PreVoteResponse", "RequestVoteResponse"} => m \in VoteResponse
           /\ m.type = "AppendEntries" => m \in AppendRequest
           /\ m.type = "AppendEntriesResponse" => m \in AppendResponse
           /\ m.type = "InstallSnapshot" => m \in SnapshotRequest
           /\ m.type = "InstallSnapshotResponse" => m \in SnapshotResponse
BY Zenon DEF Message, VoteRequest, VoteResponse, AppendRequest, AppendResponse, SnapshotRequest,
       SnapshotResponse

-----------------------------------------------------------------------------
(***************************************************************************)
(* The merge of an append into a log, and the commit index.                *)
(***************************************************************************)
LEMMA KeptUpToBounds ==
    ASSUME NEW lg \in Log, NEW m \in AppendRequest, PrevMatches(lg, m)
    PROVE  /\ KeptUpTo(lg, m) \in m.prevLogIndex..LastIndex(lg)
           /\ ~CutsSnapshot(lg, m) => lg.base <= KeptUpTo(lg, m)
<1>1. m.prevLogIndex \in Nat /\ LastIndex(lg) \in Nat /\ m.prevLogIndex <= LastIndex(lg)
  BY LogFacts, Zenon DEF AppendRequest, PrevMatches
<1>2. Len(m.entries) \in Nat
  BY SeqLen, Zenon DEF AppendRequest
<1>3. CASE Conflicts(lg, m) = {}
  BY <1>1, <1>3, LogFacts DEF KeptUpTo
<1>4. CASE Conflicts(lg, m) # {}
  <2>1. \A n \in Conflicts(lg, m) : n \in (m.prevLogIndex + 1)..LastIndex(lg)
    BY <1>1, <1>2 DEF Conflicts, Min
  <2>2. Conflicts(lg, m) \in SUBSET Nat
    BY <1>1, <2>1
  <2>3. \E n \in Conflicts(lg, m) : \A x \in Conflicts(lg, m) : n <= x
    BY <1>4, <2>2, SmallestExists, Zenon
  <2>4. FirstConflict(lg, m) \in Conflicts(lg, m)
    BY <2>3, Zenon DEF FirstConflict
  <2>5. FirstConflict(lg, m) \in (m.prevLogIndex + 1)..LastIndex(lg)
    BY <2>1, <2>4, Zenon
  <2>6. KeptUpTo(lg, m) = FirstConflict(lg, m) - 1
    BY <1>4, Zenon DEF KeptUpTo
  <2>7. ~CutsSnapshot(lg, m) => ~(FirstConflict(lg, m) <= lg.base)
    BY <1>4, Zenon DEF CutsSnapshot
  <2> QED BY <1>1, <2>5, <2>6, <2>7, LogFacts
<1> QED BY <1>3, <1>4, Zenon

LEMMA MergeType ==
    ASSUME NEW lg \in Log, NEW m \in AppendRequest, PrevMatches(lg, m), ~CutsSnapshot(lg, m)
    PROVE  /\ Merge(lg, m) \in Log
           /\ KeptUpTo(lg, m) <= LastIndex(Merge(lg, m))
           /\ Merge(lg, m).base = lg.base
<1> DEFINE kept == KeptUpTo(lg, m)
           old  == SubSeq(lg.entries, 1, kept)
           new  == SubSeq(m.entries, kept - m.prevLogIndex + 1, Len(m.entries))
<1>1. /\ kept \in Nat /\ kept <= Len(lg.entries) /\ lg.base <= kept
      /\ kept - m.prevLogIndex + 1 \in Nat \ {0}
  BY KeptUpToBounds, LogFacts DEF LastIndex, AppendRequest
<1>2. m.entries \in Seq(Entry) /\ Len(m.entries) \in Nat
  BY SeqLen, Zenon DEF AppendRequest
<1>3. old \in Seq(Entry) /\ Len(old) = kept
  BY <1>1, LogFacts, SeqPart
<1>4. new \in Seq(Entry) /\ Len(new) \in Nat
  BY <1>1, <1>2, SeqPart, SeqLen
<1>5. old \o new \in Seq(Entry) /\ Len(old \o new) = Len(old) + Len(new)
  BY <1>3, <1>4, SeqConcat, Zenon
<1>6. Merge(lg, m) = [base |-> lg.base, entries |-> old \o new]
  BY WithEntries, Zenon DEF Merge
<1> HIDE DEF old, new, kept
<1>7. lg.base <= Len(old \o new) /\ kept <= Len(old \o new)
  BY <1>1, <1>3, <1>4, <1>5, LogFacts
<1>8. Merge(lg, m) \in Log
  BY <1>5, <1>6, <1>7, LogFacts, LogIntro, Zenon
<1> QED BY <1>6, <1>7, <1>8 DEF LastIndex, kept

LEMMA TornLogsType ==
    ASSUME NEW lg \in Log, NEW m \in AppendRequest, PrevMatches(lg, m), ~CutsSnapshot(lg, m),
           NEW torn \in TornLogs(lg, m)
    PROVE  torn \in Log
<1> DEFINE full == Merge(lg, m).entries
<1>1. /\ full \in Seq(Entry) /\ Len(full) \in Nat
      /\ KeptUpTo(lg, m) \in Nat /\ lg.base <= KeptUpTo(lg, m)
  BY MergeType, KeptUpToBounds, LogFacts DEF LastIndex, AppendRequest
<1>2. ASSUME NEW n \in KeptUpTo(lg, m)..(Len(full) - 1)
      PROVE  [lg EXCEPT !.entries = SubSeq(full, 1, n)] \in Log
  <2> HIDE DEF full
  <2>1. SubSeq(full, 1, n) \in Seq(Entry) /\ Len(SubSeq(full, 1, n)) = n
    BY <1>1, SeqPart
  <2>2. lg.base \in Nat /\ lg.base <= n
    BY <1>1, LogFacts
  <2>3. [base |-> lg.base, entries |-> SubSeq(full, 1, n)] \in Log
    BY <2>1, <2>2, LogIntro, Zenon
  <2> QED BY <2>3, WithEntries, Zenon
<1> QED BY <1>2, Zenon DEF TornLogs

LEMMA AdvanceCommitType ==
    ASSUME TypeOK, NEW i \in Server, NEW lg \in Log, NEW match
    PROVE  AdvanceCommit(i, lg, match) \in Nat
<1> DEFINE ok == {n \in (commitIndex[i] + 1)..LastIndex(lg) :
                    /\ TermAt(lg, n) = currentTerm[i]
                    /\ HasMajority({i} \cup {p \in Peers(i) : match[p] >= n})}
<1>1. commitIndex[i] \in Nat /\ LastIndex(lg) \in Nat
  BY LogFacts, Zenon DEF TypeOK
<1>2. ok \in SUBSET (0..LastIndex(lg))
  BY <1>1
<1>3. AdvanceCommit(i, lg, match) =
        IF ok = {} THEN commitIndex[i] ELSE CHOOSE n \in ok : \A x \in ok : x <= n
  BY Zenon DEF AdvanceCommit
<1> HIDE DEF ok
<1>4. CASE ok # {}
  <2>1. \E n \in ok : \A x \in ok : x <= n
    BY <1>1, <1>2, <1>4, LargestExists, Zenon
  <2>2. (CHOOSE n \in ok : \A x \in ok : x <= n) \in ok
    BY <2>1, Zenon
  <2>3. AdvanceCommit(i, lg, match) = CHOOSE n \in ok : \A x \in ok : x <= n
    BY <1>3, <1>4, Zenon
  <2>4. \A n \in ok : n \in Nat
    BY <1>1, <1>2
  <2> QED BY <2>2, <2>3, <2>4, Zenon
<1> QED BY <1>1, <1>3, <1>4, Zenon

\* What is recorded as committed, c, grows by what the commit index now covers.
Recorded(c, es, ci) ==
    IF ci > Len(c) THEN c \o SubSeq(es, Len(c) + 1, Min(ci, Len(es))) ELSE c

LEMMA CommittedGrows ==
    ASSUME NEW c \in Seq(Entry), NEW es \in Seq(Entry), NEW ci \in Nat
    PROVE  LET d == Recorded(c, es, ci)
           IN  /\ Len(d) \in Nat /\ Len(c) <= Len(d) /\ Min(ci, Len(es)) <= Len(d)
               /\ ci <= Len(es) \/ ci <= Len(c) => ci <= Len(d)
               /\ \A n \in 1..Len(c) : d[n] = c[n]
               /\ \A n \in (Len(c) + 1)..Len(d) : n <= ci /\ n <= Len(es) /\ d[n] = es[n]
<1> DEFINE d == Recorded(c, es, ci)
           n == Min(ci, Len(es))
           b == SubSeq(es, Len(c) + 1, n)
<1>1. /\ Len(c) \in Nat /\ Len(es) \in Nat /\ n \in Nat /\ n <= Len(es) /\ n <= ci
      /\ ci <= Len(es) => n = ci
  BY SeqLen DEF Min
<1> HIDE DEF n, d
<1>2. /\ b \in Seq(Entry) /\ Len(b) = IF Len(c) <= n THEN n - Len(c) ELSE 0
      /\ \A x \in 1..(n - Len(c)) : b[x] = es[Len(c) + x]
  <2> DEFINE p == Len(c)
  <2>1. p \in Nat /\ n \in Nat /\ n <= Len(es)
    BY <1>1, Zenon
  <2> HIDE DEF p
  <2>2. /\ SubSeq(es, p + 1, n) \in Seq(Entry) /\ Len(SubSeq(es, p + 1, n)) = IF p <= n THEN n - p ELSE 0
        /\ \A x \in 1..(n - p) : SubSeq(es, p + 1, n)[x] = es[p + x]
    BY <2>1, SeqSlice, ZenonT(30)
  <2> QED BY <2>2, Zenon DEF p
<1> HIDE DEF b
<1>3. CASE ci > Len(c)
  <2>1. /\ Len(d) = Len(c) + Len(b)
        /\ \A x \in 1..(Len(c) + Len(b)) : d[x] = IF x <= Len(c) THEN c[x] ELSE b[x - Len(c)]
    <3>1. d = c \o b
      BY <1>3, Zenon DEF d, b, n, Recorded
    <3> QED BY <1>2, <3>1, SeqConcat, Zenon
  <2>2. \A z : \A x, y \in Nat : z = (IF x <= y THEN y - x ELSE 0) => x + z \in Nat /\ x <= x + z /\ y <= x + z
    OBVIOUS
  <2>3. Len(d) \in Nat /\ Len(c) <= Len(d) /\ n <= Len(d)
    BY <1>1, <1>2, <2>1, <2>2, Zenon
  <2>4. ~(ci <= Len(c)) /\ (ci <= Len(es) => ci <= Len(d))
    <3>1. \A p, q, r \in Nat : p > q => ~(p <= q)
      OBVIOUS
    <3> QED BY <1>1, <1>3, <2>3, <3>1, Zenon
  <2>5. ASSUME NEW x \in 1..Len(c) PROVE d[x] = c[x]
    <3>1. \A p, q \in Nat : \A y \in 1..p : p <= q => y \in 1..q /\ y <= p
      OBVIOUS
    <3>2. x \in 1..Len(d) /\ x <= Len(c)
      BY <1>1, <2>3, <3>1, Zenon
    <3> QED BY <2>1, <3>2, Zenon
  <2>6. ASSUME NEW x \in (Len(c) + 1)..Len(d) PROVE x <= ci /\ x <= Len(es) /\ d[x] = es[x]
    <3> DEFINE p == Len(c)
               r == Len(es)
               t == Len(b)
    <3>1. /\ p \in Nat /\ r \in Nat /\ n \in Nat /\ n <= r /\ n <= ci /\ x \in (p + 1)..(p + t)
          /\ t = IF p <= n THEN n - p ELSE 0
      BY <1>1, <1>2, <2>1, Zenon
    <3> HIDE DEF p, r, t
    <3>2. /\ x <= ci /\ x <= r /\ x \in 1..(p + t) /\ ~(x <= p)
          /\ x - p \in 1..(n - p) /\ p + (x - p) = x
      BY <3>1
    <3> USE DEF p, r, t
    <3> QED BY <1>2, <2>1, <3>2, Zenon
  <2> QED BY <2>3, <2>4, <2>5, <2>6, Zenon DEF n, d
<1>4. CASE ~(ci > Len(c))
  <2>1. d = c
    BY <1>4, Zenon DEF d, Recorded
  <2>2. Len(c) <= Len(c) /\ n <= Len(c) /\ ci <= Len(c) /\ \A x \in (Len(c) + 1)..Len(c) : FALSE
    BY <1>1, <1>4
  <2> QED BY <1>1, <2>1, <2>2, Zenon DEF n, d
<1> QED BY <1>3, <1>4, Zenon DEF d

LEMMA ProposedLogType ==
    ASSUME TypeOK, NEW i \in Server, NEW datas \in Seq(Value)
    PROVE  Proposed(i, datas) \in Log
<1> DEFINE new == [n \in 1..Len(datas) |-> [term |-> currentTerm[i], data |-> datas[n]]]
           es  == log[i].entries \o new
<1>1. log[i] \in Log /\ currentTerm[i] \in Nat
  BY Zenon DEF TypeOK
<1>2. new \in Seq(Entry)
  <2>1. Len(datas) \in Nat /\ \A n \in 1..Len(datas) : datas[n] \in Value
    BY SeqLen, SeqElement, Zenon
  <2>2. \A n \in 1..Len(datas) : [term |-> currentTerm[i], data |-> datas[n]] \in Entry
    BY <1>1, <2>1, Zenon DEF Entry
  <2> QED BY <2>1, <2>2
<1>3. /\ log[i].base \in Nat /\ log[i].entries \in Seq(Entry)
      /\ log[i].base <= Len(log[i].entries)
  BY <1>1, LogFacts, Zenon DEF LastIndex
<1>4. es \in Seq(Entry) /\ Len(es) = Len(log[i].entries) + Len(new)
  BY <1>2, <1>3, SeqConcat, Zenon
<1>5. log[i].base <= Len(es)
  BY <1>2, <1>3, <1>4, SeqLen
<1>6. Proposed(i, datas) = [base |-> log[i].base, entries |-> es]
  BY <1>1, WithEntries, Zenon DEF Proposed
<1> HIDE DEF es
<1> QED BY <1>3, <1>4, <1>5, <1>6, LogIntro, Zenon

-----------------------------------------------------------------------------
(***************************************************************************)
(* Messages and votes on their way.                                        *)
(***************************************************************************)
\* There is a k-th message in flight from j to i.
Arrives(i, j, k) ==
    /\ i \in Server /\ j \in Server /\ <<j, i>> \in Links
    /\ k \in DOMAIN net[<<j, i>>]

LEMMA ArrivedMessage ==
    ASSUME TypeOK, NEW i, NEW j, NEW k, Arrives(i, j, k)
    PROVE  /\ k \in Nat \ {0}
           /\ net[<<j, i>>] \in Seq(Message)
           /\ Msg(i, j, k) \in Message
           /\ Msg(i, j, k).term \in Nat
<1>1. net[<<j, i>>] \in Seq(Message)
  BY Zenon DEF TypeOK, Arrives
<1>2. k \in 1..Len(net[<<j, i>>]) /\ Len(net[<<j, i>>]) \in Nat
  BY <1>1, SeqLen, Zenon DEF Arrives
<1>3. Msg(i, j, k) \in Message
  BY <1>1, <1>2, SeqElement, Zenon DEF Msg
<1> QED BY <1>1, <1>2, <1>3, MessageFields

LEMMA LinkEnds ==
    ASSUME NEW l \in Links
    PROVE  l = <<l[1], l[2]>> /\ l[1] \in Server /\ l[2] \in Server /\ l[1] # l[2]
BY DEF Links

HardStateOnDisk ==
    \A i \in Server : disk[i].term = currentTerm[i] /\ disk[i].vote = votedFor[i]

WonByMajority == \A e \in elections : HasMajority(e.voters)

VoteInv == TypeOK /\ HardStateOnDisk /\ VoteSafety(Nat) /\ WonByMajority

\* Everything in flight after an exchange was in flight before or was just sent.
OldOrSent(i, out) ==
    \A l \in Links : \A x \in DOMAIN net'[l] :
        \/ \E y \in DOMAIN net[l] : net'[l][x] = net[l][y]
        \/ l[1] = i /\ l[2] \in DOMAIN out /\ net'[l][x] = out[l[2]]

LEMMA ExchangeKeeps ==
    ASSUME TypeOK, NEW i, NEW j, NEW k, k = 0 \/ Arrives(i, j, k), NEW out,
           \A p \in DOMAIN out : out[p] \in Message, Exchange(i, j, k, out)
    PROVE  OldOrSent(i, out)
<1> SUFFICES ASSUME NEW l \in Links, NEW x \in DOMAIN net'[l]
             PROVE  \/ \E y \in DOMAIN net[l] : net'[l][x] = net[l][y]
                    \/ l[1] = i /\ l[2] \in DOMAIN out /\ net'[l][x] = out[l[2]]
  BY Zenon DEF OldOrSent
<1>1. net[l] \in Seq(Message)
  BY Zenon DEF TypeOK
<1>2. net'[l] = IF k > 0 /\ l = <<j, i>> THEN Without(net[l], k)
                ELSE IF l[1] = i /\ l[2] \in DOMAIN out THEN Append(net[l], out[l[2]])
                ELSE net[l]
  BY Zenon DEF Exchange
<1>3. CASE k > 0 /\ l = <<j, i>>
  <2>1. k \in DOMAIN net[l]
    BY <1>3 DEF Arrives
  <2> QED BY <1>1, <1>2, <1>3, <2>1, WithoutType
<1>4. CASE ~(k > 0 /\ l = <<j, i>>) /\ l[1] = i /\ l[2] \in DOMAIN out
  <2>1. net'[l] = Append(net[l], out[l[2]]) /\ out[l[2]] \in Message
    BY <1>2, <1>4, Zenon
  <2>2. Len(net[l]) \in Nat /\ DOMAIN net[l] = 1..Len(net[l]) /\ x \in 1..(Len(net[l]) + 1)
    BY <1>1, <2>1
  <2>3. CASE x \in 1..Len(net[l])
    BY <1>1, <2>1, <2>2, <2>3
  <2>4. CASE x = Len(net[l]) + 1
    BY <1>1, <1>4, <2>1, <2>4
  <2> QED BY <2>2, <2>3, <2>4
<1> QED BY <1>2, <1>3, <1>4, Zenon

\* A step of node i whose messages in flight are old ones or carry no vote, that
\* leaves i's own tally alone unless it stops being a candidate, and wins nothing.
NoVoteSent == \A l \in Links : \A x \in DOMAIN net'[l] : \A t \in Nat :
    Grant(net'[l][x], t) => \E y \in DOMAIN net[l] : net'[l][x] = net[l][y]

NoVoteCounted == \A c \in Server :
    role'[c] \in {Candidate, Leader} =>
        role[c] \in {Candidate, Leader} /\ currentTerm'[c] = currentTerm[c]
          /\ votesReceived'[c] = votesReceived[c]

NoNewBallot == \A t \in Nat, v, c \in Server : Ballot(v, t, c)' => Ballot(v, t, c)

LEMMA NoBallotAppears ==
    ASSUME NoVoteSent, NoVoteCounted, UNCHANGED elections
    PROVE  NoNewBallot
<1> SUFFICES ASSUME NEW t \in Nat, NEW v \in Server, NEW c \in Server, Ballot(v, t, c)'
             PROVE  Ballot(v, t, c)
  BY Zenon DEF NoNewBallot
<1>1. CASE <<v, c>> \in Links /\ \E k \in DOMAIN net'[<<v, c>>] : Grant(net'[<<v, c>>][k], t)
  BY <1>1, Zenon DEF NoVoteSent, Ballot
<1>2. CASE role'[c] \in {Candidate, Leader} /\ currentTerm'[c] = t /\ v \in votesReceived'[c]
  BY <1>2, Zenon DEF NoVoteCounted, Ballot
<1>3. CASE \E e \in elections' : e.term = t /\ e.leader = c /\ v \in e.voters
  BY <1>3, Zenon DEF Ballot
<1> QED BY <1>1, <1>2, <1>3, Zenon DEF Ballot

\* Two majorities share a node.
LEMMA MajoritiesMeet ==
    ASSUME NEW S \in SUBSET Server, NEW T \in SUBSET Server, HasMajority(S), HasMajority(T)
    PROVE  \E v \in Server : v \in S /\ v \in T
<1>1. IsFiniteSet(Server) /\ Cardinality(Server) \in Nat
  BY ServerAssumption, FS_CardinalityType, Zenon
<1>2. Cardinality(S) \in Nat /\ Cardinality(T) \in Nat
  BY <1>1, FS_Subset, FS_CardinalityType, Zenon
<1>3. Cardinality(S) + Cardinality(T) > Cardinality(Server)
  BY <1>1, <1>2 DEF HasMajority
<1>4. S \cap T # {}
  BY <1>1, <1>3, FS_MajoritiesIntersect, Zenon
<1> QED BY <1>4, Zenon

=============================================================================
