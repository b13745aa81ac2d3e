---------------------------- MODULE ServerProofs ----------------------------
(***************************************************************************)
(* Proofs about Server, for any calls, commands, batch and channel sizes,  *)
(* snapshot thresholds and failures: no call is answered twice, and who is *)
(* told "committed" is told the truth.                                     *)
(***************************************************************************)
EXTENDS Server, TLAPS

-----------------------------------------------------------------------------
(***************************************************************************)
(* A call is in one place only: a channel, the batch, or a map; as long as *)
(* it is in one, it has no result.                                         *)
(***************************************************************************)
Once(f) == \A x, y \in DOMAIN f : f[x] = f[y] => x = y

Apart(f, g) == \A x \in DOMAIN f, y \in DOMAIN g : f[x] # g[y]

In(c, f) == \E x \in DOMAIN f : f[x] = c

\* The channels p and q, the batch b, the maps w and r.
Placed(c, p, b, w, q, r) == In(c, p) \/ In(c, b) \/ In(c, w) \/ In(c, q) \/ In(c, r)

\* Each holds calls of its kind, no call twice, and no two the same call.
Separate(p, b, w, q, r) ==
    /\ p \in Seq(Put) /\ b \in Seq(Put) /\ q \in Seq(Get)
    /\ \A x \in DOMAIN w : x \in Nat /\ w[x] \in Put
    /\ \A x \in DOMAIN r : r[x] \in Get
    /\ Once(p) /\ Once(b) /\ Once(w) /\ Once(q) /\ Once(r)
    /\ Apart(p, b) /\ Apart(p, w) /\ Apart(b, w) /\ Apart(q, r)

\* res is a channel of one result for every call.
AtMostOne(res) ==
    /\ res = [c \in Call |-> res[c]]
    /\ \A c \in Call : res[c] = <<>> \/ \E a : res[c] = <<a>>

\* Who waits, or has not begun, has no result.
Unanswered(p, b, w, q, r, res, st) ==
    /\ \A c \in Call : Placed(c, p, b, w, q, r) => res[c] = <<>> /\ st[c] # "calling"
    /\ \A c \in Call : st[c] = "calling" => res[c] = <<>>

OneAnswer ==
    /\ Separate(proposeCh, pending, waiters, readIndexCh, pendingReadIndexes)
    /\ AtMostOne(resultCh)
    /\ Unanswered(proposeCh, pending, waiters, readIndexCh, pendingReadIndexes, resultCh, status)
    /\ status = [c \in Call |-> status[c]]

\* pump answers some of those in the maps w and r, and takes them out.
LEMMA PumpAnswersOnce ==
    ASSUME NEW n, NEW p, NEW b, NEW w, NEW q, NEW r,
           Pump(n, w, r), AtMostOne(resultCh),
           Separate(p, b, w, q, r), Unanswered(p, b, w, q, r, resultCh, status)
    PROVE  /\ Separate(p, b, waiters', q, pendingReadIndexes')
           /\ AtMostOne(resultCh')
           /\ Unanswered(p, b, waiters', q, pendingReadIndexes', resultCh', status)
<1>1. CASE \E what \in SUBSET {"restore", "apply"} : \E e, from, snapped :
               ApplyCommitted(n, w, r, e, from, snapped, "apply" \notin what)
  <2> PICK e, from, snapped, applies : ApplyCommitted(n, w, r, e, from, snapped, applies)
    BY <1>1, Zenon
  <2> DEFINE due  == DOMAIN w \cap (First(n, from)..Last(n))
             read == {s \in n.readStates : s.ctx \in DOMAIN r}
  <2>1. /\ waiters' = [x \in DOMAIN w \ due |-> w[x]]
        /\ pendingReadIndexes' = [x \in DOMAIN r \ {s.ctx : s \in read} |-> r[x]]
    BY Zenon DEF ApplyCommitted, Without
  <2>2. /\ resultCh' = [c \in Call |-> resultCh'[c]]
        /\ \A c \in Call :
              \/ resultCh'[c] = resultCh[c] /\ ~(\E i \in due : w[i] = c)
                                            /\ ~(\E s \in read : r[s.ctx] = c)
              \/ \E a : resultCh'[c] = Append(resultCh[c], a)
                        /\ ((\E i \in due : w[i] = c) \/ (\E s \in read : r[s.ctx] = c))
    BY Zenon DEF ApplyCommitted
  <2> HIDE DEF due, read
  <2>3. Separate(p, b, waiters', q, pendingReadIndexes')
    BY <2>1 DEF Separate, Once, Apart
  <2>4. \A c \in Call : (\E i \in due : w[i] = c) \/ (\E s \in read : r[s.ctx] = c)
                        => resultCh[c] = <<>> /\ status[c] # "calling"
    BY Zenon DEF Unanswered, Placed, In, due, read
  <2>5. AtMostOne(resultCh')
    BY <2>2, <2>4 DEF AtMostOne
  <2>6. ASSUME NEW c \in Call, Placed(c, p, b, waiters', q, pendingReadIndexes')
        PROVE  /\ Placed(c, p, b, w, q, r)
               /\ ~(\E i \in due : w[i] = c)
               /\ ~(\E s \in read : r[s.ctx] = c)
    <3>1. Placed(c, p, b, w, q, r)
      BY <2>1, <2>6, Zenon DEF Placed, In
    <3>2. ASSUME NEW i \in due, w[i] = c PROVE FALSE
      <4>1. i \in DOMAIN w /\ c \in Put /\ c \notin Get
        BY <3>2, CallAssumption, Zenon DEF due, Separate
      <4>2. ~In(c, p) /\ ~In(c, b) /\ ~In(c, q) /\ ~In(c, pendingReadIndexes')
        BY <2>1, <3>2, <4>1 DEF In, Separate, Apart
      <4>3. ~In(c, waiters')
        BY <2>1, <3>2, <4>1, Zenon DEF In, Separate, Once
      <4> QED BY <2>6, <4>2, <4>3, Zenon DEF Placed
    <3>3. ASSUME NEW s \in read, r[s.ctx] = c PROVE FALSE
      <4>1. s.ctx \in DOMAIN r /\ c \in Get /\ c \notin Put
        BY <3>3, CallAssumption, Zenon DEF read, Separate
      <4>2. ~In(c, p) /\ ~In(c, b) /\ ~In(c, q) /\ ~In(c, waiters')
        BY <2>1, <3>3, <4>1 DEF In, Separate, Apart
      <4>3. ~In(c, pendingReadIndexes')
        BY <2>1, <3>3, <4>1, Zenon DEF In, Separate, Once
      <4> QED BY <2>6, <4>2, <4>3, Zenon DEF Placed
    <3> QED BY <3>1, <3>2, <3>3, Zenon
  <2>7. Unanswered(p, b, waiters', q, pendingReadIndexes', resultCh', status)
    BY <2>2, <2>4, <2>6, Zenon DEF Unanswered
  <2> QED BY <2>3, <2>5, <2>7, Zenon
<1>2. CASE UNCHANGED resultCh /\ waiters' = w /\ pendingReadIndexes' = r
  BY <1>2, Zenon
<1> QED BY <1>1, <1>2, Zenon DEF Pump, applyVars

\* An answer to every call of the batch b, which is then empty.
LEMMA BatchAnsweredOnce ==
    ASSUME NEW p, NEW b, NEW w, NEW q, NEW r, NEW res,
           AtMostOne(resultCh), Separate(p, b, w, q, r),
           Unanswered(p, b, w, q, r, resultCh, status),
           resultCh' = Answer(Range(b), res)
    PROVE  /\ Separate(p, <<>>, w, q, r)
           /\ AtMostOne(resultCh')
           /\ Unanswered(p, <<>>, w, q, r, resultCh', status)
<1>1. Separate(p, <<>>, w, q, r)
  BY DEF Separate, Once, Apart
<1>2. \A c \in Call : c \in Range(b) => In(c, b)
  BY Zenon DEF Range, In
<1>3. AtMostOne(resultCh')
  <2>1. \A c \in Call : resultCh'[c] = IF c \in Range(b) THEN Append(resultCh[c], res)
                                       ELSE resultCh[c]
    BY Zenon DEF Answer
  <2>2. \A c \in Call : c \in Range(b) => resultCh[c] = <<>>
    BY <1>2, Zenon DEF Unanswered, Placed
  <2>3. resultCh' = [c \in Call |-> resultCh'[c]]
    BY Zenon DEF Answer
  <2> QED BY <2>1, <2>2, <2>3 DEF AtMostOne
<1>4. \A c \in Call : Placed(c, p, <<>>, w, q, r) => c \notin Range(b)
  BY CallAssumption DEF Placed, In, Separate, Apart, Range
<1>5. Unanswered(p, <<>>, w, q, r, resultCh', status)
  BY <1>2, <1>4 DEF Unanswered, Placed, Answer, In
<1> QED BY <1>1, <1>3, <1>5, Zenon

\* submitBatch proposes the batch, whose calls now wait at their indexes, or
\* refuses it.
LEMMA BatchJoinsWaiters ==
    ASSUME NEW p, NEW b, NEW q, NEW w, NEW old \in Nat,
           w = [i \in DOMAIN waiters \cup (old + 1)..(old + Len(b)) |->
                  IF i - old \in DOMAIN b THEN b[i - old] ELSE waiters[i]],
           Separate(p, b, waiters, q, pendingReadIndexes),
           Unanswered(p, b, waiters, q, pendingReadIndexes, resultCh, status)
    PROVE  /\ Separate(p, <<>>, w, q, pendingReadIndexes)
           /\ Unanswered(p, <<>>, w, q, pendingReadIndexes, resultCh, status)
<1>1. \A i \in DOMAIN w : \/ i - old \in DOMAIN b /\ w[i] = b[i - old]
                          \/ i - old \notin DOMAIN b /\ i \in DOMAIN waiters /\ w[i] = waiters[i]
  BY DEF Separate
<1>2. DOMAIN w \subseteq Nat
  BY DEF Separate
<1>3. Once(w)
  BY <1>1, <1>2 DEF Separate, Once, Apart
<1>4. Apart(p, w) /\ (\A x \in DOMAIN w : x \in Nat /\ w[x] \in Put)
  BY <1>1, <1>2 DEF Separate, Apart
<1>5. Separate(p, <<>>, w, q, pendingReadIndexes)
  BY <1>3, <1>4 DEF Separate, Once, Apart
<1>6. Unanswered(p, <<>>, w, q, pendingReadIndexes, resultCh, status)
  BY <1>1 DEF Unanswered, Placed, In
<1> QED BY <1>5, <1>6, Zenon

LEMMA SubmitAnswersOnce ==
    ASSUME NEW p, NEW b, NEW q, Len(node.log) \in Nat,
           SubmitBatch(b), AtMostOne(resultCh),
           Separate(p, b, waiters, q, pendingReadIndexes),
           Unanswered(p, b, waiters, q, pendingReadIndexes, resultCh, status)
    PROVE  /\ Separate(p, <<>>, waiters', q, pendingReadIndexes')
           /\ AtMostOne(resultCh')
           /\ Unanswered(p, <<>>, waiters', q, pendingReadIndexes', resultCh', status)
<1> DEFINE old == Len(node.log)
           w   == [i \in DOMAIN waiters \cup (old + 1)..(old + Len(b)) |->
                     IF i - old \in DOMAIN b THEN b[i - old] ELSE waiters[i]]
<1>1. CASE \E n : Pump(n, w, pendingReadIndexes)
  <2>1. /\ Separate(p, <<>>, w, q, pendingReadIndexes)
        /\ Unanswered(p, <<>>, w, q, pendingReadIndexes, resultCh, status)
    BY BatchJoinsWaiters, Zenon
  <2> QED BY <1>1, <2>1, PumpAnswersOnce, Zenon
<1>2. CASE resultCh' = Answer(Range(b), Failed) /\ UNCHANGED <<waiters, pendingReadIndexes>>
  BY <1>2, BatchAnsweredOnce, Zenon
<1> QED BY <1>1, <1>2, Zenon DEF SubmitBatch

\* The next call of proposeCh joins the batch.
LEMMA JoinsBatch ==
    ASSUME NEW p, NEW b, NEW w, NEW q, NEW r, p # <<>>,
           Separate(p, b, w, q, r), Unanswered(p, b, w, q, r, resultCh, status)
    PROVE  /\ Separate(Tail(p), Append(b, Head(p)), w, q, r)
           /\ Unanswered(Tail(p), Append(b, Head(p)), w, q, r, resultCh, status)
<1> DEFINE t == Tail(p)
           a == Append(b, Head(p))
<1>1. /\ p \in Seq(Put) /\ b \in Seq(Put) /\ Head(p) \in Put /\ Head(p) = p[1] /\ 1 \in DOMAIN p
      /\ t \in Seq(Put) /\ a \in Seq(Put)
  BY DEF Separate
<1>2. \A x \in DOMAIN t : x + 1 \in DOMAIN p /\ t[x] = p[x + 1] /\ x + 1 # 1 /\ x \in Int
  BY <1>1
<1>3. \A x \in DOMAIN a : \/ x \in DOMAIN b /\ a[x] = b[x]
                          \/ x = Len(b) + 1 /\ a[x] = p[1]
  BY <1>1
<1> HIDE DEF t, a
<1>4. Once(t)
  BY <1>2 DEF Separate, Once
<1>5. Once(a) /\ Apart(a, w)
  BY <1>1, <1>3 DEF Separate, Once, Apart
<1>6. Apart(t, a) /\ Apart(t, w)
  BY <1>1, <1>2, <1>3 DEF Separate, Once, Apart
<1>7. Separate(t, a, w, q, r)
  BY <1>1, <1>4, <1>5, <1>6, Zenon DEF Separate
<1>8. \A c \in Call : Placed(c, t, a, w, q, r) => Placed(c, p, b, w, q, r)
  BY <1>1, <1>2, <1>3, Zenon DEF Placed, In
<1>9. Unanswered(t, a, w, q, r, resultCh, status)
  BY <1>8, Zenon DEF Unanswered
<1> QED BY <1>7, <1>9, Zenon DEF t, a

\* The next call of readIndexCh waits for the confirmation of context x.
LEMMA JoinsReads ==
    ASSUME NEW p, NEW b, NEW w, NEW q, NEW r, NEW x, NEW s, q # <<>>,
           Separate(p, b, w, q, r), Unanswered(p, b, w, q, r, resultCh, status),
           s = [y \in DOMAIN r \cup {x} |-> IF y = x THEN Head(q) ELSE r[y]]
    PROVE  /\ Separate(p, b, w, Tail(q), s)
           /\ Unanswered(p, b, w, Tail(q), s, resultCh, status)
<1> DEFINE t == Tail(q)
<1>1. q \in Seq(Get) /\ Head(q) \in Get /\ Head(q) = q[1] /\ 1 \in DOMAIN q /\ t \in Seq(Get)
  BY DEF Separate
<1>2. \A y \in DOMAIN t : y + 1 \in DOMAIN q /\ t[y] = q[y + 1] /\ y + 1 # 1 /\ y \in Int
  BY <1>1
<1>3. \A y \in DOMAIN s : \/ y # x /\ y \in DOMAIN r /\ s[y] = r[y]
                          \/ y = x /\ s[y] = q[1]
  BY <1>1, Zenon
<1> HIDE DEF t
<1>4. Once(t) /\ Once(s)
  BY <1>1, <1>2, <1>3 DEF Separate, Once, Apart
<1>5. Apart(t, s)
  BY <1>1, <1>2, <1>3 DEF Separate, Once, Apart
<1>6. \A y \in DOMAIN s : s[y] \in Get
  BY <1>1, <1>3, Zenon DEF Separate
<1>7. Separate(p, b, w, t, s)
  BY <1>1, <1>4, <1>5, <1>6, Zenon DEF Separate
<1>8. \A c \in Call : Placed(c, p, b, w, t, s) => Placed(c, p, b, w, q, r)
  BY <1>1, <1>2, <1>3, Zenon DEF Placed, In
<1>9. Unanswered(p, b, w, t, s, resultCh, status)
  BY <1>8, Zenon DEF Unanswered
<1> QED BY <1>7, <1>9, Zenon DEF t

-----------------------------------------------------------------------------
(***************************************************************************)
(* The types of the logs.                                                  *)
(***************************************************************************)
IsNode(n) ==
    /\ DOMAIN n = {"log", "commit", "leader", "snapshot", "toApply", "pendingReads", "readStates"}
    /\ n = [x \in DOMAIN n |-> n[x]]
    /\ n.log \in Seq(Command)
    /\ {n.commit, n.snapshot.index, n.toApply.index} \subseteq Nat

LogTypes ==
    /\ IsNode(node)
    /\ disk.log \in Seq(Command) /\ disk.snapshot.index \in Nat
    /\ chosen \in Seq(Command)
    /\ lastApplied \in Nat

LEMMA PumpKeepsTypes ==
    ASSUME NEW n, NEW w, NEW r, LogTypes, IsNode(n), Pump(n, w, r)
    PROVE  IsNode(node') /\ disk'.log \in Seq(Command) /\ disk'.snapshot.index \in Nat
           /\ lastApplied' \in Nat
<1>1. /\ Stored(n).log \in Seq(Command) /\ Stored(n).snapshot.index \in Nat
  BY Zenon DEF Stored, IsNode
<1>2. CASE \E e, from, snapped, applies :
              /\ from \in {n.toApply.index, lastApplied}
              /\ disk' = Stored(n)
              /\ ApplyCommitted(n, w, r, e, from, snapped, applies)
  <2> PICK e, from, snapped, applies :
              /\ from \in {n.toApply.index, lastApplied}
              /\ disk' = Stored(n)
              /\ ApplyCommitted(n, w, r, e, from, snapped, applies)
    BY <1>2, Zenon
  <2>1. Last(n) \in Nat /\ from \in Nat
    BY DEF Last, Min, IsNode, LogTypes
  <2>2. lastApplied' \in Nat
    <3>1. lastApplied' = from \/ lastApplied' = Last(n)
      BY Zenon DEF ApplyCommitted
    <3> QED BY <2>1, <3>1, Zenon
  <2>3. IsNode(Advanced(n))
    <3>1. /\ DOMAIN Advanced(n) = DOMAIN n
          /\ Advanced(n) = [x \in DOMAIN Advanced(n) |-> Advanced(n)[x]]
      BY Zenon DEF Advanced
    <3>2. /\ Advanced(n).log = n.log /\ Advanced(n).commit = n.commit
          /\ Advanced(n).snapshot = n.snapshot /\ Advanced(n).toApply = NoSnapshot
      BY Zenon DEF Advanced, IsNode
    <3>3. NoSnapshot.index = 0
      BY Zenon DEF NoSnapshot
    <3> QED BY <3>1, <3>2, <3>3 DEF IsNode
  <2>4. \A a, data : a \in Nat => IsNode(CreateSnapshot(Advanced(n), a, data))
    BY <2>3 DEF IsNode, CreateSnapshot
  <2>5. node' = Advanced(n) \/ \E data : node' = CreateSnapshot(Advanced(n), lastApplied', data)
    BY Zenon DEF ApplyCommitted
  <2> QED BY <1>1, <2>2, <2>3, <2>4, <2>5, Zenon
<1>3. CASE disk' \in {disk, Stored(n)} /\ node' = n /\ lastApplied' = lastApplied
  BY <1>1, <1>3, Zenon DEF LogTypes
<1> QED BY <1>2, <1>3 DEF Pump, applyVars

-----------------------------------------------------------------------------
(***************************************************************************)
(* No call is answered twice.                                              *)
(***************************************************************************)
Base == LogTypes /\ OneAnswer

LEMMA RaftStepBase ==
    ASSUME Base, RaftStep
    PROVE  Base'
<1> USE DEF Base
<1>1. ASSUME NEW n, IsNode(n), StepThenPump(n), chosen' \in Seq(Command)
      PROVE  Base'
  <2>1. /\ Pump(n, waiters, pendingReadIndexes)
        /\ UNCHANGED <<proposeCh, pending, readIndexCh, status>>
    BY <1>1, Zenon DEF StepThenPump, batchVars, clientVars
  <2>2. LogTypes'
    BY <1>1, <2>1, PumpKeepsTypes, Zenon DEF LogTypes
  <2>3. OneAnswer'
    BY <2>1, PumpAnswersOnce, Zenon DEF OneAnswer
  <2> QED BY <2>2, <2>3, Zenon
<1>2. CASE Tick
  BY <1>1, <1>2, Zenon DEF Tick, LogTypes
<1>3. CASE BecomeLeader
  <2>1. IsNode([node EXCEPT !.leader = TRUE, !.pendingReads = {}])
    BY Zenon DEF LogTypes, IsNode
  <2> QED BY <1>1, <1>3, <2>1, Zenon DEF BecomeLeader, LogTypes
<1>4. CASE BecomeFollower
  <2>1. IsNode([node EXCEPT !.leader = FALSE])
    BY Zenon DEF LogTypes, IsNode
  <2> QED BY <1>1, <1>4, <2>1, Zenon DEF BecomeFollower, LogTypes
<1>5. CASE HandleAppendEntries
  <2> PICK k \in Last(node)..Len(node.log), d \in Foreign :
           /\ StepThenPump([node EXCEPT !.log = Append(SubSeq(node.log, 1, k), d), !.leader = FALSE])
           /\ UNCHANGED chosen
    BY <1>5, Zenon DEF HandleAppendEntries
  <2>1. node.log \in Seq(Command) /\ k \in Nat /\ k <= Len(node.log) /\ d \in Command
    BY DEF LogTypes, IsNode, Last, Min, Foreign
  <2>2. Append(SubSeq(node.log, 1, k), d) \in Seq(Command)
    BY <2>1
  <2>3. IsNode([node EXCEPT !.log = Append(SubSeq(node.log, 1, k), d), !.leader = FALSE])
    BY <2>2, Zenon DEF LogTypes, IsNode
  <2> QED BY <1>1, <2>3, Zenon DEF LogTypes
<1>6. CASE CommitTo
  <2> PICK i \in (node.commit + 1)..Len(node.log) :
           /\ chosen' = IF i > Len(chosen) THEN SubSeq(node.log, 1, i) ELSE chosen
           /\ StepThenPump([node EXCEPT !.commit = i])
    BY <1>6, Zenon DEF CommitTo
  <2>1. i \in Nat /\ i <= Len(node.log) /\ node.log \in Seq(Command)
    BY DEF LogTypes, IsNode
  <2>2. chosen' \in Seq(Command)
    BY <2>1 DEF LogTypes
  <2>3. IsNode([node EXCEPT !.commit = i])
    BY <2>1, Zenon DEF LogTypes, IsNode
  <2> QED BY <1>1, <2>2, <2>3, Zenon
<1>7. CASE HandleInstallSnapshot
  <2> PICK i \in (node.snapshot.index + 1)..Len(chosen), data \in Values :
           LET snap == [index |-> i, data |-> data]
           IN  /\ StepThenPump([node EXCEPT !.log = SubSeq(chosen, 1, i), !.commit = Max(i, node.commit),
                                            !.snapshot = snap, !.toApply = snap, !.leader = FALSE])
               /\ UNCHANGED chosen
    BY <1>7, Zenon DEF HandleInstallSnapshot
  <2> DEFINE snap == [index |-> i, data |-> data]
             n == [node EXCEPT !.log = SubSeq(chosen, 1, i), !.commit = Max(i, node.commit),
                               !.snapshot = snap, !.toApply = snap, !.leader = FALSE]
  <2>1. i \in Nat /\ i <= Len(chosen) /\ chosen \in Seq(Command) /\ Max(i, node.commit) \in Nat
    BY DEF LogTypes, IsNode, Max
  <2>2. SubSeq(chosen, 1, i) \in Seq(Command)
    BY <2>1
  <2>3. /\ DOMAIN n = DOMAIN node
        /\ n = [x \in DOMAIN n |-> n[x]]
    BY Zenon
  <2>4. /\ n.log = SubSeq(chosen, 1, i) /\ n.commit = Max(i, node.commit)
        /\ n.snapshot = snap /\ n.toApply = snap
    BY Zenon DEF LogTypes, IsNode
  <2>5. IsNode(n)
    BY <2>1, <2>2, <2>3, <2>4, Zenon DEF LogTypes, IsNode
  <2> QED BY <1>1, <2>5, Zenon DEF LogTypes
<1>8. CASE ConfirmRead
  <2> PICK s \in node.pendingReads :
           /\ StepThenPump([node EXCEPT !.pendingReads = @ \ {s}, !.readStates = @ \cup {s}])
           /\ UNCHANGED chosen
    BY <1>8, Zenon DEF ConfirmRead
  <2>1. IsNode([node EXCEPT !.pendingReads = @ \ {s}, !.readStates = @ \cup {s}])
    BY Zenon DEF LogTypes, IsNode
  <2> QED BY <1>1, <2>1, Zenon DEF LogTypes
<1> QED BY <1>2, <1>3, <1>4, <1>5, <1>6, <1>7, <1>8, Zenon DEF RaftStep

\* submitBatch, with the node as it may propose to it.
LEMMA SubmitKeepsTypes ==
    ASSUME LogTypes, NEW b \in Seq(Put), SubmitBatch(b), UNCHANGED chosen
    PROVE  LogTypes'
<1> DEFINE datas == [x \in DOMAIN b |-> Data[b[x]]]
           n == [node EXCEPT !.log = @ \o datas]
<1>1. CASE \E w : Pump(n, w, pendingReadIndexes)
  <2>1. datas \in Seq(Command)
    <3>1. DOMAIN datas = 1..Len(b) /\ \A x \in 1..Len(b) : datas[x] \in Command
      BY CommandAssumption
    <3>2. Len(b) \in Nat
      OBVIOUS
    <3> HIDE DEF datas
    <3>3. datas \in [1..Len(b) -> Command]
      BY <3>1, Zenon DEF datas
    <3> QED BY <3>2, <3>3
  <2> HIDE DEF datas
  <2>2. IsNode(n)
    <3>1. node.log \o datas \in Seq(Command)
      BY <2>1 DEF LogTypes, IsNode
    <3> QED BY <3>1, Zenon DEF LogTypes, IsNode
  <2> QED BY <1>1, <2>2, PumpKeepsTypes, Zenon DEF LogTypes
<1>2. CASE UNCHANGED <<node, disk, applyVars>>
  BY <1>2, Zenon DEF LogTypes, applyVars
<1> QED BY <1>1, <1>2, Zenon DEF SubmitBatch

LEMMA RunBase ==
    ASSUME Base, ReceivePropose \/ BatchTimerFires \/ ReceiveReadIndex \/ ReceiveStop \/ RecvClosed
    PROVE  Base'
<1> USE DEF Base
<1>0. Len(node.log) \in Nat
  BY DEF LogTypes, IsNode
<1>1. CASE ReceivePropose
  <2> DEFINE b == Append(pending, Head(proposeCh))
  <2>1. /\ Separate(Tail(proposeCh), b, waiters, readIndexCh, pendingReadIndexes)
        /\ Unanswered(Tail(proposeCh), b, waiters, readIndexCh, pendingReadIndexes, resultCh, status)
    BY <1>1, JoinsBatch, Zenon DEF ReceivePropose, OneAnswer
  <2>2. proposeCh' = Tail(proposeCh) /\ UNCHANGED <<chosen, readIndexCh, status>>
    BY <1>1, Zenon DEF ReceivePropose
  <2> HIDE DEF b
  <2>3. CASE SubmitBatch(b) /\ pending' = <<>>
    <3>1. OneAnswer'
      BY <1>0, <2>1, <2>2, <2>3, SubmitAnswersOnce, Zenon DEF OneAnswer
    <3>2. LogTypes'
      BY <2>1, <2>2, <2>3, SubmitKeepsTypes, Zenon DEF Separate
    <3> QED BY <3>1, <3>2, Zenon
  <2>4. CASE pending' = b /\ UNCHANGED <<node, disk, applyVars, waiters, pendingReadIndexes, resultCh>>
    BY <2>1, <2>2, <2>4, Zenon DEF OneAnswer, LogTypes, applyVars
  <2> QED BY <1>1, <2>3, <2>4, Zenon DEF ReceivePropose, b
<1>2. CASE BatchTimerFires
  <2>1. SubmitBatch(pending) /\ pending' = <<>> /\ UNCHANGED <<chosen, proposeCh, readIndexCh, status>>
    BY <1>2, Zenon DEF BatchTimerFires, clientVars
  <2>2. OneAnswer'
    BY <1>0, <2>1, SubmitAnswersOnce, Zenon DEF OneAnswer
  <2>3. LogTypes'
    BY <2>1, SubmitKeepsTypes, Zenon DEF OneAnswer, Separate
  <2> QED BY <2>2, <2>3, Zenon
<1>3. CASE ReceiveReadIndex
  <2> DEFINE c == Head(readIndexCh)
             r == [x \in DOMAIN pendingReadIndexes \cup {nextReadCtx} |->
                      IF x = nextReadCtx THEN c ELSE pendingReadIndexes[x]]
             n == [node EXCEPT !.pendingReads = @ \cup {[ctx |-> nextReadCtx, index |-> node.commit]}]
  <2>1. /\ Separate(proposeCh, pending, waiters, Tail(readIndexCh), r)
        /\ Unanswered(proposeCh, pending, waiters, Tail(readIndexCh), r, resultCh, status)
    BY <1>3, JoinsReads, Zenon DEF ReceiveReadIndex, OneAnswer
  <2>2. readIndexCh' = Tail(readIndexCh) /\ UNCHANGED <<chosen, proposeCh, pending, status>>
    BY <1>3, Zenon DEF ReceiveReadIndex, batchVars
  <2>3. CASE Pump(n, waiters, r)
    <3>1. IsNode(n)
      BY Zenon DEF LogTypes, IsNode
    <3> HIDE DEF n, r
    <3>2. OneAnswer'
      BY <2>1, <2>2, <2>3, PumpAnswersOnce, Zenon DEF OneAnswer
    <3> QED BY <2>2, <2>3, <3>1, <3>2, PumpKeepsTypes, Zenon DEF LogTypes
  <2>4. CASE resultCh' = Answer({c}, Failed)
             /\ UNCHANGED <<node, disk, applyVars, waiters, pendingReadIndexes>>
    <3>1. /\ readIndexCh \in Seq(Get) /\ readIndexCh # <<>> /\ c \in Get /\ c = readIndexCh[1]
          /\ 1 \in DOMAIN readIndexCh
      BY <1>3 DEF OneAnswer, Separate, ReceiveReadIndex
    <3>2. \A y \in DOMAIN Tail(readIndexCh) :
             y + 1 \in DOMAIN readIndexCh /\ Tail(readIndexCh)[y] = readIndexCh[y + 1]
             /\ y + 1 # 1 /\ y \in Int
      BY <3>1
    <3>3. Tail(readIndexCh) \in Seq(Get)
      BY <3>1
    <3> DEFINE t == Tail(readIndexCh)
    <3>4. readIndexCh' = t
      BY <2>2, Zenon
    <3> HIDE DEF t, c
    <3>5. Separate(proposeCh, pending, waiters, t, pendingReadIndexes)
      <4>1. Once(t)
        BY <3>2 DEF OneAnswer, Separate, Once, t
      <4>2. Apart(t, pendingReadIndexes)
        BY <3>2 DEF OneAnswer, Separate, Apart, t
      <4> QED BY <3>3, <4>1, <4>2, Zenon DEF OneAnswer, Separate, t
    <3>6. resultCh[c] = <<>> /\ status[c] # "calling" /\ c \in Call
      BY <3>1, Zenon DEF OneAnswer, Unanswered, Placed, In, Call
    <3>7. AtMostOne(resultCh')
      <4>1. \A x \in Call : resultCh'[x] = IF x = c THEN Append(resultCh[x], Failed) ELSE resultCh[x]
        BY <2>4, Zenon DEF Answer
      <4>2. resultCh' = [x \in Call |-> resultCh'[x]]
        BY <2>4, Zenon DEF Answer
      <4> QED BY <3>6, <4>1, <4>2 DEF OneAnswer, AtMostOne
    <3>8. ASSUME NEW x \in Call, Placed(x, proposeCh, pending, waiters, t, pendingReadIndexes)
          PROVE  x # c /\ Placed(x, proposeCh, pending, waiters, readIndexCh, pendingReadIndexes)
      <4>1. Placed(x, proposeCh, pending, waiters, readIndexCh, pendingReadIndexes)
        BY <3>2, <3>8, Zenon DEF Placed, In, t
      <4>2. ~In(c, t)
        BY <3>1, <3>2, Zenon DEF In, OneAnswer, Separate, Once, t
      <4>3. ~In(c, pendingReadIndexes)
        BY <3>1, Zenon DEF In, OneAnswer, Separate, Apart
      <4>4. ~In(c, proposeCh) /\ ~In(c, pending) /\ ~In(c, waiters)
        BY <3>1, CallAssumption DEF In, OneAnswer, Separate
      <4> QED BY <3>8, <4>1, <4>2, <4>3, <4>4, Zenon DEF Placed
    <3>9. Unanswered(proposeCh, pending, waiters, t, pendingReadIndexes, resultCh', status)
      BY <2>4, <3>6, <3>8, Zenon DEF OneAnswer, Unanswered, Answer
    <3> QED BY <2>2, <2>4, <3>4, <3>5, <3>7, <3>9, Zenon DEF OneAnswer, LogTypes, applyVars
  <2> QED BY <1>3, <2>3, <2>4, Zenon DEF ReceiveReadIndex
<1>4. CASE ReceiveStop
  <2> DEFINE told == Range(pending) \cup Range(pendingReadIndexes)
  <2>1. /\ resultCh' = Answer(told, Failed) /\ pending' = <<>> /\ DOMAIN pendingReadIndexes' = {}
        /\ UNCHANGED <<raftVars, applyVars, waiters, proposeCh, readIndexCh, status>>
    BY <1>4, Zenon DEF ReceiveStop, RunReturns, Without, clientVars
  <2>2. Separate(proposeCh, <<>>, waiters, readIndexCh, pendingReadIndexes')
    BY <2>1 DEF OneAnswer, Separate, Once, Apart
  <2>3. \A c \in Call : c \in told => In(c, pending) \/ In(c, pendingReadIndexes)
    BY Zenon DEF Range, In
  <2>4. \A c \in Call : Placed(c, proposeCh, <<>>, waiters, readIndexCh, pendingReadIndexes')
           => c \notin told /\ Placed(c, proposeCh, pending, waiters, readIndexCh, pendingReadIndexes)
    <3>a. \A c : ~In(c, pendingReadIndexes')
      BY <2>1, Zenon DEF In
    <3>b. \A c : ~In(c, <<>>)
      BY DEF In
    <3> HIDE DEF told
    <3> SUFFICES ASSUME NEW c \in Call,
                        In(c, proposeCh) \/ In(c, waiters) \/ In(c, readIndexCh)
                 PROVE  c \notin told
      BY <3>a, <3>b, Zenon DEF Placed
    <3>0. Separate(proposeCh, pending, waiters, readIndexCh, pendingReadIndexes)
      BY Zenon DEF OneAnswer
    <3>1. CASE In(c, proposeCh) \/ In(c, waiters)
      <4>1. ~In(c, pending)
        BY <3>0, <3>1, Zenon DEF In, Separate, Apart
      <4>2. ~In(c, pendingReadIndexes)
        BY <3>0, <3>1, CallAssumption DEF In, Separate
      <4> QED BY <2>3, <4>1, <4>2, Zenon
    <3>2. CASE In(c, readIndexCh)
      <4>1. ~In(c, pending)
        BY <3>0, <3>2, CallAssumption DEF In, Separate
      <4>2. ~In(c, pendingReadIndexes)
        BY <3>0, <3>2, Zenon DEF In, Separate, Apart
      <4> QED BY <2>3, <4>1, <4>2, Zenon
    <3> QED BY <3>1, <3>2, Zenon
  <2> HIDE DEF told
  <2>5. \A c \in Call : /\ resultCh'[c] = IF c \in told THEN Append(resultCh[c], Failed) ELSE resultCh[c]
                        /\ c \in told => resultCh[c] = <<>> /\ status[c] # "calling"
    BY <2>1, <2>3, Zenon DEF Answer, OneAnswer, Unanswered, Placed
  <2>6. AtMostOne(resultCh')
    <3>1. resultCh' = [c \in Call |-> resultCh'[c]]
      BY <2>1, Zenon DEF Answer
    <3> QED BY <2>5, <3>1 DEF OneAnswer, AtMostOne
  <2>7. Unanswered(proposeCh, <<>>, waiters, readIndexCh, pendingReadIndexes', resultCh', status)
    BY <2>4, <2>5, Zenon DEF OneAnswer, Unanswered
  <2> QED BY <2>1, <2>2, <2>6, <2>7, Zenon DEF OneAnswer, LogTypes, raftVars, applyVars
<1>5. CASE RecvClosed
  <2>1. /\ resultCh' = Answer(Range(pending), Failed) /\ pending' = <<>>
        /\ UNCHANGED <<raftVars, applyVars, waiters, pendingReadIndexes, proposeCh, readIndexCh, status>>
    BY <1>5, Zenon DEF RecvClosed, RunReturns, clientVars
  <2> QED BY <2>1, BatchAnsweredOnce, Zenon DEF OneAnswer, LogTypes, raftVars, applyVars
<1> QED BY <1>1, <1>2, <1>3, <1>4, <1>5, Zenon

LEMMA ClientBase ==
    ASSUME Base, NEW c \in Call, Client(c)
    PROVE  Base'
<1> USE DEF Base
<1>1. /\ UNCHANGED <<raftVars, applyVars, batchVars, waitVars>>
      /\ \E st : status' = [status EXCEPT ![c] = st] /\ st # "calling"
  BY Zenon DEF Client, Enqueue, TakeResult, GiveUp, SetStatus
<1>2. LogTypes'
  BY <1>1, Zenon DEF LogTypes, raftVars, applyVars
<1>3. /\ status' = [x \in Call |-> status'[x]]
      /\ status'[c] # "calling" /\ \A x \in Call : x # c => status'[x] = status[x]
  BY <1>1, Zenon DEF OneAnswer
<1>4. CASE Enqueue(c)
  <2>1. status[c] = "calling" /\ resultCh' = resultCh
    BY <1>4, Zenon DEF Enqueue
  <2>2. resultCh[c] = <<>> /\ ~Placed(c, proposeCh, pending, waiters, readIndexCh, pendingReadIndexes)
    BY <2>1, Zenon DEF OneAnswer, Unanswered
  <2>3. CASE c \in Put /\ proposeCh' = Append(proposeCh, c) /\ UNCHANGED readIndexCh
    <3>1. /\ Append(proposeCh, c) \in Seq(Put)
          /\ \A x \in DOMAIN Append(proposeCh, c) :
               \/ x \in DOMAIN proposeCh /\ Append(proposeCh, c)[x] = proposeCh[x]
               \/ x = Len(proposeCh) + 1 /\ Append(proposeCh, c)[x] = c
      BY <2>3 DEF OneAnswer, Separate
    <3> DEFINE a == Append(proposeCh, c)
    <3> HIDE DEF a
    <3>2. Once(a) /\ Apart(a, pending) /\ Apart(a, waiters)
      BY <2>2, <3>1 DEF OneAnswer, Separate, Once, Apart, Placed, In, a
    <3>3. Separate(a, pending, waiters, readIndexCh, pendingReadIndexes)
      BY <3>1, <3>2, Zenon DEF OneAnswer, Separate, a
    <3>4. \A x \in Call : Placed(x, a, pending, waiters, readIndexCh, pendingReadIndexes)
             => x = c \/ Placed(x, proposeCh, pending, waiters, readIndexCh, pendingReadIndexes)
      BY <3>1, Zenon DEF Placed, In, a
    <3>5. Unanswered(a, pending, waiters, readIndexCh, pendingReadIndexes, resultCh, status')
      BY <1>3, <2>2, <3>4, Zenon DEF OneAnswer, Unanswered
    <3>6. proposeCh' = a
      BY <2>3, Zenon DEF a
    <3> QED BY <1>1, <1>2, <1>3, <2>1, <2>3, <3>3, <3>5, <3>6, Zenon DEF OneAnswer, batchVars, waitVars
  <2>4. CASE c \in Get /\ readIndexCh' = Append(readIndexCh, c) /\ UNCHANGED proposeCh
    <3>1. /\ Append(readIndexCh, c) \in Seq(Get)
          /\ \A x \in DOMAIN Append(readIndexCh, c) :
               \/ x \in DOMAIN readIndexCh /\ Append(readIndexCh, c)[x] = readIndexCh[x]
               \/ x = Len(readIndexCh) + 1 /\ Append(readIndexCh, c)[x] = c
      BY <2>4 DEF OneAnswer, Separate
    <3> DEFINE a == Append(readIndexCh, c)
    <3> HIDE DEF a
    <3>2. Once(a) /\ Apart(a, pendingReadIndexes)
      BY <2>2, <3>1 DEF OneAnswer, Separate, Once, Apart, Placed, In, a
    <3>3. Separate(proposeCh, pending, waiters, a, pendingReadIndexes)
      BY <3>1, <3>2, Zenon DEF OneAnswer, Separate, a
    <3>4. \A x \in Call : Placed(x, proposeCh, pending, waiters, a, pendingReadIndexes)
             => x = c \/ Placed(x, proposeCh, pending, waiters, readIndexCh, pendingReadIndexes)
      BY <3>1, Zenon DEF Placed, In, a
    <3>5. Unanswered(proposeCh, pending, waiters, a, pendingReadIndexes, resultCh, status')
      BY <1>3, <2>2, <3>4, Zenon DEF OneAnswer, Unanswered
    <3>6. readIndexCh' = a
      BY <2>4, Zenon DEF a
    <3> QED BY <1>1, <1>2, <1>3, <2>1, <2>4, <3>3, <3>5, <3>6, Zenon DEF OneAnswer, batchVars, waitVars
  <2> QED BY <1>4, <2>3, <2>4, Zenon DEF Enqueue
<1>5. CASE TakeResult(c)
  <2>1. /\ resultCh[c] # <<>> /\ resultCh' = [resultCh EXCEPT ![c] = Tail(@)]
        /\ UNCHANGED <<proposeCh, readIndexCh>>
    BY <1>5, Zenon DEF TakeResult
  <2>2. /\ resultCh' = [x \in Call |-> resultCh'[x]]
        /\ resultCh'[c] = <<>> /\ \A x \in Call : x # c => resultCh'[x] = resultCh[x]
    <3>1. PICK a : resultCh[c] = <<a>>
      BY <2>1, Zenon DEF OneAnswer, AtMostOne
    <3>2. Tail(<<a>>) = <<>>
      OBVIOUS
    <3>3. resultCh'[c] = Tail(resultCh[c])
      BY <2>1, Zenon DEF OneAnswer, AtMostOne
    <3>4. \A x \in Call : x # c => resultCh'[x] = resultCh[x]
      BY <2>1, Zenon DEF OneAnswer, AtMostOne
    <3>5. resultCh' = [x \in Call |-> resultCh'[x]]
      BY <2>1, Zenon DEF OneAnswer, AtMostOne
    <3> QED BY <3>1, <3>2, <3>3, <3>4, <3>5, Zenon
  <2>3. AtMostOne(resultCh')
    BY <2>2, Zenon DEF OneAnswer, AtMostOne
  <2> QED BY <1>1, <1>2, <1>3, <2>1, <2>2, <2>3, ZenonT(30) DEF OneAnswer, Unanswered, batchVars, waitVars
<1>6. CASE GiveUp(c)
  <2>1. UNCHANGED <<proposeCh, readIndexCh, resultCh>>
    BY <1>6, Zenon DEF GiveUp
  <2> QED BY <1>1, <1>2, <1>3, <2>1, Zenon DEF OneAnswer, Unanswered, batchVars, waitVars
<1> QED BY <1>4, <1>5, <1>6, Zenon DEF Client

\* OpenNode.
LEMMA OpenedIsNode ==
    ASSUME NEW d, d.log \in Seq(Command), d.snapshot.index \in Nat
    PROVE  IsNode(Opened(d))
<1>1. NoSnapshot.index = 0
  BY Zenon DEF NoSnapshot
<1>2. /\ Opened(d).log = d.log /\ Opened(d).commit = d.snapshot.index
      /\ Opened(d).snapshot = d.snapshot /\ Opened(d).toApply = NoSnapshot
  BY Zenon DEF Opened
<1>3. /\ DOMAIN Opened(d) = {"log", "commit", "leader", "snapshot", "toApply", "pendingReads",
                             "readStates"}
      /\ Opened(d) = [x \in DOMAIN Opened(d) |-> Opened(d)[x]]
  BY Zenon DEF Opened
<1> QED BY <1>1, <1>2, <1>3 DEF IsNode

LEMMA BaseInit == Init => Base
<1> SUFFICES ASSUME Init PROVE Base
    BY Zenon
<1>1. LogTypes
  <2>1. disk.log = <<>> /\ disk.snapshot.index = 0
    BY Zenon DEF Init, NoSnapshot
  <2>2. disk.log \in Seq(Command) /\ disk.snapshot.index \in Nat
    BY <2>1
  <2> QED BY <2>2, OpenedIsNode, Zenon DEF Init, LogTypes
<1>2. /\ proposeCh = <<>> /\ pending = <<>> /\ readIndexCh = <<>>
      /\ DOMAIN waiters = {} /\ DOMAIN pendingReadIndexes = {}
      /\ resultCh = [c \in Call |-> <<>>]
      /\ status = [c \in Call |-> IF c \in left.calls THEN "calling" ELSE "err"]
  BY Zenon DEF Init
<1>3. Separate(proposeCh, pending, waiters, readIndexCh, pendingReadIndexes)
  BY <1>2 DEF Separate, Once, Apart
<1>4. \A c \in Call : ~Placed(c, proposeCh, pending, waiters, readIndexCh, pendingReadIndexes)
  BY <1>2 DEF Placed, In
<1>5. AtMostOne(resultCh) /\ status = [c \in Call |-> status[c]]
  BY <1>2, Zenon DEF AtMostOne
<1>6. \A c \in Call : resultCh[c] = <<>>
  BY <1>2, Zenon
<1> QED BY <1>1, <1>3, <1>4, <1>5, <1>6, Zenon DEF Base, OneAnswer, Unanswered

LEMMA RestartBase ==
    ASSUME Base, Restart
    PROVE  Base'
<1>1. LogTypes'
  <2>1. disk.log \in Seq(Command) /\ disk.snapshot.index \in Nat /\ node' = Opened(disk)
    BY Zenon DEF Base, LogTypes, Restart
  <2>2. IsNode(Opened(disk))
    BY <2>1, OpenedIsNode, Zenon
  <2> QED BY <2>1, <2>2, Zenon DEF Base, LogTypes, Restart
<1>2. /\ proposeCh' = <<>> /\ pending' = <<>> /\ readIndexCh' = <<>>
      /\ DOMAIN waiters' = {} /\ DOMAIN pendingReadIndexes' = {}
      /\ resultCh' = [c \in Call |-> <<>>]
      /\ status' = [c \in Call |-> IF status[c] = "waiting" THEN "err" ELSE status[c]]
  BY Zenon DEF Restart
<1>3. Separate(proposeCh', pending', waiters', readIndexCh', pendingReadIndexes')
  BY <1>2 DEF Separate, Once, Apart
<1>4. \A c \in Call : ~Placed(c, proposeCh', pending', waiters', readIndexCh', pendingReadIndexes')
  BY <1>2 DEF Placed, In
<1>5. AtMostOne(resultCh') /\ status' = [c \in Call |-> status'[c]]
  BY <1>2, Zenon DEF AtMostOne
<1>6. \A c \in Call : resultCh'[c] = <<>>
  BY <1>2, Zenon
<1> QED BY <1>1, <1>3, <1>4, <1>5, <1>6, Zenon DEF Base, OneAnswer, Unanswered

LEMMA BaseNext == Base /\ [Next]_vars => Base'
<1> SUFFICES ASSUME Base, [Next]_vars PROVE Base'
    BY Zenon
<1>1. CASE Run
  BY <1>1, RaftStepBase, RunBase, Zenon DEF Run
<1>2. CASE \E c \in Call : Client(c)
  BY <1>2, ClientBase, Zenon
<1>3. CASE CallStop \/ UNCHANGED vars
  BY <1>3, Zenon DEF Base, LogTypes, OneAnswer, CallStop, vars, raftVars, applyVars, batchVars, waitVars,
              clientVars
<1>4. CASE OthersCommit
  <2>1. chosen' \in Seq(Command)
    BY <1>4 DEF OthersCommit, Base, LogTypes, Foreign
  <2> QED BY <1>4, <2>1, Zenon DEF OthersCommit, Base, LogTypes, OneAnswer, applyVars, batchVars, waitVars,
                            clientVars
<1>5. CASE Restart
  BY <1>5, RestartBase, Zenon
<1> QED BY <1>1, <1>2, <1>3, <1>4, <1>5, Zenon DEF Next

LEMMA BaseAlways == Spec => []Base
BY BaseInit, BaseNext, PTL DEF Spec

\* No call is ever answered twice, whatever fails and whenever Stop, a restart or
\* a change of leader comes: a second send on the result channel would block Run,
\* and with it the node, for good (applyCommitted, failPending, submitBatch).
THEOREM NobodyAnsweredTwice == Spec => []AnsweredOnce
<1>1. Base => AnsweredOnce
  <2> SUFFICES ASSUME AtMostOne(resultCh), NEW c \in Call PROVE Len(resultCh[c]) <= 1
    BY Zenon DEF Base, OneAnswer, AnsweredOnce
  <2>1. CASE resultCh[c] = <<>>
    BY <2>1
  <2>2. ASSUME NEW a, resultCh[c] = <<a>> PROVE Len(resultCh[c]) <= 1
    BY <2>2
  <2> QED BY <2>1, <2>2, Zenon DEF AtMostOne
<1> QED BY <1>1, BaseAlways, PTL

-----------------------------------------------------------------------------
(***************************************************************************)
(* Up to its commit index a node's log is what the cluster has chosen, and *)
(* so is, up to its snapshot, the log that OpenNode would read back.       *)
(***************************************************************************)
Prefix(lg, k, ch) == k <= Len(lg) /\ k <= Len(ch) /\ \A j \in 1..k : lg[j] = ch[j]

Agrees(n, ch) == n.snapshot.index <= n.commit /\ Prefix(n.log, n.commit, ch)

DiskAgrees(d, ch) == Prefix(d.log, d.snapshot.index, ch)

Truth(a, c, ch) == a.ok => a.index \in 1..Len(ch) /\ ch[a.index] = Data[c]

Truthful(res, ch) == \A c \in Put : \A a : res[c] = <<a>> => Truth(a, c, ch)

Agreement == Agrees(node, chosen) /\ DiskAgrees(disk, chosen) /\ Truthful(resultCh, chosen)

IsLog(ch) == ch \in Seq(Command)

LEMMA OneResult == \A y, z : /\ Append(<<>>, y) = <<y>> /\ <<>> # <<y>>
                             /\ <<y>> = <<z>> => y = z
OBVIOUS

\* The part of a log that agrees may be cut short, and appended to.
LEMMA PrefixShorter ==
    ASSUME NEW lg, NEW ch, NEW k \in Nat, NEW m \in Nat, m <= k,
           Len(lg) \in Nat, Len(ch) \in Nat, Prefix(lg, k, ch)
    PROVE  Prefix(lg, m, ch)
BY DEF Prefix

LEMMA PrefixLonger ==
    ASSUME NEW lg, NEW longer, NEW ch, NEW k \in Nat,
           Len(lg) \in Nat, Len(longer) \in Nat, Len(lg) <= Len(longer),
           \A j \in 1..Len(lg) : longer[j] = lg[j], Prefix(lg, k, ch)
    PROVE  Prefix(longer, k, ch)
BY DEF Prefix

\* applyCommitted answers for what is committed, and compares the data.
LEMMA OutcomeIsTrue ==
    ASSUME NEW n, NEW ch, NEW c, NEW from \in Nat, NEW applies, NEW i \in First(n, from)..Last(n),
           IsNode(n), IsLog(ch), Agrees(n, ch)
    PROVE  Truth(Outcome(n, c, i, applies), c, ch)
<1>1. /\ Len(n.log) \in Nat /\ n.commit \in Nat /\ n.snapshot.index \in Nat
      /\ Len(ch) \in Nat /\ n.commit <= Len(ch)
  BY DEF IsNode, IsLog, Agrees, Prefix
<1>2. i \in 1..n.commit
  BY <1>1 DEF First, Last, Max, Min
<1>3. n.log[i] = ch[i] /\ i \in 1..Len(ch)
  BY <1>1, <1>2 DEF Agrees, Prefix
<1>4. Outcome(n, c, i, applies).index = i /\ (Outcome(n, c, i, applies).ok => Data[c] = n.log[i])
  BY Zenon DEF Outcome
<1> QED BY <1>3, <1>4, Zenon DEF Truth

\* Taking a snapshot, or not, leaves the log and the commit index alone.
LEMMA SnapshotAgrees ==
    ASSUME NEW n, NEW w, NEW r, NEW e, NEW from, NEW snapped, NEW applies, NEW ch,
           IsNode(n), Agrees(n, ch), ApplyCommitted(n, w, r, e, from, snapped, applies)
    PROVE  Agrees(node', ch)
<1>1. Advanced(n).log = n.log /\ Advanced(n).commit = n.commit /\ Advanced(n).snapshot = n.snapshot
  BY Zenon DEF Advanced, IsNode
<1>2. ASSUME NEW a, NEW data, node' = CreateSnapshot(Advanced(n), a, data), a <= n.commit
      PROVE  Agrees(node', ch)
  <2>1. /\ node'.log = n.log /\ node'.commit = n.commit /\ node'.snapshot.index = a
    BY <1>1, <1>2, Zenon DEF CreateSnapshot, Advanced, IsNode
  <2> QED BY <1>2, <2>1, Zenon DEF Agrees
<1>3. CASE node' = Advanced(n)
  BY <1>1, <1>3, Zenon DEF Agrees
<1>4. \/ node' = Advanced(n)
      \/ \E a, data : node' = CreateSnapshot(Advanced(n), a, data) /\ a <= n.commit
  BY Zenon DEF ApplyCommitted
<1> QED BY <1>2, <1>3, <1>4, Zenon

\* A Put is answered for the entry at the index it waits at, or not at all.
LEMMA PutsAnswered ==
    ASSUME NEW n, NEW w, NEW r, NEW e, NEW from, NEW snapped, NEW applies, NEW c \in Put,
           \A x \in DOMAIN r : r[x] \in Get,
           ApplyCommitted(n, w, r, e, from, snapped, applies)
    PROVE  \/ resultCh'[c] = resultCh[c]
           \/ \E i \in First(n, from)..Last(n) :
                 /\ In(c, w)
                 /\ resultCh'[c] = Append(resultCh[c], Outcome(n, c, i, applies))
<1> DEFINE due  == DOMAIN w \cap (First(n, from)..Last(n))
           read == {s \in n.readStates : s.ctx \in DOMAIN r}
<1>1. ~ \E s \in read : r[s.ctx] = c
  BY CallAssumption, Zenon
<1>2. c \in Call
  BY Zenon DEF Call
<1>3. CASE \E i \in due : w[i] = c
  <2> DEFINE i == CHOOSE i \in due : w[i] = c
  <2>1. i \in due /\ w[i] = c
    BY <1>3, Zenon
  <2>2. resultCh'[c] = Append(resultCh[c], Outcome(n, c, i, applies))
    BY <1>2, <1>3, Zenon DEF ApplyCommitted
  <2>3. i \in First(n, from)..Last(n) /\ In(c, w)
    BY <2>1, Zenon DEF In
  <2> HIDE DEF i
  <2> QED BY <2>2, <2>3, Zenon
<1>4. CASE ~ \E i \in due : w[i] = c
  BY <1>1, <1>2, <1>4, Zenon DEF ApplyCommitted
<1> QED BY <1>3, <1>4, Zenon

LEMMA PumpAgrees ==
    ASSUME NEW n, NEW p, NEW b, NEW w, NEW q, NEW r, NEW ch, IsLog(ch),
           LogTypes, IsNode(n), Pump(n, w, r),
           Separate(p, b, w, q, r), Unanswered(p, b, w, q, r, resultCh, status),
           Agrees(n, ch), DiskAgrees(disk, ch), Truthful(resultCh, ch)
    PROVE  Agrees(node', ch) /\ DiskAgrees(disk', ch) /\ Truthful(resultCh', ch)
<1>1. DiskAgrees(Stored(n), ch)
  <2>1. /\ Stored(n).log = n.log /\ Stored(n).snapshot = n.snapshot
        /\ n.commit \in Nat /\ n.snapshot.index \in Nat /\ Len(n.log) \in Nat /\ Len(ch) \in Nat
    BY DEF Stored, IsNode, IsLog
  <2>2. n.snapshot.index <= n.commit /\ Prefix(n.log, n.commit, ch)
    BY Zenon DEF Agrees
  <2>3. Prefix(n.log, n.snapshot.index, ch)
    BY <2>1, <2>2, PrefixShorter, Zenon
  <2> QED BY <2>1, <2>3, Zenon DEF DiskAgrees
<1>2. ASSUME NEW e, NEW from, NEW snapped, NEW applies, from \in {n.toApply.index, lastApplied},
             disk' = Stored(n), ApplyCommitted(n, w, r, e, from, snapped, applies)
      PROVE  Agrees(node', ch) /\ DiskAgrees(disk', ch) /\ Truthful(resultCh', ch)
  <2>1. Agrees(node', ch)
    BY <1>2, SnapshotAgrees, Zenon
  <2>2. from \in Nat
    BY <1>2, Zenon DEF LogTypes, IsNode
  <2>3. ASSUME NEW c \in Put, NEW a, resultCh'[c] = <<a>> PROVE Truth(a, c, ch)
    <3>1. \A x \in DOMAIN r : r[x] \in Get
      BY Zenon DEF Separate
    <3>2. CASE resultCh'[c] = resultCh[c]
      BY <2>3, <3>2, Zenon DEF Truthful
    <3>3. ASSUME NEW i \in First(n, from)..Last(n), In(c, w),
                 resultCh'[c] = Append(resultCh[c], Outcome(n, c, i, applies))
          PROVE  Truth(a, c, ch)
      <4>1. resultCh[c] = <<>>
        <5>1. c \in Call /\ Placed(c, p, b, w, q, r)
          BY <3>3, Zenon DEF Placed, Call
        <5> QED BY <5>1, Zenon DEF Unanswered
      <4>2. a = Outcome(n, c, i, applies)
        <5>1. <<a>> = Append(<<>>, Outcome(n, c, i, applies))
          BY <2>3, <3>3, <4>1, Zenon
        <5>2. <<a>> = <<Outcome(n, c, i, applies)>>
          BY <5>1, OneResult, Zenon
        <5> QED BY <5>2, OneResult, Zenon
      <4> QED BY <2>2, <4>2, OutcomeIsTrue, Zenon
    <3>4. \/ resultCh'[c] = resultCh[c]
          \/ \E i \in First(n, from)..Last(n) :
                In(c, w) /\ resultCh'[c] = Append(resultCh[c], Outcome(n, c, i, applies))
      BY <1>2, <3>1, PutsAnswered, ZenonT(30)
    <3> QED BY <3>2, <3>3, <3>4, Zenon
  <2> QED BY <1>1, <1>2, <2>1, <2>3, Zenon DEF Truthful
<1>3. CASE disk' \in {disk, Stored(n)} /\ node' = n /\ resultCh' = resultCh
  BY <1>1, <1>3, Zenon
<1> QED BY <1>2, <1>3 DEF Pump

\* What the cluster has chosen only grows.
Grows(ch, next) == Len(ch) <= Len(next) /\ \A j \in 1..Len(ch) : next[j] = ch[j]

LEMMA GrowthKeeps ==
    ASSUME NEW ch, NEW next, IsLog(ch), IsLog(next), Grows(ch, next)
    PROVE  /\ \A lg, k : k \in Nat /\ Prefix(lg, k, ch) => Prefix(lg, k, next)
           /\ Truthful(resultCh, ch) => Truthful(resultCh, next)
<1>1. Len(ch) \in Nat /\ Len(next) \in Nat
  BY DEF IsLog
<1>2. ASSUME NEW lg, NEW k \in Nat, Prefix(lg, k, ch) PROVE Prefix(lg, k, next)
  BY <1>1, <1>2 DEF Grows, Prefix
<1>3. ASSUME NEW a, NEW c, Truth(a, c, ch) PROVE Truth(a, c, next)
  BY <1>1, <1>3 DEF Grows, Truth
<1> QED BY <1>2, <1>3, Zenon DEF Truthful

LEMMA NothingChosen ==
    ASSUME LogTypes, UNCHANGED chosen
    PROVE  IsLog(chosen) /\ IsLog(chosen') /\ Grows(chosen, chosen')
BY DEF LogTypes, IsLog, Grows

LEMMA PumpKeepsAgreement ==
    ASSUME Base, Agreement, NEW n, NEW p, NEW b, NEW w, NEW q, NEW r,
           IsLog(chosen'), Grows(chosen, chosen'),
           IsNode(n), Agrees(n, chosen'), Pump(n, w, r),
           Separate(p, b, w, q, r), Unanswered(p, b, w, q, r, resultCh, status)
    PROVE  Agreement'
<1>1. IsLog(chosen) /\ disk.snapshot.index \in Nat /\ LogTypes
  BY Zenon DEF Base, LogTypes, IsLog
<1>2. DiskAgrees(disk, chosen')
  BY <1>1, GrowthKeeps, Zenon DEF Agreement, DiskAgrees
<1>3. Truthful(resultCh, chosen')
  BY <1>1, GrowthKeeps, Zenon DEF Agreement
<1>4. Agrees(node', chosen') /\ DiskAgrees(disk', chosen') /\ Truthful(resultCh', chosen')
  BY <1>1, <1>2, <1>3, PumpAgrees, Zenon
<1> QED BY <1>4, Zenon DEF Agreement

LEMMA RaftStepAgreement ==
    ASSUME ~rolledBack', Base, Agreement, RaftStep
    PROVE  Agreement'
<1>0. /\ IsNode(node) /\ chosen \in Seq(Command) /\ Len(chosen) \in Nat
      /\ node.log \in Seq(Command) /\ Len(node.log) \in Nat
      /\ node.commit \in Nat /\ node.snapshot.index \in Nat
      /\ node.commit <= Len(node.log) /\ node.commit <= Len(chosen)
      /\ node.snapshot.index <= node.commit
      /\ \A j \in 1..node.commit : node.log[j] = chosen[j]
  BY DEF Base, LogTypes, IsNode, Agreement, Agrees, Prefix
<1>1. ASSUME NEW n, IsNode(n), StepThenPump(n), IsLog(chosen'), Grows(chosen, chosen'),
             Agrees(n, chosen')
      PROVE  Agreement'
  <2>1. /\ Pump(n, waiters, pendingReadIndexes)
        /\ Separate(proposeCh, pending, waiters, readIndexCh, pendingReadIndexes)
        /\ Unanswered(proposeCh, pending, waiters, readIndexCh, pendingReadIndexes, resultCh, status)
    BY <1>1, Zenon DEF StepThenPump, Base, OneAnswer
  <2> QED BY <1>1, <2>1, PumpKeepsAgreement, Zenon
<1>2. chosen' = chosen => IsLog(chosen') /\ Grows(chosen, chosen')
  BY NothingChosen, Zenon DEF Base
<1>3. ASSUME NEW n, IsNode(n), StepThenPump(n), chosen' = chosen,
             n.log = node.log, n.commit = node.commit, n.snapshot = node.snapshot
      PROVE  Agreement'
  <2>1. Agrees(n, chosen')
    BY <1>3, Zenon DEF Agreement, Agrees
  <2> QED BY <1>1, <1>2, <1>3, <2>1, Zenon
<1>4. CASE Tick
  BY <1>0, <1>3, <1>4, Zenon DEF Tick
<1>5. CASE BecomeLeader
  <2> DEFINE n == [node EXCEPT !.leader = TRUE, !.pendingReads = {}]
  <2>1. IsNode(n) /\ n.log = node.log /\ n.commit = node.commit /\ n.snapshot = node.snapshot
    BY <1>0, Zenon DEF IsNode
  <2> QED BY <1>3, <1>5, <2>1, Zenon DEF BecomeLeader
<1>6. CASE BecomeFollower
  <2> DEFINE n == [node EXCEPT !.leader = FALSE]
  <2>1. IsNode(n) /\ n.log = node.log /\ n.commit = node.commit /\ n.snapshot = node.snapshot
    BY <1>0, Zenon DEF IsNode
  <2> QED BY <1>3, <1>6, <2>1, Zenon DEF BecomeFollower
<1>7. CASE HandleAppendEntries
  <2> PICK k \in Last(node)..Len(node.log), d \in Foreign :
           /\ StepThenPump([node EXCEPT !.log = Append(SubSeq(node.log, 1, k), d), !.leader = FALSE])
           /\ UNCHANGED chosen
    BY <1>7, Zenon DEF HandleAppendEntries
  <2> DEFINE lg == Append(SubSeq(node.log, 1, k), d)
             n  == [node EXCEPT !.log = lg, !.leader = FALSE]
  <2>1. k \in node.commit..Len(node.log) /\ d \in Command
    BY <1>0, Zenon DEF Last, Min, Foreign
  <2>2. lg \in Seq(Command) /\ Len(lg) = k + 1 /\ \A j \in 1..k : lg[j] = node.log[j]
    BY <1>0, <2>1
  <2> HIDE DEF lg
  <2>3. IsNode(n) /\ n.log = lg /\ n.commit = node.commit /\ n.snapshot = node.snapshot
    BY <1>0, <2>2, Zenon DEF IsNode
  <2>4. StepThenPump(n) /\ chosen' = chosen
    BY Zenon DEF lg
  <2> HIDE DEF n
  <2>5. Agrees(n, chosen)
    BY <1>0, <2>1, <2>2, <2>3 DEF Agrees, Prefix
  <2> QED BY <1>1, <1>2, <2>3, <2>4, <2>5, Zenon
<1>8. CASE CommitTo
  <2> PICK i \in (node.commit + 1)..Len(node.log) :
           /\ \A j \in 1..Min(i, Len(chosen)) : node.log[j] = chosen[j]
           /\ chosen' = IF i > Len(chosen) THEN SubSeq(node.log, 1, i) ELSE chosen
           /\ StepThenPump([node EXCEPT !.commit = i])
    BY <1>8, Zenon DEF CommitTo
  <2> DEFINE n == [node EXCEPT !.commit = i]
  <2>1. i \in Nat /\ i <= Len(node.log) /\ node.commit <= i
    BY <1>0
  <2>2. IsNode(n) /\ n.log = node.log /\ n.commit = i /\ n.snapshot = node.snapshot
    BY <1>0, <2>1, Zenon DEF IsNode
  <2>3. /\ IsLog(chosen') /\ Grows(chosen, chosen')
        /\ Prefix(node.log, i, chosen')
    <3>1. CASE i > Len(chosen)
      <4>1. /\ chosen' \in Seq(Command) /\ Len(chosen') = i
            /\ \A j \in 1..i : chosen'[j] = node.log[j]
        BY <1>0, <2>1, <3>1
      <4>2. \A j \in 1..Len(chosen) : node.log[j] = chosen[j]
        BY <1>0, <2>1, <3>1 DEF Min
      <4> QED BY <1>0, <2>1, <3>1, <4>1, <4>2 DEF Grows, Prefix, IsLog
    <3>2. CASE ~(i > Len(chosen))
      <4>1. i <= Len(chosen) /\ chosen' = chosen /\ \A j \in 1..i : node.log[j] = chosen[j]
        BY <1>0, <2>1, <3>2 DEF Min
      <4> QED BY <1>0, <1>2, <2>1, <4>1, Zenon DEF Prefix
    <3> QED BY <3>1, <3>2, Zenon
  <2>4. StepThenPump(n)
    BY Zenon
  <2> HIDE DEF n
  <2>5. Agrees(n, chosen')
    BY <1>0, <2>1, <2>2, <2>3 DEF Agrees
  <2> QED BY <1>1, <2>2, <2>3, <2>4, <2>5, Zenon
<1>9. CASE HandleInstallSnapshot
  <2> PICK i \in (node.snapshot.index + 1)..Len(chosen), data \in Values :
           LET snap == [index |-> i, data |-> data]
           IN  /\ rolledBack' = (rolledBack \/ i < node.commit)
               /\ StepThenPump([node EXCEPT !.log = SubSeq(chosen, 1, i), !.commit = Max(i, node.commit),
                                            !.snapshot = snap, !.toApply = snap, !.leader = FALSE])
               /\ UNCHANGED chosen
    BY <1>9, Zenon DEF HandleInstallSnapshot
  <2> DEFINE snap == [index |-> i, data |-> data]
             n == [node EXCEPT !.log = SubSeq(chosen, 1, i), !.commit = Max(i, node.commit),
                               !.snapshot = snap, !.toApply = snap, !.leader = FALSE]
  <2>0. ~(i < node.commit)
    BY Zenon
  <2>1. i \in Nat /\ i <= Len(chosen) /\ Max(i, node.commit) = i
    BY <1>0, <2>0 DEF Max
  <2>2. /\ SubSeq(chosen, 1, i) \in Seq(Command) /\ Len(SubSeq(chosen, 1, i)) = i
        /\ \A j \in 1..i : SubSeq(chosen, 1, i)[j] = chosen[j]
    BY <1>0, <2>1
  <2>3. /\ DOMAIN n = DOMAIN node
        /\ n = [x \in DOMAIN n |-> n[x]]
    BY Zenon
  <2>4. /\ n.log = SubSeq(chosen, 1, i) /\ n.commit = Max(i, node.commit)
        /\ n.snapshot = snap /\ n.toApply = snap
    BY <1>0, Zenon DEF IsNode
  <2>5. StepThenPump(n) /\ chosen' = chosen /\ snap.index = i
    BY Zenon
  <2> HIDE DEF n, snap
  <2>6. IsNode(n)
    BY <1>0, <2>1, <2>2, <2>3, <2>4, <2>5, Zenon DEF IsNode
  <2>7. Agrees(n, chosen)
    BY <2>1, <2>2, <2>4, <2>5 DEF Agrees, Prefix
  <2> QED BY <1>1, <1>2, <2>5, <2>6, <2>7, Zenon
<1>10. CASE ConfirmRead
  <2> PICK s \in node.pendingReads :
           /\ StepThenPump([node EXCEPT !.pendingReads = @ \ {s}, !.readStates = @ \cup {s}])
           /\ UNCHANGED chosen
    BY <1>10, Zenon DEF ConfirmRead
  <2> DEFINE n == [node EXCEPT !.pendingReads = @ \ {s}, !.readStates = @ \cup {s}]
  <2>1. IsNode(n) /\ n.log = node.log /\ n.commit = node.commit /\ n.snapshot = node.snapshot
    BY <1>0, Zenon DEF IsNode
  <2> QED BY <1>3, <2>1, Zenon
<1> QED BY <1>4, <1>5, <1>6, <1>7, <1>8, <1>9, <1>10, Zenon DEF RaftStep

\* Who is told that a call failed is told nothing that could be untrue.
LEMMA FailureIsTruthful ==
    ASSUME Base, NEW told, resultCh' = Answer(told, Failed), Truthful(resultCh, chosen),
           \A c \in Call : c \in told => resultCh[c] = <<>>
    PROVE  Truthful(resultCh', chosen)
<1> SUFFICES ASSUME NEW c \in Put, NEW a, resultCh'[c] = <<a>> PROVE Truth(a, c, chosen)
  BY Zenon DEF Truthful
<1>1. c \in Call /\ resultCh'[c] = IF c \in told THEN Append(resultCh[c], Failed) ELSE resultCh[c]
  BY Zenon DEF Call, Answer
<1>2. CASE c \in told
  <2>1. Append(<<>>, Failed) = <<Failed>> /\ (\A y, z : <<y>> = <<z>> => y = z)
    OBVIOUS
  <2>2. a = Failed
    BY <1>1, <1>2, <2>1, Zenon
  <2> QED BY <2>2, Zenon DEF Truth, Failed
<1>3. CASE c \notin told
  BY <1>1, <1>3, Zenon DEF Truthful
<1> QED BY <1>2, <1>3, Zenon

\* submitBatch appends to the log, behind what is committed.
LEMMA SubmitAgreement ==
    ASSUME Base, Agreement, NEW p, NEW b, NEW q, SubmitBatch(b), UNCHANGED chosen,
           Separate(p, b, waiters, q, pendingReadIndexes),
           Unanswered(p, b, waiters, q, pendingReadIndexes, resultCh, status)
    PROVE  Agreement'
<1> DEFINE old   == Len(node.log)
           datas == [x \in DOMAIN b |-> Data[b[x]]]
           lg    == node.log \o datas
           n     == [node EXCEPT !.log = @ \o datas]
           w     == [i \in DOMAIN waiters \cup (old + 1)..(old + Len(b)) |->
                       IF i - old \in DOMAIN b THEN b[i - old] ELSE waiters[i]]
<1>0. /\ IsNode(node) /\ chosen \in Seq(Command)
      /\ node.log \in Seq(Command) /\ old \in Nat /\ node.commit \in Nat
  BY DEF Base, LogTypes, IsNode
<1>1. CASE Pump(n, w, pendingReadIndexes)
  <2>1. datas \in Seq(Command)
    <3>1. b \in Seq(Put) /\ Len(b) \in Nat
      BY DEF Separate
    <3>2. DOMAIN datas = 1..Len(b) /\ \A x \in 1..Len(b) : datas[x] \in Command
      BY <3>1, CommandAssumption
    <3> HIDE DEF datas
    <3>3. datas \in [1..Len(b) -> Command]
      BY <3>2, Zenon DEF datas
    <3> QED BY <3>1, <3>3
  <2> HIDE DEF datas
  <2>2. /\ lg \in Seq(Command) /\ Len(lg) \in Nat /\ old <= Len(lg)
        /\ \A j \in 1..old : lg[j] = node.log[j]
    BY <1>0, <2>1
  <2>3. IsNode(n) /\ n.log = lg /\ n.commit = node.commit /\ n.snapshot = node.snapshot
    BY <1>0, <2>2, Zenon DEF IsNode
  <2>4. /\ Separate(p, <<>>, w, q, pendingReadIndexes)
        /\ Unanswered(p, <<>>, w, q, pendingReadIndexes, resultCh, status)
    BY <1>0, BatchJoinsWaiters, Zenon
  <2> HIDE DEF lg, n, w
  <2>5. Agrees(n, chosen)
    <3>1. node.snapshot.index <= node.commit /\ Prefix(node.log, node.commit, chosen)
      BY Zenon DEF Agreement, Agrees
    <3>2. Prefix(lg, node.commit, chosen)
      BY <1>0, <2>2, <3>1, PrefixLonger, Zenon
    <3> QED BY <2>3, <3>1, <3>2, Zenon DEF Agrees
  <2>6. IsLog(chosen') /\ Grows(chosen, chosen')
    BY NothingChosen, Zenon DEF Base
  <2>7. Agrees(n, chosen')
    BY <2>5, Zenon
  <2> QED BY <1>1, <2>3, <2>4, <2>6, <2>7, PumpKeepsAgreement, Zenon
<1>2. CASE resultCh' = Answer(Range(b), Failed) /\ UNCHANGED <<node, disk>>
  <2>1. \A c \in Call : c \in Range(b) => resultCh[c] = <<>>
    BY Zenon DEF Range, Unanswered, Placed, In
  <2>2. Truthful(resultCh', chosen)
    BY <1>2, <2>1, FailureIsTruthful, Zenon DEF Agreement
  <2> QED BY <1>2, <2>2, Zenon DEF Agreement
<1> QED BY <1>1, <1>2, Zenon DEF SubmitBatch

LEMMA RunAgreement ==
    ASSUME Base, Agreement,
           ReceivePropose \/ BatchTimerFires \/ ReceiveReadIndex \/ ReceiveStop \/ RecvClosed
    PROVE  Agreement'
<1>1. CASE ReceivePropose
  <2> DEFINE b == Append(pending, Head(proposeCh))
  <2>1. /\ Separate(Tail(proposeCh), b, waiters, readIndexCh, pendingReadIndexes)
        /\ Unanswered(Tail(proposeCh), b, waiters, readIndexCh, pendingReadIndexes, resultCh, status)
    BY <1>1, JoinsBatch, Zenon DEF ReceivePropose, Base, OneAnswer
  <2> HIDE DEF b
  <2>2. UNCHANGED chosen /\ (SubmitBatch(b) \/ UNCHANGED <<node, disk, resultCh>>)
    BY <1>1, Zenon DEF ReceivePropose, b
  <2>3. CASE SubmitBatch(b)
    BY <2>1, <2>2, <2>3, SubmitAgreement, Zenon
  <2>4. CASE UNCHANGED <<node, disk, resultCh>>
    BY <2>2, <2>4, Zenon DEF Agreement
  <2> QED BY <2>2, <2>3, <2>4, Zenon
<1>2. CASE BatchTimerFires
  BY <1>2, SubmitAgreement, Zenon DEF BatchTimerFires, Base, OneAnswer
<1>3. CASE ReceiveReadIndex
  <2> DEFINE c == Head(readIndexCh)
             r == [x \in DOMAIN pendingReadIndexes \cup {nextReadCtx} |->
                      IF x = nextReadCtx THEN c ELSE pendingReadIndexes[x]]
             n == [node EXCEPT !.pendingReads = @ \cup {[ctx |-> nextReadCtx, index |-> node.commit]}]
  <2>1. /\ Separate(proposeCh, pending, waiters, Tail(readIndexCh), r)
        /\ Unanswered(proposeCh, pending, waiters, Tail(readIndexCh), r, resultCh, status)
    BY <1>3, JoinsReads, Zenon DEF ReceiveReadIndex, Base, OneAnswer
  <2>2. UNCHANGED chosen /\ IsLog(chosen') /\ Grows(chosen, chosen')
    BY <1>3, NothingChosen, Zenon DEF ReceiveReadIndex, Base
  <2>3. CASE Pump(n, waiters, r)
    <3>1. IsNode(n) /\ n.log = node.log /\ n.commit = node.commit /\ n.snapshot = node.snapshot
      BY Zenon DEF Base, LogTypes, IsNode
    <3> HIDE DEF n, r
    <3>2. Agrees(n, chosen')
      BY <2>2, <3>1, Zenon DEF Agreement, Agrees
    <3> QED BY <2>1, <2>2, <2>3, <3>1, <3>2, PumpKeepsAgreement, Zenon
  <2>4. CASE resultCh' = Answer({c}, Failed) /\ UNCHANGED <<node, disk>>
    <3>1. readIndexCh \in Seq(Get) /\ c = readIndexCh[1] /\ 1 \in DOMAIN readIndexCh
      BY <1>3 DEF Base, OneAnswer, Separate, ReceiveReadIndex
    <3>2. \A x \in Call : x \in {c} => resultCh[x] = <<>>
      BY <3>1, Zenon DEF Base, OneAnswer, Unanswered, Placed, In
    <3> HIDE DEF c
    <3>3. Truthful(resultCh', chosen)
      BY <2>4, <3>2, FailureIsTruthful, Zenon DEF Agreement
    <3> QED BY <2>2, <2>4, <3>3, Zenon DEF Agreement
  <2> QED BY <1>3, <2>3, <2>4, Zenon DEF ReceiveReadIndex
<1>4. ASSUME NEW told, told \subseteq Range(pending) \cup Range(pendingReadIndexes), RunReturns(told)
      PROVE  Agreement'
  <2>1. resultCh' = Answer(told, Failed) /\ UNCHANGED <<node, disk, chosen>>
    BY <1>4, Zenon DEF RunReturns, raftVars
  <2>2. \A c \in Call : c \in told => resultCh[c] = <<>>
    BY <1>4, Zenon DEF Base, OneAnswer, Unanswered, Placed, In, Range
  <2>3. Truthful(resultCh', chosen)
    BY <2>1, <2>2, FailureIsTruthful, Zenon DEF Agreement
  <2> QED BY <2>1, <2>3, Zenon DEF Agreement
<1>5. CASE ReceiveStop \/ RecvClosed
  BY <1>4, <1>5, Zenon DEF ReceiveStop, RecvClosed
<1> QED BY <1>1, <1>2, <1>3, <1>5, Zenon

LEMMA AgreementInit == Init => Agreement
<1> SUFFICES ASSUME Init PROVE Agreement
  BY Zenon
<1>1. disk.log = <<>> /\ disk.snapshot.index = 0 /\ chosen = <<>>
  BY Zenon DEF Init, NoSnapshot
<1>2. node.log = disk.log /\ node.commit = disk.snapshot.index /\ node.snapshot = disk.snapshot
  BY Zenon DEF Init, Opened
<1>3. \A c \in Put : resultCh[c] = <<>>
  BY Zenon DEF Init, Call
<1>4. \A a : <<>> # <<a>>
  BY Zenon
<1> QED BY <1>1, <1>2, <1>3, <1>4 DEF Agreement, Agrees, DiskAgrees, Prefix, Truthful

LEMMA AgreementNext == ~rolledBack' /\ Base /\ Agreement /\ [Next]_vars => Agreement'
<1> SUFFICES ASSUME ~rolledBack', Base, Agreement, [Next]_vars PROVE Agreement'
  BY Zenon
<1>0. \A a : <<>> # <<a>>
  BY Zenon
<1>1. CASE Run
  BY <1>1, RaftStepAgreement, RunAgreement, Zenon DEF Run
<1>2. ASSUME NEW c \in Call, Client(c) PROVE Agreement'
  <2>1. UNCHANGED <<node, disk, chosen>>
    BY <1>2, Zenon DEF Client, Enqueue, TakeResult, GiveUp, SetStatus, raftVars
  <2>2. CASE UNCHANGED resultCh
    BY <2>1, <2>2, Zenon DEF Agreement
  <2>3. CASE TakeResult(c)
    <3>1. \A x \in Put : resultCh'[x] = resultCh[x] \/ resultCh'[x] = <<>>
      <4>1. resultCh[c] # <<>> /\ resultCh' = [resultCh EXCEPT ![c] = Tail(@)]
        BY <2>3, Zenon DEF TakeResult
      <4>2. PICK a : resultCh[c] = <<a>>
        BY <4>1, Zenon DEF Base, OneAnswer, AtMostOne
      <4>3. Tail(<<a>>) = <<>>
        OBVIOUS
      <4>4. \A x \in Call : resultCh'[x] = IF x = c THEN Tail(resultCh[c]) ELSE resultCh[x]
        BY <4>1, Zenon DEF Base, OneAnswer, AtMostOne
      <4> QED BY <4>2, <4>3, <4>4, Zenon DEF Call
    <3> QED BY <1>0, <2>1, <3>1, Zenon DEF Agreement, Truthful
  <2> QED BY <1>2, <2>2, <2>3, Zenon DEF Client, Enqueue, GiveUp
<1>3. CASE CallStop \/ UNCHANGED vars
  BY <1>3, Zenon DEF Agreement, CallStop, vars, raftVars
<1>4. CASE OthersCommit
  <2> PICK d \in Foreign : chosen' = Append(chosen, d)
    BY <1>4, Zenon DEF OthersCommit
  <2>1. IsLog(chosen) /\ IsLog(chosen') /\ Grows(chosen, chosen')
    BY DEF Base, LogTypes, Foreign, Grows, IsLog
  <2>2. node.commit \in Nat /\ disk.snapshot.index \in Nat
    BY Zenon DEF Base, LogTypes, IsNode
  <2>3. UNCHANGED <<node, disk, resultCh>>
    BY <1>4, Zenon DEF OthersCommit
  <2> QED BY <2>1, <2>2, <2>3, GrowthKeeps, Zenon DEF Agreement, Agrees, DiskAgrees
<1>5. CASE Restart
  <2>1. node' = Opened(disk) /\ UNCHANGED <<disk, chosen>> /\ resultCh' = [c \in Call |-> <<>>]
    BY <1>5, Zenon DEF Restart
  <2>2. /\ node'.log = disk.log /\ node'.commit = disk.snapshot.index
        /\ node'.snapshot = disk.snapshot
    BY <2>1, Zenon DEF Opened
  <2>3. disk.snapshot.index \in Nat
    BY Zenon DEF Base, LogTypes
  <2>4. Truthful(resultCh', chosen')
    BY <1>0, <2>1, Zenon DEF Truthful, Call
  <2> QED BY <2>1, <2>2, <2>3, <2>4 DEF Agreement, Agrees, DiskAgrees
<1> QED BY <1>1, <1>2, <1>3, <1>4, <1>5, Zenon DEF Next

\* Nothing brings back what a late snapshot has taken.
LEMMA RolledBackStays == rolledBack /\ [Next]_vars => rolledBack'
<1> SUFFICES ASSUME rolledBack, [Next]_vars PROVE rolledBack'
  BY Zenon
<1>1. CASE RaftStep
  BY <1>1, Zenon DEF RaftStep, Tick, BecomeLeader, BecomeFollower, HandleAppendEntries, CommitTo,
     HandleInstallSnapshot, ConfirmRead
<1>2. CASE ReceivePropose \/ BatchTimerFires \/ ReceiveReadIndex \/ ReceiveStop \/ RecvClosed
  BY <1>2, Zenon DEF ReceivePropose, BatchTimerFires, ReceiveReadIndex, ReceiveStop, RecvClosed,
     RunReturns, raftVars
<1>3. ASSUME NEW c \in Call, Client(c) PROVE rolledBack'
  BY <1>3, Zenon DEF Client, Enqueue, TakeResult, GiveUp, SetStatus, raftVars
<1>4. CASE CallStop \/ OthersCommit \/ Restart \/ UNCHANGED vars
  BY <1>4, Zenon DEF CallStop, OthersCommit, Restart, vars, raftVars
<1> QED BY <1>1, <1>2, <1>3, <1>4, Zenon DEF Next, Run

\* A Put or Delete that is told it succeeded is told the truth, through changes of
\* leader that put another command at its index, failed writes, restarts, and the
\* snapshots other nodes send, whatever their age: up to the step, if there is one,
\* in which handleInstallSnapshot takes committed entries off this node's log.
THEOREM AcksAreTrue == Spec => []AckedIsChosen
<1>1. Base /\ (Intact => Agreement) /\ [Next]_vars => (Intact => Agreement)'
  BY AgreementNext, RolledBackStays, Zenon DEF Intact
<1>2. Spec => [](Intact => Agreement)
  BY <1>1, AgreementInit, BaseAlways, PTL DEF Spec
<1>3. Base /\ (Intact => Agreement) => AckedIsChosen
  <2> SUFFICES ASSUME Base, Agreement, NEW c \in Put, NEW m \in DOMAIN resultCh[c], resultCh[c][m].ok
               PROVE  resultCh[c][m].index <= Len(chosen) /\ chosen[resultCh[c][m].index] = Data[c]
    BY Zenon DEF AckedIsChosen
  <2>1. resultCh[c] = <<>> \/ \E a : resultCh[c] = <<a>>
    BY Zenon DEF Base, OneAnswer, AtMostOne, Call
  <2>2. DOMAIN <<>> = {} /\ \A a : DOMAIN <<a>> = {1} /\ <<a>>[1] = a
    OBVIOUS
  <2>3. PICK a : resultCh[c] = <<a>>
    BY <2>1, <2>2, Zenon
  <2>4. resultCh[c][m] = a
    BY <2>2, <2>3, Zenon
  <2>5. Truth(a, c, chosen) /\ chosen \in Seq(Command)
    BY <2>3, Zenon DEF Agreement, Truthful, Base, LogTypes
  <2> QED BY <2>4, <2>5 DEF Truth
<1> QED BY <1>2, <1>3, BaseAlways, PTL

=============================================================================
