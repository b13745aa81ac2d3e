--------------------------- MODULE ReplicatedLog ---------------------------
(***************************************************************************)
(* What the raft package promises the server: one sequence of commands is  *)
(* chosen for the whole cluster, it only grows, and every node hands a     *)
(* prefix of it, in order, to its state machine.  A node that restarts     *)
(* falls back to an earlier prefix, the one its snapshot covers.           *)
(***************************************************************************)
EXTENDS Integers, Sequences

CONSTANTS Server, Entry

VARIABLES
    chosen,   \* the commands chosen so far
    applied   \* applied[i]: the commands node i has handed to its state machine

lVars == <<chosen, applied>>

\* s is a prefix of t.
Extends(t, s) == Len(s) <= Len(t) /\ s = SubSeq(t, 1, Len(s))

Init ==
    /\ chosen = <<>>
    /\ applied = [i \in Server |-> <<>>]

\* Node i learns of newly chosen commands (it may be the node that chose them)
\* and applies some of them.
Learn(i) ==
    /\ chosen' \in Seq(Entry)
    /\ Extends(chosen', chosen)
    /\ applied'[i] \in Seq(Entry)
    /\ Extends(applied'[i], applied[i])
    /\ Extends(chosen', applied'[i])
    /\ applied' = [applied EXCEPT ![i] = applied'[i]]

\* Node i restarts.
Restart(i) ==
    /\ Extends(applied[i], applied'[i])
    /\ applied' = [applied EXCEPT ![i] = applied'[i]]
    /\ UNCHANGED chosen

Next == \E i \in Server : Learn(i) \/ Restart(i)

Spec == Init /\ [][Next]_lVars

=============================================================================
