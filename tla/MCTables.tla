------------------------------ MODULE MCTables ------------------------------
(***************************************************************************)
(* Tables for TLC: three keys, entries of one, two and four bytes, hashes  *)
(* that collide and wrap round a filter of four bits.  A table never       *)
(* changes once it is made and a reader looks at nothing else, so nothing  *)
(* is lost by making all tables, with nothing left in the memtable, before *)
(* the first read.  Only a restored snapshot makes an empty table, and it  *)
(* is the first: a flush of an empty memtable does nothing.  Readers copy  *)
(* sequence numbers and compare none, so the tables that are read need not *)
(* differ in the order their keys were written in.                         *)
(***************************************************************************)
EXTENDS Tables, TLC

MCSize(kind) == [deleted |-> 1, short |-> 2, long |-> 4][kind]
MCH1(k) == 2 * k
MCH2(k) == 3

WrittenInOrder ==
    \A t \in DOMAIN tables : Ascending(SelectSeq([k \in Key |-> content[t][k].seq], LAMBDA n : n > 0))

WritesFirst ==
    /\ puts' # puts \/ Len(tables') # Len(tables) => gets = 0
    /\ gets' # gets \/ damaged' # damaged => entry = <<>> /\ WrittenInOrder
    /\ Len(tables') # Len(tables) /\ entry = <<>> => tables = <<>>

WritesFirstSpec == Init /\ [][Next /\ WritesFirst]_vars

Symmetry == Permutations(Reader)
=============================================================================
