--------------------------- MODULE MCRaftStorage ----------------------------
(***************************************************************************)
(* RaftStorage for TLC.                                                    *)
(***************************************************************************)
EXTENDS RaftStorage

CONSTANT s1

\* One candidate is enough: a lost vote shows as no vote.
MCServer == {s1}
=============================================================================
