---------------------------- MODULE MCTransport ----------------------------
(***************************************************************************)
(* Transport for TLC.  Two Sends race for the first connection, one of     *)
(* them of a message that is too long, or two meet a failure of the        *)
(* network on a connection that is there, or three use one.                *)
(***************************************************************************)
EXTENDS Transport

Left(se, br, over) == oversized = over /\ sends = MaxSends - se /\ breaks = MaxBreaks - br

ScenarioSpec ==
    /\ \/ Started(0) /\ Left(2, 0, {2})
       \/ Started(1) /\ Left(2, 1, {2})
       \/ Started(1) /\ Left(3, 0, {})
    /\ Steps

=============================================================================
