------------------------------ MODULE MCEngine ------------------------------
(***************************************************************************)
(* Engine for TLC.                                                         *)
(***************************************************************************)
EXTENDS Engine

\* What is left of the bounds: a counter starts at its bound less that.
Left(wr, re, st, fa) ==
    /\ writes = MaxWrites - wr
    /\ restores = MaxRestores - re
    /\ stops = MaxStops - st
    /\ failures = MaxFailures - fa

\* Several bounds in one run.
ScenarioStart ==
    /\ NewStore
    /\ \/ Left(2, 0, 1, 1) \/ Left(1, 1, 1, 1)
       \/ Left(2, 1, 1, 0) \/ Left(1, 1, 2, 0)

ScenarioSpec == ScenarioStart /\ [][Next]_vars /\ Fairness

=============================================================================
