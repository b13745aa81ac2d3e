------------------------------ MODULE MCServer ------------------------------
(***************************************************************************)
(* Server for TLC: two Puts, a LinearizableGet, and a command proposed at  *)
(* another node.                                                           *)
(***************************************************************************)
EXTENDS Server, TLC

CONSTANTS p1, p2, g1, k1, k2, x, y, z

MCPut     == {p1, p2}
MCGet     == {g1}
MCKey     == {k1, k2}
MCCommand == {x, y, z}
MCData    == p1 :> x @@ p2 :> y
MCKeyOf   == x :> k1 @@ y :> k2 @@ z :> k1
MCKeyRead == g1 :> k1

-----------------------------------------------------------------------------
\* The calls that are made, and how many crashes and failing calls there are of
\* each kind.
MCScenario(calls, crash, persist, restore, apply) ==
    [calls |-> calls, crash |-> crash, persist |-> persist, restore |-> restore, apply |-> apply]

MCScenarios ==
    {MCScenario({p1, p2}, 0, 0, 0, 0),
     MCScenario({p1, g1}, 0, 0, 0, 0),
     MCScenario({g1}, 0, 1, 0, 0),
     MCScenario({p1}, 1, 1, 0, 0),
     MCScenario({p2}, 0, 0, 1, 1),
     MCScenario({g1}, 1, 0, 0, 0)}
=============================================================================
