-------------------------- MODULE MCRollingCounter --------------------------
(***************************************************************************)
(* Instances of RollingCounter.                                            *)
(***************************************************************************)
EXTENDS RollingCounter, TLC

CONSTANTS a, b

OneCaller == {a}
TwoCallers == {a, b}

Symmetry == Permutations(Callers)
=============================================================================
