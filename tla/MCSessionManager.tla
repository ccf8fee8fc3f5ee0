-------------------------- MODULE MCSessionManager --------------------------
(***************************************************************************)
(* Instances of SessionManager.                                            *)
(***************************************************************************)
EXTENDS SessionManager

CONSTANTS k1, c1, c2, n1, n2

OneKey == {k1}
TwoCallers == {c1, c2}
OneNode == {n1}
TwoNodes == {n1, n2}
=============================================================================
