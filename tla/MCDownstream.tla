---------------------------- MODULE MCDownstream ----------------------------
(***************************************************************************)
(* Instances of Downstream.                                                *)
(***************************************************************************)
EXTENDS Downstream

CONSTANT a

OneConn == {a}
=============================================================================
