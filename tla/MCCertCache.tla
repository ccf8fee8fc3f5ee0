---------------------------- MODULE MCCertCache ----------------------------
(***************************************************************************)
(* Instances of CertCache.                                                 *)
(***************************************************************************)
EXTENDS CertCache

CONSTANTS c1, c2, c3, h1, h2

ThreeCallers == {c1, c2, c3}
TwoHosts == {h1, h2}
=============================================================================
