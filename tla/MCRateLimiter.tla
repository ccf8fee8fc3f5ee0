---------------------------- MODULE MCRateLimiter ----------------------------
(***************************************************************************)
(* Instances of RateLimiter: three connections of one key under a rule of  *)
(* every kind.                                                             *)
(***************************************************************************)
EXTENDS RateLimiter, TLC

CONSTANTS alice, a, b, c3

OneKey == {alice}
ThreeConns == {a, b, c3}

Rule(type, max) == [type |-> type, realtime |-> type = "concurrent", max |-> max]

AllRules ==
    <<Rule("total", 2), Rule("concurrent", 2), Rule("upload", 2), Rule("bytes", 3)>>

\* Connections are interchangeable.
Symmetry == Permutations(Conns)
==============================================================================
