-------------------------- MODULE MCCountingPool --------------------------
(***************************************************************************)
(* Instances of CountingPool: Next and NextWithSeed only (NoExclusion), or *)
(* NextExcluding as well, which excludes one entry or all of them.         *)
(***************************************************************************)
EXTENDS CountingPool

CONSTANTS a, b

TwoCallers == {a, b}

NoExclusion == {{}}
SomeExclusion == {{}, {NumEntries - 1}, Entries}

\* Every residue of a tie among NumEntries candidates.
Ties == 0..(NumEntries - 1)
===========================================================================
