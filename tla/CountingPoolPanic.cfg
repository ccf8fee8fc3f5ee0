SPECIFICATION Spec
CONSTANTS
    a = a
    b = b
    NumEntries = 2
    Callers <- TwoCallers
    ExcludeSets <- NoExclusion
    TieBreakers <- Ties
    MaxUses = 3
INVARIANTS
    NoPanic
