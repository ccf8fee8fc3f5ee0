SPECIFICATION Spec
CONSTANTS
    a = a
    b = b
    NumEntries = 3
    Callers <- TwoCallers
    ExcludeSets <- SomeExclusion
    TieBreakers <- Ties
    MaxUses = 2
INVARIANTS
    TypeOK
    Balanced
    ExclusionHonoured
PROPERTIES
    LeastUsedDuringCall
