SPECIFICATION Spec
CONSTANTS
    a = a
    b = b
    None = None
    Callers <- TwoCallers
    NumBuckets = 2
    SlotSize = 1
    Deltas = {1}
    MaxTime = 5
    MaxAdds = 2
SYMMETRY Symmetry
INVARIANTS
    TypeOK
    AllTimesEqual
    NothingStale
