SPECIFICATION Spec
CONSTANTS
    a = a
    b = b
    None = None
    Callers <- OneCaller
    NumBuckets = 3
    SlotSize = 1
    Deltas = {1}
    MaxTime = 6
    MaxAdds = 2
INVARIANTS
    CountsWholeWindow
