SPECIFICATION Spec
CONSTANTS
    alice = alice
    a = a
    b = b
    c3 = c3
    None = None
    Keys <- OneKey
    Conns <- ThreeConns
    Rules <- AllRules
    Chunks = {2}
    MaxCount = 4
    MaxWindows = 1
SYMMETRY Symmetry
INVARIANTS
    TypeOK
    ConcurrencyLimit
    SlotsAccounted
    TotalLimit
    OvershootBounded
