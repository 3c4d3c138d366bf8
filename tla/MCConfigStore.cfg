SPECIFICATION FairSpec
CONSTANTS
    a = a
    b = b
    Processes = {a, b}
    Ids = {"x", "y"}
    Settings = {"s0"}
    Default = "s0"
    None = None
    Blank = Blank
    Torn = Torn
    Crews <- MCCrews
    Tries = 2
    Stale = 1
    Faults = {"io_error"}
INVARIANTS
    TypeOK
    WritersExclude
    LoneMemoryIsFile
PROPERTIES
    ImplementsAtomicStore
    SaveEnds
    LeftoverLockGoes
