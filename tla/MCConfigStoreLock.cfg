SPECIFICATION Spec
CONSTANTS
    a = a
    b = b
    Processes = {a, b}
    Ids = {"x", "y"}
    Settings = {"s0"}
    Default = "s0"
    None = None
    Blank = Blank
    Torn = Torn
    Crews <- Together
    Tries = 2
    Stale = 1
    Faults = {"leftover"}
INVARIANT
    WritersExclude
