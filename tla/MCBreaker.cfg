SPECIFICATION FairSpec
CONSTANTS
    p1 = p1
    p2 = p2
    Providers <- MCProviders
    Removable <- MCRemovable
    Thresholds = {1, 2}
    Cooldown = 2
    FailCap = 2
INVARIANTS
    TypeOK
    StatsConsistent
    RowsConsistent
PROPERTIES
    RestartKeepsCircuit
    QuietRecovers
