SPECIFICATION Spec
CONSTANTS
    Names <- MCNames
    Configs <- MCConfigs
    Measures <- MCMeasures
    Cycle = 6
INVARIANTS
    TypeOK
    ListedNamesRoute
    NoneLeftOut
    TiersInOrder
    Rotates
