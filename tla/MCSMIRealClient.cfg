CONSTANTS
    Me = Me
    Other = Other
    NoOwner = NoOwner
    NoTS = NoTS
    NilObj = NilObj
    EmptyObj = EmptyObj
    Weights <- MCWeights
    InitWeight = 50
    RealClient = TRUE
    MaxEdits = 3
    MaxFaults = 1
SPECIFICATION FairSpec
PROPERTY SplitExists
