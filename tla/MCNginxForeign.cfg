CONSTANTS
    r1 = r1
    r2 = r2
    Me = Me
    Other = Other
    NoOwner = NoOwner
    NoIng = NoIng
    RuleSets <- MCRuleSets
    StableBacked <- MCStableBacked
    Weights <- MCWeights
    InitWeight = 0
    MaxEdits = 3
    MaxFaults = 1
SPECIFICATION Spec
PROPERTY NeverModifyForeign
