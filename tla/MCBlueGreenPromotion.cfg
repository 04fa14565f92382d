CONSTANTS
    h1 = h1
    h2 = h2
    h3 = h3
    none = none
    Revs <- MCRevs
    NoHash = none
    InitRev = h1
    MaxReplicas = 2
    ScaleDownDelaySeconds = 2
    RevisionHistoryLimit = 1
    HasPreview = TRUE
    MaxEdits = 3
    Faults = FALSE

SPECIFICATION Spec
PROPERTY PromotionAfterPause
