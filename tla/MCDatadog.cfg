CONSTANTS
    v0 = v0
    v1 = v1
    Values <- MCValues
    NoValue = NoValue
    Null = Null
    Panic = Panic
    MaxRuns = 2

SPECIFICATION Spec
INVARIANT RunReturnsMeasurement
