CONSTANTS
    rs1 = rs1
    rs2 = rs2
    rs3 = rs3
    noRS = noRS
    RS <- MCRS
    StableRS = rs1
    NewRS = rs2
    Created <- MCCreated
    Replicas = 2
    MaxRestarts = 2
    MaxUnready = 2

SPECIFICATION FairSpec
INVARIANT TypeOK
INVARIANT RestartedMeansRestarted
PROPERTY SweepCompletes
PROPERTY ImplementsRestartSweep
CHECK_DEADLOCK FALSE
