CONSTANTS
    Nil = Nil
    Pending = Pending
    Panic = Panic
    DefaultRevisionHistoryLimit = 10
    DefaultProgressDeadlineSeconds = 600
    Rollouts <- MCRollouts

SPECIFICATION Spec
\* ValidateRollout is one call: once it has returned there is no next step.
CHECK_DEADLOCK FALSE
INVARIANT ValidationMatchesSpec
