\* One attempt of three ranks, any of which may fail or be killed; two stages of an inference
\* run, of any of 32 configurations, with two attempts each.  The clock reaches the deadline of
\* the second stage (1 + 3 + 3) when the first one has used its time up.
CONSTANTS
    N = 3
    MaxStep = 1
    MaxAttempt = 1
    Limit = 1
    Stages = 2
    Configs <- MCConfigs
    MaxTime = 7
SPECIFICATION MCSpec
CHECK_DEADLOCK FALSE
PROPERTIES
    AttemptEnds
    BudgetKept
    NothingAfterCancel
    RunEnds
