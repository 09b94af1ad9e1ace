\* The planner: two ranks, one or two samples each, out of a window of five.  The stream: two
\* sources with weights up to 3, five tickets to a block and four blocks to a phase, up to
\* three ranks; six blocks see a change of phase and of every ticket's rank.  The checkpoints:
\* two ranks, three saved steps, three attempts over all the jobs, one checkpoint kept, so that
\* rewriting a step, rotation and a second job all happen.
CONSTANTS
    N = 2
    MaxStep = 3
    MaxAttempt = 3
    Limit = 1
    World = 2
    Local = 2
    BufferSize = 5
    MaxTokens = 4
    MaxPatches = 2
    MaxSequence = 3
    Modes <- MCModes
    Costs <- MCCosts
    MaxMicrostep = 2
    NumSources = 2
    MaxWeight = 3
    BlockSize = 5
    PhaseBlocks = 4
    MaxWorld = 3
    MaxBlocks = 6
    Setups <- MCSetups
    Epochs = 2
    MaxJobs = 2
SPECIFICATION MCSpec
CHECK_DEADLOCK FALSE
INVARIANTS
    ValidIsOneAttempt
    ReportedSurvives
    RaiseTogether
    DrawsConserved
    WithinBudget
    FullWhenPossible
    WithoutReplacement
    RanksMeetTickets
    EpochIsWhole
PROPERTIES
    PublishOnlyConverged
    ResumeLosesNothing
    ImplementsStream
