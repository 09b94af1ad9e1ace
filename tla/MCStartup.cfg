\* The sampler: jobs of two ranks, three steps of two microsteps, two jobs.
\* Resuming: two checkpoints; two writes, each a save or a replaced file, while the job
\* starts.  A sharded backend's marker knows the contents of "state" but not of "model".
\* The model: two files, two rewrites or errors, one error at most.
\* The records: three versions of the source, one of them malformed.
CONSTANTS
    World = 2
    GA = 2
    MaxSteps = 3
    Ahead = 2
    Sharded = TRUE
    MaxRun = 2
    Readers = {r1, r2}
    Names <- MCNames
    Small = {"state"}
    Steps = {1, 2}
    MaxSaves = 5
    Workers = {r1, r2}
    NumFiles = 2
    MaxWrites = 2
    MaxErrors = 1
    Versions = {1, 2, 3}
    Malformed = {3}
    MaxEdits = 2
    MaxJobs = 2
SPECIFICATION MCSpec
CHECK_DEADLOCK FALSE
INVARIANTS
    TrainedInOrder
    SavedIsExecuted
    LoadedIsVerified
    UntouchedResolvesNewest
    BuiltFromIdentified
    NoneStranded
    OpensOrRejects
PROPERTY
    PlannedTrainingEnds
