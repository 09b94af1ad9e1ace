\* The telemetry: two ranks, runs of two steps, three jobs.
\* OPD's: the same, each job measuring, persisting or not.
\* A window: up to two tokens on a rank, up to three microbatches.
\* The reported losses: two microbatches a step, three steps, two resumes.
\* The progress: two threads, three changes before the manager is closed.
CONSTANTS
    Peers = {1}
    WithMarker = TRUE
    MaxStep = 2
    MaxJobs = 3
    Students = {r1, r2}
    Settings = {"on", "unsaved", "off"}
    MaxOpdStep = 2
    MaxOpdJobs = 3
    LossRanks = {r1, r2}
    MaxMass = 2
    MaxWindow = 3
    Windows = 2
    Reporters = {r1, r2}
    Losses = {2}
    GA = 2
    MaxReportStep = 3
    MaxReportJobs = 3
    Threads = {r1, r2}
    Tasks = {"train", "run.failure"}
    MaxRevision = 3
SPECIFICATION MCSpec
SYMMETRY WorkerSymmetry
CHECK_DEADLOCK FALSE
INVARIANTS
    HistoriesAreTrained
    CollectivesMatch
    GradientIsTokenMean
    ReportedAsUninterrupted
    SinksFollow
