\* Two ranks on nodes of their own or of one, three versions of the source.
CONSTANTS
    Workers = {r1, r2}
    Versions = {1, 2, 3}
    Malformed = {3}
    MaxEdits = 2
    MaxJobs = 2
SPECIFICATION RecordSpec
CHECK_DEADLOCK FALSE
INVARIANT SameSnapshotSameRows
