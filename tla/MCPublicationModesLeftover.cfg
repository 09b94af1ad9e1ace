\* A planned ddp save where a sharded one began.
CONSTANTS
    Peers = {1}
    Modes <- MCPlanned
    MaxAttempts = 2
SPECIFICATION ModesSpec
CHECK_DEADLOCK FALSE
INVARIANT ReportedUsable
