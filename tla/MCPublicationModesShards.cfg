\* A sharded save without planning after one with it.
CONSTANTS
    Peers = {1}
    Modes <- MCSharded
    MaxAttempts = 2
SPECIFICATION ModesSpec
CHECK_DEADLOCK FALSE
INVARIANT BackendIsOneAttempt
