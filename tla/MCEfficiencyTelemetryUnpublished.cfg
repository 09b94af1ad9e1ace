\* One save of two ranks that no marker publishes.
CONSTANTS
    Peers = {1}
    WithMarker = FALSE
    MaxStep = 1
    MaxJobs = 1
SPECIFICATION Spec
CHECK_DEADLOCK FALSE
INVARIANTS
    CollectivesMatch
