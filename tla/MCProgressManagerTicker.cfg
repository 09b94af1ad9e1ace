\* One thread that changes tasks, and the ticker.
CONSTANTS
    Threads = {main}
    Tasks = {"train", "run.failure"}
    MaxRevision = 3
SPECIFICATION ProgressSpec
CHECK_DEADLOCK FALSE
INVARIANT Animated
