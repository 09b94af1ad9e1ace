\* One setting: the jobs measure and do not persist; three jobs of up to three steps.
CONSTANTS
    Students = {r1, r2}
    Settings = {"unsaved"}
    MaxOpdStep = 3
    MaxOpdJobs = 3
SPECIFICATION OpdSpec
CHECK_DEADLOCK FALSE
INVARIANT ResumeNotRefused
