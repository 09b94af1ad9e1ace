\* Two rows of the bundle, two new images, two runs of the finalization.
CONSTANTS
    Old = {1, 2}
    New = {3, 4}
    Stemmings <- MCStemmings
    MaxRun = 2
SPECIFICATION Spec
CHECK_DEADLOCK FALSE
INVARIANT
    OldBundleUntouched
