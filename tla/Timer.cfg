\* Two controllers against the runner; it may stop when the clock does.
SPECIFICATION Spec
CONSTANTS
    Controllers = {c1, c2}
    Sub = 2
    Periods = {1, 2}
    MaxTime = 5
    MaxStarts = 1
INVARIANTS NoTickAfterCancel
PROPERTIES CancelEndsRun Paced
CHECK_DEADLOCK FALSE
