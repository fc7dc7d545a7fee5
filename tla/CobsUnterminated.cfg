\* The decoder stops once it has decoded its frame.
SPECIFICATION Spec
CONSTANTS
    Full = 3
    Messages <- MCMessages
    Frames <- MCFrames
INVARIANT OkOnlyIfTerminated
CHECK_DEADLOCK FALSE
