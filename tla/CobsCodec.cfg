\* One message is encoded and decoded, or one frame decoded; then everything stops.
SPECIFICATION Spec
CONSTANTS
    Full = 3
    Messages <- MCMessages
    Frames <- MCFrames
INVARIANTS RoundTrip CutNoticed ZeroOnlyAtEnd OverheadBounded WriteBehindRead
CHECK_DEADLOCK FALSE
