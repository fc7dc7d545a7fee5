\* The other parts are bounded to nothing; the codec stops with its image.
INIT LibraryInit
NEXT LibraryNext
CONSTANTS
    Images <- TestImages
    MaxPixels = 3
    BadBytes = {0, 1, 53, 96, 160, 194, 254, 255}
    DamageUpTo = 2
    Characters = {45, 48, 49, 55, 57, 70}
    MaxText = 0
    Types <- NarrowTypes
    Bases = {2, 10, 16}
    CodePoints <- Boundaries
    MaxCodePoints = 0
    Values <- TestValues
    Arguments <- SmallArguments
    Needs <- Fibonacci
    Impl <- Summed
    LruSize = 2
    MaxCalls = 0
    Image = {i1, i2}
    Dimensions = {0, 2}
    Pictures = {red, blue}
    NoPicture = none
    MaxBlocks = 0
    Starts = {0, 1}
    PoolSize = 0
    TypeSizes = {1, 2, 4}
    MaxCount = 2
INVARIANT RoundTrip
CHECK_DEADLOCK FALSE
