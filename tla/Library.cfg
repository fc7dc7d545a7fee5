\* Every part does a bounded number of calls and then stops.
INIT LibraryInit
NEXT LibraryNext
CONSTANTS
    Images <- TestImages
    MaxPixels = 4
    BadBytes = {0, 1, 53, 96, 160, 194, 254, 255}
    DamageUpTo = 2
    Characters = {45, 48, 49, 55, 57, 70}
    MaxText = 4
    Types <- NarrowTypes
    Bases = {2, 10, 16}
    CodePoints <- Boundaries
    MaxCodePoints = 3
    Values <- TestValues
    Arguments <- SmallArguments
    Needs <- Fibonacci
    Impl <- Summed
    LruSize = 2
    MaxCalls = 14
    Image = {i1, i2, i3}
    Dimensions = {0, 2}
    Pictures = {red, blue}
    NoPicture = none
    MaxBlocks = 3
    Starts = {0, 1}
    PoolSize = 6
    TypeSizes = {1, 2, 4}
    MaxCount = 2
INVARIANTS
    PixelsSurvive ShortIsExact TextSurvives ReadsBack MemoSound OwnedAndKept BlocksApart
CHECK_DEADLOCK FALSE
