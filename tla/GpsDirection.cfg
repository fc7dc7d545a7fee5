\* The device stops when it has sent its sentences.
INIT LinesInit
NEXT LinesNext
CONSTANTS
    d = d
    x = x
    y = y
    cr = cr
    lf = lf
    Bytes = {d, x, y}
    BufSize = 6
    Delimiters <- MCDelimiters
    Chars = {cr, lf, x}
    Delimiter <- MCDelimiter
    Capacity = 7
    LineSize = 96
    Streams <- TestStreams
    BadBytes = {}
    MaxFaults = 0
INVARIANT DirectionIsNsEw
CHECK_DEADLOCK FALSE
