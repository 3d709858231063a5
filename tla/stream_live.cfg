CONSTANTS
    p1 = p1
    p2 = p2
    r1 = r1
    d1 = d1
    c1 = c1
    End = End
    None = None
    Requests = {p1, p2}
    Readers = {r1}
    Stoppers = {}
    Convs = {c1}
    ConvOf <- MCConvOf
    Cap = 1
    MaxChunk = 1
    MaxBytes <- MCShort
SPECIFICATION FairSpec
CHECK_DEADLOCK FALSE
PROPERTIES
    CancelledEnds
    StoppedReadersEnd
