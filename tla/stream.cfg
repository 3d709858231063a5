CONSTANTS
    p1 = p1
    p2 = p2
    r1 = r1
    d1 = d1
    c1 = c1
    End = End
    None = None
    Requests = {p1, p2}
    Readers = {r1}
    Stoppers = {d1}
    Convs = {c1}
    ConvOf <- MCConvOf
    Cap = 2
    MaxChunk = 2
    MaxBytes <- MCLong
SPECIFICATION Spec
CHECK_DEADLOCK FALSE
INVARIANTS
    TypeOK
    ReplayIsContiguous
    DoneReaderHasAll
    OnlyStopCutsShort
    NoOrphan
