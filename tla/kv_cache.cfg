CONSTANTS
    small = small
    big = big
    m1 = m1
    m2 = m2
    Miss = Miss
    Blobs = {small, big}
    SizeOf <- MCSizeOf
    Models = {m1, m2}
    HotBudget = 3
    WarmBudget = 2
    HotTurns = 1
    WarmTurns = 2
    MaxCold = 1
    Faults = {"write", "crash", "torn"}
    MaxId = 3
    MaxTurn = 3
    MaxClock = 2
SPECIFICATION Spec
CHECK_DEADLOCK FALSE
INVARIANTS
    TypeOK
    TiersAgree
    BytesExact
    HotBounded
    MatchesDisk
PROPERTY
    ImplementsStore
