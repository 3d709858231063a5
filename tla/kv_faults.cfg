CONSTANTS
    small = small
    big = big
    m1 = m1
    m2 = m2
    Miss = Miss
    Blobs = {small, big}
    SizeOf <- MCSizeOf
    Models = {m1, m2}
    HotBudget = 2
    WarmBudget = 2
    HotTurns = 1
    WarmTurns = 1
    MaxCold = 1
    Faults = {"write", "crash", "torn", "index"}
    MaxId = 2
    MaxTurn = 2
    MaxClock = 2
SPECIFICATION Spec
CHECK_DEADLOCK FALSE
PROPERTIES
    LoadAnswersFile
    ImplementsStore
