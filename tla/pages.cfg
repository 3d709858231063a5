SPECIFICATION Spec
CONSTANTS
    s1 = s1
    s2 = s2
    Slots = {s1, s2}
    u1 = u1
    Users = {u1}
    Anon = Anon
    Prompts <- Mixed
    Reply <- Replies
    HashLen = 3
    PrefixMax = 4
    MinCompared = 2
    Withheld = 1
    MinFinal = 2
    MaxConvs = 1
    MaxTurn = 2
    MaxPerDir = 2
SYMMETRY SlotSymmetry
INVARIANTS
    TypeOK
PROPERTIES
    
    
    DiskIsUsed
