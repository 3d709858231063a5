CONSTANTS
    m1 = m1
    m2 = m2
    c1 = c1
    c2 = c2
    NoModel = NoModel
    Free = Free
    Aborted = Aborted
    Models = {m1, m2}
    Clients = {c1, c2}
    ModelsMax = 1
    Ops = {"chat", "unload"}
    Sleeps = TRUE
    Installed = {m1, m2}
SPECIFICATION FairSpec
INVARIANTS
    TypeOK
    StatusIsTrue
PROPERTIES
    ImplementsModelHost
    StopIsObeyed
    ShutdownEnds
