CONSTANTS
    m1 = m1
    m2 = m2
    c1 = c1
    c2 = c2
    NoModel = NoModel
    Free = Free
    Aborted = Aborted
    Models = {m1}
    Clients = {c1, c2}
    ModelsMax = 0
    Ops = {"load", "download", "remove", "reload", "unload", "chat"}
    Sleeps = FALSE
    Installed = {m1}
SPECIFICATION Spec
CHECK_DEADLOCK FALSE
INVARIANTS
    NoThreadLost
    ReloadHasOwner
