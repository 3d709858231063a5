CONSTANTS
    r1 = r1
    r2 = r2
    r3 = r3
    t1 = t1
    t2 = t2
    t3 = t3
    t4 = t4
    u1 = u1
    NoTask = NoTask
    NoSlot = NoSlot
    NoUser = NoUser
    Main = Main
    Readers = {r1, r2}
    Tasks = {t1, t2, t3}
    Users = {u1}
    Slots <- MCSlots2
    TasksOf <- FamilyTasksOf
    Info <- FamilyInfo
    UserCap = 0
    SleepEnabled = FALSE
    Faults = {"disconnect", "decode", "launch", "tokenize", "slot_action", "bad_request"}
SPECIFICATION FairSpec
CHECK_DEADLOCK FALSE
INVARIANTS
    NoTaskLost
    NoDuplicateFinal
    NothingLeftBehind
    WaitingChildHasParent
PROPERTIES
    ImplementsTaskStages
    SlotsAreFreed
