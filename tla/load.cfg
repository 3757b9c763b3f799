SPECIFICATION FairSpec
CONSTANTS
    f1 = f1
    f2 = f2
    t1 = t1
    t2 = t2
    t3 = t3
    t4 = t4
    Fds = {f1, f2}
    Trans = {t1, t2, t3}
    Pool = {t1}
    NoTrans = NoTrans
    SeqMod = 64
    Preempt = FALSE
    Alone = TRUE
    Sizes = {0, 1, 3}
    SameTable = TRUE
    MaxGen = 1
    Disturbances = {"signal", "send"}
INVARIANTS TypeOK FilesNamed  OnlyCountsLeak
PROPERTIES SafeUnlessCut Loads
CHECK_DEADLOCK FALSE
