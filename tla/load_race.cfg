SPECIFICATION Spec
CONSTANTS
    f1 = f1
    f2 = f2
    t1 = t1
    t2 = t2
    t3 = t3
    t4 = t4
    Fds = {f1, f2}
    Trans = {t1, t2, t3, t4}
    Pool = {t1}
    NoTrans = NoTrans
    SeqMod = 64
    Preempt = FALSE
    Alone = FALSE
    Sizes = {1}
    SameTable = TRUE
    MaxGen = 1
    Disturbances = {}
INVARIANT FilesInPlace
CHECK_DEADLOCK FALSE
