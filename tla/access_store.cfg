SPECIFICATION FairSpec
CONSTANTS
    f1 = f1
    f2 = f2
    f3 = f3
    p1 = p1
    p2 = p2
    t1 = t1
    t2 = t2
    t3 = t3
    Fds = {f1, f2}
    Trans = {t1, t2}
    Pool = {t1}
    NoTrans = NoTrans
    SeqMod = 2
    Preempt = FALSE
    Owner <- TwoOwners
    Path <- SamePaths
    Modes = {"r", "w"}
    Inputs <- MCInputs
    Patient = TRUE
    Signals = FALSE
    NVars = 2
    VarId <- MCId
    VarMin <- MCMin
    VarMax <- MCMax
    VarInit <- MCInit
    Ids = {1}
    Ints = {0}
    Kinds = {}
    Lossy = {}
PROPERTIES ImplementsStore Finishes
INVARIANT NoLeak
