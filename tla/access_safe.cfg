SPECIFICATION Spec
CONSTANTS
    f1 = f1
    f2 = f2
    f3 = f3
    p1 = p1
    p2 = p2
    t1 = t1
    t2 = t2
    t3 = t3
    Fds = {f1, f2, f3}
    Trans = {t1, t2}
    Pool = {t1}
    NoTrans = NoTrans
    SeqMod = 3
    Preempt = FALSE
    Owner <- ThreeOwners
    Path <- ThreePaths
    Modes = {"r", "w"}
    Inputs <- OneInput
    Patient = TRUE
    Signals = TRUE
    NVars = 2
    VarId <- MCId
    VarMin <- MCMin
    VarMax <- MCMax
    VarInit <- MCInit
    Ids = {}
    Ints = {0}
    Kinds = {}
    Lossy = {}
SYMMETRY TransSymmetry
INVARIANTS TypeOK TransAccounted NotRecycledUnanswered NoLostWakeup WaitsForAnswer OwnData SafeInv CloseWritesBack
PROPERTIES ErrorWindow
CHECK_DEADLOCK FALSE
