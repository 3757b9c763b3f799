SPECIFICATION GivenSpec
CONSTANTS
    NVars = 2
    VarId <- MCId
    VarMin <- MCMin
    VarMax <- MCMax
    VarInit <- MCInit
    Ids = {2, 9}
    Ints <- MCInts
    Kinds = {"none", "cpy"}
    Lossy = {}
INVARIANTS CfgTypeOK InLimits
PROPERTY ImplementsTable
