SPECIFICATION FairSpec
CONSTANTS
    RxBufs = {1, 2}
    TxBufs = {1}
    Reqs = {1}
    MaxInputs = 1
    MaxDue = 2
INVARIANTS TypeOK NoStrandedMessage NoBroadcast
PROPERTIES ImplementsBus Answered
