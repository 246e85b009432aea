CONSTANTS
    k1 = k1
    k2 = k2
    d1 = d1
    d2 = d2
    Op = {o1, o2}
    Request <- Requests
    MaxOperations = 2
    NoOp = NoOp
SPECIFICATION FairSpec
INVARIANTS
    SuccessIsReal
    RunningHasWorker
PROPERTIES
    TerminalIsFinal
    RetryFindsOriginal
    
