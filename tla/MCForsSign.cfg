SPECIFICATION FairSpec
CONSTANTS
    SPX_FORS_SIG_TREES = 7
    Requests <- MCRequests
    UINT32_MODULUS = 9
INVARIANTS
    TypeOK
    NoSharedRegion
    RootsReady
    NoWorkerOutlivesFrame
PROPERTIES
    PromiseSpec
    CallReturns
