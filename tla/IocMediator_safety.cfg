\* Ownership and wakeup safety with handlers that forward requests.
CONSTANTS
    r1 = r1
    r2 = r2
    n1 = n1
    vuart = vuart
    noReq = noReq
    Reqs <- MCReqs
    NativeChs <- MCOneNative
    VUart <- vuart
    FaultyChs <- MCOneNative
    NoReq <- noReq
    RxRoutes <- RxForward
    TxRoutes <- TxForward
    MaxInput = 2
SPECIFICATION Spec
SYMMETRY ReqSymmetry
INVARIANT TypeOK RequestOwnership NoStrandedWork
\* the process ends after ioc_deinit: a state with every thread done stops
CHECK_DEADLOCK FALSE
