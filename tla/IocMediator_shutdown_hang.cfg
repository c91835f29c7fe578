\* Does ioc_deinit return, whatever the threads are doing when it starts?
CONSTANTS
    r1 = r1
    r2 = r2
    n1 = n1
    vuart = vuart
    noReq = noReq
    Reqs <- MCReqs
    NativeChs <- MCOneNative
    VUart <- vuart
    FaultyChs <- MCOneNative
    NoReq <- noReq
    RxRoutes <- StubRoutes
    TxRoutes <- StubRoutes
    MaxInput = 2
SPECIFICATION Spec
PROPERTY DeinitReturns
\* the process ends after ioc_deinit: a state with every thread done stops
CHECK_DEADLOCK FALSE
