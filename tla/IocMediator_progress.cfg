\* Recycling and channel progress under the handlers ioc.c installs.
CONSTANTS
    r1 = r1
    r2 = r2
    n1 = n1
    vuart = vuart
    noReq = noReq
    Reqs <- MCReqs
    NativeChs <- MCOneNative
    VUart <- vuart
    FaultyChs <- MCOneNative
    NoReq <- noReq
    RxRoutes <- StubRoutes
    TxRoutes <- StubRoutes
    MaxInput = 2
SPECIFICATION Spec
PROPERTY RequestsRecycled 
\* the process ends after ioc_deinit: a state with every thread done stops
CHECK_DEADLOCK FALSE
