\* Does a failed ioc_init return NULL, rather than fault or block in its unwinding?
CONSTANTS
    ChTbl <- MCChTbl
    ChOn <- MCChOn
    NativeIds <- MCNativeIds
    LfccId = "LFCC"
    VUartId = "VUART"
    OptStrings <- MCOptStrings
SPECIFICATION Spec
PROPERTY InitReturnsCleanly
\* ioc_init returns (to the caller, which this model does not follow) or faults
CHECK_DEADLOCK FALSE
