\* Startup and its unwinding: what a failed or successful ioc_init leaves.
CONSTANTS
    ChTbl <- MCChTbl
    ChOn <- MCChOn
    NativeIds <- MCNativeIds
    LfccId = "LFCC"
    VUartId = "VUART"
    OptStrings <- MCOptStrings
SPECIFICATION Spec
INVARIANT TypeOK FailedInitReleasesAll
\* ioc_init returns (to the caller, which this model does not follow) or faults
CHECK_DEADLOCK FALSE
