\* Two vCPUs racing on 0xCF8/0xCFC of one VM with a host bridge, a
\* pass-through device and an empty slot.
SPECIFICATION Spec
CONSTANTS
    HB = HB
    SC = SC
    NB = NB
    V1 = V1
    V2 = V2
    VCpus <- MCVCpus
    Bdfs <- MCBdfs
    DevConfigs <- MCDevConfigs
    RawRegs <- MCRawRegs
    CmdValues <- MCCmdValues
    MaxCf8Writes = 2
    Bdf0 <- HB
\* The VM stops once vpci_cleanup has run or the hypervisor panicked, and the bound on 0xCF8 writes
\* ends behaviours that have used it up.
CHECK_DEADLOCK FALSE
INVARIANT TypeOK LatchUsedOnce ReadsFresh IntxStaysDisabled PtDevicesIsolated
