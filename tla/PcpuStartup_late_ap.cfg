\* pCPU bring-up and offlining: late_ap
SPECIFICATION Spec
CONSTANTS
    Cpus <- MCCpus
    BootCpu = 0
    Procs <- MCProcs
    BspLapic = 0
    MadtTables <- MCMadtTables
    StartMask <- MCApMask
    OfflineMask <- MCOffline
    UpTimeout = 2
    DownTimeout = 2
    IsrRegs = 3
    IsrWidth = 3
INVARIANT DeadMeansDown
\* the hypervisor halts after a panic and an offlined AP halts: final states are not errors
CHECK_DEADLOCK FALSE
