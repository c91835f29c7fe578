\* pCPU bring-up and offlining: self_mask
SPECIFICATION Spec
CONSTANTS
    Cpus <- MCCpus
    BootCpu = 0
    Procs <- MCProcs
    BspLapic = 0
    MadtTables <- MCMadtTables
    StartMask <- MCAllMask
    OfflineMask <- MCOffline
    UpTimeout = 2
    DownTimeout = 2
    IsrRegs = 3
    IsrWidth = 3
PROPERTY StartPcpusReturns
\* the hypervisor halts after a panic and an offlined AP halts: final states are not errors
CHECK_DEADLOCK FALSE
