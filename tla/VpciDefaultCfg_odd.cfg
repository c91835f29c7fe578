\* Controllers with a PCI Express capability, which caps[] has no entry
\* for, and controllers with no capability list (PCIR_CAP_PTR reads 0).
SPECIFICATION Spec
CONSTANTS
    PciRegmax <- MCPciRegmax
    PcirBars <- MCPcirBars
    PciBarCount <- MCPciBarCount
    PcirClass <- MCPcirClass
    PcirCapPtr <- MCPcirCapPtr
    PcicapId <- MCPcicapId
    PcicapNextptr <- MCPcicapNextptr
    PciyMsi <- MCPciyMsi
    Devices <- MCOddDevices
\* init_default_cfg returns; the model stops there.
CHECK_DEADLOCK FALSE
INVARIANT DefaultCfgSound
