\* init_default_cfg over USB, Ethernet and storage controllers with a
\* capability list: every order of the capabilities caps[] knows, and
\* lists with a PCI Express capability it does not know.
SPECIFICATION Spec
CONSTANTS
    PciRegmax <- MCPciRegmax
    PcirBars <- MCPcirBars
    PciBarCount <- MCPciBarCount
    PcirClass <- MCPcirClass
    PcirCapPtr <- MCPcirCapPtr
    PcicapId <- MCPcicapId
    PcicapNextptr <- MCPcicapNextptr
    PciyMsi <- MCPciyMsi
    Devices <- MCCapDevices
\* init_default_cfg returns; the model stops there.
CHECK_DEADLOCK FALSE
INVARIANT TypeOK HeaderPreserved OnlyMsiExposed
PROPERTY CfgInitTerminates
