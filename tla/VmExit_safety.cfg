\* VM-exit dispatch in front of port I/O emulation.
CONSTANTS
    c1 = c1
    p1 = p1
    p2 = p2
    VCpus <- MCVCpus
    Ranges <- MCRanges
    AllowRanges <- MCAllowRanges
    Accesses <- MCAccesses
    DmValues <- MCDmValues
    MaxExits = 2
    Reasons <- MCReasons
    ExitQuals <- MCExitQuals
    IdtInfos <- MCIdtInfos
    XsetbvInputs <- MCXsetbvInputs
    ReservedBits = {8, 10}
    Pages <- MCPages
    EptType <- MCEptType
SPECIFICATION Spec
INVARIANT TypeOK InResultMerged AccessRouted HandlerPortsTrapped IdtEventRedelivered
PROPERTY XsetbvDecision
\* a VM shut down or with its I/O resources freed runs nothing more, and
\* each vCPU stops after MaxExits exits
CHECK_DEADLOCK FALSE
