--------------------------- MODULE MC_VpciDefaultCfg ---------------------------
(* Physical devices for init_default_cfg: a configuration space with a     *)
(* base class and a capability list laid out at 0x40, 0x50, ... in list   *)
(* order.  Every other byte holds a non-zero filler so that a byte the     *)
(* code clears is told apart from one it keeps.                            *)
EXTENDS VpciDefaultCfg

\* the standard PCI register layout (pcireg.h)
MCPciRegmax == 255
MCPcirBars == 16
MCPciBarCount == 6
MCPcirClass == 11
MCPcirCapPtr == 52
MCPcicapId == 0
MCPcicapNextptr == 1
MCPciyMsi == 5

\* capability IDs: power management, advanced features, PCI Express
PM == 1
AF == 19
PCIE == 16
\* base classes: mass storage besides the two the code names
STORAGE == 1

CapBase(i) == 64 + 16 * (i - 1)

MkDev(cls, ids) ==
    [o \in 0..MCPciRegmax |->
        IF o = MCPcirClass THEN cls
        ELSE IF o = MCPcirCapPtr THEN (IF ids = << >> THEN 0 ELSE CapBase(1))
        ELSE IF \E i \in DOMAIN ids : o = CapBase(i)
             THEN ids[CHOOSE i \in DOMAIN ids : o = CapBase(i)]
        ELSE IF \E i \in DOMAIN ids : o = CapBase(i) + 1
             THEN LET i == CHOOSE j \in DOMAIN ids : o = CapBase(j) + 1
                  IN IF i = Len(ids) THEN 0 ELSE CapBase(i + 1)
        ELSE 1 + (o % 200)]

Classes == {PCI_USB_CONTROLLER, PCI_ETH_CONTROLLER, STORAGE}

\* every order of every non-empty set of the capabilities the code knows
KnownCapLists == SetToAllKPermutations({PM, AF, MCPciyMsi}) \ {<< >>}

\* USB, Ethernet and storage controllers whose capabilities init_default_cfg
\* has a caps[] entry for
MCKnownDevices == { MkDev(cls, ids) : cls \in Classes, ids \in KnownCapLists }

\* controllers with a PCI Express capability (ID 0x10), which caps[] lacks
MCUnknownCapDevices ==
    { MkDev(cls, ids) : cls \in Classes,
                        ids \in { << PCIE, MCPciyMsi >>, << PM, PCIE >> } }

\* every controller with a capability list, whatever its capabilities
MCCapDevices == MCKnownDevices \cup MCUnknownCapDevices

\* controllers with no capability list at all (CAP_PTR = 0)
MCNoCapDevices == { MkDev(cls, << >>) : cls \in Classes }

\* the devices with a capability caps[] lacks or with no list at all
MCOddDevices == MCUnknownCapDevices \cup MCNoCapDevices
=============================================================================
