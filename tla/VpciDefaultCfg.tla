---------------------------- MODULE VpciDefaultCfg ----------------------------
(***************************************************************************)
(* init_default_cfg() of hypervisor/dm/vpci/vpci.c: the virtual           *)
(* configuration space of a pass-through PCI device is built from the      *)
(* physical one, the unused fields of USB and Ethernet controllers are     *)
(* cleared, and every capability but MSI is hidden by walking the          *)
(* capability list and zeroing each capability in place.                   *)
(*                                                                         *)
(* The configuration space is a function from byte offsets to bytes.  The  *)
(* function runs on one pCPU while the VM is created, so each step is one  *)
(* statement group of the code and the only nondeterminism is the device   *)
(* being initialised.  The locals offset and index are variables because   *)
(* their values flow from one loop of the function into the next.          *)
(***************************************************************************)
EXTENDS Integers, SequencesExt

CONSTANTS
    Devices,        \* physical configuration spaces, [0..PciRegmax -> 0..255]
    PciRegmax,      \* PCI_REGMAX: last byte of the configuration space
    PcirBars,       \* PCIR_BARS: offset of the first BAR
    PciBarCount,    \* PCI_BAR_COUNT
    PcirClass,      \* PCIR_CLASS: base class byte
    PcirCapPtr,     \* PCIR_CAP_PTR: head of the capability list
    PcicapId,       \* PCICAP_ID: capability ID byte within a capability
    PcicapNextptr,  \* PCICAP_NEXTPTR: next pointer byte within a capability
    PciyMsi         \* PCIY_MSI: the MSI capability ID

CfgSpace == 0..PciRegmax
Byte == 0..255

\* vpci.c:49-50
PCI_USB_CONTROLLER == 12
PCI_ETH_CONTROLLER == 2

\* The three local tables of init_default_cfg (struct cap_info and struct
\* unused_fields).  C indexes them from 0, so caps[i] is CapInfo(i).
caps == << [id |-> 1, length |-> 8], [id |-> 19, length |-> 4] >>
eth_unused == << [offset |-> 144, length |-> 16] >>
usb_unused == << [offset |-> 156, length |-> 4], [offset |-> 160, length |-> 2],
                 [offset |-> 168, length |-> 8], [offset |-> 248, length |-> 4] >>
CapInfo(i) == caps[i + 1]
CapsIdx == 0..(Len(caps) - 1)

\* uint8_t max_index = (PCI_REGMAX + 1U) >> 2U
max_index == (PciRegmax + 1) \div 4

\* the dwords the copy loop skips: the six BARs
IsBarDword(i) == i >= PcirBars \div 4 /\ i <= PcirBars \div 4 + PciBarCount - 1

\* memset(vdev->cfgdata.data_8 + off, 0U, len)
Zero(c, off, len) == [o \in CfgSpace |-> IF o \in off..(off + len - 1) THEN 0 ELSE c[o]]

\* the memset loop over a table of unused fields
ZeroFields(c, fields) == FoldLeft(LAMBDA acc, f : Zero(acc, f.offset, f.length), c, fields)

\* which unused-field table the base class selects; none for other classes
UnusedFields(cls) ==
    IF cls = PCI_USB_CONTROLLER THEN usb_unused
    ELSE IF cls = PCI_ETH_CONTROLLER THEN eth_unused
    ELSE << >>

VARIABLES
    phys,    \* the physical configuration space pci_pdev_read_cfg reads
    cfg,     \* vdev->cfgdata
    pc,      \* "copy", "hide", "caps", "done", or "ub" (undefined behaviour)
    offset,  \* the uint8_t local offset
    index    \* the uint8_t local index

vars == << phys, cfg, pc, offset, index >>

TypeOK ==
    /\ phys \in Devices
    /\ cfg \in [CfgSpace -> Byte]
    /\ pc \in {"copy", "hide", "caps", "done", "ub"}
    /\ offset \in Byte
    /\ index \in Byte

\* vdev->cfgdata lives in the zeroed acrn_vm structure; index is assigned
\* by the first loop before it is read.
Init ==
    /\ phys \in Devices
    /\ cfg = [o \in CfgSpace |-> 0]
    /\ pc = "copy"
    /\ offset = 0
    /\ index = 0

\* vpci.c:263-270: copy every dword but the BARs; the loop leaves
\* index = max_index and offset at the last dword.
CopyPhys ==
    /\ pc = "copy"
    /\ cfg' = [o \in CfgSpace |-> IF IsBarDword(o \div 4) THEN cfg[o] ELSE phys[o]]
    /\ index' = max_index
    /\ offset' = 4 * (max_index - 1)
    /\ pc' = "hide"
    /\ UNCHANGED phys

\* vpci.c:272-285: clear the unused fields of USB/ETH controllers, then
\* read the head of the capability list.  A class with no table runs no
\* loop and leaves index alone; a table loop leaves index at its length.
HideUnused ==
    /\ pc = "hide"
    /\ LET fields == UnusedFields(cfg[PcirClass])
           hidden == ZeroFields(cfg, fields)
       IN /\ cfg' = hidden
          /\ index' = IF fields = << >> THEN index ELSE Len(fields)
          /\ offset' = hidden[PcirCapPtr]
    /\ pc' = "caps"
    /\ UNCHANGED phys

\* the loop condition of vpci.c:286
InCapList == offset # 0 /\ offset # 255

CapId == cfg[offset + PcicapId]
CapNext == cfg[offset + PcicapNextptr]

\* mutant: the MSI capability is skipped without becoming the head
ExposeMsiNoHead ==
    /\ pc = "caps"
    /\ InCapList
    /\ CapId = PciyMsi
    /\ offset' = CapNext
    /\ UNCHANGED << phys, cfg, pc, index >>

\* vpci.c:291-292: an MSI capability becomes the head of the list
ExposeMsi ==
    /\ pc = "caps"
    /\ InCapList
    /\ CapId = PciyMsi
    /\ cfg' = [cfg EXCEPT ![PcirCapPtr] = offset]
    /\ offset' = CapNext
    /\ UNCHANGED << phys, pc, index >>

\* vpci.c:295-301: the caps[] entry for the capability; an ID that is in
\* neither entry only logs and keeps whatever index holds.
HideIndex == IF CapId = CapInfo(0).id THEN 0
             ELSE IF CapId = CapInfo(1).id THEN 1
             ELSE index

\* caps[index] is inside the table and its length inside cfgdata
HideDefined ==
    /\ HideIndex \in CapsIdx
    /\ offset + CapInfo(HideIndex).length <= PciRegmax + 1

\* mutant: the next pointer read as a 2-byte field
HideCapWideNext ==
    /\ pc = "caps"
    /\ InCapList
    /\ CapId # PciyMsi
    /\ HideDefined
    /\ cfg' = Zero(cfg, offset, CapInfo(HideIndex).length)
    /\ index' = HideIndex
    /\ offset' = CapNext + 256 * cfg[offset + PcicapNextptr + 1]
    /\ UNCHANGED << phys, pc >>

\* mutant: the walk does not advance past a hidden capability
HideCapNoAdvance ==
    /\ pc = "caps"
    /\ InCapList
    /\ CapId # PciyMsi
    /\ HideDefined
    /\ cfg' = Zero(cfg, offset, CapInfo(HideIndex).length)
    /\ index' = HideIndex
    /\ UNCHANGED << phys, pc, offset >>

\* vpci.c:293-306: zero the capability with the length caps[index] gives
HideCap ==
    /\ pc = "caps"
    /\ InCapList
    /\ CapId # PciyMsi
    /\ HideDefined
    /\ cfg' = Zero(cfg, offset, CapInfo(HideIndex).length)
    /\ index' = HideIndex
    /\ offset' = CapNext
    /\ UNCHANGED << phys, pc >>

\* vpci.c:303: caps[index] read past the two-entry table, or a memset
\* past the end of cfgdata: undefined behaviour, after which the model
\* stops.
HideCapUndefined ==
    /\ pc = "caps"
    /\ InCapList
    /\ CapId # PciyMsi
    /\ ~HideDefined
    /\ pc' = "ub"
    /\ UNCHANGED << phys, cfg, offset, index >>

\* mutant: the list head is not read again; the walk's last offset is used
TerminateListStale ==
    /\ pc = "caps"
    /\ ~InCapList
    /\ cfg' = [cfg EXCEPT ![offset + PcicapNextptr] = 0]
    /\ pc' = "done"
    /\ UNCHANGED << phys, offset, index >>

\* vpci.c:309-311: after the walk, terminate the list at its head
TerminateList ==
    /\ pc = "caps"
    /\ ~InCapList
    /\ LET head == cfg[PcirCapPtr]
       IN /\ cfg' = [cfg EXCEPT ![head + PcicapNextptr] = 0]
          /\ offset' = head
    /\ pc' = "done"
    /\ UNCHANGED << phys, index >>

Next ==
    \/ CopyPhys
    \/ HideUnused
    \/ ExposeMsi
    \/ HideCap
    \/ HideCapUndefined
    \/ TerminateList

\* init_default_cfg runs to completion on the pCPU that creates the VM
Spec == Init /\ [][Next]_vars /\ WF_vars(Next)

-----------------------------------------------------------------------------
(* Reference definitions over the physical configuration space.            *)

\* The capability list as a guest walks it from PCIR_CAP_PTR, bounded by
\* 48 hops as Linux's PCI_FIND_CAP_TTL bounds it.
RECURSIVE WalkFrom(_, _, _)
WalkFrom(c, o, ttl) ==
    IF o = 0 \/ o = 255 \/ ttl = 0 THEN << >>
    ELSE << o >> \o WalkFrom(c, c[o + PcicapNextptr], ttl - 1)
CapList(c) == WalkFrom(c, c[PcirCapPtr], 48)

\* the capability list of c holds an MSI capability
HasMsi(c) == \E i \in DOMAIN CapList(c) : c[CapList(c)[i]] = PciyMsi

-----------------------------------------------------------------------------
(* Properties.                                                             *)

\* The standard header the guest identifies the device by (vendor, device,
\* command, status, class and the rest of 0x00-0x3F but the BARs and
\* CAP_PTR) is left as the physical device has it once init_default_cfg
\* returns: the final next-pointer write of vpci.c:311 must land inside a
\* capability, never in the header.
HeaderPreserved ==
    pc = "done" =>
        \A o \in 0..63 :
            (~IsBarDword(o \div 4) /\ o # PcirCapPtr) => cfg[o] = phys[o]

\* After init_default_cfg the guest's walk of the capability list meets
\* only MSI or zeroed (null) capabilities, and it meets MSI, with the
\* physical message-control word, exactly when the device has MSI: the
\* walk of vpci.c:286-307 hides every other capability and the writes of
\* vpci.c:292 and vpci.c:311 leave MSI as the only live entry.
OnlyMsiExposed ==
    pc = "done" =>
        LET seen == { CapList(cfg)[i] : i \in DOMAIN CapList(cfg) }
        IN /\ \A o \in seen : cfg[o] \in {0, PciyMsi}
           /\ HasMsi(phys) <=>
                \E o \in seen : /\ cfg[o] = PciyMsi
                                /\ cfg[o + 2] = phys[o + 2]
                                /\ cfg[o + 3] = phys[o + 3]

\* The capability walk never reads caps[] outside its two entries nor
\* clears bytes past the end of cfgdata (vpci.c:303).
NoUndefinedCapHide == pc # "ub"

\* init_default_cfg is sound for every device it may be given: no
\* undefined behaviour in the capability walk, and the header intact.
DefaultCfgSound == NoUndefinedCapHide /\ HeaderPreserved

\* init_default_cfg returns: the walk of vpci.c:286 reaches the end of
\* the list.
CfgInitTerminates == <>(pc \in {"done", "ub"})
=============================================================================
