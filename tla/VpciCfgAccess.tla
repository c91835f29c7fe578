---------------------------- MODULE VpciCfgAccess ----------------------------
(***************************************************************************)
(* Guest access to PCI configuration space through ports 0xCF8 (address)   *)
(* and 0xCFC-0xCFF (data) in hypervisor/dm/vpci/vpci.c and vhostbridge.c.  *)
(*                                                                         *)
(* The vCPUs of one VM share the address latch vpci->addr.  Each port      *)
(* access is one step: the handlers run to completion on the vCPU's pCPU,  *)
(* the latch is taken with one atomic read-and-clear, and read_cfg and     *)
(* write_cfg hold vpci->lock around the device operation.  Register        *)
(* contents are abstracted to tokens naming where a read was served from   *)
(* (virtual, physical or BAR space) and which register; the physical       *)
(* COMMAND register of each pass-through device is kept as a number        *)
(* because the code changes its bits.  The vdev table is built by          *)
(* vpci_init_vdevs before any vCPU runs and torn down by vpci_cleanup.     *)
(***************************************************************************)
EXTENDS Integers, Sequences, Bitwise

CONSTANTS
    VCpus,         \* the VM's vCPUs
    Bdfs,          \* the BDFs a guest may put in 0xCF8
    DevConfigs,    \* vm_config->pci_devs: << [bdf, emu] >>, emu \in {"pt", "hostbridge"}
    RawRegs,       \* register numbers a guest writes in 0xCF8 (bits 7:0)
    CmdValues,     \* values a guest writes to 0xCFC-0xCFF
    MaxCf8Writes,  \* bound on 0xCF8 writes in a behaviour
    Bdf0           \* the BDF 00:00.0, whose number is 0

ASSUME Bdf0 \in Bdfs

\* PCI_CONFIG_DATA is port 0xCFC; a data access is at 0xCFC + DataOffset
DataOffsets == 0..3
AccessSizes == {1, 2, 4}
PCIR_COMMAND == 4
PCIR_REVID == 8
INTX_DISABLE == 1024   \* the 0x400 that vpci_write_pt_dev_cfg ORs in

\* ~0U, the value a read returns when nothing serves it
AllOnes == [src |-> "all_ones"]
\* the latch a data access has read and cleared: the value 0
Cleared == [en |-> FALSE, bdf |-> Bdf0, reg |-> 0, id |-> 0]

\* vpci.c:100-113
vpci_is_valid_access(offset, bytes) ==
    bytes \in {1, 2, 4} /\ offset % bytes = 0

\* the six BARs, 0x10-0x27
IsBarReg(offset) == offset >= 16 /\ offset < 40

\* the vdev ops a configured device gets (vpci.c:433-440): a configured
\* vdev_ops (the host bridge's), or pci_pt_dev_ops
ConfigOf(b) == DevConfigs[CHOOSE i \in DOMAIN DevConfigs : DevConfigs[i].bdf = b]

VARIABLES
    latch,      \* vpci->addr, with the number of the 0xCF8 write that set it
    pioVal,     \* per vCPU: vcpu->req.reqs.pio.value
    pcmd,       \* per pass-through BDF: the physical COMMAND register
    vdevs,      \* vpci->pci_vdevs[0 .. pci_vdev_cnt - 1]: their BDFs and ops
    assigned,   \* pass-through BDFs added to the VM's IOMMU domain
    phase,      \* "init", "run", "down", or "panic" (the hypervisor halted)
    nWrites,    \* number of 4-byte 0xCF8 writes so far (ghost)
    uses,       \* per 0xCF8 write: how many data accesses it served (ghost)
    served,     \* per vCPU: what its last IN read: "cf8", the register a data
                \* read reached, or "none" (ghost)
    cmdSet      \* pass-through BDFs whose COMMAND a guest wrote (ghost)

vars == << latch, pioVal, pcmd, vdevs, assigned, phase, nWrites, uses, served, cmdSet >>

PtBdfs == { DevConfigs[i].bdf : i \in { j \in DOMAIN DevConfigs : DevConfigs[j].emu = "pt" } }
VdevBdfs == { vdevs[i].bdf : i \in DOMAIN vdevs }
Latches == [en : BOOLEAN, bdf : Bdfs, reg : 0..255, id : 0..MaxCf8Writes]
Token(src, b, offset) == [src |-> src, bdf |-> b, reg |-> offset]
\* the values of served that name no register
NoRead == [kind |-> "none"]
FromCf8 == [kind |-> "cf8"]

TypeOK ==
    /\ latch \in Latches
    /\ pcmd \in [PtBdfs -> 0..65535]
    /\ vdevs \in Seq([bdf : Bdfs, emu : {"pt", "hostbridge"}])
    /\ assigned \subseteq PtBdfs
    /\ phase \in {"init", "run", "down", "panic"}
    /\ nWrites \in 0..MaxCf8Writes
    /\ uses \in [1..MaxCf8Writes -> Nat]
    /\ served \in [VCpus -> [kind : {"reg"}, bdf : Bdfs, reg : 0..255]
                             \cup {NoRead, FromCf8}]
    /\ cmdSet \subseteq PtBdfs

Init ==
    /\ latch = Cleared
    /\ pioVal = [v \in VCpus |-> AllOnes]
    /\ pcmd \in [PtBdfs -> {0, INTX_DISABLE}]
    /\ vdevs = << >>
    /\ assigned = {}
    /\ phase = "init"
    /\ nWrites = 0
    /\ uses = [i \in 1..MaxCf8Writes |-> 0]
    /\ served = [v \in VCpus |-> NoRead]
    /\ cmdSet = {}

-----------------------------------------------------------------------------
(* vpci_init: the vdev table is built before the vCPUs run.               *)

\* defect variant: the result of add_iommu_device ignored
assign_vdev_pt_iommu_domainNoCheck(b) ==
    /\ assigned' \in {assigned \cup {b}, assigned}
    /\ UNCHANGED phase

\* add_iommu_device, which may fail; on failure the hypervisor panics
assign_vdev_pt_iommu_domain(b) ==
    \/ assigned' = assigned \cup {b} /\ UNCHANGED phase
    \/ phase' = "panic" /\ UNCHANGED assigned

\* init_vdev of pci_pt_dev_ops: init_default_cfg, init_vmsi and
\* init_vdev_pt set up register contents (tokens here), then the device
\* joins the VM's IOMMU domain
vpci_init_pt_dev(dc) == assign_vdev_pt_iommu_domain(dc.bdf)

\* vpci.c:423-443, one iteration of vpci_init_vdevs (vpci.c:454-456)
InitVdev ==
    /\ phase = "init"
    /\ Len(vdevs) < Len(DevConfigs)
    /\ LET dc == DevConfigs[Len(vdevs) + 1]
       IN /\ vdevs' = Append(vdevs, dc)
          /\ IF dc.emu = "pt" THEN vpci_init_pt_dev(dc)
                              ELSE UNCHANGED << assigned, phase >>
    /\ UNCHANGED << latch, pioVal, pcmd, nWrites, uses, served, cmdSet >>

\* vpci_init returns and the vCPUs start
StartVcpus ==
    /\ phase = "init"
    /\ Len(vdevs) = Len(DevConfigs)
    /\ phase' = "run"
    /\ UNCHANGED << latch, pioVal, pcmd, vdevs, assigned, nWrites, uses, served, cmdSet >>

\* the pass-through vdevs before index i, which vpci_deinit_pt_dev has
\* taken out of the IOMMU domain when the one at i fails
LeftDomainBefore(i) ==
    {vdevs[j].bdf : j \in {k \in DOMAIN vdevs : vdevs[k].emu = "pt" /\ k < i}}

\* vpci_cleanup (vpci.c:205-209, 464-474): deinit_vdev of every vdev in
\* table order; a pass-through one leaves the IOMMU domain through
\* remove_vdev_pt_iommu_domain, whose remove_iommu_device may fail (the
\* code's TODO says so) and then panics, halting everything
Cleanup ==
    /\ phase = "run"
    /\ LET pts == {i \in DOMAIN vdevs : vdevs[i].emu = "pt"}
       IN \/ phase' = "down" /\ assigned' = {}
          \/ \E i \in pts :
                /\ phase' = "panic"
                /\ assigned' = assigned \ LeftDomainBefore(i)
    /\ UNCHANGED << latch, pioVal, pcmd, vdevs, nWrites, uses, served, cmdSet >>

-----------------------------------------------------------------------------
(* The device operations, under vpci->lock.                               *)

\* vpci.c:362-380
vpci_read_pt_dev_cfg(b, offset, bytes) ==
    IF IsBarReg(offset)
    THEN IF bytes = 4 /\ offset % 4 = 0 THEN Token("bar", b, offset) ELSE AllOnes
    ELSE IF offset >= PCIR_COMMAND /\ offset < PCIR_REVID
    THEN Token("phys", b, offset)
    ELSE Token("virt", b, offset)

\* vhostbridge.c:80-84: the host bridge reads its virtual space
vhostbridge_read_cfg(b, offset) == Token("virt", b, offset)

\* vpci.c:392-402: the value read, ~0U when no vdev has the BDF
read_cfg(b, offset, bytes) ==
    IF b \notin VdevBdfs THEN AllOnes
    ELSE IF ConfigOf(b).emu = "hostbridge" THEN vhostbridge_read_cfg(b, offset)
    ELSE vpci_read_pt_dev_cfg(b, offset, bytes)

\* pci_pdev_write_cfg of `bytes` bytes at COMMAND: 1 byte sets bits 7:0,
\* 2 or 4 bytes set the whole 16-bit register
PdevWriteCommand(old, bytes, val) ==
    IF bytes = 1 THEN (old & 65280) | (val & 255) ELSE val & 65535

\* mutant: the command write reaches hardware without the INTx disable bit
vpci_write_pt_dev_cfgNoIntx(b, offset, bytes, val) ==
    IF offset = PCIR_COMMAND
    THEN /\ pcmd' = [pcmd EXCEPT ![b] = PdevWriteCommand(@, bytes, val)]
         /\ cmdSet' = IF bytes = 1 THEN cmdSet ELSE cmdSet \cup {b}
    ELSE UNCHANGED << pcmd, cmdSet >>

\* vpci.c:341-360: only the COMMAND register reaches hardware.  BAR
\* writes (vdev_pt_write_vbar) and MSI capability writes (vmsi_write_cfg)
\* go to code outside this source; every other write is ignored.
vpci_write_pt_dev_cfg(b, offset, bytes, val) ==
    IF offset = PCIR_COMMAND
    THEN /\ pcmd' = [pcmd EXCEPT ![b] = PdevWriteCommand(@, bytes, val | INTX_DISABLE)]
         /\ cmdSet' = IF bytes = 1 THEN cmdSet ELSE cmdSet \cup {b}
    ELSE UNCHANGED << pcmd, cmdSet >>

\* vhostbridge.c:91-95: the host bridge ignores writes
vhostbridge_write_cfg == UNCHANGED << pcmd, cmdSet >>

\* vpci.c:407-417
write_cfg(b, offset, bytes, val) ==
    IF b \notin VdevBdfs THEN UNCHANGED << pcmd, cmdSet >>
    ELSE IF ConfigOf(b).emu = "hostbridge" THEN vhostbridge_write_cfg
    ELSE vpci_write_pt_dev_cfg(b, offset, bytes, val)

-----------------------------------------------------------------------------
(* The port handlers, one step per guest IN or OUT.                       *)

\* vpci.c:89-98: a 4-byte OUT to 0xCF8 sets the latch with bits 30:24 and
\* 1:0 cleared; other sizes are ignored
Cf8Write(v) ==
    /\ phase = "run"
    /\ nWrites < MaxCf8Writes
    /\ \E en \in BOOLEAN, b \in Bdfs, r \in RawRegs :
         latch' = [en |-> en, bdf |-> b, reg |-> r - (r % 4), id |-> nWrites + 1]
    /\ nWrites' = nWrites + 1
    /\ UNCHANGED << pioVal, pcmd, vdevs, assigned, phase, uses, served, cmdSet >>

\* vpci.c:71-83: a 4-byte IN from 0xCF8 returns the latch, other sizes ~0U
Cf8Read(v) ==
    /\ phase = "run"
    /\ \E bytes \in AccessSizes :
         pioVal' = [pioVal EXCEPT ![v] = IF bytes = 4 THEN latch ELSE AllOnes]
    /\ served' = [served EXCEPT ![v] = FromCf8]
    /\ UNCHANGED << latch, pcmd, vdevs, assigned, phase, nWrites, uses, cmdSet >>

\* the latch names a register the data access may reach
Reaches(l, offset, bytes) == l.en /\ vpci_is_valid_access(l.reg + offset, bytes)

\* the data access consumed the write that set the latch
Consume(l) == IF l.en THEN [uses EXCEPT ![l.id] = @ + 1] ELSE uses

\* mutant: the latch is read but not cleared
CfcReadKeepLatch(v) ==
    /\ phase = "run"
    /\ \E offset \in DataOffsets, bytes \in AccessSizes :
         /\ offset + bytes <= 4
         /\ uses' = Consume(latch)
         /\ IF Reaches(latch, offset, bytes)
            THEN /\ pioVal' = [pioVal EXCEPT ![v] = read_cfg(latch.bdf, latch.reg + offset, bytes)]
                 /\ served' = [served EXCEPT ![v] = [kind |-> "reg", bdf |-> latch.bdf, reg |-> latch.reg + offset]]
            ELSE /\ pioVal' = [pioVal EXCEPT ![v] = AllOnes]
                 /\ served' = [served EXCEPT ![v] = NoRead]
    /\ UNCHANGED << latch, pcmd, vdevs, assigned, phase, nWrites, cmdSet >>

\* mutant: pio_req->value is stored only when a device served the read
CfcReadStoreIfServed(v) ==
    /\ phase = "run"
    /\ \E offset \in DataOffsets, bytes \in AccessSizes :
         /\ offset + bytes <= 4
         /\ latch' = Cleared
         /\ uses' = Consume(latch)
         /\ IF Reaches(latch, offset, bytes)
            THEN /\ pioVal' = IF latch.bdf \in VdevBdfs
                              THEN [pioVal EXCEPT ![v] = read_cfg(latch.bdf, latch.reg + offset, bytes)]
                              ELSE pioVal
                 /\ served' = [served EXCEPT ![v] = [kind |-> "reg", bdf |-> latch.bdf, reg |-> latch.reg + offset]]
            ELSE /\ pioVal' = pioVal
                 /\ served' = [served EXCEPT ![v] = NoRead]
    /\ UNCHANGED << pcmd, vdevs, assigned, phase, nWrites, cmdSet >>

\* mutant: the register is offset by the port number, not by addr - 0xCFC
CfcReadPortOffset(v) ==
    /\ phase = "run"
    /\ \E offset \in DataOffsets, bytes \in AccessSizes :
         /\ offset + bytes <= 4
         /\ latch' = Cleared
         /\ uses' = Consume(latch)
         /\ IF Reaches(latch, 3324 + offset, bytes)
            THEN /\ pioVal' = [pioVal EXCEPT ![v] = read_cfg(latch.bdf, latch.reg + 3324 + offset, bytes)]
                 /\ served' = [served EXCEPT ![v] = [kind |-> "reg", bdf |-> latch.bdf, reg |-> latch.reg + 3324 + offset]]
            ELSE /\ pioVal' = [pioVal EXCEPT ![v] = AllOnes]
                 /\ served' = [served EXCEPT ![v] = NoRead]
    /\ UNCHANGED << pcmd, vdevs, assigned, phase, nWrites, cmdSet >>

\* vpci.c:122-142: an IN from 0xCFC + offset; the PIO layer delivers only
\* accesses inside 0xCFC-0xCFF
CfcRead(v) ==
    /\ phase = "run"
    /\ \E offset \in DataOffsets, bytes \in AccessSizes :
         /\ offset + bytes <= 4
         /\ latch' = Cleared
         /\ uses' = Consume(latch)
         /\ IF Reaches(latch, offset, bytes)
            THEN /\ pioVal' = [pioVal EXCEPT ![v] = read_cfg(latch.bdf, latch.reg + offset, bytes)]
                 /\ served' = [served EXCEPT ![v] = [kind |-> "reg", bdf |-> latch.bdf, reg |-> latch.reg + offset]]
            ELSE /\ pioVal' = [pioVal EXCEPT ![v] = AllOnes]
                 /\ served' = [served EXCEPT ![v] = NoRead]
    /\ UNCHANGED << pcmd, vdevs, assigned, phase, nWrites, cmdSet >>

\* vpci.c:151-169: an OUT to 0xCFC + offset
CfcWrite(v) ==
    /\ phase = "run"
    /\ \E offset \in DataOffsets, bytes \in AccessSizes, val \in CmdValues :
         /\ offset + bytes <= 4
         /\ latch' = Cleared
         /\ uses' = Consume(latch)
         /\ IF Reaches(latch, offset, bytes)
            THEN write_cfg(latch.bdf, latch.reg + offset, bytes, val)
            ELSE UNCHANGED << pcmd, cmdSet >>
    /\ UNCHANGED << pioVal, vdevs, assigned, phase, nWrites, served >>

Next ==
    \/ InitVdev
    \/ StartVcpus
    \/ Cleanup
    \/ \E v \in VCpus : Cf8Write(v) \/ Cf8Read(v) \/ CfcRead(v) \/ CfcWrite(v)

Spec == Init /\ [][Next]_vars

-----------------------------------------------------------------------------
(* Properties.                                                             *)

\* Each 0xCF8 write serves at most one data access, whichever vCPUs race
\* for it: pci_cfgdata_io_read and pci_cfgdata_io_write take the latch
\* with one atomic_readandclear32 (vpci.c:132, vpci.c:159).
LatchUsedOnce == \A i \in 1..MaxCf8Writes : uses[i] <= 1

\* The value a vCPU's last IN returned is fresh: ~0U, or the latch after a
\* 0xCF8 read, or after a data read exactly the register that read
\* addressed; never a value left in vcpu->req by an earlier access
\* (val = ~0U at vpci.c:129 and the unconditional store at vpci.c:141).
ReadsFresh ==
    \A v \in VCpus :
        CASE served[v] = FromCf8 -> pioVal[v] \in Latches \cup {AllOnes}
          [] served[v] = NoRead  -> pioVal[v] = AllOnes
          [] OTHER -> \/ pioVal[v] = AllOnes
                      \/ /\ pioVal[v] \notin Latches
                         /\ pioVal[v].bdf = served[v].bdf
                         /\ pioVal[v].reg = served[v].reg

\* Once a guest has written a pass-through device's COMMAND register with
\* a 2- or 4-byte access, INTx stays disabled on the physical device,
\* whatever the guest writes after (vpci.c:350-352 ORs 0x400 into every
\* write that reaches hardware; a 1-byte write leaves bit 10 alone).
IntxStaysDisabled ==
    \A b \in cmdSet : (pcmd[b] & INTX_DISABLE) = INTX_DISABLE

\* DMA isolation of pass-through devices: while the VM's vCPUs run, every
\* pass-through vdev in its table is in the VM's IOMMU domain.  It holds
\* only because vpci_init_pt_dev panics when add_iommu_device fails
\* (vpci.c:217-222) instead of letting vpci_init return.
PtDevicesIsolated ==
    phase = "run" =>
        \A i \in DOMAIN vdevs : vdevs[i].emu = "pt" => vdevs[i].bdf \in assigned
=============================================================================
