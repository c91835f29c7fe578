------------------------------- MODULE VmExit -------------------------------
(***************************************************************************)
(* The VM-exit path of a vCPU (hypervisor/arch/x86/guest/vmexit.c) in     *)
(* front of the port I/O emulation of PioDispatch.  vmexit_handler first  *)
(* re-queues an event whose delivery the exit interrupted (IDT-vectoring  *)
(* information), then looks the basic exit reason up in dispatch_table,   *)
(* reads the exit qualification into vcpu->arch.exit_qualification when   *)
(* the entry asks for it, and calls the entry's handler.  The handlers of *)
(* vmexit.c and vmx_io.c's ept_violation_vmexit_handler are modelled; an  *)
(* I/O exit is passed to io.c's pio_instr_vmexit_handler, the one whose   *)
(* emulate_io is in this source.                                          *)
(*                                                                         *)
(* An exit qualification is its low byte, the part the handlers read.  An *)
(* exception is a vector and an error code.  queued[v] is the exceptions  *)
(* one exit queued for the vCPU, in the order of the calls               *)
(* (vcpu_queue_exception and the vcpu_inject_* helpers, not in this       *)
(* source, deliver them at the next VM entry).                            *)
(***************************************************************************)
EXTENDS Integers, Sequences, FiniteSets

CONSTANTS
    VCpus, Ranges, AllowRanges, Accesses, DmValues, MaxExits,  \* PioDispatch's
    Reasons,       \* basic exit reasons other than I/O the guests' exits have
    ExitQuals,     \* ExitQuals[e]: low bytes of the qualification of an e exit
    IdtInfos,      \* IDT-vectoring information the processor may report
    XsetbvInputs,  \* [osxsave, rcx, val]: CR4.OSXSAVE, ECX and EDX:EAX bits
    ReservedBits,  \* XCR0_RESERVED_BITS, as bit numbers
    Pages,         \* guest-physical pages an EPT violation may be on
    EptType        \* EptType[g]: "none" (no EPT entry), "wb" or "uc"

VARIABLES
    vm0, phase, toReg, toAllow, handlers, flipped, dev, vpc, rax, req, slot,
    last, exits,   \* PioDispatch's
    safety,    \* is_safety_vm(vm)
    qual,      \* qual[v]: vcpu->arch.exit_qualification
    idt,       \* idt[v]: vcpu->arch.idt_vectoring_info
    queued,    \* queued[v]: exceptions the last exit queued, in call order
    nmiReq,    \* nmiReq[v]: ACRN_REQUEST_NMI is pending
    xcr0,      \* xcr0[v]: the XCR0 bits the guest runs with
    exe,       \* pages the EPT maps executable after ept_modify_mr
    retained,  \* retained[v]: the last exit called vcpu_retain_rip
    vmState,   \* "running", "shutdown" (fatal_error_shutdown_vm) or "panic"
    cur        \* ghost: cur[v] is the reason, IDT info and XSETBV input of the last exit

pioVars == << vm0, phase, toReg, toAllow, handlers, flipped, dev, vpc, rax, req, slot,
              last, exits >>
exitVars == << safety, qual, idt, queued, nmiReq, xcr0, exe, retained, vmState, cur >>
vars == << pioVars, exitVars >>

Pio == INSTANCE PioDispatch

\* VMX basic exit reasons (SDM Vol. 3, Appendix C)
VMX_EXIT_REASON_TRIPLE_FAULT == 2
VMX_EXIT_REASON_INIT_SIGNAL == 3
VMX_EXIT_REASON_TASK_SWITCH == 9
VMX_EXIT_REASON_INVD == 13
VMX_EXIT_REASON_VMCALL == 18
VMX_EXIT_REASON_CR_ACCESS == 28
VMX_EXIT_REASON_DR_ACCESS == 29
VMX_EXIT_REASON_IO_INSTRUCTION == 30
VMX_EXIT_REASON_EPT_VIOLATION == 48
VMX_EXIT_REASON_WBINVD == 54
VMX_EXIT_REASON_XSETBV == 55
NR_VMX_EXIT_REASONS == 65

\* exception vectors and the event types of the IDT-vectoring field
UD == [vector |-> 6, err |-> 0]
GP(code) == [vector |-> 13, err |-> code]
PF == [vector |-> 14, err |-> 0]
NoIdt == [type |-> "none", vector |-> 0, errValid |-> FALSE, err |-> 0]
NoXsetbv == [osxsave |-> FALSE, rcx |-> 0, val |-> {}]
NoExit == [reason |-> -1, info |-> NoIdt, x |-> NoXsetbv]

\* XCR0 bits: x87, SSE, AVX, BNDREGS, BNDCSR
XCR0_X87 == 0
XCR0_SSE == 1
XCR0_AVX == 2
XCR0_BNDREGS == 3
XCR0_BNDCSR == 4

\* reasons whose handler vmexit.c does not define and whose effect on the
\* modelled state is beyond this model (they rewrite guest registers)
ForeignReasons == {0, 10, 31, 32}

ASSUME /\ Reasons \subseteq Nat \ ForeignReasons
       /\ VMX_EXIT_REASON_IO_INSTRUCTION \notin Reasons
       /\ \A g \in Pages : EptType[g] \in {"none", "wb", "uc"}

TypeOK ==
    /\ Pio!TypeOK
    /\ safety \in BOOLEAN
    /\ qual \in [VCpus -> 0..255]
    /\ idt \in [VCpus -> IdtInfos \cup {NoIdt}]
    /\ \A v \in VCpus : \A i \in DOMAIN queued[v] :
          queued[v][i].vector \in {6, 13, 14} \cup {f.vector : f \in IdtInfos}
    /\ nmiReq \in [VCpus -> BOOLEAN]
    /\ \A v \in VCpus : xcr0[v] \subseteq 0..63
    /\ exe \subseteq Pages /\ retained \in [VCpus -> BOOLEAN]
    /\ vmState \in {"running", "shutdown", "panic"}

\* a VM is created with XCR0 = 1 (x87 only) in every vCPU; VM0 is not a
\* safety VM
Init ==
    /\ Pio!Init
    /\ safety \in IF vm0 THEN {FALSE} ELSE BOOLEAN
    /\ qual = [v \in VCpus |-> 0]
    /\ idt = [v \in VCpus |-> NoIdt]
    /\ queued = [v \in VCpus |-> << >>]
    /\ nmiReq = [v \in VCpus |-> FALSE]
    /\ xcr0 = [v \in VCpus |-> {XCR0_X87}]
    /\ exe = {}
    /\ retained = [v \in VCpus |-> FALSE]
    /\ vmState = "running"
    /\ cur = [v \in VCpus |-> NoExit]
-----------------------------------------------------------------------------
(* dispatch_table: the handler of each basic exit reason and whether the  *)
(* exit qualification is read for it.  "none" is an index the table does  *)
(* not initialise (a NULL handler).                                         *)
UndefinedReasons == {15} \cup (18..27) \cup {36, 39, 50, 53}
HandlerOf(e) ==
    CASE e = 0 -> "exception_vmexit_handler"
      [] e = VMX_EXIT_REASON_INIT_SIGNAL -> "init_signal_vmexit_handler"
      [] e = VMX_EXIT_REASON_TASK_SWITCH -> "taskswitch_vmexit_handler"
      [] e = 10 -> "cpuid_vmexit_handler"
      [] e = VMX_EXIT_REASON_INVD -> "invd_vmexit_handler"
      [] e = VMX_EXIT_REASON_CR_ACCESS -> "cr_access_vmexit_handler"
      [] e = VMX_EXIT_REASON_DR_ACCESS -> "movdr_vmexit_handler"
      [] e = VMX_EXIT_REASON_IO_INSTRUCTION -> "pio_instr_vmexit_handler"
      [] e = 31 -> "rdmsr_vmexit_handler"
      [] e = 32 -> "wrmsr_vmexit_handler"
      [] e = VMX_EXIT_REASON_EPT_VIOLATION -> "ept_violation_vmexit_handler"
      [] e = VMX_EXIT_REASON_WBINVD -> "wbinvd_vmexit_handler"
      [] e = VMX_EXIT_REASON_XSETBV -> "xsetbv_vmexit_handler"
      [] e \in UndefinedReasons -> "undefined_vmexit_handler"
      [] e \in {35, 38, 42} -> "none"
      [] OTHER -> "unexpected_vmexit_handler"
dispatch_table ==
    [e \in 0..(NR_VMX_EXIT_REASONS - 1) |->
        [handler |-> HandlerOf(e),
         need_exit_qualification |->
            IF e \in {VMX_EXIT_REASON_CR_ACCESS, VMX_EXIT_REASON_IO_INSTRUCTION,
                      VMX_EXIT_REASON_EPT_VIOLATION} THEN 1 ELSE 0]]

ASSUME \A e \in Reasons : e < NR_VMX_EXIT_REASONS => dispatch_table[e].handler # "none"

(* The IDT-vectoring part of vmexit_handler: a hardware exception whose   *)
(* delivery the exit interrupted is queued again with its error code (0   *)
(* when the code is not valid) and the field cleared; an NMI becomes      *)
(* ACRN_REQUEST_NMI and the field is cleared; an external interrupt or a  *)
(* software exception is left in the field.                               *)
IdtRequeued(info) ==
    IF info.type = "hwexc"
    THEN << [vector |-> info.vector, err |-> IF info.errValid THEN info.err ELSE 0] >>
    ELSE << >>
\* defect variant: the field is not cleared after an exception or NMI
IdtFilteredNoClear(v, info) ==
    /\ idt' = [idt EXCEPT ![v] = info]
    /\ nmiReq' = [nmiReq EXCEPT ![v] = @ \/ info.type = "nmi"]
IdtFiltered(v, info) ==
    /\ idt' = [idt EXCEPT ![v] = IF info.type \in {"hwexc", "nmi"} THEN NoIdt ELSE info]
    /\ nmiReq' = [nmiReq EXCEPT ![v] = @ \/ info.type = "nmi"]

\* the handler queues evs after what the IDT part queued (pre)
Inject(v, pre, evs) == queued' = [queued EXCEPT ![v] = pre \o evs]

\* unexpected_vmexit_handler: panic for a safety VM, else shut the VM down
unexpected_vmexit_handler(v, pre) ==
    /\ vmState' = IF safety THEN "panic" ELSE "shutdown"
    /\ Inject(v, pre, << >>)
    /\ retained' = [retained EXCEPT ![v] = FALSE]
    /\ UNCHANGED << xcr0, exe >>

\* undefined_vmexit_handler: #UD
undefined_vmexit_handler(v, pre) ==
    /\ Inject(v, pre, << UD >>)
    /\ retained' = [retained EXCEPT ![v] = FALSE]
    /\ UNCHANGED << xcr0, exe, vmState >>

\* init_signal_vmexit_handler: the instruction is not skipped
init_signal_vmexit_handler(v, pre) ==
    /\ retained' = [retained EXCEPT ![v] = TRUE]
    /\ Inject(v, pre, << >>)
    /\ UNCHANGED << xcr0, exe, vmState >>

\* taskswitch_vmexit_handler: #GP with the low byte of exit_qualification
taskswitch_vmexit_handler(v, pre, q) ==
    /\ Inject(v, pre, << GP(q % 256) >>)
    /\ retained' = [retained EXCEPT ![v] = FALSE]
    /\ UNCHANGED << xcr0, exe, vmState >>

\* invd_vmexit_handler: #GP(0)
invd_vmexit_handler(v, pre) ==
    /\ Inject(v, pre, << GP(0) >>)
    /\ retained' = [retained EXCEPT ![v] = FALSE]
    /\ UNCHANGED << xcr0, exe, vmState >>

\* movdr_vmexit_handler and wbinvd_vmexit_handler (an EPT cache flush) do
\* nothing to the modelled state, nor does cr_access_vmexit_handler, whose
\* effect on the control registers this model leaves out
NoEffectHandler(v, pre) ==
    /\ Inject(v, pre, << >>)
    /\ retained' = [retained EXCEPT ![v] = FALSE]
    /\ UNCHANGED << xcr0, exe, vmState >>

(* xsetbv_vmexit_handler: #GP(0) without CR4.OSXSAVE, for ECX # 0, for a   *)
(* value without x87, with reserved bits, with AVX but not SSE, or with   *)
(* an MPX bit; otherwise write_xcr(0, val).  cur_context is always a      *)
(* world below NR_WORLD here, so the -1 return is not taken.              *)
XsetbvFaultsNoAvxCheck(x) ==
    \/ ~x.osxsave
    \/ x.rcx # 0
    \/ XCR0_X87 \notin x.val
    \/ x.val \cap ReservedBits # {}
    \/ x.val \cap {XCR0_BNDREGS, XCR0_BNDCSR} # {}
XsetbvFaults(x) ==
    \/ ~x.osxsave
    \/ x.rcx # 0
    \/ XCR0_X87 \notin x.val
    \/ x.val \cap ReservedBits # {}
    \/ x.val \cap {XCR0_SSE, XCR0_AVX} = {XCR0_AVX}
    \/ x.val \cap {XCR0_BNDREGS, XCR0_BNDCSR} # {}

\* the handler itself
xsetbv_vmexit_handler(v, pre, x) ==
    /\ IF XsetbvFaults(x)
       THEN Inject(v, pre, << GP(0) >>) /\ UNCHANGED xcr0
       ELSE Inject(v, pre, << >>) /\ xcr0' = [xcr0 EXCEPT ![v] = x.val]
    /\ retained' = [retained EXCEPT ![v] = FALSE]
    /\ UNCHANGED << exe, vmState >>

\* bit 2 of an EPT-violation qualification: the access was a fetch
IsFetch(q) == (q \div 4) % 2 = 1

(* ept_violation_vmexit_handler (vmx_io.c): a fetch from a page the EPT  *)
(* maps write-back is made executable (ept_modify_mr) and the instruction *)
(* restarted (vcpu_retain_rip); any other violation injects #PF.           *)
ept_violation_vmexit_handler(v, pre, q, g) ==
    /\ IF IsFetch(q) /\ EptType[g] = "wb"
       THEN /\ exe' = exe \cup {g}
            /\ retained' = [retained EXCEPT ![v] = TRUE]
            /\ Inject(v, pre, << >>)
       ELSE /\ Inject(v, pre, << PF >>)
            /\ retained' = [retained EXCEPT ![v] = FALSE]
            /\ UNCHANGED exe
    /\ UNCHANGED << xcr0, vmState >>

(* vmexit_handler for an exit other than I/O: the IDT-vectoring part, the *)
(* range check of the basic reason (-EINVAL beyond the table), the read   *)
(* of the exit qualification when the entry needs it, then the handler.   *)
(* hq is the qualification the processor reports, x the XSETBV operands   *)
(* and g the faulting page of an EPT violation.  A fetch violation is     *)
(* reported only for a page that is not executable.                       *)
vmexit_handler(v, e, hq, info, x, g) ==
    /\ vmState = "running"
    /\ phase = "run" /\ vpc[v] = "guest" /\ exits[v] < MaxExits
    /\ exits' = [exits EXCEPT ![v] = @ + 1]
    /\ IdtFiltered(v, info)
    /\ cur' = [cur EXCEPT ![v] = [reason |-> e, info |-> info, x |-> x]]
    /\ LET pre == IdtRequeued(info) IN
       IF e >= NR_VMX_EXIT_REASONS
       THEN /\ queued' = [queued EXCEPT ![v] = pre]
            /\ retained' = [retained EXCEPT ![v] = FALSE]
            /\ UNCHANGED << qual, xcr0, exe, vmState >>
       ELSE LET d == dispatch_table[e]
                q == IF d.need_exit_qualification # 0 THEN hq ELSE qual[v]
            IN /\ qual' = [qual EXCEPT ![v] = q]
               /\ \/ d.handler = "unexpected_vmexit_handler" /\ unexpected_vmexit_handler(v, pre)
                  \/ d.handler = "undefined_vmexit_handler" /\ undefined_vmexit_handler(v, pre)
                  \/ d.handler = "init_signal_vmexit_handler" /\ init_signal_vmexit_handler(v, pre)
                  \/ d.handler = "taskswitch_vmexit_handler" /\ taskswitch_vmexit_handler(v, pre, q)
                  \/ d.handler = "invd_vmexit_handler" /\ invd_vmexit_handler(v, pre)
                  \/ d.handler \in {"movdr_vmexit_handler", "wbinvd_vmexit_handler",
                                    "cr_access_vmexit_handler"} /\ NoEffectHandler(v, pre)
                  \/ d.handler = "xsetbv_vmexit_handler" /\ xsetbv_vmexit_handler(v, pre, x)
                  \/ /\ d.handler = "ept_violation_vmexit_handler"
                     /\ IsFetch(q) => g \notin exe
                     /\ ept_violation_vmexit_handler(v, pre, q, g)
    /\ UNCHANGED << vm0, phase, toReg, toAllow, handlers, flipped, dev, vpc, rax, req,
                    slot, last, safety >>

\* the low byte of an I/O-instruction qualification: size - 1 in bits 2:0,
\* bit 3 set for IN
IoQual(a, dir) == (a.size - 1) + (IF dir = "read" THEN 8 ELSE 0)

\* vmexit_handler for an I/O exit: the IDT-vectoring part, the
\* qualification read (the entry needs it), then pio_instr_vmexit_handler
IoExit(v, a, dir, info) ==
    /\ vmState = "running"
    /\ Pio!pio_instr_vmexit_handler(v, a, dir)
    /\ IdtFiltered(v, info)
    /\ qual' = [qual EXCEPT ![v] = IoQual(a, dir)]
    /\ queued' = [queued EXCEPT ![v] = IdtRequeued(info)]
    /\ retained' = [retained EXCEPT ![v] = FALSE]
    /\ cur' = [cur EXCEPT ![v] = [reason |-> VMX_EXIT_REASON_IO_INSTRUCTION,
                                  info |-> info, x |-> NoXsetbv]]
    /\ UNCHANGED << safety, xcr0, exe, vmState >>

\* the pages an exit of reason e can be reported on
PagesOf(e) == IF e = VMX_EXIT_REASON_EPT_VIOLATION THEN Pages ELSE {CHOOSE g \in Pages : TRUE}
XsetbvOf(e) == IF e = VMX_EXIT_REASON_XSETBV THEN XsetbvInputs ELSE {NoXsetbv}

Next ==
    \/ /\ \/ \E r \in Ranges : Pio!register_io_emulation_handler(r)
          \/ \E r \in AllowRanges : Pio!allow_guest_io_access(r)
          \/ Pio!StartVm
          \/ Pio!free_io_emulation_resource
          \/ \E v \in VCpus : Pio!VhmComplete(v) \/ Pio!dm_emulate_pio_post(v)
       /\ UNCHANGED exitVars
    \/ \E v \in VCpus, info \in IdtInfos \cup {NoIdt} :
          \/ \E a \in Accesses, dir \in {"read", "write"} : IoExit(v, a, dir, info)
          \/ \E e \in Reasons : \E hq \in ExitQuals[e], x \in XsetbvOf(e), g \in PagesOf(e) :
                vmexit_handler(v, e, hq, info, x, g)

Spec == Init /\ [][Next]_vars
-----------------------------------------------------------------------------
(* Properties; PioDispatch's are checked through this composition.         *)
InResultMerged == Pio!InResultMerged
AccessRouted == Pio!AccessRouted
HandlerPortsTrapped == Pio!HandlerPortsTrapped

(* An event whose delivery an exit interrupted is delivered again exactly *)
(* once, and before anything the exit handler injects: a hardware         *)
(* exception is the first exception queued, with its error code, and is   *)
(* gone from idt_vectoring_info (else the entry code would re-inject it a *)
(* second time); an NMI is pending as ACRN_REQUEST_NMI and gone from the  *)
(* field; an external interrupt or software exception stays in the field  *)
(* and is not queued.  It must hold whatever handler ran, the I/O path    *)
(* included.                                                                *)
IdtEventRedelivered ==
    \A v \in VCpus :
        LET i == cur[v].info
        IN CASE i.type = "hwexc" ->
                  /\ queued[v] # << >>
                  /\ Head(queued[v]) = [vector |-> i.vector,
                                        err |-> IF i.errValid THEN i.err ELSE 0]
                  /\ idt[v] = NoIdt
             [] i.type = "nmi" -> nmiReq[v] /\ idt[v] = NoIdt
             [] i.type = "none" -> idt[v] = NoIdt
             [] OTHER -> idt[v] = i /\ (queued[v] # << >> => Head(queued[v]).vector # i.vector)

\* the XCR0 values the SDM lets a guest load when MPX is not exposed
LegalXcr0(val) ==
    /\ XCR0_X87 \in val
    /\ XCR0_AVX \in val => XCR0_SSE \in val
    /\ val \cap (ReservedBits \cup {XCR0_BNDREGS, XCR0_BNDCSR}) = {}

(* An XSETBV exit loads exactly the operands the SDM allows (CR4.OSXSAVE  *)
(* set, ECX = 0, a legal XCR0 without MPX) and otherwise leaves XCR0 and  *)
(* queues #GP(0) after any re-delivered event; no other exit changes XCR0. *)
XsetbvDecision ==
    [][\A v \in VCpus :
          IF exits'[v] = exits[v] + 1 /\ cur'[v].reason = VMX_EXIT_REASON_XSETBV
          THEN LET x == cur'[v].x IN
               IF x.osxsave /\ x.rcx = 0 /\ LegalXcr0(x.val)
               THEN xcr0'[v] = x.val /\ queued'[v] = IdtRequeued(cur'[v].info)
               ELSE xcr0'[v] = xcr0[v] /\ queued'[v] = IdtRequeued(cur'[v].info) \o << GP(0) >>
          ELSE xcr0'[v] = xcr0[v]]_vars
====
