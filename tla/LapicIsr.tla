------------------------------ MODULE LapicIsr ------------------------------
(* clear_lapic_isr (lapic.c): the walk init_lapic makes over the x2APIC  *)
(* in-service registers to drain the interrupts the boot loader left in  *)
(* service.  The in-service state is the set of vectors whose ISR bit is *)
(* set; register r holds the vectors r*IsrWidth .. r*IsrWidth+IsrWidth-1. *)
(* An EOI write makes the local APIC clear the bit of the highest        *)
(* in-service vector, whichever register holds it.                       *)
EXTENDS Naturals, FiniteSetsExt

CONSTANTS
    IsrRegs,    \* MSR_IA32_EXT_APIC_ISR0 .. ISR7: eight registers
    IsrWidth    \* bits per ISR register, and the loop bound 32U

ASSUME IsrRegs \in Nat \ {0} /\ IsrWidth \in Nat \ {0}

\* the in-service vectors clear_lapic_isr leaves behind in init_lapic
VARIABLE isrLeft

Vectors == 0 .. IsrRegs * IsrWidth - 1

\* msr_read(isr_reg): the in-service bits of register r
IsrReg(isr, r) == {v \in isr : v \div IsrWidth = r}

\* msr_write(MSR_IA32_EXT_APIC_EOI, 0U): the highest in-service vector retires
Eoi(isr) == IF isr = {} THEN isr ELSE isr \ {Max(isr)}

(* the inner loop on register r from iteration i: an EOI while the       *)
(* register reads non-zero, at most 32 times, then the next register     *)
(* down; the outer loop ends below ISR0                                  *)
RECURSIVE ClearFrom(_, _, _)
ClearFrom(r, i, isr) ==
    IF r < 0 THEN isr
    ELSE IF i < IsrWidth /\ IsrReg(isr, r) # {}
         THEN ClearFrom(r, i + 1, Eoi(isr))
         ELSE ClearFrom(r - 1, 0, isr)

\* the same walk from ISR0 upwards, a reversed loop
RECURSIVE ClearUp(_, _, _)
ClearUp(r, i, isr) ==
    IF r >= IsrRegs THEN isr
    ELSE IF i < IsrWidth /\ IsrReg(isr, r) # {}
         THEN ClearUp(r, i + 1, Eoi(isr))
         ELSE ClearUp(r + 1, 0, isr)

clear_lapic_isrAscending(isr) == ClearUp(0, 0, isr)

clear_lapic_isr(isr) == ClearFrom(IsrRegs - 1, 0, isr)

(* init_lapic has run clear_lapic_isr over whatever vectors the boot    *)
(* loader left in service, any subset of the vectors                     *)
LapicInit == isrLeft \in {clear_lapic_isr(left) : left \in SUBSET Vectors}

(* Whatever vectors the boot loader left in service, clear_lapic_isr     *)
(* leaves none: walking from ISR7 down, each EOI retires a vector of the *)
(* register being read, so 32 EOIs drain it before the walk moves on.    *)
IsrDrained == isrLeft = {}
=============================================================================
