------------------------------ MODULE MC_VmExit ------------------------------
(* The port I/O instance of MC_PioDispatch behind the VM-exit dispatcher. *)
(* The exits other than I/O: an unexpected one (triple fault), INIT, a    *)
(* task switch, INVD, VMCALL (undefined), CR and DR accesses, EPT         *)
(* violations on a write-back page and on an unmapped one, WBINVD, XSETBV *)
(* and a basic reason beyond the table.  An exit may interrupt the        *)
(* delivery of a #PF with error code 2, of an NMI or of an external       *)
(* interrupt.  XCR0_RESERVED_BITS is represented by bits 8 and 10.        *)
EXTENDS VmExit

CONSTANTS c1, p1, p2

MCVCpus == {c1}

Rng(b, l) == [base |-> b, len |-> l]
Acc(p, s) == [port |-> p, size |-> s]

MCRanges == { Rng(112, 2), Rng(112, 4), Rng(32766, 4) }
MCAllowRanges == { Rng(32760, 6) }
MCAccesses == { Acc(112, 2), Acc(112, 4), Acc(110, 2), Acc(32767, 2) }
MCDmValues == { [i \in 0..3 |-> 50 + i] }

MCReasons == {2, 3, 9, 13, 18, 28, 29, 48, 54, 55, 70}

\* a CR access and a task switch report one qualification each, an EPT
\* violation a write (bit 1) or a fetch (bit 2)
MCExitQuals == [e \in MCReasons |->
                   CASE e = 28 -> {7} [] e = 9 -> {40} [] e = 48 -> {2, 4}
                     [] OTHER -> {0}]

MCIdtInfos ==
    { [type |-> "hwexc", vector |-> 14, errValid |-> TRUE, err |-> 2],
      [type |-> "nmi", vector |-> 2, errValid |-> FALSE, err |-> 0],
      [type |-> "extint", vector |-> 48, errValid |-> FALSE, err |-> 0] }

Xs(os, c, val) == [osxsave |-> os, rcx |-> c, val |-> val]

\* a legal AVX load, AVX without SSE, MPX, no OSXSAVE, ECX # 0, no x87,
\* a reserved bit
MCXsetbvInputs ==
    { Xs(TRUE, 0, {0, 1, 2}), Xs(TRUE, 0, {0, 2}), Xs(TRUE, 0, {0, 1, 3}),
      Xs(FALSE, 0, {0, 1}), Xs(TRUE, 1, {0, 1}), Xs(TRUE, 0, {1}),
      Xs(TRUE, 0, {0, 8}) }

MCPages == {p1, p2}
MCEptType == [g \in MCPages |-> IF g = p1 THEN "wb" ELSE "none"]
====
