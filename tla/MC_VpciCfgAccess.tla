--------------------------- MODULE MC_VpciCfgAccess ---------------------------
(* Two vCPUs of VM1 of the unit-test scenario (pt_dev.c): a host bridge at *)
(* 00:00.0 and a storage controller at 00:01.0; 00:02.0 has no vdev.      *)
EXTENDS VpciCfgAccess

CONSTANTS HB, SC, NB, V1, V2

MCVCpus == {V1, V2}
MCBdfs == {HB, SC, NB}
MCDevConfigs == << [bdf |-> HB, emu |-> "hostbridge"], [bdf |-> SC, emu |-> "pt"] >>
\* vendor ID, COMMAND written unaligned (0x06 is masked to 0x04), BAR0
MCRawRegs == {0, 6, 16}
\* clear, and memory space plus bus master enable
MCCmdValues == {0, 6}
=============================================================================
