---------------------------- MODULE MC_PcpuStartup ----------------------------
(* Three pCPUs: the BSP (0) and two APs, so that one AP can be late while *)
(* the BSP has already moved on to the next.                             *)
EXTENDS PcpuStartup

MCCpus == {0, 1, 2}
\* AP_MASK: every pCPU but the BSP
MCApMask == {1, 2}
\* a mask that names the BSP too, as start_pcpus' contract allows
MCAllMask == {0, 1, 2}
MCOffline == {1}
\* three processors, lapic ids 0 (the BSP), 1 and 2
MCProcs == {0, 1, 2}
(* what parse_madt may return: the processors in two orders, a firmware  *)
(* table naming one lapic id twice, one naming an absent processor, and  *)
(* an empty one                                                           *)
MCMadtTables == {<<0, 1, 2>>, <<0, 2, 1>>, <<0, 1, 1>>, <<0, 1, 3>>, <<>>}
=============================================================================
