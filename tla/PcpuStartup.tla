---------------------------- MODULE PcpuStartup ----------------------------
(***************************************************************************)
(* Bring-up and offlining of the physical CPUs of the hypervisor          *)
(* (src/hypervisor/arch/x86/cpu.c).  The boot processor (BSP) runs       *)
(* init_pcpu_pre and then start_pcpus, which sends a startup IPI to each  *)
(* CPU of the mask in ffs64 order and polls pcpu_active_bitmap until that *)
(* CPU is up or a time-out expires; a CPU still not active is marked      *)
(* PCPU_STATE_DEAD.  An application processor (AP) that receives the IPI  *)
(* runs init_pcpu_pre (sets its active bit, then its boot state) and      *)
(* init_pcpu_post, where it waits for pcpu_sync to return to 0.  Later    *)
(* the BSP may take APs offline: make_pcpu_offline sets NEED_OFFLINE, the *)
(* AP's idle loop sees it through need_offline and runs cpu_dead, and    *)
(* wait_pcpus_offline polls the active bitmap with a time-out.            *)
(*                                                                         *)
(* Processors are named by their local APIC ids (Procs) and pCPU ids are  *)
(* slots of the per-cpu array: the BSP fills per_cpu(lapic_id) from the  *)
(* MADT (init_percpu_lapic_id), send_startup_ipi addresses the lapic id  *)
(* of a slot, and an AP finds its own slot by searching the table for    *)
(* the id it reads from its x2APIC (get_pcpu_id_from_lapic_id).          *)
(*                                                                         *)
(* An AP is its own processor: when it starts after the SIPI is not under *)
(* the BSP's control, which is why the time-outs exist.  Each of the     *)
(* BSP's polling iterations (udelay(10)) is one step.                    *)
(***************************************************************************)
EXTENDS Integers, Sequences, FiniteSetsExt, LapicIsr

CONSTANTS
    Cpus,         \* pCPU ids: the slots 0 .. MAX_PCPU_NUM - 1 of per_cpu
    BootCpu,      \* BOOT_CPU_ID
    Procs,        \* the local APIC ids of the processors of the machine
    BspLapic,     \* the lapic id of the processor that boots
    MadtTables,   \* the lapic-id lists parse_madt may return, in MADT order
    StartMask,    \* the mask passed to start_pcpus (AP_MASK)
    OfflineMask,  \* the CPUs the BSP later takes offline
    UpTimeout,    \* CPU_UP_TIMEOUT, in polling iterations
    DownTimeout   \* CPU_DOWN_TIMEOUT, in polling iterations

APs == Cpus \ {BootCpu}
\* the processors other than the BSP, each woken only by a startup IPI
ApProcs == Procs \ {BspLapic}
\* INVALID_BIT_INDEX, the value of ffs64 on an empty mask
NoCpu == -1
\* INVALID_CPU_ID
InvalidCpu == 65535
\* MAX_PCPU_NUM
MaxPcpuNum == Cardinality(Cpus)

(* The MADT lists the boot processor first, and every slot start_pcpus   *)
(* is asked to start is one the MADT fills: a slot past phys_cpu_num     *)
(* keeps the lapic id 0 of BSS, whose IPI would go to whichever          *)
(* processor has id 0.                                                    *)
ASSUME /\ BootCpu \in Cpus /\ StartMask \subseteq Cpus
       /\ OfflineMask \subseteq APs
       /\ UpTimeout \in Nat /\ DownTimeout \in Nat
       /\ Cpus = 0 .. MaxPcpuNum - 1 /\ BspLapic \in Procs /\ Procs \subseteq Nat
       /\ \A t \in MadtTables :
            Len(t) \in 1 .. MaxPcpuNum =>
                /\ t[BootCpu + 1] = BspLapic
                /\ \A p \in StartMask : p < Len(t)

VARIABLES
    bpc,        \* where the BSP is
    expected,   \* expected_start_mask of start_pcpus
    cur,        \* the loop variable i of start_pcpus (the CPU being started)
    timeout,    \* the BSP's remaining polling budget
    active,     \* pcpu_active_bitmap
    bootState,  \* per_cpu(boot_state, p)
    sync,       \* pcpu_sync
    sipi,       \* <<slot, lapic id>> of each send_startup_ipi so far
    apc,        \* apc[h]: where the AP with lapic id h is
    needOff,    \* CPUs whose pcpu_flag has NEED_OFFLINE set
    offQueue,   \* CPUs of OfflineMask not yet passed to make_pcpu_offline
    physNum,    \* phys_cpu_num
    lapicId,    \* per_cpu(lapic_id, p)
    myId        \* myId[h]: the pcpu_id the AP h found for itself

idVars == <<physNum, lapicId, myId>>

vars == <<bpc, expected, cur, timeout, active, bootState, sync, sipi, apc,
          needOff, offQueue, physNum, lapicId, myId, isrLeft>>

\* ffs64: the lowest set bit of a mask, INVALID_BIT_INDEX if it is empty
Ffs(m) == IF m = {} THEN NoCpu ELSE Min(m)

BspPcs == {"pre", "sync1", "loop", "sipi", "wait", "check", "markdead",
           "release", "ret", "panic", "up", "off_req", "off_wait", "off_done"}
ApPcs == {"off", "init", "post", "run", "dead1", "dead2", "halted", "panic"}
States == {"RESET", "INITIALIZING", "DEAD"}

TypeOK ==
    /\ bpc \in BspPcs
    /\ expected \subseteq StartMask
    /\ cur \in Cpus \cup {NoCpu}
    /\ timeout \in 0 .. (IF UpTimeout > DownTimeout THEN UpTimeout ELSE DownTimeout)
    /\ active \subseteq Cpus
    /\ bootState \in [Cpus -> States]
    /\ sync \in {0, 1}
    /\ sipi \subseteq Cpus \X Nat
    /\ apc \in [ApProcs -> ApPcs]
    /\ needOff \subseteq APs /\ offQueue \subseteq OfflineMask
    /\ physNum \in Nat /\ lapicId \in [Cpus -> Nat]
    /\ myId \in [ApProcs -> Cpus \cup {InvalidCpu}]
    /\ isrLeft \subseteq Vectors

\* per_cpu_data, pcpu_sync and pcpu_active_bitmap are in BSS: zero
Init ==
    /\ bpc = "pre" /\ expected = {} /\ cur = NoCpu /\ timeout = 0
    /\ active = {} /\ bootState = [p \in Cpus |-> "RESET"]
    /\ sync = 0 /\ sipi = {}
    /\ apc = [h \in ApProcs |-> "off"]
    /\ needOff = {} /\ offQueue = OfflineMask
    /\ physNum = 0 /\ lapicId = [p \in Cpus |-> 0]
    /\ myId = [h \in ApProcs |-> InvalidCpu]
    /\ LapicInit

\* init_percpu_lapic_id: per_cpu(lapic_id, i) for each i < phys_cpu_num
\* of the MADT t, the other slots as they were; TRUE on success
LapicIdsOk(t) == Len(t) # 0 /\ Len(t) <= MaxPcpuNum

init_percpu_lapic_id(t) ==
    [p \in Cpus |-> IF LapicIdsOk(t) /\ p < Len(t) THEN t[p + 1] ELSE lapicId[p]]

\* defect variant of the lookup: no break, so the last match is kept
get_pcpu_id_from_lapic_idNoBreak(l) ==
    LET hits == {i \in 0 .. physNum - 1 : lapicId[i] = l}
    IN IF hits = {} THEN InvalidCpu ELSE Max(hits)

\* the first i < phys_cpu_num with per_cpu(lapic_id, i) == l
get_pcpu_id_from_lapic_id(l) ==
    LET hits == {i \in 0 .. physNum - 1 : lapicId[i] = l}
    IN IF hits = {} THEN InvalidCpu ELSE Min(hits)

\* msr_read(MSR_IA32_EXT_XAPICID) on the processor h
get_cur_lapic_id(h) == h

\* the INIT / SIPI / SIPI sequence to the lapic id of slot dest
send_startup_ipi(dest) == sipi' = sipi \cup {<<dest, lapicId[dest]>>}

\* lapic ids that have been sent a startup IPI
SipiTargets == {e[2] : e \in sipi}
-----------------------------------------------------------------------------
(* The boot processor.                                                    *)

GotoB(l) == bpc' = l

\* init_pcpu_pre(true): init_percpu_lapic_id from the MADT, which panics
\* on an empty or oversized table; then bitmap_set_lock and
\* pcpu_set_current_state
BspPre ==
    /\ bpc = "pre"
    /\ \E t \in MadtTables :
         /\ physNum' = Len(t) /\ lapicId' = init_percpu_lapic_id(t)
         /\ IF LapicIdsOk(t)
            THEN /\ GotoB("sync1")
                 /\ active' = active \cup {BootCpu}
                 /\ bootState' = [bootState EXCEPT ![BootCpu] = "INITIALIZING"]
            ELSE GotoB("panic") /\ UNCHANGED <<active, bootState>>
    /\ UNCHANGED <<myId, isrLeft, expected, cur, timeout, sync, sipi, apc, needOff, offQueue>>

\* defect variant: pcpu_sync left at 0 while the APs are started
StartPcpusNoSync ==
    /\ bpc = "sync1" /\ GotoB("loop")
    /\ expected' = StartMask /\ cur' = Ffs(StartMask)
    /\ UNCHANGED <<idVars, isrLeft, timeout, active, bootState, sync, sipi, apc, needOff, offQueue>>

\* start_pcpus up to its loop: pcpu_sync = 1, i = ffs64(mask)
StartPcpus ==
    /\ bpc = "sync1" /\ GotoB("loop")
    /\ sync' = 1 /\ expected' = StartMask /\ cur' = Ffs(StartMask)
    /\ UNCHANGED <<idVars, isrLeft, timeout, active, bootState, sipi, apc, needOff, offQueue>>

\* one iteration of the while loop of start_pcpus; for i == pcpu_id the
\* continue skips the ffs64 at the end of the body and i is tested again
StartLoop ==
    /\ bpc = "loop"
    /\ IF cur = NoCpu
       THEN GotoB("release") /\ UNCHANGED expected
       ELSE /\ expected' = expected \ {cur}
            /\ GotoB(IF cur = BootCpu THEN "loop" ELSE "sipi")
    /\ UNCHANGED <<idVars, isrLeft, cur, timeout, active, bootState, sync, sipi, apc, needOff,
                   offQueue>>

\* start_pcpu: write_trampoline_stack_sym, send_startup_ipi, arm the time-out
SendSipi ==
    /\ bpc = "sipi" /\ GotoB("wait")
    /\ send_startup_ipi(cur) /\ timeout' = UpTimeout
    /\ UNCHANGED <<idVars, isrLeft, expected, cur, active, bootState, sync, apc, needOff, offQueue>>

\* defect variants of the polling loop: no time-out test; no countdown
WaitUpUnderflow ==
    /\ bpc = "wait"
    /\ IF cur \notin active
       THEN timeout' = timeout - 1 /\ UNCHANGED bpc
       ELSE GotoB("check") /\ UNCHANGED timeout
    /\ UNCHANGED <<idVars, isrLeft, expected, cur, active, bootState, sync, sipi, apc, needOff,
                   offQueue>>

WaitUpNoCountdown ==
    /\ bpc = "wait"
    /\ IF cur \notin active /\ timeout # 0
       THEN UNCHANGED <<timeout, bpc>>
       ELSE GotoB("check") /\ UNCHANGED timeout
    /\ UNCHANGED <<idVars, isrLeft, expected, cur, active, bootState, sync, sipi, apc, needOff,
                   offQueue>>

\* while (!is_pcpu_active(pcpu_id) && timeout != 0) { udelay; timeout -= 10 }
WaitUp ==
    /\ bpc = "wait"
    /\ IF cur \notin active /\ timeout # 0
       THEN timeout' = timeout - 1 /\ UNCHANGED bpc
       ELSE GotoB("check") /\ UNCHANGED timeout
    /\ UNCHANGED <<idVars, isrLeft, expected, cur, active, bootState, sync, sipi, apc, needOff,
                   offQueue>>

\* if (!is_pcpu_active(pcpu_id)) ... ; back in start_pcpus, i = ffs64(...)
CheckUp ==
    /\ bpc = "check"
    /\ IF cur \notin active
       THEN GotoB("markdead") /\ UNCHANGED cur
       ELSE GotoB("loop") /\ cur' = Ffs(expected)
    /\ UNCHANGED <<idVars, isrLeft, expected, timeout, active, bootState, sync, sipi, apc,
                   needOff, offQueue>>

\* pcpu_set_current_state(pcpu_id, PCPU_STATE_DEAD), then the next ffs64
MarkDead ==
    /\ bpc = "markdead" /\ GotoB("loop")
    /\ bootState' = [bootState EXCEPT ![cur] = "DEAD"]
    /\ cur' = Ffs(expected)
    /\ UNCHANGED <<idVars, isrLeft, expected, timeout, active, sync, sipi, apc, needOff, offQueue>>

\* defect variant: pcpu_sync never returned to 0
ReleaseNoReset ==
    /\ bpc = "release" /\ GotoB("ret")
    /\ UNCHANGED <<idVars, isrLeft, expected, cur, timeout, active, bootState, sync, sipi, apc,
                   needOff, offQueue>>

\* pcpu_sync = 0: the secondary CPUs may continue
Release ==
    /\ bpc = "release" /\ GotoB("ret") /\ sync' = 0
    /\ UNCHANGED <<idVars, isrLeft, expected, cur, timeout, active, bootState, sipi, apc,
                   needOff, offQueue>>

\* return (pcpu_active_bitmap & mask) == mask; init_pcpu_post panics on false
StartReturn ==
    /\ bpc = "ret"
    /\ GotoB(IF StartMask \subseteq active THEN "up" ELSE "panic")
    /\ UNCHANGED <<idVars, isrLeft, expected, cur, timeout, active, bootState, sync, sipi, apc,
                   needOff, offQueue>>

\* make_pcpu_offline(p) for each CPU of the offline mask: set NEED_OFFLINE;
\* the notification IPI only hurries an idle loop that polls the flag anyway
MakeOffline ==
    /\ bpc \in {"up", "off_req"}
    /\ IF offQueue = {}
       THEN GotoB("off_wait") /\ timeout' = DownTimeout
            /\ UNCHANGED <<idVars, isrLeft, needOff, offQueue>>
       ELSE \E p \in offQueue :
               /\ GotoB("off_req") /\ UNCHANGED timeout
               /\ needOff' = needOff \cup {p} /\ offQueue' = offQueue \ {p}
    /\ UNCHANGED <<idVars, isrLeft, expected, cur, active, bootState, sync, sipi, apc>>

\* wait_pcpus_offline(mask)
WaitOffline ==
    /\ bpc = "off_wait"
    /\ IF active \cap OfflineMask # {} /\ timeout # 0
       THEN timeout' = timeout - 1 /\ UNCHANGED bpc
       ELSE GotoB("off_done") /\ UNCHANGED timeout
    /\ UNCHANGED <<idVars, isrLeft, expected, cur, active, bootState, sync, sipi, apc, needOff,
                   offQueue>>

Bsp == BspPre \/ StartPcpus \/ StartLoop \/ SendSipi \/ WaitUp \/ CheckUp
       \/ MarkDead \/ Release \/ StartReturn \/ MakeOffline \/ WaitOffline
-----------------------------------------------------------------------------
(* An application processor.                                              *)

GotoA(h, l) == apc' = [apc EXCEPT ![h] = l]

\* after the trampoline: init_pcpu_pre(false) finds its pcpu_id from its
\* own lapic id, panics if there is none, then bitmap_set_lock
ApPre(h) ==
    /\ apc[h] = "off" /\ h \in SipiTargets
    /\ LET id == get_pcpu_id_from_lapic_id(get_cur_lapic_id(h))
       IN IF id >= MaxPcpuNum
          THEN GotoA(h, "panic") /\ UNCHANGED <<active, myId>>
          ELSE /\ GotoA(h, "init") /\ myId' = [myId EXCEPT ![h] = id]
               /\ active' = active \cup {id}
    /\ UNCHANGED <<bpc, expected, cur, timeout, bootState, sync, sipi, needOff,
                   offQueue, physNum, lapicId, isrLeft>>

\* pcpu_set_current_state(pcpu_id, PCPU_STATE_INITIALIZING)
ApInitState(h) ==
    /\ apc[h] = "init" /\ GotoA(h, "post")
    /\ bootState' = [bootState EXCEPT ![myId[h]] = "INITIALIZING"]
    /\ UNCHANGED <<idVars, isrLeft, bpc, expected, cur, timeout, active, sync, sipi, needOff,
                   offQueue>>

\* init_pcpu_post: wait_sync_change(&pcpu_sync, 0UL); monitor/mwait
\* re-reads pcpu_sync after arming the monitor, so no change is missed
ApSync(h) ==
    /\ apc[h] = "post" /\ sync = 0 /\ GotoA(h, "run")
    /\ UNCHANGED <<idVars, isrLeft, bpc, expected, cur, timeout, active, bootState, sync, sipi,
                   needOff, offQueue>>

\* the idle loop calls need_offline: bitmap_test_and_clear_lock(NEED_OFFLINE)
ApNeedOffline(h) ==
    /\ apc[h] = "run" /\ myId[h] \in needOff /\ GotoA(h, "dead1")
    /\ needOff' = needOff \ {myId[h]}
    /\ UNCHANGED <<idVars, isrLeft, bpc, expected, cur, timeout, active, bootState, sync, sipi,
                   offQueue>>

\* defect variant: the active bit cleared before the state is set DEAD
ApCpuDeadClearFirst(h) ==
    /\ apc[h] = "dead1"
    /\ IF myId[h] \in active
       THEN GotoA(h, "dead2") /\ active' = active \ {myId[h]}
       ELSE GotoA(h, "run") /\ UNCHANGED active
    /\ UNCHANGED <<idVars, isrLeft, bpc, expected, cur, timeout, bootState, sync, sipi, needOff,
                   offQueue>>

\* cpu_dead: if still active, vmx_off and PCPU_STATE_DEAD; else return
ApCpuDead(h) ==
    /\ apc[h] = "dead1"
    /\ IF myId[h] \in active
       THEN GotoA(h, "dead2") /\ bootState' = [bootState EXCEPT ![myId[h]] = "DEAD"]
       ELSE GotoA(h, "run") /\ UNCHANGED bootState
    /\ UNCHANGED <<idVars, isrLeft, bpc, expected, cur, timeout, active, sync, sipi, needOff,
                   offQueue>>

\* cpu_dead: bitmap_clear_lock, then halt for good
ApHalt(h) ==
    /\ apc[h] = "dead2" /\ GotoA(h, "halted")
    /\ active' = active \ {myId[h]}
    /\ UNCHANGED <<idVars, isrLeft, bpc, expected, cur, timeout, bootState, sync, sipi, needOff,
                   offQueue>>

\* an AP, once running: everything after the trampoline
ApRunning(h) ==
    ApInitState(h) \/ ApSync(h) \/ ApNeedOffline(h) \/ ApCpuDead(h) \/ ApHalt(h)

Next ==
    \/ Bsp
    \/ \E h \in ApProcs : ApPre(h) \/ ApRunning(h)

(* Each processor runs on its own, so each is weakly fair once it         *)
(* executes hypervisor code.  Whether and when an AP leaves the           *)
(* trampoline after its startup IPI is up to the hardware: ApPre has no   *)
(* fairness, which is what the time-out of start_pcpu is for.            *)
Spec == Init /\ [][Next]_vars /\ WF_vars(Bsp)
        /\ \A h \in ApProcs : WF_vars(ApRunning(h))
-----------------------------------------------------------------------------
(* Properties.                                                            *)

(* The bring-up barrier of init_pcpu_post: no AP gets past               *)
(* wait_sync_change (into init_sched and the scheduler) while the BSP is *)
(* still inside the start loop of start_pcpus sending startup IPIs.       *)
NoApRunsBeforeRelease ==
    (\E h \in ApProcs : apc[h] \in {"run", "dead1", "dead2", "halted"})
        => bpc \notin {"sync1", "loop", "sipi", "wait", "check", "markdead"}

(* wait_pcpus_offline is only as good as cpu_dead's order of steps: once *)
(* it returns with every CPU of the mask gone from pcpu_active_bitmap,   *)
(* each of them is marked PCPU_STATE_DEAD and halted.                     *)
OfflineWaitSound ==
    bpc = "off_done" /\ active \cap OfflineMask = {}
        => \A p \in OfflineMask :
               /\ bootState[p] = "DEAD"
               /\ \A h \in ApProcs : myId[h] = p => apc[h] = "halted"

(* An AP waiting at the pcpu_sync barrier is released: start_pcpus       *)
(* returns pcpu_sync to 0 whatever happened to the other APs.            *)
ApsReleased == \A h \in ApProcs : apc[h] = "post" ~> apc[h] # "post"

(* start_pcpus returns (and init_pcpu_post goes on or panics) even when  *)
(* an AP never comes up: each wait is bounded by CPU_UP_TIMEOUT.          *)
StartPcpusReturns == <>(bpc \in {"up", "off_req", "off_wait", "off_done", "panic"})

(* A CPU marked PCPU_STATE_DEAD by start_pcpu's time-out is not running   *)
(* hypervisor code: an AP past its own INITIALIZING write is never DEAD.  *)
DeadMeansDown ==
    \A h \in ApProcs :
        apc[h] \in {"post", "run", "dead1"} => bootState[myId[h]] # "DEAD"

(* An AP's idea of who it is agrees with the BSP's: an AP that left the   *)
(* trampoline did not panic in init_pcpu_pre, took the pcpu_id of a slot  *)
(* whose MADT entry is its own lapic id and for which start_pcpu sent it  *)
(* a startup IPI, and no other AP took that slot.  So the BSP's wait on   *)
(* that slot's active bit, and every later IPI sent through               *)
(* per_cpu(lapic_id) of the slot, concern this processor.  It rests on   *)
(* start_pcpus going up the mask with ffs64 while the lookup stops at     *)
(* the first match, when the MADT lists a lapic id twice.                 *)
ApIdentity ==
    \A h \in ApProcs : apc[h] # "off" =>
        /\ apc[h] # "panic"
        /\ <<myId[h], h>> \in sipi /\ lapicId[myId[h]] = h
        /\ \A g \in ApProcs \ {h} :
              apc[g] \notin {"off", "panic"} => myId[g] # myId[h]
====
