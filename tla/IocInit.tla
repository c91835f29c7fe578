------------------------------ MODULE IocInit ------------------------------
(***************************************************************************)
(* Startup of the IOC mediator (src/devicemodel/hw/platform/ioc.c):       *)
(* ioc_init with ioc_ch_init over the channel table, the creation of the  *)
(* rx, tx and core threads, and the unwinding through work_err (which     *)
(* runs ioc_kill_workers), chl_err (ioc_ch_deinit) and alloc_err.  Every  *)
(* allocation, open and pthread_create may fail.                          *)
(*                                                                         *)
(* Before it, ioc_parse splits the device model's ioc option string into *)
(* the virtual UART path and the boot reason with strtok; ioc_init later *)
(* publishes the pty slave at that path.                                 *)
(*                                                                         *)
(* During ioc_init no request is ever queued (the core thread, the only   *)
(* producer, is created last), so a worker created here finds its queue  *)
(* empty and can only block in pthread_cond_wait and exit when woken with *)
(* closing set.                                                          *)
(***************************************************************************)
EXTENDS Naturals, Sequences, SequencesExt

CONSTANTS
    ChTbl,     \* the channel ids in ioc_ch_tbl order
    ChOn,      \* ids whose stat is IOC_CH_ON
    NativeIds, \* ids ioc_ch_init opens with ioc_open_native_ch
    LfccId,    \* IOC_NATIVE_LFCC
    VUartId,   \* IOC_VIRTUAL_UART, opened with ioc_open_virtual_uart
    OptStrings \* the option strings ioc_parse may be given, as character sequences

Ids == {ChTbl[i] : i \in DOMAIN ChTbl}
\* channels whose open failure aborts ioc_init
Critical == {LfccId, VUartId}
Threads == {"rx", "tx", "core"}
Syncs == {"free", "rx", "tx"}

Comma == ","
\* sizeof(virtual_uart_path)
PathSize == 32
DigitVal == [d \in {"1", "2", "3", "4", "5", "6", "7", "8", "9"} |-> CHOOSE n \in 1..9 :
                 d = <<"1", "2", "3", "4", "5", "6", "7", "8", "9">>[n]]

(* Option strings are made of commas, the digits 1-9 and other non-blank *)
(* characters: no sign, blank or leading 0 makes strtoul's base 0 leave  *)
(* base 10.                                                              *)
ASSUME /\ ChOn \subseteq Ids /\ NativeIds \subseteq Ids
       /\ LfccId \in NativeIds /\ VUartId \in Ids \ NativeIds
       /\ \A s \in OptStrings : \A i \in DOMAIN s :
            s[i] \notin {"0", " ", "+", "-", "\t"}

VARIABLES
    ipc,       \* where ioc_init is
    idx,       \* the loop index i of ioc_ch_init
    fdOpen,    \* fdOpen[c]: ioc_ch_tbl[c].fd holds an open descriptor
    epfd,      \* "none" before epoll_create1, then "open" / "closed"
    sync,      \* sync[s]: state of s's mutex (and rx/tx condition variable)
    thr,       \* thr[t]: "none" if never created, else the thread's state
    closing,   \* ioc->closing
    allocated, \* ioc, ioc->pool and ioc->evts are allocated
    vuartPath, \* virtual_uart_path
    bootReason \* ioc_boot_reason

parseVars == <<vuartPath, bootReason>>

vars == <<ipc, idx, fdOpen, epfd, sync, thr, closing, allocated, vuartPath,
          bootReason>>

InitPcs == {"parse", "probe", "alloc", "epoll", "ch", "create_rx",
            "create_tx", "create_core", "ok", "work_err", "k_closing",
            "k_close_ep", "k_join_core", "k_sig_rx", "k_join_rx", "k_sig_tx",
            "k_join_tx", "k_destroy", "chl_err", "alloc_err", "null",
            "crashed"}

TypeOK ==
    /\ ipc \in InitPcs
    /\ idx \in 1..Len(ChTbl) + 1
    /\ fdOpen \in [Ids -> BOOLEAN]
    /\ epfd \in {"none", "open", "closed"}
    /\ sync \in [Syncs -> {"none", "live", "destroyed"}]
    /\ thr \in [Threads -> {"none", "top", "wait", "woken", "done"}]
    /\ closing \in BOOLEAN /\ allocated \in BOOLEAN
    /\ vuartPath \in Seq(STRING) /\ Len(vuartPath) < PathSize
    /\ bootReason \in Nat

\* both globals are static, so zero ("" and 0) until ioc_parse runs
Init ==
    /\ ipc = "parse" /\ idx = 1 /\ vuartPath = <<>> /\ bootReason = 0
    /\ fdOpen = [c \in Ids |-> FALSE]
    /\ epfd = "none"
    /\ sync = [s \in Syncs |-> "none"]
    /\ thr = [t \in Threads |-> "none"]
    /\ closing = FALSE /\ allocated = FALSE
-----------------------------------------------------------------------------
Goto(l) == ipc' = l

(* strtok(s, ","): a token is a maximal run of non-commas; the first     *)
(* call returns the first one and writes a NUL over the comma after it,  *)
(* the next call (strtok(NULL, ",")) the one after.                      *)
TokenStarts(s) == {i \in DOMAIN s : s[i] # Comma /\ (i = 1 \/ s[i - 1] = Comma)}

TokenEnd(s, i) == Max({j \in i .. Len(s) : \A k \in i .. j : s[k] # Comma})

\* strtoul(t, 0, 0) on base-10 text: the value of the leading digits, 0 if
\* there are none.  ioc_boot_reason keeps the low 32 bits; the option
\* strings enumerated have at most two digits, so the cast keeps all
strtoul(t) ==
    LET n == IF \E i \in DOMAIN t : t[i] \notin DOMAIN DigitVal
             THEN Min({i \in DOMAIN t : t[i] \notin DOMAIN DigitVal}) - 1
             ELSE Len(t)
    IN FoldLeft(LAMBDA acc, d : acc * 10 + DigitVal[d], 0, SubSeq(t, 1, n))

(* ioc_parse: the path is snprintf'd from param, the start of the copy    *)
(* (not from the first token), up to the NUL strtok wrote, truncated to  *)
(* 31 characters.  With a first token but no second one, strtoul gets    *)
(* NULL and the process faults.                                          *)
ioc_parse(s) ==
    LET ts == TokenStarts(s)
        first == Min(ts)
        rest == {i \in ts : i > first}
        param == IF ts = {} THEN s ELSE SubSeq(s, 1, TokenEnd(s, first))
    IN /\ vuartPath' = SubSeq(param, 1, IF Len(param) < PathSize THEN Len(param) ELSE PathSize - 1)
       /\ IF ts = {}
          THEN Goto("probe") /\ UNCHANGED bootReason
          ELSE IF rest = {}
          THEN Goto("crashed") /\ UNCHANGED bootReason
          ELSE /\ Goto("probe")
               /\ bootReason' = strtoul(SubSeq(s, Min(rest), TokenEnd(s, Min(rest))))

\* the device model hands its ioc option to ioc_parse before ioc_init runs
ParseOpts ==
    /\ ipc = "parse"
    /\ \E s \in OptStrings : ioc_parse(s)
    /\ UNCHANGED <<idx, fdOpen, epfd, sync, thr, closing, allocated>>

\* ioc_is_platform_supported, then the three callocs
Probe ==
    /\ ipc = "probe"
    /\ \/ Goto("null")                      \* no IOC_NP_ESIG: ioc_err
       \/ Goto("alloc")
    /\ UNCHANGED <<idx, fdOpen, epfd, sync, thr, closing, allocated>>

Alloc ==
    /\ ipc = "alloc"
    /\ \/ Goto("null") /\ UNCHANGED allocated            \* ioc == NULL
       \/ Goto("alloc_err") /\ allocated' = TRUE         \* pool or evts NULL
       \/ Goto("epoll") /\ allocated' = TRUE
    /\ UNCHANGED <<idx, fdOpen, epfd, sync, thr, closing>>

\* epoll_create1, then the free queue and its mutex
EpollCreate ==
    /\ ipc = "epoll"
    /\ \/ Goto("alloc_err") /\ UNCHANGED <<epfd, sync>>
       \/ /\ Goto("ch") /\ epfd' = "open"
          /\ sync' = [sync EXCEPT !["free"] = "live"]
    /\ UNCHANGED <<idx, fdOpen, thr, closing, allocated>>

\* the descriptors an open of channel c may return: ioc_open_native_ch and
\* ioc_open_virtual_uart succeed or fail (every failure path of the latter
\* closes the pty master it opened); symlink to the empty path always
\* fails; other ids get fd = -1
OpenResults(c) ==
    CASE c \in NativeIds -> BOOLEAN
      [] c = VUartId -> IF vuartPath = <<>> THEN {FALSE} ELSE BOOLEAN
      [] OTHER -> {FALSE}

\* defect variant of the ioc_ch_init loop: the index advanced twice
ChInitStepSkip ==
    /\ ipc = "ch" /\ idx <= Len(ChTbl)
    /\ LET c == ChTbl[idx] IN
       \/ /\ c \notin ChOn
          /\ idx' = idx + 2 /\ UNCHANGED <<ipc, fdOpen>>
       \/ /\ c \in ChOn
          /\ \E ok \in OpenResults(c) :
               IF ~ok /\ c \in Critical
               THEN Goto("chl_err") /\ UNCHANGED <<idx, fdOpen>>
               ELSE /\ fdOpen' = [fdOpen EXCEPT ![c] = ok]
                    /\ idx' = idx + 2 /\ UNCHANGED ipc
    /\ UNCHANGED <<epfd, sync, thr, closing, allocated>>

\* one iteration of the ioc_ch_init loop
ChInitStep ==
    /\ ipc = "ch" /\ idx <= Len(ChTbl)
    /\ LET c == ChTbl[idx] IN
       \/ /\ c \notin ChOn
          /\ idx' = idx + 1 /\ UNCHANGED <<ipc, fdOpen>>
       \/ /\ c \in ChOn
          /\ \E ok \in OpenResults(c) :
               IF ~ok /\ c \in Critical
               THEN Goto("chl_err") /\ UNCHANGED <<idx, fdOpen>>
               ELSE /\ fdOpen' = [fdOpen EXCEPT ![c] = ok]
                    /\ idx' = idx + 1 /\ UNCHANGED ipc
    /\ UNCHANGED <<epfd, sync, thr, closing, allocated>>

\* ioc_ch_init returns 0; the rx and tx members are set up
ChInitDone ==
    /\ ipc = "ch" /\ idx = Len(ChTbl) + 1
    /\ Goto("create_rx")
    /\ sync' = [sync EXCEPT !["rx"] = "live", !["tx"] = "live"]
    /\ UNCHANGED <<idx, fdOpen, epfd, thr, closing, allocated>>

\* ioc_create_thread for the rx, tx and core threads, in that order
CreateThread ==
    /\ \E t \in Threads :
         /\ ipc = "create_" \o t
         /\ \/ Goto("work_err") /\ UNCHANGED thr
            \/ /\ thr' = [thr EXCEPT ![t] = "top"]
               /\ Goto(CASE t = "rx" -> "create_tx" [] t = "tx" -> "create_core"
                         [] t = "core" -> "ok")
    /\ UNCHANGED <<idx, fdOpen, epfd, sync, closing, allocated>>
-----------------------------------------------------------------------------
(* work_err: destroy the rx/tx mutexes and condition variables, then      *)
(* ioc_kill_workers.  pthread_join of a thread that was never created     *)
(* passes the zero tid calloc left: undefined, it faults or returns       *)
(* ESRCH.  Locking and signalling a destroyed mutex/condition variable is *)
(* undefined too: the wakeup may or may not reach a waiter.              *)
Join(t, next) ==
    \/ thr[t] = "none" /\ Goto("crashed")
    \/ thr[t] = "none" /\ Goto(next)
    \/ thr[t] = "done" /\ Goto(next)

KillSignal(w) ==
    IF thr[w] = "wait"
    THEN IF sync[w] = "destroyed"
         THEN thr' \in {thr, [thr EXCEPT ![w] = "woken"]}
         ELSE thr' = [thr EXCEPT ![w] = "woken"]
    ELSE UNCHANGED thr

WorkErr ==
    /\ \/ ipc = "work_err" /\ Goto("k_closing")
          /\ sync' = [sync EXCEPT !["rx"] = "destroyed", !["tx"] = "destroyed"]
          /\ UNCHANGED <<thr, closing, epfd>>
       \/ ipc = "k_closing" /\ Goto("k_close_ep") /\ closing' = TRUE
          /\ UNCHANGED <<sync, thr, epfd>>
       \/ ipc = "k_close_ep" /\ Goto("k_join_core") /\ epfd' = "closed"
          /\ UNCHANGED <<sync, thr, closing>>
       \/ ipc = "k_join_core" /\ Join("core", "k_sig_rx")
          /\ UNCHANGED <<sync, thr, closing, epfd>>
       \/ ipc = "k_sig_rx" /\ Goto("k_join_rx") /\ KillSignal("rx")
          /\ UNCHANGED <<sync, closing, epfd>>
       \/ ipc = "k_join_rx" /\ Join("rx", "k_sig_tx")
          /\ UNCHANGED <<sync, thr, closing, epfd>>
       \/ ipc = "k_sig_tx" /\ Goto("k_join_tx") /\ KillSignal("tx")
          /\ UNCHANGED <<sync, closing, epfd>>
       \/ ipc = "k_join_tx" /\ Join("tx", "k_destroy")
          /\ UNCHANGED <<sync, thr, closing, epfd>>
       \/ ipc = "k_destroy" /\ Goto("chl_err")
          /\ sync' = [s \in Syncs |-> "destroyed"]
          /\ UNCHANGED <<thr, closing, epfd>>
    /\ UNCHANGED <<idx, fdOpen, allocated>>

\* defect variant: chl_err without ioc_ch_deinit
ChlErrNoChDeinit ==
    /\ ipc = "chl_err"
    /\ Goto("alloc_err")
    /\ sync' = [sync EXCEPT !["free"] = "destroyed"]
    /\ epfd' = "closed"
    /\ UNCHANGED <<idx, fdOpen, thr, closing, allocated>>

\* chl_err: ioc_ch_deinit closes every fd >= 0, free_mtx is destroyed and
\* epfd closed (close(-1) when ioc_kill_workers already did it)
ChlErr ==
    /\ ipc = "chl_err"
    /\ Goto("alloc_err")
    /\ fdOpen' = [c \in Ids |-> FALSE]
    /\ sync' = [sync EXCEPT !["free"] = "destroyed"]
    /\ epfd' = "closed"
    /\ UNCHANGED <<idx, thr, closing, allocated>>

\* alloc_err: free evts, pool and ioc; ioc_err returns NULL
AllocErr ==
    /\ ipc = "alloc_err"
    /\ Goto("null") /\ allocated' = FALSE
    /\ UNCHANGED <<idx, fdOpen, epfd, sync, thr, closing>>
-----------------------------------------------------------------------------
(* A worker created during ioc_init: its queue is empty, so it goes to    *)
(* pthread_cond_wait without looking at closing, and on a wakeup exits if *)
(* closing is set and waits again otherwise.                             *)
WorkerStep(w) ==
    /\ \/ thr[w] = "top" /\ thr' = [thr EXCEPT ![w] = "wait"]
       \/ thr[w] = "woken"
          /\ thr' = [thr EXCEPT ![w] = IF closing THEN "done" ELSE "wait"]
    /\ UNCHANGED <<ipc, idx, fdOpen, epfd, sync, closing, allocated, parseVars>>

SpuriousWakeup(w) ==
    /\ thr[w] = "wait"
    /\ thr' = [thr EXCEPT ![w] = "woken"]
    /\ UNCHANGED <<ipc, idx, fdOpen, epfd, sync, closing, allocated, parseVars>>

\* ioc_parse, then ioc_init, which leaves the parsed options alone
InitStep ==
    \/ ParseOpts
    \/ /\ \/ Probe \/ Alloc \/ EpollCreate \/ ChInitStep \/ ChInitDone
          \/ CreateThread \/ WorkErr \/ ChlErr \/ AllocErr
       /\ UNCHANGED parseVars

Next ==
    \/ InitStep
    \/ \E w \in {"rx", "tx"} : WorkerStep(w) \/ SpuriousWakeup(w)

(* The caller of ioc_init and the workers are OS threads: weakly fair.    *)
(* The core thread's own loop is IocMediator's; here it is only created. *)
Spec == Init /\ [][Next]_vars /\ WF_vars(InitStep)
        /\ \A w \in {"rx", "tx"} : WF_vars(WorkerStep(w))
-----------------------------------------------------------------------------
(* Properties.                                                            *)

(* A failed start leaves nothing behind (spec 4.5, 8): whichever step     *)
(* fails, once ioc_init has returned NULL no channel fd, no epoll fd, no  *)
(* allocation and no running thread of the mediator remains.              *)
FailedInitReleasesAll ==
    ipc = "null" =>
        /\ \A c \in Ids : ~fdOpen[c]
        /\ epfd # "open" /\ ~allocated
        /\ \A t \in Threads : thr[t] \in {"none", "done"}

(* Failure is reported (spec 4.5, 7): ioc_init returns, the mediator or  *)
(* NULL; its unwinding neither faults nor blocks forever.                 *)
InitReturnsCleanly == <>(ipc \in {"ok", "null"})
=============================================================================
