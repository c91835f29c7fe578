---------------------------- MODULE IocMediator ----------------------------
(***************************************************************************)
(* The IOC mediator of the device model (src/devicemodel/hw/platform/     *)
(* ioc.c) after a successful ioc_init: the pool of cbc_requests moving    *)
(* between the free, rx and tx SIMPLEQs, the core thread that turns epoll *)
(* readiness of the channels into requests, the rx and tx threads that    *)
(* hand requests to the cbc handlers and route them on, and the owner     *)
(* thread running ioc_deinit / ioc_kill_workers.                          *)
(*                                                                         *)
(* Every mutex-protected section (cbc_request_enqueue, the free-queue     *)
(* dequeue, a worker's check-and-pop) is one step: no other thread can    *)
(* observe its inside.  pthread_cond_wait is split into "block" and "be   *)
(* woken, then re-acquire the mutex", which is where wakeups can be lost. *)
(***************************************************************************)
EXTENDS Naturals, Sequences, FiniteSets

CONSTANTS
    Reqs,       \* the cbc_request pool, IOC_MAX_REQUESTS entries
    NativeChs,  \* native CBC cdev channels ioc_ch_init opened (fd > 0)
    VUart,      \* the channel IOC_VIRTUAL_UART (the pty master)
    FaultyChs,  \* channels whose fd may enter an error/hangup state
    NoReq,      \* model value: a worker holds no request
    RxRoutes,   \* values ioc_dev_rx may leave in packet.qtype
    TxRoutes,   \* values ioc_dev_tx may leave in packet.qtype
    MaxInput    \* frames (bytes for VUart) each channel's peer writes

Chs == NativeChs \cup {VUart}
Queues == {"free", "rx", "tx"}
Workers == {"rx", "tx"}
\* calloc'd requests carry id 0, i.e. IOC_NATIVE_PMT, a channel never opened
PmtCh == "IOC_NATIVE_PMT"

ASSUME /\ Reqs # {} /\ NoReq \notin Reqs
       /\ VUart \notin NativeChs /\ FaultyChs \subseteq Chs
       /\ RxRoutes \subseteq {"free", "tx"} /\ RxRoutes # {}
       /\ TxRoutes \subseteq {"free", "rx"} /\ TxRoutes # {}
       /\ MaxInput \in Nat

VARIABLES
    q,          \* q[Q]: the SIMPLEQ of queue Q, head first
    held,       \* held[w]: the request worker w popped (its local req)
    data,       \* data[r]: req->id and the number of the frame it carries
    sent,       \* sent[c]: frames the peer of channel c has written to it
    rd,         \* rd[c]: frames the core thread has read from c
    broken,     \* channels whose fd reports readiness but read() fails
    closing,    \* ioc->closing
    epfd,       \* ioc->epfd: "open" until ioc_kill_workers closes it
    registered, \* channels ioc_core_thread added to the epoll set
    evs,        \* events the last epoll_wait returned, not yet dispatched
    pc          \* program counter of each thread

vars == <<q, held, data, sent, rd, broken, closing, epfd, registered, evs,
          pc>>

MainPcs == {"run", "close_ep", "join_core", "sig_rx", "join_rx", "sig_tx",
            "join_tx", "exited"}
CorePcs == {"reg", "poll", "blocked", "dispatch", "done"}
WorkerPcs == {"top", "wait", "woken", "handle", "done"}

TypeOK ==
    /\ q \in [Queues -> Seq(Reqs)]
    /\ held \in [Workers -> Reqs \cup {NoReq}]
    /\ data \in [Reqs -> [id : Chs \cup {PmtCh}, seq : 0..MaxInput]]
    /\ sent \in [Chs -> 0..MaxInput] /\ rd \in [Chs -> 0..MaxInput]
    /\ broken \subseteq FaultyChs
    /\ closing \in BOOLEAN /\ epfd \in {"open", "closed"}
    /\ registered \subseteq Chs /\ evs \subseteq registered
    /\ DOMAIN pc = {"main", "core"} \cup Workers
    /\ pc["main"] \in MainPcs /\ pc["core"] \in CorePcs
    /\ \A w \in Workers : pc[w] \in WorkerPcs
-----------------------------------------------------------------------------
(* ioc_init: the whole pool on the free queue, rx/tx queues empty, the     *)
(* three threads created and not yet run.                                 *)
Init ==
    /\ q \in {[Q \in Queues |-> IF Q = "free" THEN s ELSE <<>>] :
                  s \in {s \in [1..Cardinality(Reqs) -> Reqs] :
                           \A i, j \in DOMAIN s : i # j => s[i] # s[j]}}
    /\ held = [w \in Workers |-> NoReq]
    /\ data = [r \in Reqs |-> [id |-> PmtCh, seq |-> 0]]
    /\ sent = [c \in Chs |-> 0] /\ rd = [c \in Chs |-> 0]
    /\ broken = {}
    /\ closing = FALSE /\ epfd = "open"
    /\ registered = {} /\ evs = {}
    /\ pc = [t \in {"main", "core", "rx", "tx"} |->
               CASE t = "main" -> "run" [] t = "core" -> "reg"
                 [] OTHER -> "top"]
-----------------------------------------------------------------------------
(* cbc_request_enqueue: insert at head or tail under the queue's mutex,   *)
(* then pthread_cond_signal the rx/tx condition variable.  Signal(p, Q)   *)
(* is the wakeup applied to a program-counter function p.                 *)
Inserted(Q, r, toHead) ==
    [q EXCEPT ![Q] = IF toHead THEN <<r>> \o @ ELSE Append(@, r)]

\* defect variant: the enqueue does not pthread_cond_signal
SignalLost(p, Q) == p

Signal(p, Q) ==
    IF Q \in Workers /\ p[Q] = "wait" THEN [p EXCEPT ![Q] = "woken"] ELSE p

\* the queue the request goes to when the free queue's head r is taken off it
TakeFree(qq) == [qq EXCEPT !["free"] = Tail(@)]
-----------------------------------------------------------------------------
(* Core thread.  Readiness is level-triggered: a channel is ready while   *)
(* it has unread frames or its fd is in an error state.                   *)
Ready(c) == rd[c] < sent[c] \/ c \in broken

\* the epoll_ctl(EPOLL_CTL_ADD) loop over channels with fd > 0; every add
\* fails once ioc_kill_workers has closed epfd
CoreRegister ==
    /\ pc["core"] = "reg"
    /\ registered' = IF epfd = "open" THEN Chs ELSE {}
    /\ pc' = [pc EXCEPT !["core"] = "poll"]
    /\ UNCHANGED <<q, held, data, sent, rd, broken, closing, epfd, evs>>

\* a call of epoll_wait: EBADF on a closed epfd exits the loop; otherwise
\* the thread blocks.  Closing epfd later does not wake a blocked call: the
\* call holds its own reference to the epoll file.
CoreEpollWait ==
    /\ pc["core"] = "poll"
    /\ pc' = [pc EXCEPT !["core"] = IF epfd = "closed" THEN "done"
                                                       ELSE "blocked"]
    /\ UNCHANGED <<q, held, data, sent, rd, broken, closing, epfd,
                   registered, evs>>

\* the blocked epoll_wait returns the ready registered channels
CoreEpollReturn ==
    /\ pc["core"] = "blocked"
    /\ \E c \in registered : Ready(c)
    /\ evs' = {c \in registered : Ready(c)}
    /\ pc' = [pc EXCEPT !["core"] = "dispatch"]
    /\ UNCHANGED <<q, held, data, sent, rd, broken, closing, epfd,
                   registered>>

\* a signal interrupts the sleeping epoll_wait (-1, EINTR): the loop calls
\* it again.  ep_poll returns ready events before it looks for a pending
\* signal, so only a call with nothing ready sleeps and can be interrupted.
CoreEpollIntr ==
    /\ pc["core"] = "blocked"
    /\ ~\E c \in registered : Ready(c)
    /\ pc' = [pc EXCEPT !["core"] = "poll"]
    /\ UNCHANGED <<q, held, data, sent, rd, broken, closing, epfd,
                   registered, evs>>

\* defect variants of ioc_process_tx: the recv-error path forgets to give
\* the request back; the frame is numbered one too far
ProcessTxLeak(c) ==
    \/ /\ q["free"] = <<>>
       /\ UNCHANGED <<q, data, rd, pc>>
    \/ /\ q["free"] # <<>>
       /\ LET r == Head(q["free"]) IN
          \/ /\ rd[c] < sent[c]
             /\ rd' = [rd EXCEPT ![c] = @ + 1]
             /\ data' = [data EXCEPT ![r] = [id |-> c, seq |-> rd[c] + 1]]
             /\ q' = [TakeFree(q) EXCEPT !["tx"] = Append(@, r)]
             /\ pc' = Signal(pc, "tx")
          \/ /\ c \in broken
             /\ q' = TakeFree(q)
             /\ UNCHANGED <<data, rd, pc>>

ProcessTxSeqOff(c) ==
    \/ /\ q["free"] = <<>>
       /\ UNCHANGED <<q, data, rd, pc>>
    \/ /\ q["free"] # <<>>
       /\ LET r == Head(q["free"]) IN
          \/ /\ rd[c] < sent[c]
             /\ rd' = [rd EXCEPT ![c] = @ + 1]
             /\ data' = [data EXCEPT ![r] = [id |-> c, seq |-> rd[c] + 2]]
             /\ q' = [TakeFree(q) EXCEPT !["tx"] = Append(@, r)]
             /\ pc' = Signal(pc, "tx")
          \/ /\ c \in broken
             /\ q' = [TakeFree(q) EXCEPT !["free"] = Append(@, r)]
             /\ UNCHANGED <<data, rd, pc>>

\* ioc_process_tx(c): take a free request (none: warn and return without
\* reading), ioc_ch_recv into it; on count <= 0 give it back to the free
\* queue, else fill it in and append it to the tx queue.
ProcessTx(c) ==
    \/ /\ q["free"] = <<>>
       /\ UNCHANGED <<q, data, rd, pc>>
    \/ /\ q["free"] # <<>>
       /\ LET r == Head(q["free"]) IN
          \/ /\ rd[c] < sent[c]
             /\ rd' = [rd EXCEPT ![c] = @ + 1]
             /\ data' = [data EXCEPT ![r] = [id |-> c, seq |-> rd[c] + 1]]
             /\ q' = [TakeFree(q) EXCEPT !["tx"] = Append(@, r)]
             /\ pc' = Signal(pc, "tx")
          \/ /\ c \in broken
             /\ q' = [TakeFree(q) EXCEPT !["free"] = Append(@, r)]
             /\ UNCHANGED <<data, rd, pc>>

\* ioc_process_rx: ioc_ch_recv of one byte of the virtual UART, which is
\* then discarded (building a cbc_request from it is a TODO); a failed
\* read returns -1
ProcessRx ==
    \/ /\ rd[VUart] < sent[VUart]
       /\ rd' = [rd EXCEPT ![VUart] = @ + 1]
       /\ UNCHANGED <<q, pc>>
    \/ /\ VUart \in broken
       /\ UNCHANGED <<q, rd, pc>>

\* ioc_dispatch of one event of the eventlist
CoreDispatch ==
    /\ pc["core"] = "dispatch"
    /\ \E c \in evs :
         /\ evs' = evs \ {c}
         /\ IF c = VUart THEN ProcessRx /\ UNCHANGED data
                         ELSE ProcessTx(c)
    /\ UNCHANGED <<held, sent, broken, closing, epfd, registered>>

CoreDispatchDone ==
    /\ pc["core"] = "dispatch" /\ evs = {}
    /\ pc' = [pc EXCEPT !["core"] = "poll"]
    /\ UNCHANGED <<q, held, data, sent, rd, broken, closing, epfd,
                   registered, evs>>

Core == CoreRegister \/ CoreEpollWait \/ CoreEpollReturn \/ CoreDispatch
        \/ CoreDispatchDone
-----------------------------------------------------------------------------
(* ioc_rx_thread / ioc_tx_thread, one definition for both.               *)
Other(w) == IF w = "rx" THEN "tx" ELSE "rx"
Routes(w) == IF w = "rx" THEN RxRoutes ELSE TxRoutes

\* the queue check under the mutex, after the lock at the loop head or
\* after pthread_cond_wait returned with closing clear: wait while the queue
\* is empty; else exit if closing, else pop the head and unlock
PopOrWait(w) ==
    \/ /\ q[w] = <<>>
       /\ pc' = [pc EXCEPT ![w] = "wait"]
       /\ UNCHANGED <<q, held>>
    \/ /\ q[w] # <<>> /\ closing
       /\ pc' = [pc EXCEPT ![w] = "done"]
       /\ UNCHANGED <<q, held>>
    \/ /\ q[w] # <<>> /\ ~closing
       /\ held' = [held EXCEPT ![w] = Head(q[w])]
       /\ q' = [q EXCEPT ![w] = Tail(@)]
       /\ pc' = [pc EXCEPT ![w] = "handle"]

\* pthread_mutex_lock at the head of the for-loop
WorkerLoop(w) ==
    /\ pc[w] = "top"
    /\ PopOrWait(w)
    /\ UNCHANGED <<data, sent, rd, broken, closing, epfd, registered, evs>>

\* defect variant: after the wakeup the thread waits again without
\* re-checking the queue
WorkerWokenNoRecheck(w) ==
    /\ pc[w] = "woken"
    /\ \/ /\ closing
          /\ pc' = [pc EXCEPT ![w] = "done"]
       \/ ~closing /\ pc' = [pc EXCEPT ![w] = "wait"]
    /\ UNCHANGED <<q, held, data, sent, rd, broken, closing, epfd, registered,
                   evs>>

\* pthread_cond_wait returned and re-took the mutex: exit if closing, else
\* re-check the while condition
WorkerWoken(w) ==
    /\ pc[w] = "woken"
    /\ \/ /\ closing
          /\ pc' = [pc EXCEPT ![w] = "done"]
          /\ UNCHANGED <<q, held>>
       \/ ~closing /\ PopOrWait(w)
    /\ UNCHANGED <<data, sent, rd, broken, closing, epfd, registered, evs>>

\* the handler runs without the lock and leaves packet.qtype; the request
\* goes to the head of the other worker's queue or to the free tail
WorkerHandle(w) ==
    /\ pc[w] = "handle"
    /\ LET r == held[w] IN
       \E route \in Routes(w) :
         /\ q' = IF route = Other(w) THEN Inserted(Other(w), r, TRUE)
                                     ELSE Inserted("free", r, FALSE)
         /\ pc' = Signal([pc EXCEPT ![w] = "top"], route)
    /\ held' = [held EXCEPT ![w] = NoReq]
    /\ UNCHANGED <<data, sent, rd, broken, closing, epfd, registered, evs>>

Worker(w) == WorkerLoop(w) \/ WorkerWoken(w) \/ WorkerHandle(w)

\* POSIX allows pthread_cond_wait to return without a signal
SpuriousWakeup(w) ==
    /\ pc[w] = "wait"
    /\ pc' = [pc EXCEPT ![w] = "woken"]
    /\ UNCHANGED <<q, held, data, sent, rd, broken, closing, epfd,
                   registered, evs>>
-----------------------------------------------------------------------------
(* The owner thread: ioc_deinit -> ioc_kill_workers, then ioc_ch_deinit,  *)
(* close(epfd) and the frees, which no other thread can observe once the  *)
(* three joins have returned.                                            *)
MainSet(p) == pc' = [pc EXCEPT !["main"] = p]

\* ioc_deinit is called and sets ioc->closing (without any lock)
Deinit ==
    /\ pc["main"] = "run"
    /\ closing' = TRUE /\ MainSet("close_ep")
    /\ UNCHANGED <<q, held, data, sent, rd, broken, epfd, registered, evs>>

\* close(ioc->epfd), then the pthread_join and lock/signal/unlock steps
KillStep ==
    /\ \/ pc["main"] = "close_ep" /\ epfd' = "closed" /\ MainSet("join_core")
       \/ pc["main"] = "join_core" /\ pc["core"] = "done"
          /\ MainSet("sig_rx") /\ UNCHANGED epfd
       \/ pc["main"] = "sig_rx" /\ UNCHANGED epfd
          /\ pc' = Signal([pc EXCEPT !["main"] = "join_rx"], "rx")
       \/ pc["main"] = "join_rx" /\ pc["rx"] = "done"
          /\ MainSet("sig_tx") /\ UNCHANGED epfd
       \/ pc["main"] = "sig_tx" /\ UNCHANGED epfd
          /\ pc' = Signal([pc EXCEPT !["main"] = "join_tx"], "tx")
       \/ pc["main"] = "join_tx" /\ pc["tx"] = "done"
          /\ MainSet("exited") /\ UNCHANGED epfd
    /\ UNCHANGED <<q, held, data, sent, rd, broken, closing, registered, evs>>
-----------------------------------------------------------------------------
(* The peers of the channels: the native CBC driver and the guest behind  *)
(* the virtual UART write frames; an fd may fail.                         *)
PeerWrite(c) ==
    /\ sent[c] < MaxInput
    /\ sent' = [sent EXCEPT ![c] = @ + 1]
    /\ UNCHANGED <<q, held, data, rd, broken, closing, epfd, registered, evs,
                   pc>>

ChannelFault(c) ==
    /\ c \notin broken
    /\ broken' = broken \cup {c}
    /\ UNCHANGED <<q, held, data, sent, rd, closing, epfd, registered, evs,
                   pc>>

Next ==
    \/ Core \/ CoreEpollIntr
    \/ \E w \in Workers : Worker(w) \/ SpuriousWakeup(w)
    \/ Deinit \/ KillStep
    \/ \E c \in Chs : PeerWrite(c)
    \/ \E c \in FaultyChs : ChannelFault(c)

(* The threads are scheduled by the OS: none of them stops forever while  *)
(* it can run.  Peers, faults, EINTR, spurious wakeups and the decision   *)
(* to call ioc_deinit are not guaranteed to happen.                       *)
Fairness ==
    /\ WF_vars(Core) /\ WF_vars(KillStep)
    /\ \A w \in Workers : WF_vars(Worker(w))

Spec == Init /\ [][Next]_vars /\ Fairness
-----------------------------------------------------------------------------
(* Properties.                                                            *)

\* the places a request is: a position in one of the queues or a worker
Slots == UNION {{<<Q, i>> : i \in DOMAIN q[Q]} : Q \in Queues}
Owners(r) ==
    {s \in Slots : q[s[1]][s[2]] = r} \cup {w \in Workers : held[w] = r}

(* Pool conservation and single ownership (spec 4.1, 8): through every    *)
(* interleaving of the core thread's dequeue/re-enqueue on a recv error,  *)
(* the workers' pops and their routing to head or tail, each request of   *)
(* the pool is in exactly one queue position or held by exactly one       *)
(* worker.                                                                *)
RequestOwnership == \A r \in Reqs : Cardinality(Owners(r)) = 1

(* No lost wakeup while running: a worker blocked in pthread_cond_wait    *)
(* never has work on its queue, because every cbc_request_enqueue to the  *)
(* rx or tx queue signals under the same mutex the worker checked under.  *)
NoStrandedWork == \A w \in Workers : pc[w] = "wait" => q[w] = <<>>
InFree(r) == \E i \in DOMAIN q["free"] : q["free"][i] = r

(* Requests come back (stub handlers): while ioc_deinit has not begun,    *)
(* every request taken off the free queue by the core thread returns to   *)
(* it: the tx/rx thread is woken for it, pops it in FIFO order behind the *)
(* ones before it and routes it to the free tail.                         *)
RequestsRecycled == \A r \in Reqs : ~InFree(r) ~> (InFree(r) \/ closing)

DeinitReturns == (pc["main"] # "run") ~> (pc["main"] = "exited")

=============================================================================
