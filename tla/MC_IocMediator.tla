-------------------------- MODULE MC_IocMediator --------------------------
(* Instantiation of IocMediator for TLC: a pool of two requests, two      *)
(* native channels, the virtual UART, and two frames per peer.            *)
EXTENDS IocMediator, TLC

CONSTANTS r1, r2, n1, vuart, noReq

MCReqs == {r1, r2}
\* one native channel: with two, the cases differ only in which one is read
MCOneNative == {n1}
\* the cbc_rx_handler/cbc_tx_handler stubs of ioc.c never change qtype
StubRoutes == {"free"}
\* a CBC protocol handler may forward to the opposite queue
RxForward == {"free", "tx"}
TxForward == {"free", "rx"}

ReqSymmetry == Permutations(MCReqs)
=============================================================================
