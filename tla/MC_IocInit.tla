----------------------------- MODULE MC_IocInit -----------------------------
(* A channel table with one entry of each kind ioc_ch_init treats apart:  *)
(* an IOC_CH_OFF entry (PMT), the critical native lifecycle channel, two  *)
(* non-critical native channels (signal, raw0) and the virtual UART last. *)
EXTENDS IocInit

MCChTbl == <<"PMT", "LFCC", "SIG", "RAW0", "VUART">>
MCChOn == {"LFCC", "SIG", "RAW0", "VUART"}
\* ioc_ch_init opens LFCC, SIGNAL and RAW0..11 natively; PMT falls to fd = -1
MCNativeIds == {"LFCC", "SIG", "RAW0"}
(* ioc option strings: path and boot reason; a reason that is not a      *)
(* number; a leading comma; a trailing comma with no reason; a path      *)
(* alone; the empty string                                                *)
MCOptStrings == {<<"p", ",", "1", "2">>, <<"p", ",", "x">>, <<",", "p", ",", "1">>,
                 <<"p", ",">>, <<"p">>, <<>>}
=============================================================================
