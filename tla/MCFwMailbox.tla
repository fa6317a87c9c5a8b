----------------------------- MODULE MCFwMailbox -----------------------------
(* FwMailbox with three boxes and two callers; the 50 polls and the test for   *)
(* 100 become 2 and 4.                                                         *)
EXTENDS FwMailbox, TLC

CONSTANTS s1, l1, ic_tq, ioctl

MCShort == {s1}
MCLong == {l1}
MCCallers == {ic_tq, ioctl}
=============================================================================
