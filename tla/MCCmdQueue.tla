----------------------------- MODULE MCCmdQueue -----------------------------
(* CmdQueue on a ring of three slots, small enough to wrap and to fill. *)
EXTENDS CmdQueueRefinement

CONSTANTS c1, c2, t1, t2

MCCmds == {c1, c2}
MCThreads == {t1, t2}
=============================================================================
