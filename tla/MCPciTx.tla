------------------------------- MODULE MCPciTx -------------------------------
(* PciTx with rings of three entries (two usable): one ring used by two vaps,  *)
(* or two rings used by one vap; and two rings of two entries with two vaps.   *)
EXTENDS PciTx

CONSTANTS v1, v2

MCVaps == {v1, v2}
MCPlans ==
    {[count |-> 3, queues |-> {0}, vaps |-> {v1, v2}],
     [count |-> 3, queues |-> {0, 6}, vaps |-> {v1}],
     [count |-> 2, queues |-> {0, 6}, vaps |-> {v1, v2}]}
=============================================================================
