------------------------- MODULE CmdQueueRefinement -------------------------
(* CmdQueue implements CmdFifo: the ring is the fifo, read from cmdq_first. *)
EXTENDS CmdQueue, FiniteSets, Sequences

Occupied == {i \in Slots : cmdq[i] # NoFunc}
Waiting == Cardinality(Occupied) - IF Busy THEN 1 ELSE 0

Fifo == INSTANCE CmdFifo WITH
    Capacity  <- RTWN_CMDQ_SIZE,
    Nothing   <- NoFunc,
    fifo      <- [k \in 1 .. Waiting |->
                     cmdq[(cmdq_first + k - 1) % RTWN_CMDQ_SIZE]],
    executing <- IF Busy THEN cmdq[item] ELSE NoFunc,
    open      <- ~sc_detached,
    powered   <- running

\* Every accepted command is executed at most once, unchanged, in the order of
\* acceptance, with the device powered; an executed command always ends.
ImplementsFifo == Fifo!Spec
=============================================================================
