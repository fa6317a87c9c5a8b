------------------------------- MODULE CmdFifo -------------------------------
(***************************************************************************)
(* What the deferred-command queue promises to its callers: a bounded fifo *)
(* that hands every accepted command, unchanged and in the order of        *)
(* acceptance, to one executor, one at a time and only while the device is *)
(* powered, and that accepts nothing once it has been shut down.           *)
(***************************************************************************)
EXTENDS Naturals, Sequences

CONSTANTS Capacity, Cmds, Nothing

VARIABLES
    fifo,           \* accepted and not begun
    executing,      \* the command being executed, or Nothing
    open,           \* commands are accepted
    powered         \* commands may be executed

vars == <<fifo, executing, open, powered>>

Load == Len(fifo) + IF executing = Nothing THEN 0 ELSE 1

Init ==
    /\ fifo = <<>>
    /\ executing = Nothing
    /\ open = TRUE
    /\ powered = FALSE

Enqueue(c) ==
    /\ open
    /\ Load < Capacity
    /\ fifo' = Append(fifo, c)
    /\ UNCHANGED <<executing, open, powered>>

Begin ==
    /\ powered
    /\ executing = Nothing
    /\ fifo # <<>>
    /\ executing' = Head(fifo)
    /\ fifo' = Tail(fifo)
    /\ UNCHANGED <<open, powered>>

End ==
    /\ executing # Nothing
    /\ executing' = Nothing
    /\ UNCHANGED <<fifo, open, powered>>

Power(on) ==
    /\ executing = Nothing
    /\ powered' = on
    /\ UNCHANGED <<fifo, executing, open>>

ShutDown ==
    /\ open' = FALSE
    /\ UNCHANGED <<fifo, executing, powered>>

Next ==
    \/ \E c \in Cmds : Enqueue(c)
    \/ Begin
    \/ End
    \/ \E on \in BOOLEAN : Power(on)
    \/ ShutDown

Spec == Init /\ [][Next]_vars /\ WF_vars(End)
=============================================================================
