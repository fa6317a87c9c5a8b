------------------------------ MODULE CmdQueue ------------------------------
(***************************************************************************)
(* The deferred-command queue of the driver (if_rtwn_task.c).              *)
(*                                                                         *)
(* Any thread (net80211 callbacks, callouts, USB callbacks) hands a        *)
(* command to rtwn_cmd_sleepable(), which stores it in a ring and then,    *)
(* after the ring's lock is dropped, wakes cmdq_task.  The task runs on    *)
(* ic_tq, the single-threaded taskqueue of net80211, which also runs       *)
(* ic_parent_task and therefore rtwn_init() and rtwn_stop().  Each action  *)
(* below is one critical section of RTWN_CMDQ_LOCK or one scheduling point *)
(* of ic_tq.  A command runs for several steps, since on USB every         *)
(* register access sleeps: the slot it came from stays occupied meanwhile. *)
(***************************************************************************)
EXTENDS Integers

CONSTANTS
    RTWN_CMDQ_SIZE,     \* slots of the ring (16 in if_rtwnvar.h)
    Cmds,               \* commands: a function pointer with its argument
    NoFunc,             \* func == NULL, an empty slot
    Threads             \* callers of rtwn_cmd_sleepable()

ASSUME SizeAssumption == RTWN_CMDQ_SIZE \in Nat \ {0}
ASSUME NoFuncAssumption == NoFunc \notin Cmds

VARIABLES
    cmdq,           \* the ring
    cmdq_first,     \* next slot the task looks at
    cmdq_last,      \* next slot a caller fills
    sc_detached,
    running,        \* sc_flags & RTWN_RUNNING
    thread,         \* where each caller stands in rtwn_cmd_sleepable()
    tq,             \* tasks enqueued on ic_tq
    pc,             \* where the thread of ic_tq stands
    item,           \* slot of the command being run
    nrunning,       \* net80211: ic_nrunning > 0
    detach,         \* where rtwn_detach() stands
    fresh           \* history: a command was accepted since the last rtwn_init()

ring == <<cmdq, cmdq_first, cmdq_last>>
sched == <<thread, tq, pc, item>>
life == <<sc_detached, running, nrunning, detach>>
vars == <<cmdq, cmdq_first, cmdq_last, sc_detached, running, thread, tq, pc,
          item, nrunning, detach, fresh>>

Slots == 0 .. RTWN_CMDQ_SIZE - 1
AdvanceUnwrapped(i) == i + 1                        \* mutant: no wrap
Advance(i) == (i + 1) % RTWN_CMDQ_SIZE

Init ==
    /\ cmdq = [i \in Slots |-> NoFunc]
    /\ cmdq_first = 0
    /\ cmdq_last = 0
    /\ sc_detached = FALSE
    /\ running = FALSE
    /\ thread = [t \in Threads |-> "idle"]
    /\ tq = {}
    /\ pc = "idle"
    /\ item = 0
    /\ nrunning = FALSE
    /\ detach = "attached"
    /\ fresh = FALSE

-----------------------------------------------------------------------------
(* rtwn_cmd_sleepable() *)

\* Mutant: the overflow test is dropped.
AcceptUnchecked(t, c) ==
    /\ thread[t] = "idle"
    /\ ~sc_detached
    /\ cmdq' = [cmdq EXCEPT ![cmdq_last] = c]
    /\ cmdq_last' = Advance(cmdq_last)
    /\ thread' = [thread EXCEPT ![t] = "kick"]
    /\ fresh' = (fresh \/ running)
    /\ UNCHANGED <<cmdq_first, tq, pc, item, life>>

\* The locked part.  With the queue shut down (ESHUTDOWN) or the slot still
\* taken (EAGAIN) the call returns and changes nothing.
Accept(t, c) ==
    /\ thread[t] = "idle"
    /\ ~sc_detached
    /\ cmdq[cmdq_last] = NoFunc
    /\ cmdq' = [cmdq EXCEPT ![cmdq_last] = c]
    /\ cmdq_last' = Advance(cmdq_last)
    /\ thread' = [thread EXCEPT ![t] = "kick"]
    /\ fresh' = (fresh \/ running)
    /\ UNCHANGED <<cmdq_first, tq, pc, item, life>>

\* ieee80211_runtask(), outside the lock.  ic_tq is gone once rtwn_detach()
\* has returned; what a later call does is outside the model.
RunTask(t) ==
    /\ thread[t] = "kick"
    /\ detach # "gone"
    /\ tq' = tq \union {"cmdq"}
    /\ thread' = [thread EXCEPT ![t] = "idle"]
    /\ UNCHANGED <<ring, pc, item, life, fresh>>

-----------------------------------------------------------------------------
(* rtwn_cmdq_cb(), on the thread of ic_tq *)

TaskBegin ==
    /\ pc = "idle"
    /\ "cmdq" \in tq
    /\ tq' = tq \ {"cmdq"}
    /\ pc' = "check"
    /\ UNCHANGED <<ring, thread, item, life, fresh>>

\* Mutant: RTWN_RUNNING is not looked at.
CheckNothing ==
    /\ pc = "check"
    /\ pc' = "loop"
    /\ UNCHANGED <<ring, thread, tq, item, life, fresh>>

CheckRunning ==
    /\ pc = "check"
    /\ pc' = IF running THEN "loop" ELSE "idle"
    /\ UNCHANGED <<ring, thread, tq, item, life, fresh>>

\* Mutant: the slot is emptied before its command runs.
PopAndClear ==
    /\ pc = "loop"
    /\ cmdq[cmdq_first] # NoFunc
    /\ item' = cmdq_first
    /\ cmdq' = [cmdq EXCEPT ![cmdq_first] = NoFunc]
    /\ cmdq_first' = Advance(cmdq_first)
    /\ pc' = "run"
    /\ UNCHANGED <<cmdq_last, thread, tq, life, fresh>>

Pop ==
    /\ pc = "loop"
    /\ cmdq[cmdq_first] # NoFunc
    /\ item' = cmdq_first
    /\ cmdq_first' = Advance(cmdq_first)
    /\ pc' = "run"
    /\ UNCHANGED <<cmdq, cmdq_last, thread, tq, life, fresh>>

\* item->func() returns.
Return ==
    /\ pc = "run"
    /\ pc' = "clear"
    /\ UNCHANGED <<ring, thread, tq, item, life, fresh>>

\* The critical section of Clear goes on into Pop or TaskEnd; that a caller may
\* come between them here only adds interleavings.
Clear ==
    /\ pc = "clear"
    /\ cmdq' = [cmdq EXCEPT ![item] = NoFunc]
    /\ pc' = "loop"
    /\ UNCHANGED <<cmdq_first, cmdq_last, thread, tq, item, life, fresh>>

TaskEnd ==
    /\ pc = "loop"
    /\ cmdq[cmdq_first] = NoFunc
    /\ pc' = "idle"
    /\ UNCHANGED <<ring, thread, tq, item, life, fresh>>

-----------------------------------------------------------------------------
(* rtwn_parent(), on the thread of ic_tq; the queue survives both calls *)

\* rtwn_init() succeeds, or the device was running already.
ParentInit ==
    /\ pc = "idle"
    /\ "parent" \in tq
    /\ nrunning
    /\ running' = TRUE
    /\ fresh' = (fresh /\ running)
    /\ tq' = tq \ {"parent"}
    /\ UNCHANGED <<ring, thread, pc, item, sc_detached, nrunning, detach>>

\* rtwn_init() fails: every vap is stopped, which schedules the task again.
ParentInitFails ==
    /\ pc = "idle"
    /\ "parent" \in tq
    /\ nrunning
    /\ ~running
    /\ nrunning' = FALSE
    /\ UNCHANGED <<ring, sched, sc_detached, running, detach, fresh>>

ParentStop ==
    /\ pc = "idle"
    /\ "parent" \in tq
    /\ ~nrunning
    /\ running' = FALSE
    /\ fresh' = FALSE
    /\ tq' = tq \ {"parent"}
    /\ UNCHANGED <<ring, thread, pc, item, sc_detached, nrunning, detach>>

\* net80211: the first vap goes up, the last one goes down.
UpDown ==
    /\ detach \in {"attached", "drain"}
    /\ nrunning' = ~nrunning
    /\ tq' = tq \union {"parent"}
    /\ UNCHANGED <<ring, thread, pc, item, sc_detached, running, detach, fresh>>

-----------------------------------------------------------------------------
(* rtwn_detach() *)

\* Mutant: sc_detached is not set.
DetachStartOpen ==
    /\ detach = "attached"
    /\ detach' = "drain"
    /\ UNCHANGED <<ring, sched, sc_detached, running, nrunning, fresh>>

DetachStart ==
    /\ detach = "attached"
    /\ sc_detached' = TRUE
    /\ detach' = "drain"
    /\ UNCHANGED <<ring, sched, running, nrunning, fresh>>

\* ieee80211_draintask() returns; ieee80211_ifdetach() stops the vaps.
DetachDrained ==
    /\ detach = "drain"
    /\ "cmdq" \notin tq
    /\ pc = "idle"
    /\ detach' = "ifdetach"
    /\ nrunning' = FALSE
    /\ tq' = IF nrunning THEN tq \union {"parent"} ELSE tq
    /\ UNCHANGED <<ring, thread, pc, item, sc_detached, running, fresh>>

\* ieee80211_ifdetach() runs ic_tq empty, frees it and returns.
DetachEnd ==
    /\ detach = "ifdetach"
    /\ tq = {}
    /\ pc = "idle"
    /\ detach' = "gone"
    /\ UNCHANGED <<ring, sched, sc_detached, running, nrunning, fresh>>

Terminated == detach = "gone" /\ UNCHANGED vars

-----------------------------------------------------------------------------
TaskqueueThread ==
    \/ TaskBegin \/ CheckRunning \/ Pop \/ Return \/ Clear \/ TaskEnd
    \/ ParentInit \/ ParentInitFails \/ ParentStop

Next ==
    \/ \E t \in Threads : (\E c \in Cmds : Accept(t, c)) \/ RunTask(t)
    \/ TaskqueueThread
    \/ UpDown
    \/ DetachStart \/ DetachDrained \/ DetachEnd
    \/ Terminated

Spec == Init /\ [][Next]_vars

\* The thread of ic_tq is always scheduled and serves its tasks in turn, so
\* a task that stays enqueued is begun; a caller that has left the critical
\* section reaches ieee80211_runtask(); rtwn_detach() proceeds when it can.
\* Nothing is assumed about who calls, or about net80211 going up and down.
Fairness ==
    /\ WF_vars(TaskqueueThread)
    /\ SF_vars(TaskBegin)
    /\ SF_vars(ParentStop)
    /\ \A t \in Threads : WF_vars(RunTask(t))
    /\ WF_vars(DetachDrained)
    /\ WF_vars(DetachEnd)

FairSpec == Spec /\ Fairness

-----------------------------------------------------------------------------
\* Types of the variables; the indices of the ring stay in the ring.
TypeOK ==
    /\ cmdq \in [Slots -> Cmds \union {NoFunc}]
    /\ cmdq_first \in Slots
    /\ cmdq_last \in Slots
    /\ sc_detached \in BOOLEAN
    /\ running \in BOOLEAN
    /\ thread \in [Threads -> {"idle", "kick"}]
    /\ tq \in SUBSET {"cmdq", "parent"}
    /\ pc \in {"idle", "check", "loop", "run", "clear"}
    /\ item \in Slots
    /\ nrunning \in BOOLEAN
    /\ detach \in {"attached", "drain", "ifdetach", "gone"}
    /\ fresh \in BOOLEAN

Busy == pc \in {"run", "clear"}

\* A caller is turned away with EAGAIN, and the task leaves its loop, only
\* when the ring really is full, respectively empty: the test of one slot
\* speaks for all of them, also while a popped command still holds its slot.
OneSlotDecides ==
    /\ cmdq[cmdq_last] # NoFunc => \A i \in Slots : cmdq[i] # NoFunc
    /\ (~Busy /\ cmdq[cmdq_first] = NoFunc) => \A i \in Slots : cmdq[i] = NoFunc

\* "Device must be powered on before any command may be sent": a command runs
\* only between rtwn_init() and rtwn_stop(), although nothing rechecks
\* RTWN_RUNNING inside the loop and USB drops RTWN_LOCK in every command.
PoweredWhileRunning == pc \in {"loop", "run", "clear"} => running

\* The command being run keeps its slot: no caller overwrites the function
\* and data the task is using, however many calls arrive meanwhile.
ItemHeld == Busy => cmdq[item] # NoFunc

\* No wakeup is lost: while the device runs and a command has been accepted
\* since it was started, a non-empty ring has the task enqueued, about to look
\* at the ring, or a caller that is on its way to enqueue it.
NoLostWakeup ==
    (running /\ fresh /\ \E i \in Slots : cmdq[i] # NoFunc) =>
        \/ "cmdq" \in tq
        \/ pc # "idle"
        \/ \E t \in Threads : thread[t] = "kick"

\* Commands run with the device powered, from a slot nobody reuses, and none is
\* left behind: neither by a ring that looks empty nor for want of a wakeup.
ExecutionSound == OneSlotDecides /\ PoweredWhileRunning /\ ItemHeld /\ NoLostWakeup

\* A slot's content is never replaced by another command, and is emptied only
\* by the task that ran it.
SlotsOverwritten ==
    \E i \in Slots : /\ cmdq[i] # NoFunc
                     /\ cmdq'[i] # cmdq[i]
                     /\ ~(cmdq'[i] = NoFunc /\ Busy /\ item = i)
NoOverwrite == [][~SlotsOverwritten]_vars

\* rtwn_detach(): "Stop command queue."  Once ieee80211_draintask() has
\* returned, no command runs any more.  (Not so: see the README.)
QueueStopped == detach \in {"ifdetach", "gone"} => ~Busy

\* A command accepted by a running device is run, unless the device is stopped.
AcceptedRuns ==
    \A i \in Slots :
        (running /\ fresh /\ cmdq[i] # NoFunc) ~> (cmdq[i] = NoFunc \/ ~running)

\* rtwn_detach() never waits for ever for the task it drains.
DetachReturns == detach = "drain" ~> detach = "gone"

\* Whoever waits for the queue is served: accepted commands and a detach.
EveryoneServed == AcceptedRuns /\ DetachReturns
=============================================================================
