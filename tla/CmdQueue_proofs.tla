--------------------------- MODULE CmdQueue_proofs ---------------------------
(* Proofs about CmdQueue, and that its steps are steps of CmdFifo, for every *)
(* ring size, set of callers and commands.                                   *)
EXTENDS CmdQueueRefinement, FunctionTheorems, FiniteSetTheorems, SequenceTheorems, TLAPS

\* The oldest occupied slot: the one being run, else the next to be popped.
Oldest == IF Busy THEN item ELSE cmdq_first

\* How far slot i lies behind the oldest one, going round the ring.
Distance(i) == IF i >= Oldest THEN i - Oldest ELSE i - Oldest + RTWN_CMDQ_SIZE

\* The occupied slots are exactly those from the oldest to cmdq_last.
Window ==
    \/ /\ cmdq_last = Oldest
       /\ \A i \in Slots : cmdq[i] # NoFunc
    \/ \A i \in Slots : cmdq[i] # NoFunc <=> Distance(i) < Distance(cmdq_last)

IInv ==
    /\ TypeOK
    /\ Window
    /\ Busy => cmdq_first = Advance(item)
    /\ ItemHeld
    /\ PoweredWhileRunning
    /\ NoLostWakeup

-----------------------------------------------------------------------------
(* The ring index, advanced modulo the size, without the modulus. *)
LEMMA AdvanceWraps ==
    ASSUME NEW i \in Slots
    PROVE  /\ Advance(i) \in Slots
           /\ Advance(i) = IF i = RTWN_CMDQ_SIZE - 1 THEN 0 ELSE i + 1
BY SizeAssumption DEF Slots, Advance

\* Accept fills the first free slot and so keeps the window.
LEMMA AcceptWindow ==
    ASSUME IInv, NEW t \in Threads, NEW c \in Cmds, Accept(t, c)
    PROVE  TypeOK' /\ Window' /\ ItemHeld'
<1>1. TypeOK'
  BY AdvanceWraps, SizeAssumption DEF IInv, TypeOK, Accept, life, Slots
<1>2. ItemHeld'
  BY NoFuncAssumption DEF IInv, TypeOK, Accept, life, ItemHeld, Busy, Slots
<1>3. Window'
  <2>1. cmdq_last # Oldest \/ \E i \in Slots : cmdq[i] = NoFunc
    BY DEF IInv, TypeOK, Accept, Slots
  <2>2. \A i \in Slots : cmdq[i] # NoFunc <=> Distance(i) < Distance(cmdq_last)
    BY <2>1 DEF IInv, Window
  <2>3. Oldest' = Oldest /\ \A i \in Slots : Distance(i)' = Distance(i)
    BY DEF Accept, life, Oldest, Busy, Distance
  <2>4. \A i \in Slots : cmdq'[i] # NoFunc <=> i = cmdq_last \/ cmdq[i] # NoFunc
    BY NoFuncAssumption DEF IInv, TypeOK, Accept
  <2>5. /\ Oldest \in Slots /\ cmdq_last \in Slots
        /\ cmdq_last' = IF cmdq_last = RTWN_CMDQ_SIZE - 1 THEN 0 ELSE cmdq_last + 1
    BY AdvanceWraps DEF IInv, TypeOK, Accept, Oldest
  <2>6. CASE cmdq_last' = Oldest
    <3>1. Distance(cmdq_last) = RTWN_CMDQ_SIZE - 1
      BY <2>5, <2>6, SizeAssumption DEF Slots, Distance
    <3>2. \A i \in Slots : Distance(i) < RTWN_CMDQ_SIZE - 1 \/ i = cmdq_last
      BY <2>5, <3>1, SizeAssumption DEF Slots, Distance
    <3> QED BY <2>2, <2>3, <2>4, <2>6, <3>1, <3>2 DEF Window
  <2>7. CASE cmdq_last' # Oldest
    <3>1. Distance(cmdq_last') = Distance(cmdq_last) + 1
      BY <2>5, <2>7, SizeAssumption DEF Slots, Distance
    <3>2. \A i \in Slots : Distance(i) < Distance(cmdq_last) + 1
                             <=> Distance(i) < Distance(cmdq_last) \/ i = cmdq_last
      BY <2>5, SizeAssumption DEF Slots, Distance
    <3>3. Distance(cmdq_last)' = Distance(cmdq_last')
      BY <2>3 DEF Distance
    <3> QED BY <2>2, <2>3, <2>4, <3>1, <3>2, <3>3 DEF Window
  <2> QED BY <2>6, <2>7
<1> QED BY <1>1, <1>2, <1>3

\* Pop turns the slot at cmdq_first into the one being run: same window.
LEMMA PopWindow ==
    ASSUME IInv, Pop
    PROVE  TypeOK' /\ Window' /\ ItemHeld' /\ (Busy => cmdq_first = Advance(item))'
<1>1. cmdq_first \in Slots /\ Advance(cmdq_first) \in Slots
  BY AdvanceWraps DEF IInv, TypeOK
<1>2. TypeOK'
  BY <1>1 DEF IInv, TypeOK, Pop, life
<1>3. ItemHeld' /\ (Busy => cmdq_first = Advance(item))'
  BY DEF Pop, ItemHeld, Busy, Advance
<1>4. Oldest' = Oldest
  BY DEF Pop, Oldest, Busy
<1>5. (\A i \in Slots : Distance(i)' = Distance(i)) /\ Distance(cmdq_last)' = Distance(cmdq_last)
  BY <1>4 DEF Distance, Pop
<1>6. Window'
  BY <1>4, <1>5 DEF IInv, Window, Pop
<1> QED BY <1>2, <1>3, <1>6

\* Clear drops the oldest slot from the window.
LEMMA ClearWindow ==
    ASSUME IInv, Clear
    PROVE  TypeOK' /\ Window' /\ ItemHeld' /\ (Busy => cmdq_first = Advance(item))'
<1>1. TypeOK' /\ ItemHeld' /\ (Busy => cmdq_first = Advance(item))'
  BY DEF IInv, TypeOK, Clear, life, ItemHeld, Busy
<1>2. /\ Oldest = item /\ Oldest' = cmdq_first
      /\ item \in Slots /\ cmdq_first \in Slots /\ cmdq_last \in Slots
      /\ cmdq_last' = cmdq_last
  BY DEF IInv, TypeOK, Clear, Oldest, Busy
<1>3. cmdq_first = IF item = RTWN_CMDQ_SIZE - 1 THEN 0 ELSE item + 1
  BY <1>2, AdvanceWraps DEF IInv, Clear, Busy
<1>4. cmdq[item] # NoFunc
  BY DEF IInv, Clear, Busy, ItemHeld
<1>5. \A i \in Slots : cmdq'[i] # NoFunc <=> i # item /\ cmdq[i] # NoFunc
  BY <1>2 DEF IInv, TypeOK, Clear
<1>6. \A i \in Slots : Distance(i) = IF i >= item THEN i - item ELSE i - item + RTWN_CMDQ_SIZE
  BY <1>2 DEF Distance
<1>7. \A i \in Slots : Distance(i)' =
                 IF i >= cmdq_first THEN i - cmdq_first ELSE i - cmdq_first + RTWN_CMDQ_SIZE
  BY <1>2 DEF Distance
<1>8. \A i \in Slots : /\ i = item => Distance(i)' = RTWN_CMDQ_SIZE - 1 /\ Distance(i) = 0
                       /\ i # item => Distance(i)' = Distance(i) - 1 /\ Distance(i) > 0
                       /\ Distance(i) < RTWN_CMDQ_SIZE
  BY <1>2, <1>3, <1>6, <1>7, SizeAssumption DEF Slots
<1>9. Distance(cmdq_last)' \in Int /\ \A i \in Slots : Distance(i) \in Int /\ Distance(i)' \in Int
  BY <1>2, <1>6, <1>7, SizeAssumption DEF Slots
<1>10. ASSUME cmdq_last = Oldest, \A i \in Slots : cmdq[i] # NoFunc PROVE Window'
  <2>1. Distance(cmdq_last)' = RTWN_CMDQ_SIZE - 1
    BY <1>2, <1>8, <1>10 DEF Distance
  <2>2. \A i \in Slots : Distance(i)' < RTWN_CMDQ_SIZE - 1 <=> i # item
    BY <1>8, <1>9, SizeAssumption
  <2> QED BY <1>5, <1>10, <2>1, <2>2 DEF Window
<1>11. ASSUME \A i \in Slots : cmdq[i] # NoFunc <=> Distance(i) < Distance(cmdq_last)
       PROVE  Window'
  <2>1. cmdq_last # item
    BY <1>2, <1>4, <1>8, <1>9, <1>11
  <2>2. Distance(cmdq_last)' = Distance(cmdq_last) - 1
    BY <1>2, <1>8, <2>1 DEF Distance
  <2>3. \A i \in Slots : cmdq'[i] # NoFunc <=> Distance(i)' < Distance(cmdq_last)'
    BY <1>2, <1>5, <1>8, <1>9, <1>11, <2>1, <2>2, SizeAssumption
  <2> QED BY <2>3 DEF Window
<1>12. Window'
  BY <1>10, <1>11 DEF IInv, Window
<1> QED BY <1>1, <1>12

\* With the window, one slot tells whether the ring is full or empty.
LEMMA WindowDecides == ASSUME IInv PROVE OneSlotDecides
<1>1. Oldest \in Slots /\ cmdq_last \in Slots /\ cmdq_first \in Slots
  BY DEF IInv, TypeOK, Oldest
<1>2. \A i \in Slots : Distance(i) \in Int /\ Distance(i) >= 0
  BY <1>1, SizeAssumption DEF Slots, Distance
<1>3. Distance(Oldest) = 0
  BY <1>1, SizeAssumption DEF Slots, Distance
<1>4. cmdq[cmdq_last] # NoFunc => \A i \in Slots : cmdq[i] # NoFunc
  BY <1>1, <1>2 DEF IInv, Window
<1>5. ASSUME ~Busy, cmdq[cmdq_first] = NoFunc PROVE \A i \in Slots : cmdq[i] = NoFunc
  <2>1. Oldest = cmdq_first
    BY <1>5 DEF Oldest
  <2>2. \A i \in Slots : cmdq[i] # NoFunc <=> Distance(i) < Distance(cmdq_last)
    BY <1>1, <1>5 DEF IInv, Window
  <2>3. ~(0 < Distance(cmdq_last))
    BY <1>1, <1>3, <1>5, <2>1, <2>2
  <2> QED BY <1>1, <1>2, <2>2, <2>3
<1> QED BY <1>4, <1>5 DEF OneSlotDecides

-----------------------------------------------------------------------------
\* The inductive invariant holds initially: the ring is empty.
LEMMA InitIInv == Init => IInv
<1> SUFFICES ASSUME Init PROVE IInv
  OBVIOUS
<1>1. 0 \in Slots
  BY SizeAssumption DEF Slots
<1>2. TypeOK /\ ItemHeld /\ PoweredWhileRunning /\ NoLostWakeup /\ ~Busy
  BY <1>1 DEF Init, TypeOK, ItemHeld, Busy, PoweredWhileRunning, NoLostWakeup
<1>3. Oldest = 0 /\ cmdq_last = 0
  BY <1>2 DEF Init, Oldest
<1>4. \A i \in Slots : ~(Distance(i) < Distance(cmdq_last))
  BY <1>3, SizeAssumption DEF Slots, Distance
<1>5. Window
  BY <1>4 DEF Init, Window
<1> QED BY <1>2, <1>5 DEF IInv

\* Every step preserves it.  The scheduling and life-cycle steps leave the ring
\* alone; what they could break is PoweredWhileRunning and NoLostWakeup.
LEMMA NextIInv == IInv /\ [Next]_vars => IInv'
<1> SUFFICES ASSUME IInv, [Next]_vars PROVE IInv'
  OBVIOUS
<1> DEFINE Ring == Window' /\ ItemHeld' /\ (Busy => cmdq_first = Advance(item))'
<1>a. ASSUME UNCHANGED <<ring, item>>, Busy' = Busy PROVE Ring
  <2>1. Oldest' = Oldest
    BY <1>a DEF Oldest, ring
  <2>2. (\A i \in Slots : Distance(i)' = Distance(i)) /\ Distance(cmdq_last)' = Distance(cmdq_last)
    BY <1>a, <2>1 DEF Distance, ring
  <2>3. Window'
    BY <1>a, <2>1, <2>2 DEF IInv, Window, ring
  <2> QED BY <1>a, <2>3 DEF IInv, ItemHeld, ring, Advance
<1>1. ASSUME NEW t \in Threads, NEW c \in Cmds, Accept(t, c) PROVE IInv'
  <2>1. Busy' = Busy /\ item' = item /\ cmdq_first' = cmdq_first /\ PoweredWhileRunning'
    BY <1>1 DEF IInv, Accept, life, Busy, PoweredWhileRunning
  <2>2. thread'[t] = "kick"
    BY <1>1 DEF IInv, TypeOK, Accept
  <2> QED BY <1>1, <2>1, <2>2, AcceptWindow DEF IInv, NoLostWakeup, Advance
<1>2. ASSUME NEW t \in Threads, RunTask(t) PROVE IInv'
  <2>1. TypeOK' /\ PoweredWhileRunning' /\ NoLostWakeup'
    BY <1>2 DEF IInv, TypeOK, RunTask, ring, life, PoweredWhileRunning, NoLostWakeup
  <2>2. Ring
    BY <1>2, <1>a DEF RunTask, Busy
  <2> QED BY <2>1, <2>2 DEF IInv
<1>3. CASE TaskBegin
  <2>1. TypeOK' /\ PoweredWhileRunning' /\ NoLostWakeup'
    BY <1>3 DEF IInv, TypeOK, TaskBegin, ring, life, PoweredWhileRunning, NoLostWakeup
  <2>2. Ring
    BY <1>3, <1>a DEF TaskBegin, Busy
  <2> QED BY <2>1, <2>2 DEF IInv
<1>4. CASE CheckRunning
  <2>1. TypeOK' /\ PoweredWhileRunning' /\ NoLostWakeup'
    BY <1>4 DEF IInv, TypeOK, CheckRunning, ring, life, PoweredWhileRunning, NoLostWakeup
  <2>2. Ring
    BY <1>4, <1>a DEF CheckRunning, Busy
  <2> QED BY <2>1, <2>2 DEF IInv
<1>5. CASE Pop
  <2>1. PoweredWhileRunning' /\ NoLostWakeup'
    BY <1>5 DEF IInv, TypeOK, Pop, life, PoweredWhileRunning, NoLostWakeup
  <2> QED BY <1>5, <2>1, PopWindow DEF IInv
<1>6. CASE Return
  <2>1. TypeOK' /\ PoweredWhileRunning' /\ NoLostWakeup'
    BY <1>6 DEF IInv, TypeOK, Return, ring, life, PoweredWhileRunning, NoLostWakeup
  <2>2. Ring
    BY <1>6, <1>a DEF Return, Busy
  <2> QED BY <2>1, <2>2 DEF IInv
<1>7. CASE Clear
  <2>1. PoweredWhileRunning' /\ NoLostWakeup'
    BY <1>7 DEF IInv, TypeOK, Clear, life, PoweredWhileRunning, NoLostWakeup
  <2> QED BY <1>7, <2>1, ClearWindow DEF IInv
<1>8. CASE TaskEnd
  <2>1. \A i \in Slots : cmdq[i] = NoFunc
    BY <1>8, WindowDecides DEF TaskEnd, OneSlotDecides, Busy
  <2>2. TypeOK' /\ PoweredWhileRunning' /\ NoLostWakeup'
    BY <1>8, <2>1 DEF IInv, TypeOK, TaskEnd, ring, life, PoweredWhileRunning, NoLostWakeup
  <2>3. Ring
    BY <1>8, <1>a DEF TaskEnd, Busy
  <2> QED BY <2>2, <2>3 DEF IInv
<1>9. CASE ParentInit
  <2>1. TypeOK' /\ PoweredWhileRunning' /\ NoLostWakeup'
    BY <1>9 DEF IInv, TypeOK, ParentInit, ring, PoweredWhileRunning, NoLostWakeup
  <2>2. Ring
    BY <1>9, <1>a DEF ParentInit, Busy
  <2> QED BY <2>1, <2>2 DEF IInv
<1>10. CASE ParentInitFails
  <2>1. TypeOK'
    BY <1>10 DEF IInv, TypeOK, ParentInitFails, ring, sched
  <2>2. PoweredWhileRunning' /\ NoLostWakeup'
    BY <1>10 DEF IInv, TypeOK, ParentInitFails, ring, sched, PoweredWhileRunning, NoLostWakeup
  <2>3. Ring
    BY <1>10, <1>a DEF ParentInitFails, Busy, sched
  <2> QED BY <2>1, <2>2, <2>3 DEF IInv
<1>11. CASE ParentStop
  <2>1. TypeOK'
    BY <1>11 DEF IInv, TypeOK, ParentStop, ring, sched
  <2>2. PoweredWhileRunning' /\ NoLostWakeup'
    BY <1>11 DEF IInv, TypeOK, ParentStop, ring, sched, PoweredWhileRunning, NoLostWakeup
  <2>3. Ring
    BY <1>11, <1>a DEF ParentStop, Busy, sched
  <2> QED BY <2>1, <2>2, <2>3 DEF IInv
<1>12. CASE UpDown
  <2>1. TypeOK'
    BY <1>12 DEF IInv, TypeOK, UpDown, ring, sched
  <2>2. PoweredWhileRunning' /\ NoLostWakeup'
    BY <1>12 DEF IInv, TypeOK, UpDown, ring, sched, PoweredWhileRunning, NoLostWakeup
  <2>3. Ring
    BY <1>12, <1>a DEF UpDown, Busy, sched
  <2> QED BY <2>1, <2>2, <2>3 DEF IInv
<1>13. CASE DetachStart
  <2>1. TypeOK'
    BY <1>13 DEF IInv, TypeOK, DetachStart, ring, sched
  <2>2. PoweredWhileRunning' /\ NoLostWakeup'
    BY <1>13 DEF IInv, TypeOK, DetachStart, ring, sched, PoweredWhileRunning, NoLostWakeup
  <2>3. Ring
    BY <1>13, <1>a DEF DetachStart, Busy, sched
  <2> QED BY <2>1, <2>2, <2>3 DEF IInv
<1>14. CASE DetachDrained
  <2>1. TypeOK'
    BY <1>14 DEF IInv, TypeOK, DetachDrained, ring, sched
  <2>2. PoweredWhileRunning' /\ NoLostWakeup'
    BY <1>14 DEF IInv, TypeOK, DetachDrained, ring, sched, PoweredWhileRunning, NoLostWakeup
  <2>3. Ring
    BY <1>14, <1>a DEF DetachDrained, Busy, sched
  <2> QED BY <2>1, <2>2, <2>3 DEF IInv
<1>15. CASE DetachEnd
  <2>1. TypeOK'
    BY <1>15 DEF IInv, TypeOK, DetachEnd, ring, sched
  <2>2. PoweredWhileRunning' /\ NoLostWakeup'
    BY <1>15 DEF IInv, TypeOK, DetachEnd, ring, sched, PoweredWhileRunning, NoLostWakeup
  <2>3. Ring
    BY <1>15, <1>a DEF DetachEnd, Busy, sched
  <2> QED BY <2>1, <2>2, <2>3 DEF IInv
<1>16. CASE UNCHANGED vars
  <2>1. TypeOK' /\ PoweredWhileRunning' /\ NoLostWakeup'
    BY <1>16 DEF IInv, TypeOK, vars, PoweredWhileRunning, NoLostWakeup
  <2>2. Ring
    BY <1>16, <1>a DEF vars, ring, Busy
  <2> QED BY <2>1, <2>2 DEF IInv
<1> QED BY <1>1, <1>2, <1>3, <1>4, <1>5, <1>6, <1>7, <1>8, <1>9, <1>10, <1>11, <1>12,
          <1>13, <1>14, <1>15, <1>16
        DEF Next, TaskqueueThread, Terminated

LEMMA SpecIInv == Spec => []IInv
BY InitIInv, NextIInv, PTL DEF Spec

-----------------------------------------------------------------------------
\* The variables keep their types.
THEOREM TypeCorrect == Spec => []TypeOK
<1>1. IInv => TypeOK
  BY DEF IInv
<1> QED BY <1>1, SpecIInv, PTL

\* rtwn_cmd_sleepable() refuses a command for lack of room only when no slot is
\* free, and rtwn_cmdq_cb() stops only when no command is left; commands run
\* with the device powered, from a slot nobody reuses, and none is left behind
\* for want of a wakeup.
THEOREM ExecutionSafe == Spec => []ExecutionSound
<1>1. IInv => ExecutionSound
  BY WindowDecides DEF IInv, ExecutionSound
<1> QED BY <1>1, SpecIInv, PTL

\* An accepted command stays in its slot until the task has run it.
THEOREM NothingOverwritten == Spec => NoOverwrite
<1>1. IInv /\ [Next]_vars => ~SlotsOverwritten \/ UNCHANGED vars
  <2> SUFFICES ASSUME IInv, [Next]_vars, NEW i \in Slots, cmdq[i] # NoFunc, cmdq'[i] # cmdq[i]
               PROVE  cmdq'[i] = NoFunc /\ Busy /\ item = i
    BY DEF SlotsOverwritten
  <2>1. ~UNCHANGED cmdq
    OBVIOUS
  <2>2. ~\E t \in Threads, c \in Cmds : Accept(t, c)
    BY DEF IInv, TypeOK, Accept
  <2>3. Clear
    BY <2>1, <2>2 DEF Next, TaskqueueThread, vars, RunTask, TaskBegin, CheckRunning, Pop, Return,
         TaskEnd, ParentInit, ParentInitFails, ParentStop, UpDown, DetachStart, DetachDrained,
         DetachEnd, Terminated, ring
  <2> QED BY <2>3 DEF Clear, IInv, TypeOK, Busy
<1>2. IInv /\ [Next]_vars => [~SlotsOverwritten]_vars
  BY <1>1
<1> QED BY <1>2, SpecIInv, PTL DEF Spec, NoOverwrite

-----------------------------------------------------------------------------
(* The ring is the fifo. *)

\* The refinement mapping, by name.
Slot(k) == (cmdq_first + k - 1) % RTWN_CMDQ_SIZE
Queued == [k \in 1 .. Waiting |-> cmdq[(cmdq_first + k - 1) % RTWN_CMDQ_SIZE]]
Executed == IF Busy THEN cmdq[item] ELSE NoFunc
Held == IF Busy THEN 1 ELSE 0

Full == \A i \in Slots : cmdq[i] # NoFunc
Count == IF Full THEN RTWN_CMDQ_SIZE ELSE Distance(cmdq_last)

-----------------------------------------------------------------------------
(* Going round the ring from the oldest slot. *)

LEMMA Wraps ==
    ASSUME NEW i \in 0 .. 2 * RTWN_CMDQ_SIZE - 1
    PROVE  /\ i % RTWN_CMDQ_SIZE \in Slots
           /\ i % RTWN_CMDQ_SIZE = IF i < RTWN_CMDQ_SIZE THEN i ELSE i - RTWN_CMDQ_SIZE
<1>1. RTWN_CMDQ_SIZE \in Nat /\ RTWN_CMDQ_SIZE > 0 /\ i \in Nat
  BY SizeAssumption
<1>2. CASE i < RTWN_CMDQ_SIZE
  BY <1>1, <1>2 DEF Slots
<1>3. CASE i >= RTWN_CMDQ_SIZE
  <2>1. i = RTWN_CMDQ_SIZE + (i - RTWN_CMDQ_SIZE) /\ i - RTWN_CMDQ_SIZE \in 0 .. RTWN_CMDQ_SIZE - 1
    BY <1>1, <1>3
  <2>2. i % RTWN_CMDQ_SIZE = i - RTWN_CMDQ_SIZE
    BY <1>1, <2>1
  <2> QED BY <1>1, <1>3, <2>1, <2>2 DEF Slots
<1> QED BY <1>1, <1>2, <1>3

LEMMA Bounds ==
    ASSUME TypeOK
    PROVE  /\ RTWN_CMDQ_SIZE \in Nat \ {0}
           /\ Oldest \in 0 .. RTWN_CMDQ_SIZE - 1 /\ item \in 0 .. RTWN_CMDQ_SIZE - 1
           /\ cmdq_first \in 0 .. RTWN_CMDQ_SIZE - 1 /\ cmdq_last \in 0 .. RTWN_CMDQ_SIZE - 1
           /\ Oldest \in Slots /\ item \in Slots /\ cmdq_first \in Slots /\ cmdq_last \in Slots
BY SizeAssumption DEF TypeOK, Slots, Oldest

\* Every slot is one distance behind the oldest.
LEMMA Around ==
    ASSUME TypeOK, NEW d \in 0 .. RTWN_CMDQ_SIZE - 1
    PROVE  /\ (Oldest + d) % RTWN_CMDQ_SIZE \in Slots
           /\ Distance((Oldest + d) % RTWN_CMDQ_SIZE) = d
<1>1. PICK i \in 0 .. 2 * RTWN_CMDQ_SIZE - 1 : i = Oldest + d
  BY Bounds
<1>2. /\ i % RTWN_CMDQ_SIZE \in Slots
      /\ i % RTWN_CMDQ_SIZE = IF i < RTWN_CMDQ_SIZE THEN i ELSE i - RTWN_CMDQ_SIZE
  BY Wraps
<1>3. Distance(i % RTWN_CMDQ_SIZE) = d
  BY <1>1, <1>2, Bounds DEF Distance
<1> QED BY <1>1, <1>2, <1>3

LEMMA DistanceRange ==
    ASSUME TypeOK, NEW i \in Slots
    PROVE  /\ Distance(i) \in 0 .. RTWN_CMDQ_SIZE - 1
           /\ i = (Oldest + Distance(i)) % RTWN_CMDQ_SIZE
<1>1. Distance(i) \in 0 .. RTWN_CMDQ_SIZE - 1
  BY Bounds DEF Distance, Slots
<1>2. PICK n \in 0 .. 2 * RTWN_CMDQ_SIZE - 1 : n = Oldest + Distance(i)
  BY <1>1, Bounds
<1>3. n % RTWN_CMDQ_SIZE = IF n < RTWN_CMDQ_SIZE THEN n ELSE n - RTWN_CMDQ_SIZE
  BY Wraps
<1>4. i = n % RTWN_CMDQ_SIZE
  BY <1>2, <1>3, Bounds DEF Distance, Slots
<1> QED BY <1>1, <1>2, <1>4

LEMMA DistanceOnce ==
    ASSUME TypeOK, NEW i \in Slots, NEW j \in Slots, Distance(i) = Distance(j)
    PROVE  i = j
BY DistanceRange

\* The window in one case: the occupied slots are the first Count of them.
LEMMA WindowCount ==
    ASSUME IInv
    PROVE  /\ Count \in 0 .. RTWN_CMDQ_SIZE
           /\ \A i \in Slots : cmdq[i] # NoFunc <=> Distance(i) < Count
           /\ ~Full => Distance(cmdq_last) = Count /\ Count < RTWN_CMDQ_SIZE
           /\ Busy => Count > 0
<1>1. TypeOK
  BY DEF IInv
<1>2. RTWN_CMDQ_SIZE \in Nat \ {0}
  BY <1>1, Bounds
<1>3. \A i \in Slots : Distance(i) \in 0 .. RTWN_CMDQ_SIZE - 1
  BY <1>1, DistanceRange
<1>4. CASE Full
  BY <1>2, <1>3, <1>4 DEF Full, Count
<1>5. CASE ~Full
  <2>1. \A i \in Slots : cmdq[i] # NoFunc <=> Distance(i) < Distance(cmdq_last)
    BY <1>5 DEF IInv, Window, Full
  <2>2. Distance(cmdq_last) \in 0 .. RTWN_CMDQ_SIZE - 1 /\ Count = Distance(cmdq_last)
    BY <1>1, <1>3, <1>5, Bounds DEF Count
  <2>3. ASSUME Busy PROVE Count > 0
    <3>1. item \in Slots /\ cmdq[item] # NoFunc
      BY <1>1, <2>3, Bounds DEF IInv, ItemHeld
    <3> QED BY <1>2, <1>3, <2>1, <2>2, <3>1
  <2> QED BY <1>2, <1>5, <2>1, <2>2, <2>3
<1> QED BY <1>4, <1>5

LEMMA OccupiedCount ==
    ASSUME IInv
    PROVE  IsFiniteSet(Occupied) /\ Cardinality(Occupied) = Count
<1> DEFINE S == 0 .. Count - 1
           F == [d \in S |-> (Oldest + d) % RTWN_CMDQ_SIZE]
<1>1. TypeOK /\ RTWN_CMDQ_SIZE \in Nat \ {0} /\ Count \in 0 .. RTWN_CMDQ_SIZE
  BY WindowCount, Bounds DEF IInv
<1>2. \A d \in S : d \in 0 .. RTWN_CMDQ_SIZE - 1 /\ d < Count
  BY <1>1
<1>3. \A d \in S : F[d] \in Slots /\ Distance(F[d]) = d
  BY <1>1, <1>2, Around
<1>4. \A d \in S : F[d] \in Occupied
  BY <1>2, <1>3, WindowCount DEF Occupied
<1>5. \A i \in Occupied : Distance(i) \in S /\ F[Distance(i)] = i
  <2>1. \A i \in Occupied : i \in Slots /\ Distance(i) < Count
    BY WindowCount DEF Occupied
  <2> QED BY <1>1, <2>1, DistanceRange
<1>6. F \in Bijection(S, Occupied)
  <2>1. F \in [S -> Occupied]
    BY <1>4
  <2>2. \A a, b \in S : F[a] = F[b] => a = b
    BY <1>3
  <2>3. \A i \in Occupied : \E d \in S : F[d] = i
    BY <1>5
  <2> QED BY <2>1, <2>2, <2>3, Fun_IsBij
<1>7. IsFiniteSet(S) /\ Cardinality(S) = Count
  BY <1>1, FS_Interval
<1> HIDE DEF S
<1>8. ExistsBijection(S, Occupied)
  BY <1>6 DEF ExistsBijection
<1> QED BY <1>7, <1>8, FS_Bijection

-----------------------------------------------------------------------------
(* The fifo is the window without the slot of the command being run. *)

LEMMA Waits ==
    ASSUME IInv
    PROVE  /\ Waiting \in 0 .. RTWN_CMDQ_SIZE /\ Held \in {0, 1} /\ Count = Waiting + Held
           /\ cmdq_first = (Oldest + Held) % RTWN_CMDQ_SIZE
<1>1. TypeOK /\ RTWN_CMDQ_SIZE \in Nat \ {0} /\ Count \in 0 .. RTWN_CMDQ_SIZE
      /\ (Busy => Count > 0)
  BY WindowCount, Bounds DEF IInv
<1>2. Waiting = Count - Held
  BY OccupiedCount DEF Waiting, Held
<1>3. Waiting \in 0 .. RTWN_CMDQ_SIZE /\ Held \in {0, 1} /\ Count = Waiting + Held
  BY <1>1, <1>2 DEF Held
<1>4. CASE Busy
  BY <1>3, <1>4 DEF IInv, Oldest, Held, Advance
<1>5. CASE ~Busy
  <2>1. Oldest = cmdq_first /\ Held = 0
    BY <1>5 DEF Oldest, Held
  <2>2. cmdq_first \in 0 .. RTWN_CMDQ_SIZE - 1
    BY <1>1, Bounds
  <2>3. PICK i \in 0 .. 2 * RTWN_CMDQ_SIZE - 1 : i = cmdq_first
    BY <1>1, <2>2
  <2>4. i % RTWN_CMDQ_SIZE = IF i < RTWN_CMDQ_SIZE THEN i ELSE i - RTWN_CMDQ_SIZE
    BY Wraps
  <2>5. cmdq_first + 0 = cmdq_first
    BY <2>2
  <2> QED BY <1>1, <1>3, <2>1, <2>2, <2>3, <2>4, <2>5
<1> QED BY <1>3, <1>4, <1>5

\* The k-th slot from cmdq_first is the one k - 1 behind it.
LEMMA SlotDistance ==
    ASSUME IInv, NEW k \in 1 .. RTWN_CMDQ_SIZE - Held
    PROVE  Slot(k) \in Slots /\ Distance(Slot(k)) = k - 1 + Held
<1>1. TypeOK /\ RTWN_CMDQ_SIZE \in Nat \ {0} /\ Held \in {0, 1}
  BY Bounds, Waits DEF IInv
<1>2. PICK d \in 0 .. RTWN_CMDQ_SIZE - 1 : d = k - 1 + Held
  BY <1>1
<1>3. PICK i \in 0 .. 2 * RTWN_CMDQ_SIZE - 1 : i = cmdq_first + k - 1
  BY <1>1, Bounds
<1>4. PICK j \in 0 .. 2 * RTWN_CMDQ_SIZE - 1 : j = Oldest + d
  BY <1>1, Bounds
<1>5. PICK h \in 0 .. 2 * RTWN_CMDQ_SIZE - 1 : h = Oldest + Held
  BY <1>1, Bounds
<1>6. /\ i % RTWN_CMDQ_SIZE = IF i < RTWN_CMDQ_SIZE THEN i ELSE i - RTWN_CMDQ_SIZE
      /\ j % RTWN_CMDQ_SIZE = IF j < RTWN_CMDQ_SIZE THEN j ELSE j - RTWN_CMDQ_SIZE
      /\ h % RTWN_CMDQ_SIZE = IF h < RTWN_CMDQ_SIZE THEN h ELSE h - RTWN_CMDQ_SIZE
  BY Wraps
<1>7. Oldest \in 0 .. RTWN_CMDQ_SIZE - 1 /\ cmdq_first \in 0 .. RTWN_CMDQ_SIZE - 1
  BY <1>1, Bounds
<1>8. cmdq_first = IF h < RTWN_CMDQ_SIZE THEN h ELSE h - RTWN_CMDQ_SIZE
  BY <1>1, <1>5, <1>6, <1>7, Waits
<1>9. i % RTWN_CMDQ_SIZE = j % RTWN_CMDQ_SIZE
  BY <1>1, <1>2, <1>3, <1>4, <1>5, <1>6, <1>7, <1>8
<1>10. Slot(k) = (Oldest + d) % RTWN_CMDQ_SIZE
  BY <1>3, <1>4, <1>9 DEF Slot
<1> QED BY <1>1, <1>2, <1>10, Around

LEMMA QueuedSeq ==
    ASSUME IInv
    PROVE  /\ Queued \in Seq(Cmds) /\ Len(Queued) = Waiting
           /\ \A k \in 1 .. Waiting : /\ Queued[k] = cmdq[Slot(k)] /\ Slot(k) \in Slots
                                     /\ Distance(Slot(k)) = k - 1 + Held
<1>1. TypeOK /\ RTWN_CMDQ_SIZE \in Nat \ {0} /\ Count \in 0 .. RTWN_CMDQ_SIZE
  BY WindowCount, Bounds DEF IInv
<1>2. Waiting \in Nat /\ Held \in {0, 1} /\ Count = Waiting + Held
  BY Waits
<1>3. ASSUME NEW k \in 1 .. Waiting
      PROVE  /\ Queued[k] = cmdq[Slot(k)] /\ Slot(k) \in Slots
             /\ Distance(Slot(k)) = k - 1 + Held
  <2>1. k \in 1 .. RTWN_CMDQ_SIZE - Held
    BY <1>1, <1>2
  <2> QED BY <2>1, SlotDistance DEF Queued, Slot
<1>4. ASSUME NEW k \in 1 .. Waiting PROVE Queued[k] \in Cmds
  <2>1. Distance(Slot(k)) < Count
    BY <1>2, <1>3
  <2>2. cmdq[Slot(k)] # NoFunc
    BY <1>3, <2>1, WindowCount
  <2> QED BY <1>1, <1>3, <2>2 DEF TypeOK
<1>5. Queued \in [1 .. Waiting -> Cmds]
  BY <1>4 DEF Queued
<1> QED BY <1>2, <1>3, <1>5

-----------------------------------------------------------------------------
(* The steps that move the window. *)

\* A command that finds its slot free goes to the end of the fifo.
LEMMA AcceptIsEnqueue ==
    ASSUME IInv, NEW t \in Threads, NEW c \in Cmds, Accept(t, c)
    PROVE  Fifo!Enqueue(c)
<1>1. TypeOK /\ RTWN_CMDQ_SIZE \in Nat \ {0} /\ cmdq_last \in Slots /\ ~Full
  BY Bounds DEF IInv, Accept, Full
<1>2. /\ Count < RTWN_CMDQ_SIZE /\ Distance(cmdq_last) = Count
      /\ Waiting \in Nat /\ Held \in {0, 1} /\ Count = Waiting + Held
  BY <1>1, WindowCount, Waits
<1>3. Held' = Held /\ \A k : Slot(k)' = Slot(k)
  BY DEF Accept, life, Held, Busy, Slot
<1>4. Waiting' = Waiting + 1
  <2>1. Occupied' = Occupied \union {cmdq_last} /\ cmdq_last \notin Occupied
    BY <1>1, NoFuncAssumption DEF Accept, Occupied, TypeOK
  <2>2. Cardinality(Occupied') = Cardinality(Occupied) + 1
    BY <2>1, OccupiedCount, FS_AddElement
  <2>3. Cardinality(Occupied) = Count /\ Cardinality(Occupied)' = Cardinality(Occupied')
    BY OccupiedCount
  <2>4. Waiting = Cardinality(Occupied) - Held /\ Waiting' = Cardinality(Occupied') - Held'
    BY DEF Waiting, Held
  <2> QED BY <1>2, <1>3, <2>2, <2>3, <2>4
<1>5. Slot(Waiting + 1) = cmdq_last
  <2>1. Waiting + 1 \in 1 .. RTWN_CMDQ_SIZE - Held
    BY <1>1, <1>2
  <2>2. Distance(Slot(Waiting + 1)) = Distance(cmdq_last) /\ Slot(Waiting + 1) \in Slots
    BY <1>2, <2>1, SlotDistance
  <2> QED BY <1>1, <2>2, DistanceOnce
<1>6. Queued' = Append(Queued, c)
  <2>1. Queued \in Seq(Cmds) /\ Len(Queued) = Waiting
    BY QueuedSeq
  <2>2. /\ Append(Queued, c) \in [1 .. Waiting + 1 -> Cmds]
        /\ \A k \in 1 .. Waiting : Append(Queued, c)[k] = Queued[k]
        /\ Append(Queued, c)[Waiting + 1] = c
    <3>1. /\ Append(Queued, c) \in Seq(Cmds) /\ Len(Append(Queued, c)) = Len(Queued) + 1
          /\ \A k \in 1 .. Len(Queued) : Append(Queued, c)[k] = Queued[k]
          /\ Append(Queued, c)[Len(Queued) + 1] = c
      BY <2>1, AppendProperties
    <3>2. Append(Queued, c) \in [1 .. Len(Append(Queued, c)) -> Cmds]
      BY <3>1, LenProperties
    <3> QED BY <2>1, <3>1, <3>2
  <2>3. Queued' = [k \in 1 .. Waiting + 1 |-> cmdq'[Slot(k)]]
    BY <1>4 DEF Queued, Slot, Accept
  <2>4. /\ cmdq'[cmdq_last] = c
        /\ \A i \in Slots : i # cmdq_last => cmdq'[i] = cmdq[i]
    BY <1>1 DEF Accept, TypeOK
  <2>5. ASSUME NEW k \in 1 .. Waiting + 1 PROVE cmdq'[Slot(k)] = Append(Queued, c)[k]
    <3>1. CASE k = Waiting + 1
      BY <1>5, <2>2, <2>4, <3>1
    <3>2. CASE k \in 1 .. Waiting
      <4>1. /\ Slot(k) \in Slots /\ Distance(Slot(k)) = k - 1 + Held
            /\ Queued[k] = cmdq[Slot(k)]
        BY <3>2, QueuedSeq
      <4>2. Slot(k) # cmdq_last
        BY <1>2, <3>2, <4>1
      <4>3. cmdq'[Slot(k)] = cmdq[Slot(k)]
        BY <2>4, <4>1, <4>2
      <4>4. Append(Queued, c)[k] = Queued[k]
        BY <2>2, <3>2
      <4> QED BY <4>1, <4>3, <4>4
    <3>3. k = Waiting + 1 \/ k \in 1 .. Waiting
      <4>1. Waiting \in Nat
        BY <1>2
      <4> QED BY <4>1
    <3> QED BY <3>1, <3>2, <3>3
  <2> QED BY <2>2, <2>3, <2>5
<1>7. Executed' = Executed
  <2>1. Busy => item \in Slots /\ item # cmdq_last
    BY <1>1, Bounds DEF IInv, ItemHeld, Accept
  <2> QED BY <1>1, <2>1 DEF Executed, Accept, TypeOK, Busy, life
<1>8. Len(Queued) + (IF Executed = NoFunc THEN 0 ELSE 1) < RTWN_CMDQ_SIZE
  <2>1. Executed = NoFunc <=> ~Busy
    BY DEF Executed, IInv, ItemHeld
  <2> QED BY <1>2, <2>1, QueuedSeq DEF Held
<1>9. UNCHANGED <<sc_detached, running>> /\ ~sc_detached
  BY DEF Accept, life
<1> QED BY <1>6, <1>7, <1>8, <1>9 DEF Fifo!Enqueue, Fifo!Load, Queued, Executed

\* The slot at cmdq_first holds the head of the fifo.
LEMMA PopIsBegin == ASSUME IInv, Pop PROVE Fifo!Begin
<1>1. /\ TypeOK /\ RTWN_CMDQ_SIZE \in Nat \ {0} /\ cmdq_first \in Slots /\ ~Busy /\ Busy'
      /\ cmdq[cmdq_first] # NoFunc /\ running
  BY Bounds DEF IInv, Pop, Busy, PoweredWhileRunning
<1>2. Held = 0 /\ Oldest = cmdq_first
  BY <1>1 DEF Held, Oldest
<1>3. Waiting \in Nat /\ Waiting = Count /\ Waiting > 0
  <2>1. Waiting \in Nat /\ Waiting = Count
    BY <1>2, Waits
  <2>2. Distance(cmdq_first) >= 0 /\ Distance(cmdq_first) < Count
    BY <1>1, WindowCount, DistanceRange
  <2>3. Distance(cmdq_first) \in Int
    BY <1>1, DistanceRange
  <2> QED BY <2>1, <2>2, <2>3
<1>4. Queued \in Seq(Cmds) /\ Len(Queued) = Waiting /\ Queued # <<>>
  BY <1>3, QueuedSeq, EmptySeq
<1>5. Head(Queued) = cmdq[cmdq_first]
  <2>1. 1 \in 1 .. Waiting
    BY <1>3
  <2>2. Slot(1) \in Slots /\ Distance(Slot(1)) = 0 /\ Queued[1] = cmdq[Slot(1)]
    BY <1>2, <2>1, QueuedSeq
  <2>3. Distance(cmdq_first) = 0
    BY <1>1, <1>2, Bounds DEF Distance
  <2>4. Slot(1) = cmdq_first
    BY <1>1, <2>2, <2>3, DistanceOnce
  <2>5. Head(Queued) = Queued[1]
    BY <1>4
  <2> QED BY <2>2, <2>4, <2>5
<1>6. Waiting' = Waiting - 1
  <2>1. Cardinality(Occupied)' = Cardinality(Occupied)
    BY DEF Pop, Occupied
  <2> QED BY <1>1, <1>3, <2>1, OccupiedCount DEF Waiting
<1>7. ASSUME NEW k \in 1 .. Waiting - 1 PROVE Slot(k)' = Slot(k + 1)
  <2>1. PICK i \in 0 .. 2 * RTWN_CMDQ_SIZE - 1 : i = cmdq_first + k
    BY <1>1, <1>2, <1>3, Bounds, Waits
  <2>2. cmdq_first' = IF cmdq_first = RTWN_CMDQ_SIZE - 1 THEN 0 ELSE cmdq_first + 1
    BY <1>1, AdvanceWraps DEF Pop
  <2>3. PICK j \in 0 .. 2 * RTWN_CMDQ_SIZE - 1 : j = cmdq_first' + k - 1
    BY <1>1, <1>2, <1>3, <2>2, Bounds, Waits
  <2>4. /\ i % RTWN_CMDQ_SIZE = IF i < RTWN_CMDQ_SIZE THEN i ELSE i - RTWN_CMDQ_SIZE
        /\ j % RTWN_CMDQ_SIZE = IF j < RTWN_CMDQ_SIZE THEN j ELSE j - RTWN_CMDQ_SIZE
    BY Wraps
  <2>5. k < RTWN_CMDQ_SIZE /\ k >= 1 /\ k \in Int
    BY <1>1, <1>2, <1>3, Waits
  <2>6. cmdq_first \in 0 .. RTWN_CMDQ_SIZE - 1
    BY <1>1, Bounds
  <2>7. i % RTWN_CMDQ_SIZE = j % RTWN_CMDQ_SIZE
    BY <1>1, <2>1, <2>2, <2>3, <2>4, <2>5, <2>6
  <2>8. cmdq_first + (k + 1) - 1 = i
    BY <2>1, <2>5, <2>6
  <2> QED BY <2>3, <2>7, <2>8 DEF Slot
<1>8. Queued' = Tail(Queued)
  <2>1. /\ Tail(Queued) \in [1 .. Waiting - 1 -> Cmds]
        /\ \A k \in 1 .. Waiting - 1 : Tail(Queued)[k] = Queued[k + 1]
    BY <1>4, HeadTailProperties, LenProperties
  <2>2. Queued' = [k \in 1 .. Waiting - 1 |-> cmdq[Slot(k)']]
    BY <1>6 DEF Queued, Slot, Pop
  <2>3. ASSUME NEW k \in 1 .. Waiting - 1 PROVE cmdq[Slot(k)'] = Queued[k + 1]
    <3>1. k + 1 \in 1 .. Waiting
      BY <1>3
    <3> QED BY <1>7, <3>1, QueuedSeq
  <2> QED BY <2>1, <2>2, <2>3
<1>9. Executed = NoFunc /\ Executed' = cmdq[cmdq_first]
  BY <1>1 DEF Executed, Pop
<1>10. UNCHANGED <<sc_detached, running>>
  BY DEF Pop, life
<1> QED BY <1>1, <1>4, <1>5, <1>8, <1>9, <1>10 DEF Fifo!Begin, Queued, Executed

\* The slot that is emptied was not part of the fifo any more.
LEMMA ClearIsEnd == ASSUME IInv, Clear PROVE Fifo!End
<1>1. /\ TypeOK /\ RTWN_CMDQ_SIZE \in Nat \ {0} /\ item \in Slots /\ Busy /\ ~Busy'
      /\ cmdq[item] # NoFunc
  BY Bounds DEF IInv, Clear, Busy, ItemHeld
<1>2. Waiting' = Waiting
  <2>1. Occupied' = Occupied \ {item} /\ item \in Occupied
    BY <1>1 DEF Clear, Occupied, TypeOK
  <2>2. Cardinality(Occupied') = Cardinality(Occupied) - 1
    BY <2>1, OccupiedCount, FS_RemoveElement
  <2>3. Waiting' = Cardinality(Occupied') - 0 /\ Waiting = Cardinality(Occupied) - 1
    BY <1>1 DEF Waiting
  <2>4. Cardinality(Occupied) \in Int
    BY OccupiedCount, WindowCount
  <2> QED BY <2>2, <2>3, <2>4
<1>3. Queued' = Queued
  <2>1. Distance(item) = 0 /\ Held = 1
    BY <1>1, Bounds DEF Distance, Oldest, Held
  <2>2. \A k \in 1 .. Waiting : Slot(k) \in Slots /\ Slot(k) # item
    <3>1. Waiting \in Nat
      BY Waits
    <3> QED BY <2>1, <3>1, QueuedSeq
  <2>3. \A k \in 1 .. Waiting : cmdq'[Slot(k)] = cmdq[Slot(k)]
    BY <1>1, <2>2 DEF Clear, TypeOK
  <2> QED BY <1>2, <2>3 DEF Queued, Slot, Clear
<1>4. Executed # NoFunc /\ Executed' = NoFunc /\ UNCHANGED <<sc_detached, running>>
  BY <1>1 DEF Executed, Clear, life
<1> QED BY <1>3, <1>4 DEF Fifo!End, Queued, Executed

\* The others leave the fifo alone; some of them are its Power and ShutDown.
LEMMA OthersKeepFifo ==
    ASSUME UNCHANGED <<ring, item>>, Busy' = Busy
    PROVE  Queued' = Queued /\ Executed' = Executed
BY DEF ring, Queued, Waiting, Occupied, Executed

-----------------------------------------------------------------------------
LEMMA InitRefines == ASSUME Init, IInv PROVE Fifo!Init
<1>1. ~Full
  BY Bounds DEF Init, Full, IInv
<1>2. Count = 0 /\ ~Busy
  <2>1. ~Busy /\ cmdq_last = 0 /\ Oldest = 0
    BY <1>1 DEF Init, Busy, Oldest
  <2> QED BY <1>1, <2>1, SizeAssumption DEF Count, Distance
<1>3. Waiting = 0 /\ Queued \in Seq(Cmds) /\ Len(Queued) = 0
  BY <1>2, Waits, QueuedSeq DEF Held
<1>4. Queued = <<>>
  BY <1>3, EmptySeq
<1> QED BY <1>2, <1>4 DEF Init, Fifo!Init, Queued

LEMMA NextRefines ==
    ASSUME IInv, IInv', [Next]_vars
    PROVE  [Fifo!Next]_(Fifo!vars)
<1>1. ASSUME NEW t \in Threads, NEW c \in Cmds, Accept(t, c) PROVE Fifo!Next
  BY <1>1, AcceptIsEnqueue DEF Fifo!Next
<1>2. CASE Pop
  BY <1>2, PopIsBegin DEF Fifo!Next
<1>3. CASE Clear
  BY <1>3, ClearIsEnd DEF Fifo!Next
<1>4. CASE ParentInit \/ ParentStop
  <2>1. Queued' = Queued /\ Executed' = Executed
    BY <1>4, OthersKeepFifo DEF ParentInit, ParentStop, Busy
  <2>2. Executed = NoFunc /\ UNCHANGED sc_detached
    BY <1>4 DEF ParentInit, ParentStop, Executed, Busy
  <2>3. running' \in BOOLEAN
    BY DEF IInv, TypeOK
  <2>4. Fifo!Power(running')
    BY <2>1, <2>2 DEF Fifo!Power, Queued, Executed
  <2> QED BY <2>3, <2>4 DEF Fifo!Next
<1>5. CASE DetachStart
  <2>1. Queued' = Queued /\ Executed' = Executed
    BY <1>5, OthersKeepFifo DEF DetachStart, sched, Busy
  <2>2. Fifo!ShutDown
    BY <1>5, <2>1 DEF DetachStart, Fifo!ShutDown, Queued, Executed
  <2> QED BY <2>2 DEF Fifo!Next
<1>6. CASE \/ \E t \in Threads : RunTask(t)
           \/ TaskBegin \/ CheckRunning \/ Return \/ TaskEnd
           \/ ParentInitFails \/ UpDown \/ DetachDrained \/ DetachEnd
           \/ UNCHANGED vars
  <2>1. UNCHANGED <<ring, item>> /\ Busy' = Busy /\ UNCHANGED <<sc_detached, running>>
    BY <1>6 DEF RunTask, TaskBegin, CheckRunning, Return, TaskEnd, ParentInitFails, UpDown,
                DetachDrained, DetachEnd, Busy, sched, life, vars, ring
  <2>2. Queued' = Queued /\ Executed' = Executed
    BY <2>1, OthersKeepFifo
  <2> QED BY <2>1, <2>2 DEF Fifo!vars, Queued, Executed
<1> QED BY <1>1, <1>2, <1>3, <1>4, <1>5, <1>6 DEF Next, TaskqueueThread, Terminated

\* rtwn_cmd_sleepable() and rtwn_cmdq_cb() are a bounded fifo: each accepted
\* command is begun once, unchanged, in the order of acceptance, one at a time,
\* with the device powered.  (The safety part of ImplementsFifo.)
THEOREM StepsImplementFifo == Spec => Fifo!Init /\ [][Fifo!Next]_(Fifo!vars)
<1>1. Init => Fifo!Init
  BY InitIInv, InitRefines
<1>2. IInv /\ IInv' /\ [Next]_vars => [Fifo!Next]_(Fifo!vars)
  BY NextRefines
<1> QED BY <1>1, <1>2, SpecIInv, PTL DEF Spec
=============================================================================
