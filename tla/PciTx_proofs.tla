---------------------------- MODULE PciTx_proofs ----------------------------
(* Proofs about PciTx, for any length and number of rings, any vaps, and any   *)
(* bounds of the software queue and of the timer.                              *)
EXTENDS PciTx, FiniteSetTheorems, FunctionTheorems, SequenceTheorems, TLAPS

\* The entries from last up to cur, and their number, without the modulus.
InWindow(q, i) == IF last[q] <= cur[q] THEN last[q] <= i /\ i < cur[q]
                                       ELSE last[q] <= i \/ i < cur[q]
Distance(q) == IF last[q] <= cur[q] THEN cur[q] - last[q]
                                    ELSE cur[q] - last[q] + TX_LIST_COUNT

Window(q) ==
    \A i \in Entries : /\ data[q][i] # NoMbuf <=> InWindow(q, i)
                       /\ own[q][i] => InWindow(q, i)

\* The count covers every entry in use, those of deleted vaps included.
Counted(q) == Distance(q) <= queued[q]

\* The bit is set from the moment the ring is full until it is reaped to the end.
FullBit(q) ==
    /\ Full(queued[q]) => q \in qfullmsk
    /\ q \in qfullmsk => Full(queued[q]) \/ (isr = "done" /\ q \in rings)

\* Who holds the lock, and what is left of the handler's local variables.
LockHeld ==
    /\ lock = "done" => isr = "done"
    /\ isr = "done" => lock # "free"
    /\ isr = "idle" => rings = {}
    /\ lock # "free" => running

Stopped ==
    ~running =>
        /\ snd = <<>> /\ qfullmsk = {}
        /\ \A q \in Queues :
              /\ queued[q] = 0 /\ cur[q] = 0 /\ last[q] = 0
              /\ \A i \in Entries : data[q][i] = NoMbuf /\ ~own[q][i]

RingInv(q) == Window(q) /\ Counted(q) /\ FullBit(q)

IInv ==
    /\ plan \in Plans
    /\ TypeOK
    /\ \A q \in Queues : RingInv(q)
    /\ NoLostCompletion
    /\ LockHeld
    /\ Stopped

-----------------------------------------------------------------------------
(* Indices. *)

LEMMA Length == ASSUME plan \in Plans PROVE TX_LIST_COUNT \in Nat \ {0, 1}
BY PlansAssumption DEF TX_LIST_COUNT

LEMMA Wraps ==
    ASSUME plan \in Plans, NEW i \in 0 .. 2 * TX_LIST_COUNT - 1
    PROVE  /\ i % TX_LIST_COUNT \in Entries
           /\ i % TX_LIST_COUNT = IF i < TX_LIST_COUNT THEN i ELSE i - TX_LIST_COUNT
<1> DEFINE N == TX_LIST_COUNT
<1>1. N \in Nat /\ N > 0 /\ i \in Nat
  BY Length
<1> HIDE DEF N
<1>2. CASE i < N
  BY <1>1, <1>2 DEF Entries, N
<1>3. CASE i >= N
  <2>1. i = N + (i - N) /\ i - N \in 0 .. N - 1
    BY <1>1, <1>3 DEF N
  <2>2. i % N = i - N
    BY <1>1, <2>1
  <2> QED BY <1>1, <1>3, <2>1, <2>2 DEF Entries, N
<1> QED BY <1>1, <1>2, <1>3

LEMMA AdvanceWraps ==
    ASSUME plan \in Plans, NEW i \in Entries
    PROVE  /\ Advance(i) \in Entries
           /\ Advance(i) = IF i = TX_LIST_COUNT - 1 THEN 0 ELSE i + 1
<1>1. TX_LIST_COUNT \in Nat \ {0, 1}
  BY Length
<1>2. PICK n \in 0 .. 2 * TX_LIST_COUNT - 1 : n = i + 1
  BY <1>1 DEF Entries
<1>3. n % TX_LIST_COUNT \in Entries
      /\ n % TX_LIST_COUNT = IF n < TX_LIST_COUNT THEN n ELSE n - TX_LIST_COUNT
  BY Wraps
<1> QED BY <1>1, <1>2, <1>3 DEF Advance, Entries

\* A ring has as many entries in use as Pending says.
LEMMA PendingIsDistance ==
    ASSUME plan \in Plans, TypeOK, NEW q \in Queues
    PROVE  Pending(q) = Distance(q) /\ Distance(q) \in 0 .. TX_LIST_COUNT - 1
<1> DEFINE N == TX_LIST_COUNT
           d == cur[q] - last[q]
<1>1. N \in Nat \ {0, 1} /\ cur[q] \in 0 .. N - 1 /\ last[q] \in 0 .. N - 1
  BY Length DEF TypeOK, Entries
<1>2. Distance(q) \in 0 .. N - 1
  BY <1>1 DEF Distance
<1>3. CASE last[q] <= cur[q]
  <2>1. d \in 0 .. N - 1 /\ Distance(q) = d
    BY <1>1, <1>3 DEF Distance
  <2>2. d % N = d
    BY <1>1, <2>1
  <2> QED BY <1>2, <2>1, <2>2 DEF Pending
<1>4. CASE ~(last[q] <= cur[q])
  <2>1. d + N \in 0 .. N - 1 /\ Distance(q) = d + N /\ d \in Int
    BY <1>1, <1>4 DEF Distance
  <2> HIDE DEF d
  <2>2. d % N = d + N
    BY <1>1, <2>1
  <2> QED BY <1>2, <2>1, <2>2 DEF Pending, d
<1> QED BY <1>3, <1>4

\* The entries in use are those that lie less than Distance after last.
LEMMA WindowEntries ==
    ASSUME plan \in Plans, TypeOK, NEW q \in Queues
    PROVE  /\ \A k \in 0 .. Distance(q) - 1 :
                 (last[q] + k) % TX_LIST_COUNT \in Entries
                 /\ InWindow(q, (last[q] + k) % TX_LIST_COUNT)
           /\ \A i \in Entries : InWindow(q, i) =>
                 \E k \in 0 .. Distance(q) - 1 : i = (last[q] + k) % TX_LIST_COUNT
<1> DEFINE N == TX_LIST_COUNT
<1>1. N \in Nat \ {0, 1} /\ cur[q] \in 0 .. N - 1 /\ last[q] \in 0 .. N - 1
  BY Length DEF TypeOK, Entries
<1>2. Distance(q) \in 0 .. N - 1
  BY PendingIsDistance
<1>3. ASSUME NEW k \in 0 .. N - 1
      PROVE  /\ (last[q] + k) % N \in Entries
             /\ (last[q] + k) % N = IF last[q] + k < N THEN last[q] + k ELSE last[q] + k - N
  <2>1. PICK i \in 0 .. 2 * N - 1 : i = last[q] + k
    BY <1>1
  <2>2. i % N \in Entries /\ i % N = IF i < N THEN i ELSE i - N
    BY Wraps
  <2> QED BY <1>1, <2>1, <2>2
<1>4. ASSUME NEW k \in 0 .. Distance(q) - 1
      PROVE  (last[q] + k) % N \in Entries /\ InWindow(q, (last[q] + k) % N)
  <2>1. k \in 0 .. N - 1
    BY <1>1, <1>2
  <2>2. /\ (last[q] + k) % N \in Entries
        /\ (last[q] + k) % N = IF last[q] + k < N THEN last[q] + k ELSE last[q] + k - N
    BY <1>3, <2>1
  <2> QED BY <1>1, <1>2, <2>1, <2>2 DEF InWindow, Distance
<1>5. ASSUME NEW i \in Entries, InWindow(q, i)
      PROVE  \E k \in 0 .. Distance(q) - 1 : i = (last[q] + k) % N
  <2>1. PICK k \in 0 .. Distance(q) - 1 : k = IF last[q] <= i THEN i - last[q] ELSE i - last[q] + N
    BY <1>1, <1>5 DEF InWindow, Distance, Entries
  <2>2. k \in 0 .. N - 1
    BY <1>1, <1>2
  <2>3. (last[q] + k) % N = IF last[q] + k < N THEN last[q] + k ELSE last[q] + k - N
    BY <1>3, <2>2
  <2>4. i = (last[q] + k) % N
    BY <1>1, <2>1, <2>2, <2>3 DEF Entries
  <2> QED BY <2>4
<1> QED BY <1>4, <1>5

-----------------------------------------------------------------------------
(* What the invariant says of the properties. *)

LEMMA IInvRing == IInv => RingSound
<1> SUFFICES ASSUME IInv PROVE RingIsWindow
  BY DEF IInv, RingSound
<1> SUFFICES ASSUME NEW q \in Queues
             PROVE  /\ Loaded(q) = {(last[q] + k) % TX_LIST_COUNT : k \in 0 .. Pending(q) - 1}
                    /\ \A i \in Entries : own[q][i] => i \in Loaded(q)
  BY DEF RingIsWindow
<1>1. plan \in Plans /\ TypeOK /\ Window(q)
  BY DEF IInv, RingInv
<1>2. Pending(q) = Distance(q)
  BY <1>1, PendingIsDistance
<1>3. \A i \in Entries : i \in Loaded(q) <=> InWindow(q, i)
  BY <1>1 DEF Loaded, Window
<1>4. Loaded(q) \subseteq Entries
  BY DEF Loaded
<1>5. Loaded(q) = {(last[q] + k) % TX_LIST_COUNT : k \in 0 .. Pending(q) - 1}
  BY <1>1, <1>2, <1>3, <1>4, WindowEntries
<1> QED BY <1>1, <1>3, <1>5 DEF Window

LEMMA LoadedCount ==
    ASSUME IInv, NEW q \in Queues
    PROVE  IsFiniteSet(Loaded(q)) /\ Cardinality(Loaded(q)) <= Distance(q)
<1> DEFINE S == 0 .. Distance(q) - 1
           F == [k \in S |-> (last[q] + k) % TX_LIST_COUNT]
<1>1. plan \in Plans /\ TypeOK
  BY DEF IInv
<1>2. Distance(q) \in Nat /\ Pending(q) = Distance(q)
  BY <1>1, PendingIsDistance, Length
<1>3. IsFiniteSet(S) /\ Cardinality(S) = Distance(q)
  BY <1>2, FS_Interval
<1>4. Loaded(q) = {(last[q] + k) % TX_LIST_COUNT : k \in S}
  BY <1>2, IInvRing DEF RingSound, RingIsWindow
<1> HIDE DEF S
<1>5. F \in Surjection(S, Loaded(q))
  BY <1>4, Fun_IsSurj
<1> QED BY <1>3, <1>5, FS_Surjection

LEMMA IInvFlow == IInv => FlowAgrees
<1> SUFFICES ASSUME IInv PROVE FlowAgrees
  OBVIOUS
<1>1. ASSUME NEW q \in Queues
      PROVE  queued[q] >= Cardinality({i \in Loaded(q) : data[q][i] # NoNode})
  <2> DEFINE L == Loaded(q)
             W == {i \in L : data[q][i] # NoNode}
  <2>1. IsFiniteSet(L) /\ Cardinality(L) <= Distance(q)
    BY LoadedCount
  <2> HIDE DEF L
  <2>2. IsFiniteSet(W) /\ Cardinality(W) <= Cardinality(L)
    BY <2>1, FS_Subset
  <2>3. Cardinality(L) \in Nat /\ Cardinality(W) \in Nat
    BY <2>1, <2>2, FS_CardinalityType
  <2>4. Distance(q) \in Int /\ queued[q] \in Int /\ Distance(q) <= queued[q]
    BY PendingIsDistance, Length DEF IInv, RingInv, Counted, TypeOK
  <2> HIDE DEF W
  <2>5. queued[q] >= Cardinality(W)
    BY <2>1, <2>2, <2>3, <2>4
  <2> QED BY <2>5 DEF W, L
<1>2. FullBitAgrees
  BY DEF IInv, RingInv, FullBit, Full, LockHeld, FullBitAgrees
<1> QED BY <1>1, <1>2 DEF FlowAgrees, QueuedCovers

LEMMA IInvStopped == IInv => StoppedIsEmpty
BY DEF IInv, Stopped, StoppedIsEmpty, Loaded

-----------------------------------------------------------------------------
LEMMA InitIInv == Init => IInv
<1> SUFFICES ASSUME Init PROVE IInv
  OBVIOUS
<1>1. plan \in Plans /\ TX_LIST_COUNT \in Nat \ {0, 1} /\ plan.vaps \subseteq Vaps
  BY Length, PlansAssumption DEF Init
<1>2. 0 \in Entries
  BY <1>1 DEF Entries
<1>3. snd \in Seq(Frames)
  BY EmptySeq DEF Init
<1>4. timer \in 0 .. TxTimeout
  BY BoundsAssumption DEF Init
<1>5. TypeOK
  <2>1. /\ data \in [Queues -> [Entries -> Vaps \union {NoNode, NoMbuf}]]
        /\ own \in [Queues -> [Entries -> BOOLEAN]]
    BY DEF Init, EmptyRing
  <2>2. cur \in [Queues -> Entries] /\ last \in [Queues -> Entries] /\ queued \in [Queues -> Int]
    BY <1>2 DEF Init, Zero
  <2> QED BY <1>1, <1>3, <1>4, <2>1, <2>2 DEF Init, TypeOK
<1>6. \A q \in Queues : RingInv(q)
  BY <1>1 DEF Init, RingInv, Window, InWindow, Counted, Distance, FullBit, Full,
              EmptyRing, Zero, Entries
<1>7. NoLostCompletion /\ LockHeld
  BY DEF Init, NoLostCompletion, LockHeld
<1>8. Stopped
  BY DEF Init, Stopped, EmptyRing, Zero
<1> QED BY <1>1, <1>5, <1>6, <1>7, <1>8 DEF IInv

\* A ring that a step does not touch.
LEMMA RingKept ==
    ASSUME IInv, NEW q \in Queues, plan' = plan,
           data'[q] = data[q], own'[q] = own[q],
           cur'[q] = cur[q], last'[q] = last[q], queued'[q] = queued[q],
           q \in qfullmsk' <=> q \in qfullmsk,
           isr = "done" /\ q \in rings => isr' = "done" /\ q \in rings'
    PROVE  RingInv(q)'
<1>1. TX_LIST_COUNT' = TX_LIST_COUNT /\ Entries' = Entries
  BY DEF TX_LIST_COUNT, Entries
<1>2. Window(q)'
  BY <1>1 DEF IInv, RingInv, Window, InWindow
<1>3. Counted(q)'
  BY <1>1 DEF IInv, RingInv, Counted, Distance
<1>4. FullBit(q)'
  BY <1>1 DEF IInv, RingInv, FullBit, Full
<1> QED BY <1>2, <1>3, <1>4 DEF RingInv

\* Types, for a step that leaves the rings alone.
LEMMA TypesKept ==
    ASSUME IInv, UNCHANGED <<plan, ringvars>>,
           vaps' \subseteq Vaps, running' \in BOOLEAN, snd' \in Seq(Frames),
           timer' \in 0 .. TxTimeout, watchdog' \in BOOLEAN,
           restart' \in {"no", "stop", "init"}, intr' \subseteq Queues,
           lock' \in {"free", "start", "done"}, isr' \in {"idle", "input", "done"},
           rings' \subseteq Queues
    PROVE  TypeOK'
BY DEF IInv, TypeOK, ringvars, Entries, TX_LIST_COUNT, Frames

\* A stop or a start of the driver's loops, while the device runs.
LEMMA HolderIInv ==
    ASSUME IInv,
           StartError \/ StartEnd \/ InterruptEnd \/ InputReturns
           \/ (\E v \in plan.vaps, q \in plan.queues : Transmit(v, q))
           \/ (\E receives \in BOOLEAN : Interrupt(receives))
    PROVE  IInv'
<1>1. plan' = plan /\ vaps' = vaps /\ running' = running /\ UNCHANGED ringvars /\ UNCHANGED dog
  BY DEF StartError, StartEnd, InterruptEnd, InputReturns, Transmit, Interrupt
<1>2. snd' \in Seq(Frames) /\ (running \/ snd' = snd)
  <2>1. snd \in Seq(Frames)
    BY DEF IInv, TypeOK
  <2>2. CASE StartError
    <3>1. running
      BY <2>2 DEF StartError, IInv, LockHeld
    <3>2. snd # <<>> /\ snd' = Tail(snd)
      BY <2>2 DEF StartError
    <3> QED BY <2>1, <3>1, <3>2, HeadTailProperties
  <2>3. ASSUME NEW v \in plan.vaps, NEW q \in plan.queues, Transmit(v, q)
        PROVE  running /\ snd' \in Seq(Frames)
    <3>1. running /\ snd' = Append(snd, [vap |-> v, q |-> q])
      BY <2>3 DEF Transmit
    <3>2. [vap |-> v, q |-> q] \in Frames
      BY PlansAssumption DEF IInv, Frames
    <3> QED BY <2>1, <3>1, <3>2, AppendProperties
  <2>4. CASE StartEnd \/ InterruptEnd \/ InputReturns \/ \E receives \in BOOLEAN : Interrupt(receives)
    BY <2>1, <2>4 DEF StartEnd, InterruptEnd, InputReturns, Interrupt
  <2> QED BY <2>2, <2>3, <2>4
<1>3. /\ lock' \in {"free", "start", "done"} /\ isr' \in {"idle", "input", "done"}
      /\ rings' \subseteq Queues /\ intr' \subseteq Queues
  BY DEF StartError, StartEnd, StartReturns, InterruptEnd, InputReturns, Transmit, Interrupt,
         IInv, TypeOK
<1>4. \A q \in Queues : isr = "done" /\ q \in rings => isr' = "done" /\ q \in rings'
  BY DEF StartError, StartEnd, StartReturns, InterruptEnd, InputReturns, Transmit, Interrupt,
         IInv, LockHeld
<1>5. TypeOK'
  BY <1>1, <1>2, <1>3, TypesKept DEF IInv, TypeOK, dog
<1>6. \A q \in Queues : RingInv(q)'
  BY <1>1, <1>4, RingKept DEF ringvars
<1>7. NoLostCompletion'
  <2>1. running => intr \union rings \subseteq intr' \union rings'
    BY DEF StartError, StartEnd, StartReturns, InterruptEnd, InputReturns, Transmit, Interrupt,
           IInv, LockHeld
  <2> QED BY <1>1, <2>1 DEF IInv, NoLostCompletion, ringvars
<1>8. LockHeld'
  BY DEF StartError, StartEnd, StartReturns, InterruptEnd, InputReturns, Transmit, Interrupt,
         IInv, LockHeld
<1>9. Stopped'
  BY <1>1, <1>2 DEF IInv, Stopped, ringvars, Entries, TX_LIST_COUNT
<1> QED BY <1>1, <1>5, <1>6, <1>7, <1>8, <1>9 DEF IInv

\* rtwn_pci_tx_start_frame() for a ring that is not full.
LEMMA PlaceRings ==
    ASSUME IInv, NEW q \in Queues, NEW v \in Vaps, Place(q, v), q \notin qfullmsk,
           UNCHANGED <<plan, isr, rings>>
    PROVE  /\ \A r \in Queues : RingInv(r)'
           /\ data' \in [Queues -> [Entries -> Vaps \union {NoNode, NoMbuf}]]
           /\ own' \in [Queues -> [Entries -> BOOLEAN]]
           /\ cur' \in [Queues -> Entries]
           /\ queued' \in [Queues -> Int]
           /\ qfullmsk' \subseteq Queues
           /\ timer' \in 0 .. TxTimeout
           /\ last' = last /\ watchdog' = watchdog /\ restart' = restart
           /\ \A r \in Queues : ~own'[r][last[r]] /\ cur'[r] # last[r] =>
                                 ~own[r][last[r]] /\ cur[r] # last[r]
<1> DEFINE N == TX_LIST_COUNT
           c == cur[q]
           l == last[q]
<1>1. /\ plan \in Plans /\ TypeOK /\ Window(q) /\ Counted(q) /\ FullBit(q)
      /\ N \in Nat \ {0, 1} /\ c \in Entries /\ l \in Entries /\ queued[q] \in Int
  BY Length DEF IInv, RingInv, TypeOK
<1>2. c \in 0 .. N - 1 /\ l \in 0 .. N - 1
  BY <1>1 DEF Entries
<1>3. Advance(c) \in Entries /\ Advance(c) = IF c = N - 1 THEN 0 ELSE c + 1
  BY <1>1, AdvanceWraps
<1>4. Distance(q) <= queued[q] /\ queued[q] < N - 1
  BY <1>1 DEF Counted, FullBit, Full
<1>5. \A r \in Queues \ {q} : RingInv(r)'
  BY <1>1, RingKept DEF Place, TypeOK
<1>6. /\ data'[q] = [data[q] EXCEPT ![c] = v] /\ own'[q] = [own[q] EXCEPT ![c] = TRUE]
      /\ cur'[q] = Advance(c) /\ last'[q] = l /\ queued'[q] = queued[q] + 1
  BY <1>1 DEF Place, TypeOK
<1>7. N' = N /\ Entries' = Entries
  BY DEF TX_LIST_COUNT, Entries
<1>8. \A i \in Entries : InWindow(q, i)' <=> InWindow(q, i) \/ i = c
  BY <1>1, <1>2, <1>3, <1>4, <1>6 DEF InWindow, Distance, Entries
<1>9. Window(q)'
  <2>1. v # NoMbuf
    BY MarksAssumption
  <2>2. /\ data[q] \in [Entries -> Vaps \union {NoNode, NoMbuf}]
        /\ own[q] \in [Entries -> BOOLEAN]
    BY <1>1 DEF TypeOK
  <2>3. \A i \in Entries : data'[q][i] = IF i = c THEN v ELSE data[q][i]
    BY <1>6, <2>2
  <2>4. \A i \in Entries : own'[q][i] => i = c \/ own[q][i]
    BY <1>6, <2>2
  <2> QED BY <1>1, <1>7, <1>8, <2>1, <2>3, <2>4 DEF Window
<1>10. Counted(q)'
  <2>1. Distance(q)' = Distance(q) + 1
    BY <1>2, <1>1, <1>3, <1>4, <1>6, <1>7 DEF Distance
  <2>2. Distance(q) \in Int
    BY <1>1, PendingIsDistance
  <2> QED BY <1>1, <1>4, <1>6, <2>1, <2>2 DEF Counted
<1>11. FullBit(q)'
  <2>1. Full(queued[q] + 1) => q \in qfullmsk'
    BY DEF Place
  <2>2. q \in qfullmsk' => Full(queued[q] + 1)
    BY DEF Place
  <2> QED BY <1>6, <1>7, <2>1, <2>2 DEF FullBit, Full
<1>12. /\ data' \in [Queues -> [Entries -> Vaps \union {NoNode, NoMbuf}]]
       /\ own' \in [Queues -> [Entries -> BOOLEAN]]
       /\ cur' \in [Queues -> Entries]
       /\ queued' \in [Queues -> Int]
       /\ qfullmsk' \subseteq Queues
  BY <1>1, <1>3 DEF Place, TypeOK
<1>13. /\ timer' \in 0 .. TxTimeout
       /\ last' = last /\ watchdog' = watchdog /\ restart' = restart
  BY BoundsAssumption DEF Place
<1>14. ASSUME NEW r \in Queues, ~own'[r][last[r]], cur'[r] # last[r]
       PROVE  ~own[r][last[r]] /\ cur[r] # last[r]
  <2>1. CASE r = q
    <3>1. own[q] \in [Entries -> BOOLEAN]
      BY <1>1 DEF TypeOK
    <3>2. \A i \in Entries : own'[q][i] = IF i = c THEN TRUE ELSE own[q][i]
      BY <1>6, <3>1
    <3> QED BY <1>1, <1>14, <2>1, <3>2
  <2>2. CASE r # q
    BY <1>1, <1>14, <2>2 DEF Place, TypeOK
  <2> QED BY <2>1, <2>2
<1>15. \A r \in Queues : RingInv(r)'
  BY <1>5, <1>9, <1>10, <1>11 DEF RingInv
<1> QED BY <1>12, <1>13, <1>14, <1>15

LEMMA RawXmitIInv ==
    ASSUME IInv, NEW v \in plan.vaps, NEW q \in plan.queues, RawXmit(v, q)
    PROVE  IInv'
<1>1. v \in Vaps /\ q \in Queues
  BY PlansAssumption DEF IInv
<1>2. /\ Place(q, v) /\ q \notin qfullmsk /\ running
      /\ UNCHANGED <<plan, vaps, running, snd, intr, lock, isr, rings>>
  BY DEF RawXmit
<1>3. /\ \A r \in Queues : RingInv(r)'
      /\ TypeOK'
  BY <1>1, <1>2, PlaceRings DEF IInv, TypeOK, Entries, TX_LIST_COUNT, Frames
<1>4. NoLostCompletion'
  BY <1>1, <1>2, PlaceRings DEF IInv, NoLostCompletion
<1>5. LockHeld' /\ Stopped'
  BY <1>2 DEF IInv, LockHeld, Stopped
<1> QED BY <1>2, <1>3, <1>4, <1>5 DEF IInv

LEMMA StartFrameIInv == ASSUME IInv, StartFrame PROVE IInv'
<1> DEFINE q == Head(snd).q
           v == Head(snd).vap
<1>1. /\ snd # <<>> /\ snd' = Tail(snd) /\ snd \in Seq(Frames) /\ qfullmsk = {}
      /\ UNCHANGED <<plan, vaps, running, intr, lock, isr, rings>> /\ running
  BY DEF StartFrame, IInv, TypeOK, LockHeld
<1>2. Head(snd) \in Frames /\ Tail(snd) \in Seq(Frames)
  BY <1>1, HeadTailProperties
<1>3. v \in Vaps /\ q \in Queues
  BY <1>2 DEF Frames
<1>4. LockHeld' /\ Stopped'
  BY <1>1 DEF IInv, LockHeld, Stopped
<1>5. CASE Place(q, v)
  <2>1. (\A r \in Queues : RingInv(r)') /\ TypeOK'
    BY <1>1, <1>2, <1>3, <1>5, PlaceRings DEF IInv, TypeOK, Entries, TX_LIST_COUNT, Frames
  <2>2. NoLostCompletion'
    BY <1>1, <1>3, <1>5, PlaceRings DEF IInv, NoLostCompletion
  <2> QED BY <1>1, <1>4, <2>1, <2>2 DEF IInv
<1>6. CASE DropUnmapped(q)
  <2>1. UNCHANGED <<ringvars, dog>>
    BY <1>6 DEF DropUnmapped
  <2>2. \A r \in Queues : RingInv(r)'
    BY <1>1, <2>1, RingKept DEF ringvars
  <2>3. TypeOK'
    BY <1>1, <1>2, <2>1, TypesKept DEF IInv, TypeOK, dog
  <2>4. NoLostCompletion'
    BY <1>1, <2>1 DEF IInv, NoLostCompletion, ringvars
  <2> QED BY <1>1, <1>4, <2>2, <2>3, <2>4 DEF IInv
<1> QED BY <1>5, <1>6 DEF StartFrame

\* The device only ever clears an OWN bit, and reports it.
LEMMA DeviceSendsIInv == ASSUME IInv, NEW q \in Queues, DeviceSends(q) PROVE IInv'
<1>1. PICK i \in Entries : own' = [own EXCEPT ![q][i] = FALSE]
  BY DEF DeviceSends
<1>2. /\ running /\ intr' = intr \union {q}
      /\ UNCHANGED <<plan, vaps, running, snd, data, cur, last, queued, qfullmsk, dog, lock,
                     isr, rings>>
  BY DEF DeviceSends
<1>3. /\ TypeOK /\ own' \in [Queues -> [Entries -> BOOLEAN]]
      /\ \A r \in Queues, j \in Entries : own'[r][j] => own[r][j]
      /\ \A r \in Queues \ {q} : own'[r] = own[r]
  BY <1>1 DEF IInv, TypeOK
<1>4. TypeOK'
  BY <1>2, <1>3 DEF TypeOK, Entries, TX_LIST_COUNT, Frames, dog
<1>5. ASSUME NEW r \in Queues PROVE RingInv(r)'
  <2>1. Window(r)'
    BY <1>2, <1>3 DEF IInv, RingInv, Window, InWindow, Entries, TX_LIST_COUNT
  <2>2. Counted(r)'
    BY <1>2 DEF IInv, RingInv, Counted, Distance, TX_LIST_COUNT
  <2>3. FullBit(r)'
    BY <1>2 DEF IInv, RingInv, FullBit, Full, TX_LIST_COUNT
  <2> QED BY <2>1, <2>2, <2>3 DEF RingInv
<1>6. NoLostCompletion'
  BY <1>2, <1>3 DEF IInv, NoLostCompletion
<1>7. LockHeld' /\ Stopped'
  BY <1>2 DEF IInv, LockHeld, Stopped
<1> QED BY <1>2, <1>4, <1>5, <1>6, <1>7 DEF IInv

\* One entry leaves the window, and is counted off unless its vap is gone.
LEMMA ReapEntryIInv == ASSUME IInv, NEW q \in Queues, ReapEntry(q) PROVE IInv'
<1> DEFINE N == TX_LIST_COUNT
           c == cur[q]
           l == last[q]
<1>1. /\ plan \in Plans /\ TypeOK /\ Window(q) /\ Counted(q) /\ FullBit(q)
      /\ N \in Nat \ {0, 1} /\ c \in Entries /\ l \in Entries /\ queued[q] \in Int
  BY Length DEF IInv, RingInv, TypeOK
<1>2. c \in 0 .. N - 1 /\ l \in 0 .. N - 1
  BY <1>1 DEF Entries
<1>3. Advance(l) \in Entries /\ Advance(l) = IF l = N - 1 THEN 0 ELSE l + 1
  BY <1>1, AdvanceWraps
<1>4. lock = "done" /\ q \in rings /\ l # c /\ ~own[q][l]
  BY DEF ReapEntry, Reaping, Finished
<1>5. UNCHANGED <<plan, vaps, running, snd, own, cur, qfullmsk, watchdog, restart, intr,
                  lock, isr, rings>>
  BY DEF ReapEntry
<1>6. /\ queued' \in [Queues -> Int] /\ (queued'[q] = queued[q] \/ queued'[q] = queued[q] - 1)
      /\ \A r \in Queues \ {q} : queued'[r] = queued[r]
  <2>1. CASE data[q][l] # NoNode
    BY <1>1, <2>1 DEF ReapEntry, TypeOK
  <2>2. CASE data[q][l] = NoNode
    BY <1>1, <2>2 DEF ReapEntry, TypeOK
  <2> QED BY <2>1, <2>2
<1>7. /\ data' \in [Queues -> [Entries -> Vaps \union {NoNode, NoMbuf}]]
      /\ last' \in [Queues -> Entries] /\ last'[q] = Advance(l)
      /\ \A i \in Entries : data'[q][i] = IF i = l THEN NoMbuf ELSE data[q][i]
      /\ \A r \in Queues \ {q} : data'[r] = data[r] /\ last'[r] = last[r]
  BY <1>1, <1>3 DEF ReapEntry, TypeOK
<1>8. timer' \in 0 .. TxTimeout
  BY BoundsAssumption DEF ReapEntry
<1>9. TypeOK'
  BY <1>1, <1>5, <1>6, <1>7, <1>8 DEF TypeOK, Entries, TX_LIST_COUNT, Frames
<1>10. N' = N /\ Entries' = Entries
  BY <1>5 DEF TX_LIST_COUNT, Entries
<1>11. \A i \in Entries : InWindow(q, i)' <=> InWindow(q, i) /\ i # l
  BY <1>1, <1>2, <1>3, <1>4, <1>5, <1>7 DEF InWindow, Entries
<1>12. Window(q)'
  BY <1>1, <1>4, <1>5, <1>7, <1>10, <1>11 DEF Window
<1>13. Counted(q)'
  <2>1. last'[q] = IF l = N - 1 THEN 0 ELSE l + 1
    BY <1>3, <1>7
  <2>2. cur'[q] = c /\ TX_LIST_COUNT' = N /\ l # c
    BY <1>4, <1>5, <1>10
  <2>3. Distance(q)' = Distance(q) - 1
    BY <1>1, <1>2, <2>1, <2>2 DEF Distance
  <2>4. Distance(q) \in Int
    BY <1>1, PendingIsDistance
  <2> QED BY <1>1, <1>6, <2>3, <2>4 DEF Counted
<1>14. FullBit(q)'
  <2>1. isr = "done"
    BY <1>4 DEF IInv, LockHeld
  <2> QED BY <1>1, <1>4, <1>5, <1>6, <1>10, <2>1 DEF FullBit, Full
<1>15. \A r \in Queues \ {q} : RingInv(r)'
  BY <1>5, <1>6, <1>7, RingKept
<1>16. NoLostCompletion'
  BY <1>4, <1>5, <1>7 DEF IInv, NoLostCompletion
<1>17. LockHeld' /\ Stopped'
  BY <1>4, <1>5 DEF IInv, LockHeld, Stopped
<1> QED BY <1>5, <1>9, <1>12, <1>13, <1>14, <1>15, <1>16, <1>17 DEF IInv, RingInv

\* The bit is right again when the ring has been reaped.
LEMMA ReapEndIInv == ASSUME IInv, NEW q \in Queues, ReapEnd(q) PROVE IInv'
<1>1. /\ lock = "done" /\ q \in rings /\ ~Finished(q) /\ rings' = rings \ {q}
      /\ UNCHANGED <<plan, vaps, running, snd, data, own, cur, last, queued, dog, intr, isr>>
  BY DEF ReapEnd, Reaping
<1>2. /\ \A r \in Queues \ {q} : r \in qfullmsk' <=> r \in qfullmsk
      /\ q \in qfullmsk' <=> q \in qfullmsk /\ Full(queued[q])
      /\ lock' \in {"start", "done"} /\ qfullmsk' \subseteq qfullmsk
  BY <1>1 DEF ReapEnd
<1>3. TypeOK'
  BY <1>1, <1>2 DEF IInv, TypeOK, Entries, TX_LIST_COUNT, Frames, dog
<1>4. \A r \in Queues \ {q} : RingInv(r)'
  BY <1>1, <1>2, RingKept
<1>5. Window(q)' /\ Counted(q)'
  BY <1>1 DEF IInv, RingInv, Window, InWindow, Counted, Distance, Entries, TX_LIST_COUNT
<1>6. FullBit(q)'
  BY <1>1, <1>2 DEF IInv, RingInv, FullBit, Full, TX_LIST_COUNT
<1>7. NoLostCompletion'
  BY <1>1 DEF IInv, NoLostCompletion, Finished
<1>8. isr = "done" /\ running
  BY <1>1 DEF IInv, LockHeld
<1>9. LockHeld' /\ Stopped'
  BY <1>1, <1>2, <1>8 DEF LockHeld, Stopped
<1> QED BY <1>1, <1>3, <1>4, <1>5, <1>6, <1>7, <1>9 DEF IInv, RingInv

\* rtwn_init(): nothing is left over that an interrupt would have to report.
LEMMA StartIInv == ASSUME IInv, Start PROVE IInv'
<1>1. /\ ~running /\ running' /\ watchdog' = TRUE /\ restart' = "no" /\ intr' = {}
      /\ UNCHANGED <<plan, vaps, snd, ringvars, timer, lock, isr, rings>>
  BY DEF Start
<1>2. TypeOK'
  <2>1. running' \in BOOLEAN
    BY DEF Start
  <2> QED BY <1>1, <2>1, TypesKept DEF IInv, TypeOK
<1>3. \A q \in Queues : RingInv(q)'
  BY <1>1, RingKept DEF ringvars
<1>4. NoLostCompletion'
  BY <1>1 DEF IInv, Stopped, NoLostCompletion, ringvars
<1>5. LockHeld' /\ Stopped'
  BY <1>1 DEF IInv, LockHeld, Stopped
<1> QED BY <1>1, <1>2, <1>3, <1>4, <1>5 DEF IInv

LEMMA StopIInv == ASSUME IInv, Stop PROVE IInv'
<1>1. /\ lock = "free" /\ running' = FALSE /\ watchdog' = FALSE /\ timer' = 0 /\ snd' = <<>>
      /\ restart' \in {"no", "init"} /\ qfullmsk' = {}
      /\ UNCHANGED <<plan, vaps, intr, lock, isr, rings>>
  BY DEF Stop, DrainMbufq
<1>2. TX_LIST_COUNT \in Nat \ {0, 1} /\ TX_LIST_COUNT' = TX_LIST_COUNT /\ Entries' = Entries
  BY <1>1, Length DEF IInv, TX_LIST_COUNT, Entries
<1>3. 0 \in Entries /\ 0 \in 0 .. TxTimeout
  BY <1>2, BoundsAssumption DEF Entries
<1>4. /\ data' = [q \in Queues |-> [i \in Entries |-> NoMbuf]]
      /\ own' = [q \in Queues |-> [i \in Entries |-> FALSE]]
      /\ cur' = [q \in Queues |-> 0] /\ last' = [q \in Queues |-> 0]
      /\ queued' = [q \in Queues |-> 0]
  BY DEF Stop, EmptyRing, Zero
<1>5. TypeOK'
  <2>1. snd' \in Seq(Frames)
    BY <1>1, EmptySeq
  <2>2. /\ data' \in [Queues -> [Entries -> Vaps \union {NoNode, NoMbuf}]]
        /\ own' \in [Queues -> [Entries -> BOOLEAN]]
    BY <1>4
  <2>3. cur' \in [Queues -> Entries] /\ last' \in [Queues -> Entries] /\ queued' \in [Queues -> Int]
    BY <1>3, <1>4
  <2> QED BY <1>1, <1>2, <1>3, <2>1, <2>2, <2>3 DEF IInv, TypeOK, Frames
<1>6. \A q \in Queues : RingInv(q)'
  BY <1>1, <1>2, <1>4 DEF RingInv, Window, InWindow, Counted, Distance, FullBit, Full, Entries
<1>7. NoLostCompletion' /\ Stopped'
  BY <1>1, <1>2, <1>4 DEF NoLostCompletion, Stopped
<1>8. LockHeld'
  BY <1>1 DEF IInv, LockHeld
<1> QED BY <1>1, <1>5, <1>6, <1>7, <1>8 DEF IInv

LEMMA TickIInv == ASSUME IInv, Tick PROVE IInv'
<1>1. /\ UNCHANGED <<plan, vaps, running, snd, ringvars, intr, lock, isr, rings>>
      /\ timer > 0 /\ timer' = timer - 1
      /\ watchdog' \in BOOLEAN /\ restart' \in {"no", "stop", "init"}
  BY DEF Tick, IInv, TypeOK
<1>2. timer' \in 0 .. TxTimeout
  BY <1>1, BoundsAssumption DEF IInv, TypeOK
<1>3. TypeOK'
  BY <1>1, <1>2, TypesKept DEF IInv, TypeOK
<1>4. \A q \in Queues : RingInv(q)'
  BY <1>1, RingKept DEF ringvars
<1>5. NoLostCompletion' /\ LockHeld' /\ Stopped'
  BY <1>1 DEF IInv, NoLostCompletion, LockHeld, Stopped, ringvars, Entries, TX_LIST_COUNT
<1> QED BY <1>1, <1>3, <1>4, <1>5 DEF IInv

\* Deleting a vap takes the nodes out of its entries, not the frames.
LEMMA VapIInv == ASSUME IInv, NEW v \in plan.vaps, VapDelete(v) \/ VapCreate(v) PROVE IInv'
<1>1. /\ UNCHANGED <<plan, running, snd, own, cur, last, queued, qfullmsk, dog, intr, lock,
                     isr, rings>>
      /\ vaps' \subseteq vaps \union {v} /\ v \in Vaps
  BY PlansAssumption DEF VapDelete, VapCreate, ringvars, IInv
<1>2. /\ data' \in [Queues -> [Entries -> Vaps \union {NoNode, NoMbuf}]]
      /\ \A q \in Queues, i \in Entries : data'[q][i] # NoMbuf <=> data[q][i] # NoMbuf
  <2>1. data \in [Queues -> [Entries -> Vaps \union {NoNode, NoMbuf}]] /\ v # NoMbuf
    BY <1>1, MarksAssumption DEF IInv, TypeOK
  <2>2. CASE VapCreate(v)
    BY <2>1, <2>2 DEF VapCreate, ringvars
  <2>3. CASE VapDelete(v)
    <3>1. \A q \in Queues, i \in Entries :
             data'[q][i] = IF data[q][i] = v THEN NoNode ELSE data[q][i]
      BY <2>3 DEF VapDelete
    <3>2. data' = [q \in Queues |-> [i \in Entries |->
                     IF data[q][i] = v THEN NoNode ELSE data[q][i]]]
      BY <2>3 DEF VapDelete
    <3> QED BY <2>1, <3>1, <3>2, MarksAssumption
  <2> QED BY <2>2, <2>3
<1>3. TypeOK'
  BY <1>1, <1>2 DEF IInv, TypeOK, Entries, TX_LIST_COUNT, Frames, dog
<1>4. ASSUME NEW q \in Queues PROVE RingInv(q)'
  <2>1. Window(q)'
    BY <1>1, <1>2 DEF IInv, RingInv, Window, InWindow, Entries, TX_LIST_COUNT
  <2>2. Counted(q)' /\ FullBit(q)'
    BY <1>1 DEF IInv, RingInv, Counted, Distance, FullBit, Full, TX_LIST_COUNT
  <2> QED BY <2>1, <2>2 DEF RingInv
<1>5. NoLostCompletion' /\ LockHeld'
  BY <1>1 DEF IInv, NoLostCompletion, LockHeld
<1>6. Stopped'
  BY <1>1, <1>2 DEF IInv, Stopped, Entries, TX_LIST_COUNT
<1> QED BY <1>1, <1>3, <1>4, <1>5, <1>6 DEF IInv

-----------------------------------------------------------------------------
LEMMA NextIInv == IInv /\ [Next]_vars => IInv'
<1> SUFFICES ASSUME IInv, [Next]_vars PROVE IInv'
  OBVIOUS
<1>1. ASSUME NEW v \in plan.vaps, NEW q \in plan.queues, Transmit(v, q) \/ RawXmit(v, q)
      PROVE  IInv'
  BY <1>1, HolderIInv, RawXmitIInv
<1>2. CASE StartFrame \/ StartError \/ StartEnd \/ InterruptEnd
  BY <1>2, HolderIInv, StartFrameIInv
<1>3. ASSUME NEW q \in Queues, ReapEntry(q) \/ ReapEnd(q) \/ DeviceSends(q)
      PROVE  IInv'
  BY <1>3, ReapEntryIInv, ReapEndIInv, DeviceSendsIInv
<1>4. CASE InputReturns \/ \E receives \in BOOLEAN : Interrupt(receives)
  BY <1>4, HolderIInv
<1>5. CASE Start \/ Stop \/ Tick
  BY <1>5, StartIInv, StopIInv, TickIInv
<1>6. ASSUME NEW v \in plan.vaps, VapDelete(v) \/ VapCreate(v) PROVE IInv'
  BY <1>6, VapIInv
<1>7. CASE UNCHANGED vars
  <2>1. /\ UNCHANGED <<plan, vaps, running, snd, intr, lock, isr, rings>>
        /\ UNCHANGED ringvars /\ UNCHANGED dog
    BY <1>7 DEF vars, ringvars, dog
  <2>2. \A q \in Queues : RingInv(q)'
    BY <2>1, RingKept DEF ringvars
  <2>3. TypeOK'
    BY <2>1, TypesKept DEF IInv, TypeOK, dog
  <2>4. NoLostCompletion' /\ LockHeld' /\ Stopped'
    BY <2>1 DEF IInv, NoLostCompletion, LockHeld, Stopped, ringvars, Entries, TX_LIST_COUNT
  <2> QED BY <2>1, <2>2, <2>3, <2>4 DEF IInv
<1> QED BY <1>1, <1>2, <1>3, <1>4, <1>5, <1>6, <1>7 DEF Next, LockHolder

\* Driver and device agree on the rings: the loaded entries are those from last
\* up to cur and never all of them, the device has only been given such entries,
\* and no entry it has finished with is forgotten, whatever interrupts,
\* deletions of vaps, stops and starts come in between.
THEOREM RingsSound == Spec => []RingSound
<1>1. IInv => RingSound
  BY IInvRing
<1> QED BY <1>1, InitIInv, NextIInv, PTL DEF Spec

\* The count of a ring never underflows, and whenever the lock is free the
\* flow-control bit of a ring is set exactly when the ring is full.
THEOREM FlowCorrect == Spec => []FlowAgrees
<1>1. IInv => FlowAgrees
  BY IInvFlow
<1> QED BY <1>1, InitIInv, NextIInv, PTL DEF Spec

\* A stopped device has no frame left in the software queue or in a ring.
THEOREM StopCorrect == Spec => []StoppedIsEmpty
<1>1. IInv => StoppedIsEmpty
  BY IInvStopped
<1> QED BY <1>1, InitIInv, NextIInv, PTL DEF Spec
=============================================================================
