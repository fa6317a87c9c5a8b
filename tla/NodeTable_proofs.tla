-------------------------- MODULE NodeTable_proofs --------------------------
(* Proofs about NodeTable, for any stations, id limit and queue size. *)
EXTENDS NodeTable, SequenceTheorems, TLAPS

\* The types of the table and the lock's holder, which do not depend on those
\* of the queue and of the chip.
TableTypes ==
    /\ life \in [Nodes -> {"unused", "used", "freeing"}]
    /\ id \in [Nodes -> Macids \union {Undefined}]
    /\ announcing \subseteq Nodes \X Macids
    /\ node_list \in [Macids -> Nodes \union {NoNode}]
    /\ rpt \in (Macids \X Nodes) \union {NoNode}
    /\ stale \subseteq Macids

IInv == TableTypes /\ TableAgrees /\ ReportedInUse

-----------------------------------------------------------------------------
LEMMA InitIInv == Init => IInv
BY LimitAssumption, NoneAssumption
   DEF Init, IInv, TableTypes, TableAgrees, ReportedInUse

\* A new node has no id, and no entry but old ones refers to it yet.
LEMMA NodeAllocIInv == ASSUME IInv, NEW n \in Nodes, NodeAlloc(n) PROVE IInv'
<1>1. TableTypes'
  BY DEF NodeAlloc, IInv, TableTypes
<1>2. TableAgrees'
  <2>1. \A i \in Macids \ stale : node_list[i] # n /\ id'[n] # i
    BY NoneAssumption DEF NodeAlloc, IInv, TableTypes, TableAgrees
  <2>2. id'[n] \notin stale
    BY NoneAssumption DEF NodeAlloc, IInv, TableTypes
  <2> QED BY <2>1, <2>2 DEF NodeAlloc, IInv, TableTypes, TableAgrees
<1>3. ReportedInUse'
  BY DEF NodeAlloc, IInv, TableTypes, ReportedInUse
<1> QED BY <1>1, <1>2, <1>3 DEF IInv

\* The id belonged to nobody, and an id the node had is stale from now on.
LEMMA AssignIInv == ASSUME IInv, NEW n \in Nodes, Assign(n) PROVE IInv'
<1>1. PICK i \in Free : TakeId(n, i)
  BY DEF Assign
<1>2. /\ id' = [id EXCEPT ![n] = i]
      /\ node_list' = [node_list EXCEPT ![i] = n]
      /\ announcing' = announcing \union {<<n, i>>}
      /\ stale' = stale \union ({id[n]} \ {Undefined})
  BY <1>1 DEF TakeId
<1>3. i \in Macids /\ i # RTWN_MACID_BC /\ node_list[i] = NoNode
  BY <1>1 DEF Free
<1>4. life[n] = "used" /\ life' = life /\ rpt = NoNode /\ rpt' = rpt
  BY DEF Assign, NtFree
<1>5. TableTypes'
  BY <1>2, <1>3, <1>4 DEF IInv, TableTypes
<1>6. i \notin stale /\ i # id[n]
  BY <1>3, <1>4, NoneAssumption DEF IInv, TableAgrees
<1>7. id[n] # Undefined => id[n] \in Macids /\ node_list[id[n]] = n /\ id[n] \notin stale
  BY <1>4 DEF IInv, TableTypes, TableAgrees
<1>8. \A m \in Nodes \ {n} :
         /\ id'[m] = id[m]
         /\ life[m] = "used" => id[m] # i /\ id[m] \notin stale'
  BY <1>2, <1>3, <1>6, <1>7, NoneAssumption DEF IInv, TableTypes, TableAgrees
<1>9. id'[n] = i /\ i \notin stale'
  BY <1>2, <1>6 DEF IInv, TableTypes
<1>10. TableAgrees'
  <2>1. ASSUME NEW m \in Nodes, NEW j \in Macids \ stale'
        PROVE  node_list'[j] = m <=> life'[m] = "used" /\ id'[m] = j
    <3>1. node_list'[j] = IF j = i THEN n ELSE node_list[j]
      BY <1>2 DEF IInv, TableTypes
    <3>2. j \in Macids \ stale
      BY <1>2
    <3>3. node_list[j] = m <=> life[m] = "used" /\ id[m] = j
      BY <3>2 DEF IInv, TableAgrees
    <3>4. CASE m = n
      <4>1. j # id[n]
        BY <1>2, NoneAssumption
      <4> QED BY <1>3, <1>4, <1>9, <3>1, <3>3, <3>4, <4>1
    <3>5. CASE m # n
      <4>1. j = i => node_list'[j] # m /\ ~(life'[m] = "used" /\ id'[m] = j)
        BY <1>4, <1>8, <3>1, <3>5
      <4>2. j # i => node_list'[j] = node_list[j] /\ life'[m] = life[m] /\ id'[m] = id[m]
        BY <1>4, <1>8, <3>1, <3>5
      <4> QED BY <3>3, <4>1, <4>2
    <3> QED BY <3>4, <3>5
  <2>2. ASSUME NEW j \in stale' PROVE node_list'[j] # NoNode
    <3>1. j \in Macids /\ node_list[j] # NoNode
      BY <1>2, <1>7, NoneAssumption DEF IInv, TableTypes, TableAgrees
    <3> QED BY <1>2, <3>1, NoneAssumption DEF IInv, TableTypes
  <2>3. \A m \in Nodes : life'[m] = "used" => id'[m] \notin stale'
    BY <1>4, <1>8, <1>9
  <2>4. node_list'[RTWN_MACID_BC] = NoNode
    BY <1>2, <1>3, LimitAssumption DEF IInv, TableTypes, TableAgrees
  <2> QED BY <2>1, <2>2, <2>3, <2>4 DEF TableAgrees
<1>11. ReportedInUse'
  BY <1>4 DEF ReportedInUse
<1> QED BY <1>5, <1>10, <1>11 DEF IInv

\* The entry of its present id goes with the node; nobody is using the node,
\* since the lock is free.
LEMMA NodeFreeIInv == ASSUME IInv, NEW n \in Nodes, NodeFree(n) PROVE IInv'
<1>1. /\ life' = [life EXCEPT ![n] = "freeing"]
      /\ node_list' = [i \in Macids |-> IF i = id[n] THEN NoNode ELSE node_list[i]]
      /\ UNCHANGED <<id, announcing, rpt, stale>>
      /\ life[n] = "used" /\ rpt = NoNode
  BY DEF NodeFree, GiveUp, Unreferenced, NtFree
<1>2. TableTypes'
  BY <1>1 DEF IInv, TableTypes
<1>3. TableAgrees'
  <2>1. \A m \in Nodes, i \in Macids \ stale' :
           node_list'[i] = m <=> life'[m] = "used" /\ id'[m] = i
    BY <1>1, NoneAssumption DEF IInv, TableTypes, TableAgrees
  <2>2. \A i \in stale' : node_list'[i] # NoNode
    BY <1>1 DEF IInv, TableTypes, TableAgrees
  <2>3. \A m \in Nodes : life'[m] = "used" => id'[m] \notin stale'
    BY <1>1 DEF IInv, TableTypes, TableAgrees
  <2>4. node_list'[RTWN_MACID_BC] = NoNode
    BY <1>1, LimitAssumption DEF IInv, TableAgrees
  <2> QED BY <2>1, <2>2, <2>3, <2>4 DEF TableAgrees
<1>4. ReportedInUse'
  BY <1>1 DEF ReportedInUse
<1> QED BY <1>2, <1>3, <1>4 DEF IInv

\* A node that is being freed has no entry and no handler.
LEMMA MemoryFreeIInv == ASSUME IInv, NEW n \in Nodes, MemoryFree(n) PROVE IInv'
<1>1. TableTypes'
  BY DEF MemoryFree, IInv, TableTypes
<1>2. TableAgrees'
  BY DEF MemoryFree, IInv, TableTypes, TableAgrees
<1>3. ReportedInUse'
  BY DEF MemoryFree, IInv, TableTypes, ReportedInUse
<1> QED BY <1>1, <1>2, <1>3 DEF IInv

\* What the table says of a node at the look-up: it is in use.
LEMMA ReportIInv == ASSUME IInv, NEW i \in Macids, Report(i) PROVE IInv'
<1>1. TableTypes'
  BY DEF Report, table, IInv, TableTypes
<1>2. TableAgrees'
  BY DEF Report, table, IInv, TableAgrees
<1>3. ReportedInUse'
  <2>1. rpt' = <<i, node_list[i]>> /\ life' = life /\ stale' = stale
    BY DEF Report, table
  <2>2. node_list[i] \in Nodes
    BY DEF Report, IInv, TableTypes
  <2>3. i \in stale \/ life[node_list[i]] = "used"
    BY <2>2 DEF IInv, TableAgrees
  <2> QED BY <2>1, <2>3 DEF ReportedInUse
<1> QED BY <1>1, <1>2, <1>3 DEF IInv

\* Steps that touch neither the table nor the handler.
LEMMA OtherIInv ==
    ASSUME IInv, UNCHANGED <<life, id, node_list, rpt, stale>>, announcing' \subseteq announcing
    PROVE  IInv'
BY DEF IInv, TableTypes, TableAgrees, ReportedInUse

LEMMA NextIInv == IInv /\ [Next]_vars => IInv'
<1> SUFFICES ASSUME IInv, [Next]_vars PROVE IInv'
  OBVIOUS
<1>1. ASSUME NEW n \in Nodes, NodeAlloc(n) PROVE IInv'
  BY <1>1, NodeAllocIInv
<1>2. ASSUME NEW n \in Nodes, Assign(n) PROVE IInv'
  BY <1>2, AssignIInv
<1>3. ASSUME NEW n \in Nodes, NEW i \in Macids, Announce(n, i) PROVE IInv'
  BY <1>3, OtherIInv DEF Announce
<1>4. ASSUME NEW n \in Nodes, NodeFree(n) PROVE IInv'
  BY <1>4, NodeFreeIInv
<1>5. ASSUME NEW n \in Nodes, MemoryFree(n) PROVE IInv'
  BY <1>5, MemoryFreeIInv
<1>6. ASSUME NEW i \in Macids, Report(i) PROVE IInv'
  BY <1>6, ReportIInv
<1>7. CASE ReportEnd
  BY <1>7 DEF ReportEnd, table, IInv, TableTypes, TableAgrees, ReportedInUse
<1>8. CASE Begin \/ SetMediaStatus \/ Start \/ Stop
  BY <1>8, OtherIInv DEF Begin, SetMediaStatus, Start, Stop, table
<1>9. CASE UNCHANGED vars
  BY <1>9, OtherIInv DEF vars
<1> QED BY <1>1, <1>2, <1>3, <1>4, <1>5, <1>6, <1>7, <1>8, <1>9 DEF Next

LEMMA SpecIInv == Spec => []IInv
BY InitIInv, NextIInv, PTL DEF Spec

-----------------------------------------------------------------------------
\* rtwn_newassoc() and rtwn_node_free() keep the table exact: no two stations
\* share an id, no entry outlives its node, but those that rtwn_newassoc() left
\* behind when it was called again, which are never given out again, and the
\* broadcast id stays free.
THEOREM TableCorrect == Spec => []TableAgrees
<1>1. IInv => TableAgrees
  BY DEF IInv
<1> QED BY <1>1, SpecIInv, PTL

\* A report handler, called with RTWN_NT_LOCK held, never works on a node that
\* rtwn_node_free() has given up, unless the report is for an id left behind.
THEOREM ReportsSafe == Spec => []ReportedInUse
<1>1. IInv => ReportedInUse
  BY DEF IInv
<1> QED BY <1>1, SpecIInv, PTL

-----------------------------------------------------------------------------
(* What the firmware is told: the last command for an id decides.             *)

\* The n-th command of the queue is the last one for id i.
LastFor(i, n) ==
    /\ n \in 1 .. Len(fifo) /\ fifo[n].macid = i
    /\ \A m \in 1 .. Len(fifo) : n < m => fifo[m].macid # i
NonePending(i) == \A n \in 1 .. Len(fifo) : fifo[n].macid # i
ExecutingFor(i) == executing # NoCmd /\ executing.macid = i

\* Command c is the last one for id i on its way to the firmware.
Ultimate(i, c) ==
    \/ \E n \in 1 .. Len(fifo) : LastFor(i, n) /\ c = fifo[n]
    \/ NonePending(i) /\ ExecutingFor(i) /\ c = executing

\* No command for id i is on its way.
Untouched(i) == NonePending(i) /\ ~ExecutingFor(i)

\* The chip knows, or will know, whether id i is in the table.
Informed(i) ==
    /\ \A c \in Cmds : Ultimate(i, c) => (c.valid <=> node_list[i] # NoNode)
    /\ device = "running" /\ Untouched(i) =>
          /\ fw => (i \in media <=> node_list[i] # NoNode)
          /\ node_list[i] # NoNode /\ OwnBit(i) => Bit(i) \notin no_link

\* The id that rtwn_newassoc() is about to announce is the station's, or was.
Announced ==
    /\ \A n \in Nodes, i \in Macids :
          <<n, i>> \in announcing => life[n] = "used" /\ (id[n] = i \/ i \in stale)
    /\ device = "stopped" => executing = NoCmd

Silent(i) == \A n \in Nodes : <<n, i>> \notin announcing
FwInv ==
    /\ Announced
    /\ \A i \in Macids \ unsure : Silent(i) => Informed(i)

FwIInv == TypeOK /\ TableAgrees /\ FwInv

LEMMA EnqueueUltimate ==
    ASSUME fifo \in Seq(Cmds), NEW c \in Cmds, Queue!Enqueue(c), NEW i
    PROVE  /\ fifo' \in Seq(Cmds) /\ executing' = executing
           /\ i # c.macid => /\ \A d : Ultimate(i, d)' => Ultimate(i, d)
                             /\ Untouched(i)' => Untouched(i)
           /\ i = c.macid => ~Untouched(i)' /\ \A d : Ultimate(i, d)' => d = c
<1>1. fifo' = Append(fifo, c) /\ executing' = executing
  BY DEF Queue!Enqueue
<1>2. /\ fifo' \in Seq(Cmds) /\ Len(fifo) \in Nat /\ Len(fifo') = Len(fifo) + 1
      /\ \A n \in 1 .. Len(fifo) : fifo'[n] = fifo[n]
      /\ fifo'[Len(fifo) + 1] = c
  BY <1>1, AppendProperties, LenProperties
<1>3. ASSUME i # c.macid
      PROVE  /\ NonePending(i)' => NonePending(i)
             /\ \A n : LastFor(i, n)' => n \in 1 .. Len(fifo) /\ LastFor(i, n)
  <2>1. NonePending(i)' => NonePending(i)
    BY <1>2 DEF NonePending
  <2>2. ASSUME NEW n, LastFor(i, n)' PROVE n \in 1 .. Len(fifo) /\ LastFor(i, n)
    BY <1>2, <1>3, <2>2 DEF LastFor
  <2> QED BY <2>1, <2>2
<1>4. ASSUME i = c.macid
      PROVE  /\ ~NonePending(i)'
             /\ \A n : LastFor(i, n)' => n = Len(fifo) + 1
  BY <1>2, <1>4 DEF NonePending, LastFor
<1>5. ASSUME i # c.macid, NEW d, Ultimate(i, d)' PROVE Ultimate(i, d)
  BY <1>1, <1>2, <1>3, <1>5 DEF Ultimate, ExecutingFor
<1>6. ASSUME i = c.macid, NEW d, Ultimate(i, d)' PROVE d = c
  BY <1>2, <1>4, <1>6 DEF Ultimate
<1> QED BY <1>1, <1>2, <1>3, <1>4, <1>5, <1>6 DEF Untouched, ExecutingFor

LEMMA BeginUltimate ==
    ASSUME fifo \in Seq(Cmds), Queue!Begin, NEW i
    PROVE  /\ fifo' \in Seq(Cmds) /\ executing' \in Cmds
           /\ \A d : Ultimate(i, d)' => Ultimate(i, d)
           /\ Untouched(i)' => Untouched(i)
<1>1. /\ fifo # <<>> /\ fifo' = Tail(fifo) /\ executing = NoCmd /\ executing' = Head(fifo)
  BY DEF Queue!Begin
<1>2. Len(fifo) \in Nat \ {0}
  BY <1>1, EmptySeq, LenProperties
<1>3. /\ fifo' \in Seq(Cmds) /\ Len(fifo') = Len(fifo) - 1 /\ executing' \in Cmds
      /\ \A n \in 1 .. Len(fifo') : fifo'[n] = fifo[n + 1]
      /\ executing' = fifo[1] /\ executing' # NoCmd
  BY <1>1, <1>2, HeadTailProperties, CmdsAssumption
<1>4. \A n \in 1 .. Len(fifo) : n = 1 \/ (n - 1 \in 1 .. Len(fifo') /\ fifo'[n - 1] = fifo[n])
  <2>1. ASSUME NEW n \in 1 .. Len(fifo), n # 1
        PROVE  n - 1 \in 1 .. Len(fifo') /\ fifo'[n - 1] = fifo[n]
    <3>1. n - 1 \in 1 .. Len(fifo') /\ (n - 1) + 1 = n
      BY <1>2, <1>3, <2>1
    <3>2. fifo'[n - 1] = fifo[(n - 1) + 1]
      BY <1>3, <3>1
    <3> QED BY <3>1, <3>2
  <2> QED BY <2>1
<1>5. ASSUME NEW n, LastFor(i, n)'
      PROVE  LastFor(i, n + 1) /\ n + 1 \in 1 .. Len(fifo) /\ fifo[n + 1] = fifo'[n]
  <2>1. /\ n \in 1 .. Len(fifo') /\ fifo'[n].macid = i
        /\ \A m \in 1 .. Len(fifo') : n < m => fifo'[m].macid # i
    BY <1>5 DEF LastFor
  <2>2. n + 1 \in 1 .. Len(fifo) /\ fifo[n + 1] = fifo'[n]
    BY <1>2, <1>3, <2>1
  <2>3. ASSUME NEW m \in 1 .. Len(fifo), n + 1 < m PROVE fifo[m].macid # i
    <3>1. m # 1 /\ n < m - 1
      BY <1>2, <1>3, <2>1, <2>3
    <3> QED BY <1>4, <2>1, <3>1
  <2> QED BY <2>1, <2>2, <2>3 DEF LastFor
<1>6. ASSUME NonePending(i)', executing'.macid = i
      PROVE  LastFor(i, 1) /\ 1 \in 1 .. Len(fifo)
  <2>1. ASSUME NEW m \in 1 .. Len(fifo), 1 < m PROVE fifo[m].macid # i
    <3>1. m # 1
      BY <2>1
    <3> QED BY <1>4, <1>6, <3>1 DEF NonePending
  <2>2. 1 \in 1 .. Len(fifo) /\ fifo[1].macid = i
    BY <1>2, <1>3, <1>6
  <2> QED BY <2>1, <2>2 DEF LastFor
<1>7. ASSUME NEW d, Ultimate(i, d)' PROVE Ultimate(i, d)
  <2>1. CASE \E n \in 1 .. Len(fifo') : LastFor(i, n)' /\ d = fifo'[n]
    <3>1. PICK n \in 1 .. Len(fifo') : LastFor(i, n)' /\ d = fifo'[n]
      BY <2>1
    <3>2. LastFor(i, n + 1) /\ n + 1 \in 1 .. Len(fifo) /\ fifo[n + 1] = d
      BY <1>5, <3>1
    <3> QED BY <3>2 DEF Ultimate
  <2>2. CASE NonePending(i)' /\ ExecutingFor(i)' /\ d = executing'
    BY <1>3, <1>6, <2>2 DEF Ultimate, ExecutingFor
  <2> QED BY <1>7, <2>1, <2>2 DEF Ultimate
<1>8. ASSUME Untouched(i)' PROVE Untouched(i)
  <2>1. \A n \in 1 .. Len(fifo) : fifo[n].macid # i
    BY <1>3, <1>4, <1>8 DEF Untouched, NonePending, ExecutingFor
  <2> QED BY <1>1, <2>1 DEF Untouched, NonePending, ExecutingFor
<1> QED BY <1>3, <1>7, <1>8

LEMMA SameUltimate ==
    ASSUME UNCHANGED <<fifo, executing>>, NEW i
    PROVE  /\ \A d : Ultimate(i, d)' <=> Ultimate(i, d)
           /\ Untouched(i)' <=> Untouched(i)
BY DEF Ultimate, LastFor, Untouched, NonePending, ExecutingFor

\* An id whose entry and whose commands a step leaves alone.
LEMMA InformedKept ==
    ASSUME NEW i \in Macids, Informed(i), node_list'[i] = node_list[i],
           \A c \in Cmds : Ultimate(i, c)' => Ultimate(i, c),
           Untouched(i)' => Untouched(i),
           device' = "running" => device = "running" /\ UNCHANGED chip
    PROVE  Informed(i)'
<1>1. OwnBit(i)' <=> OwnBit(i)
  BY DEF OwnBit
<1>2. Bit(i)' = Bit(i)
  BY DEF Bit
<1> QED BY <1>1, <1>2 DEF Informed, chip

\* A command is accepted for an id, or it is refused.
LEMMA NotifyInformed ==
    ASSUME TypeOK, NEW i \in Macids, NEW v \in BOOLEAN, Notify(i, v),
           UNCHANGED <<chip, device>>,
           v <=> node_list'[i] # NoNode
    PROVE  /\ fifo' \in Seq(Cmds) /\ executing' = executing /\ unsure' \subseteq Macids
           /\ i \notin unsure' => Informed(i)'
           /\ \A j \in Macids \ {i} :
                 /\ j \in unsure' <=> j \in unsure
                 /\ Informed(j) /\ node_list'[j] = node_list[j] => Informed(j)'
<1>1. CASE Queue!Enqueue([macid |-> i, valid |-> v]) /\ unsure' = unsure \ {i}
  <2> DEFINE c == [macid |-> i, valid |-> v]
  <2>1. c \in Cmds /\ c.macid = i /\ c.valid = v
    BY DEF Cmds
  <2>2. fifo \in Seq(Cmds) /\ unsure \subseteq Macids
    BY DEF TypeOK
  <2> HIDE DEF c
  <2>3. Queue!Enqueue(c)
    BY <1>1 DEF c
  <2>4. fifo' \in Seq(Cmds) /\ executing' = executing
    BY <2>1, <2>2, <2>3, EnqueueUltimate
  <2>5. Informed(i)'
    BY <2>1, <2>2, <2>3, EnqueueUltimate DEF Informed
  <2>6. ASSUME NEW j \in Macids \ {i}, Informed(j), node_list'[j] = node_list[j]
        PROVE  Informed(j)'
    <3>1. /\ \A d \in Cmds : Ultimate(j, d)' => Ultimate(j, d)
          /\ Untouched(j)' => Untouched(j)
      BY <2>1, <2>2, <2>3, EnqueueUltimate
    <3> QED BY <2>6, <3>1, InformedKept
  <2> QED BY <1>1, <2>2, <2>4, <2>5, <2>6
<1>2. CASE unsure' = unsure \union {i} /\ UNCHANGED <<fifo, executing>>
  <2>1. ASSUME NEW j \in Macids \ {i}, Informed(j), node_list'[j] = node_list[j]
        PROVE  Informed(j)'
    BY <1>2, <2>1, SameUltimate, InformedKept
  <2> QED BY <1>2, <2>1 DEF TypeOK
<1> QED BY <1>1, <1>2 DEF Notify

LEMMA BitTypes ==
    \A i \in Macids : Bit(i) \in {0, 1} \X (0 .. WordBits - 1)
<1> SUFFICES ASSUME NEW i \in Macids PROVE i % WordBits \in 0 .. WordBits - 1
  BY DEF Bit
<1>1. i \in Nat /\ WordBits \in Nat /\ WordBits > 0
  BY LimitAssumption, WidthAssumption DEF Macids
<1> QED BY <1>1

LEMMA InitFw == Init => TypeOK /\ FwInv
<1> SUFFICES ASSUME Init PROVE TypeOK /\ FwInv
  OBVIOUS
<1>1. fifo = <<>> /\ Len(fifo) = 0 /\ fifo \in Seq(Cmds) /\ executing = NoCmd
  BY EmptySeq DEF Init, Queue!Init
<1>2. TypeOK
  BY <1>1 DEF Init, TypeOK, BitsAtReset
<1>3. \A i : Informed(i)
  BY <1>1 DEF Init, Informed, Ultimate, ExecutingFor
<1> QED BY <1>1, <1>2, <1>3 DEF Init, FwInv, Announced

\* Steps of the table that send no command.
LEMMA NodeAllocFw == ASSUME FwIInv, NEW n \in Nodes, NodeAlloc(n) PROVE TypeOK' /\ FwInv'
<1>1. /\ TypeOK /\ Announced /\ life[n] = "unused"
      /\ life' = [life EXCEPT ![n] = "used"] /\ id' = [id EXCEPT ![n] = Undefined]
      /\ UNCHANGED <<announcing, node_list, rpt, chip, device, fifo, executing, unsure, stale>>
  BY DEF NodeAlloc, FwIInv, FwInv
<1>2. TypeOK'
  BY <1>1 DEF TypeOK, chip
<1>3. \A i \in Macids : Silent(i)' <=> Silent(i)
  BY <1>1 DEF Silent
<1>4. \A m \in Nodes \ {n} : life'[m] = life[m] /\ id'[m] = id[m]
  BY <1>1 DEF TypeOK
<1>5. Announced'
  BY <1>1, <1>4 DEF Announced
<1>6. ASSUME NEW i \in Macids \ unsure', Silent(i)' PROVE Informed(i)'
  <2>1. Informed(i)
    BY <1>1, <1>3, <1>6 DEF FwIInv, FwInv
  <2> QED BY <1>1, <2>1, SameUltimate, InformedKept
<1> QED BY <1>2, <1>5, <1>6 DEF FwInv

LEMMA AssignFw == ASSUME FwIInv, NEW n \in Nodes, Assign(n) PROVE TypeOK' /\ FwInv'
<1>1. /\ TypeOK /\ Announced /\ life[n] = "used"
      /\ UNCHANGED <<life, rpt, chip, device, fifo, executing, unsure>>
  BY DEF Assign, FwIInv, FwInv
<1>2. PICK i \in Macids : TakeId(n, i)
  BY DEF Assign, Free
<1>3. /\ id' = [id EXCEPT ![n] = i]
      /\ node_list' = [node_list EXCEPT ![i] = n]
      /\ announcing' = announcing \union {<<n, i>>}
      /\ stale' = stale \union ({id[n]} \ {Undefined})
  BY <1>2 DEF TakeId
<1>4. TypeOK'
  BY <1>1, <1>3 DEF TypeOK, chip
<1>5. /\ \A m \in Nodes \ {n} : id'[m] = id[m]
      /\ id'[n] = i
      /\ \A j \in Macids \ {i} : node_list'[j] = node_list[j]
  BY <1>1, <1>3 DEF TypeOK
<1>6. Announced'
  <2>1. ASSUME NEW m \in Nodes, NEW j \in Macids, <<m, j>> \in announcing'
        PROVE  life'[m] = "used" /\ (id'[m] = j \/ j \in stale')
    <3>1. CASE m = n /\ j = i
      BY <1>1, <1>5, <3>1
    <3>2. CASE ~(m = n /\ j = i)
      <4>1. <<m, j>> \in announcing
        BY <1>3, <2>1, <3>2
      <4>2. life[m] = "used" /\ (id[m] = j \/ j \in stale)
        BY <1>1, <4>1 DEF Announced
      <4> QED BY <1>1, <1>3, <1>5, <4>2, NoneAssumption
    <3> QED BY <3>1, <3>2
  <2> QED BY <1>1, <2>1 DEF Announced
<1>7. ASSUME NEW j \in Macids \ unsure', Silent(j)' PROVE Informed(j)'
  <2>1. j # i
    BY <1>3, <1>7 DEF Silent
  <2>2. Informed(j)
    BY <1>1, <1>3, <1>7 DEF FwIInv, FwInv, Silent
  <2> QED BY <1>1, <1>5, <2>1, <2>2, SameUltimate, InformedKept
<1> QED BY <1>4, <1>6, <1>7 DEF FwInv

LEMMA AnnounceFw ==
    ASSUME FwIInv, NEW n \in Nodes, NEW i \in Macids, Announce(n, i)
    PROVE  TypeOK' /\ FwInv'
<1>1. /\ TypeOK /\ TableAgrees /\ Announced
      /\ <<n, i>> \in announcing /\ announcing' = announcing \ {<<n, i>>}
      /\ UNCHANGED <<life, id, node_list, rpt, chip, device, stale>>
      /\ Notify(i, TRUE)
  BY DEF Announce, FwIInv, FwInv
<1>2. node_list'[i] # NoNode
  <2>1. life[n] = "used" /\ (id[n] = i \/ i \in stale)
    BY <1>1 DEF Announced
  <2> QED BY <1>1, <2>1, NoneAssumption DEF TableAgrees
<1>3. /\ fifo' \in Seq(Cmds) /\ executing' = executing /\ unsure' \subseteq Macids
      /\ i \notin unsure' => Informed(i)'
      /\ \A j \in Macids \ {i} :
            /\ j \in unsure' <=> j \in unsure
            /\ Informed(j) /\ node_list'[j] = node_list[j] => Informed(j)'
  BY <1>1, <1>2, NotifyInformed
<1>4. TypeOK'
  BY <1>1, <1>3 DEF TypeOK, chip
<1>5. Announced'
  BY <1>1, <1>3 DEF Announced
<1>6. ASSUME NEW j \in Macids \ unsure', Silent(j)' PROVE Informed(j)'
  <2>1. CASE j = i
    BY <1>3, <1>6, <2>1
  <2>2. CASE j # i
    <3>1. Silent(j) /\ j \notin unsure
      BY <1>1, <1>3, <1>6, <2>2 DEF Silent
    <3>2. Informed(j)
      BY <3>1 DEF FwIInv, FwInv
    <3> QED BY <1>1, <1>3, <2>2, <3>2
  <2> QED BY <2>1, <2>2
<1> QED BY <1>4, <1>5, <1>6 DEF FwInv

\* A node that was never announced leaves nothing to tell.
LEMMA NodeFreeFw == ASSUME FwIInv, NEW n \in Nodes, NodeFree(n) PROVE TypeOK' /\ FwInv'
<1>1. /\ TypeOK /\ Announced /\ life[n] = "used"
      /\ \A i \in Macids : <<n, i>> \notin announcing
      /\ life' = [life EXCEPT ![n] = "freeing"]
      /\ node_list' = [i \in Macids |-> IF i = id[n] THEN NoNode ELSE node_list[i]]
      /\ UNCHANGED <<id, announcing, rpt, chip, device, stale>>
      /\ IF id[n] = Undefined THEN UNCHANGED <<fifo, executing, unsure>>
                              ELSE Notify(id[n], FALSE)
  BY DEF NodeFree, GiveUp, Unreferenced, FwIInv, FwInv
<1>2. /\ \A j \in Macids : j # id[n] => node_list'[j] = node_list[j]
      /\ \A m \in Nodes \ {n} : life'[m] = life[m]
      /\ \A j : Silent(j)' <=> Silent(j)
  BY <1>1 DEF TypeOK, Silent
<1>3. /\ life' \in [Nodes -> {"unused", "used", "freeing"}]
      /\ node_list' \in [Macids -> Nodes \union {NoNode}]
  BY <1>1 DEF TypeOK
<1>4. CASE id[n] = Undefined
  <2>1. UNCHANGED <<fifo, executing, unsure>>
    BY <1>1, <1>4
  <2>2. TypeOK' /\ Announced'
    BY <1>1, <1>2, <1>3, <2>1 DEF TypeOK, Announced, chip
  <2>3. ASSUME NEW j \in Macids \ unsure', Silent(j)' PROVE Informed(j)'
    <3>1. Informed(j) /\ node_list'[j] = node_list[j]
      BY <1>1, <1>2, <1>4, <2>1, <2>3, NoneAssumption DEF FwIInv, FwInv
    <3> QED BY <1>1, <2>1, <3>1, SameUltimate, InformedKept
  <2> QED BY <2>2, <2>3 DEF FwInv
<1>5. CASE id[n] # Undefined
  <2>1. PICK i \in Macids : i = id[n]
    BY <1>1, <1>5 DEF TypeOK
  <2>2. node_list'[i] = NoNode
    BY <1>1, <2>1
  <2>3. /\ fifo' \in Seq(Cmds) /\ executing' = executing /\ unsure' \subseteq Macids
        /\ i \notin unsure' => Informed(i)'
        /\ \A j \in Macids \ {i} :
              /\ j \in unsure' <=> j \in unsure
              /\ Informed(j) /\ node_list'[j] = node_list[j] => Informed(j)'
    BY <1>1, <1>5, <2>1, <2>2, NotifyInformed
  <2>4. TypeOK' /\ Announced'
    BY <1>1, <1>2, <1>3, <2>3 DEF TypeOK, Announced, chip
  <2>5. ASSUME NEW j \in Macids \ unsure', Silent(j)' PROVE Informed(j)'
    <3>1. CASE j = i
      BY <2>3, <2>5, <3>1
    <3>2. CASE j # i
      <4>1. Informed(j) /\ node_list'[j] = node_list[j]
        BY <1>1, <1>2, <2>1, <2>3, <2>5, <3>2 DEF FwIInv, FwInv
      <4> QED BY <2>3, <3>2, <4>1
    <3> QED BY <3>1, <3>2
  <2> QED BY <2>4, <2>5 DEF FwInv
<1> QED BY <1>4, <1>5

LEMMA MemoryFreeFw == ASSUME FwIInv, NEW n \in Nodes, MemoryFree(n) PROVE TypeOK' /\ FwInv'
<1>1. /\ TypeOK /\ Announced /\ life[n] = "freeing"
      /\ life' = [life EXCEPT ![n] = "unused"]
      /\ UNCHANGED <<id, announcing, node_list, rpt, chip, device, fifo, executing, unsure, stale>>
  BY DEF MemoryFree, FwIInv, FwInv
<1>2. \A m \in Nodes \ {n} : life'[m] = life[m]
  BY <1>1 DEF TypeOK
<1>3. TypeOK' /\ Announced'
  BY <1>1, <1>2 DEF TypeOK, Announced, chip
<1>4. ASSUME NEW j \in Macids \ unsure', Silent(j)' PROVE Informed(j)'
  <2>1. Informed(j)
    BY <1>1, <1>4 DEF FwIInv, FwInv, Silent
  <2> QED BY <1>1, <2>1, SameUltimate, InformedKept
<1> QED BY <1>3, <1>4 DEF FwInv

\* Reports, the stop of the device and stuttering.
LEMMA OtherFw ==
    ASSUME FwIInv, (\E i \in Macids : Report(i)) \/ ReportEnd \/ Stop \/ UNCHANGED vars
    PROVE  TypeOK' /\ FwInv'
<1>1. /\ TypeOK /\ Announced /\ UNCHANGED table
      /\ UNCHANGED <<media, no_link, fifo, executing, unsure>>
      /\ fw' \in BOOLEAN
      /\ device' = "running" => device = "running" /\ UNCHANGED chip
  BY DEF Report, ReportEnd, Stop, vars, table, chip, FwIInv, FwInv, TypeOK
<1>2. rpt' \in (Macids \X Nodes) \union {NoNode} /\ device' \in {"stopped", "running"}
  BY DEF Report, ReportEnd, Stop, vars, FwIInv, TypeOK
<1>3. TypeOK'
  BY <1>1, <1>2 DEF TypeOK, table, chip
<1>4. Announced'
  BY <1>1 DEF Announced, table, Report, ReportEnd, Stop, vars
<1>5. ASSUME NEW j \in Macids \ unsure', Silent(j)' PROVE Informed(j)'
  <2>1. Informed(j)
    BY <1>1, <1>5 DEF FwIInv, FwInv, table, Silent
  <2> QED BY <1>1, <2>1, SameUltimate, InformedKept DEF table
<1> QED BY <1>3, <1>4, <1>5 DEF FwInv

LEMMA BeginFw == ASSUME FwIInv, Begin PROVE TypeOK' /\ FwInv'
<1>1. /\ TypeOK /\ Announced /\ UNCHANGED table /\ UNCHANGED <<rpt, chip, device, unsure>>
      /\ Queue!Begin /\ device = "running" /\ fifo \in Seq(Cmds)
  BY DEF Begin, Queue!Begin, FwIInv, FwInv, TypeOK
<1>2. TypeOK'
  BY <1>1, BeginUltimate DEF TypeOK, table, chip
<1>3. Announced'
  BY <1>1 DEF Announced, table
<1>4. ASSUME NEW j \in Macids \ unsure', Silent(j)' PROVE Informed(j)'
  <2>1. Informed(j)
    BY <1>1, <1>4 DEF FwIInv, FwInv, table, Silent
  <2> QED BY <1>1, <2>1, BeginUltimate, InformedKept DEF table
<1> QED BY <1>2, <1>3, <1>4 DEF FwInv

\* What can be said of an id whose registers did not fail: its bit, and what
\* the firmware takes it for.
LEMMA EnableLinkSound ==
    ASSUME NEW i \in Macids, NEW v \in BOOLEAN, NEW wrong, NEW j \in Macids,
           EnableLink(i, v, wrong), j \notin wrong, OwnBit(j)
    PROVE  IF j = i THEN v => Bit(j) \notin no_link'
                    ELSE Bit(j) \notin no_link => Bit(j) \notin no_link'
<1>1. j # i => Bit(i) # Bit(j)
  BY DEF OwnBit
<1>2. CASE LinkSet(no_link, i, v)
  BY <1>1, <1>2 DEF LinkSet
<1>3. CASE LinkSet(no_link \union Word(i), i, v) /\ wrong = SameWord(i) \ {i}
  <2>1. j # i => Bit(j) \notin Word(i)
    BY <1>3 DEF SameWord, Word, Bit
  <2> QED BY <1>1, <1>3, <2>1 DEF LinkSet
<1>4. CASE UNCHANGED no_link /\ wrong = {i}
  BY <1>4
<1> QED BY <1>2, <1>3, <1>4 DEF EnableLink

LEMMA TellSound ==
    ASSUME NEW i \in Macids, NEW v \in BOOLEAN, NEW wrong, NEW j \in Macids,
           Tell(i, v, wrong), j \notin wrong, fw
    PROVE  j \in media' <=> IF j = i THEN v ELSE j \in media
BY DEF Tell

\* The chip's variables keep their types.
LEMMA SetMediaStatusTypes ==
    ASSUME TypeOK, NEW i \in Macids, NEW v \in BOOLEAN, NEW w1, NEW w2,
           EnableLink(i, v, w1), Tell(i, v, w2)
    PROVE  /\ media' \subseteq Macids
           /\ no_link' \subseteq {0, 1} \X (0 .. WordBits - 1)
<1>1. Bit(i) \in {0, 1} \X (0 .. WordBits - 1)
  BY BitTypes
<1>2. Word(i) \subseteq {0, 1} \X (0 .. WordBits - 1)
  BY <1>1 DEF Word
<1> QED BY <1>1, <1>2 DEF EnableLink, LinkSet, Tell, TypeOK

\* The command is executed: its id is up to date unless another command follows
\* or a register failed, and a bit of another id's own is left alone.
LEMMA SetMediaStatusFw == ASSUME FwIInv, SetMediaStatus PROVE TypeOK' /\ FwInv'
<1> DEFINE e == executing
<1>1. /\ TypeOK /\ Announced /\ UNCHANGED table /\ UNCHANGED <<rpt, fw, device>>
      /\ e # NoCmd /\ e \in Cmds /\ e.macid \in Macids /\ e.valid \in BOOLEAN
      /\ fifo' = fifo /\ executing' = NoCmd
  BY DEF SetMediaStatus, Queue!End, FwIInv, FwInv, TypeOK, Cmds
<1>2. PICK wrong \in SUBSET Macids, untold \in SUBSET Macids :
         /\ EnableLink(e.macid, e.valid, wrong)
         /\ Tell(e.macid, e.valid, untold)
         /\ unsure' = unsure \union ((wrong \union untold) \ Pending)
  BY <1>1 DEF SetMediaStatus, SameWord
<1>3. TypeOK'
  <2>1. unsure' \subseteq Macids
    BY <1>1, <1>2 DEF TypeOK
  <2>2. media' \subseteq Macids /\ no_link' \subseteq {0, 1} \X (0 .. WordBits - 1)
    BY <1>1, <1>2, SetMediaStatusTypes
  <2> QED BY <1>1, <2>1, <2>2 DEF TypeOK, table
<1>4. Announced'
  BY <1>1 DEF Announced, table
<1>5. ASSUME NEW j \in Macids
      PROVE  /\ NonePending(j)' <=> NonePending(j)
             /\ \A c : Ultimate(j, c)' => Ultimate(j, c)
             /\ OwnBit(j)' <=> OwnBit(j)
             /\ Bit(j)' = Bit(j)
             /\ Silent(j)' <=> Silent(j)
             /\ NonePending(j) => j \notin Pending
  BY <1>1 DEF NonePending, LastFor, Ultimate, ExecutingFor, OwnBit, Bit, Silent, table, Pending
<1>6. ASSUME NEW j \in Macids \ unsure', Silent(j)' PROVE Informed(j)'
  <2>1. Informed(j) /\ node_list'[j] = node_list[j]
    BY <1>1, <1>2, <1>5, <1>6 DEF FwIInv, FwInv, table
  <2>2. ASSUME device' = "running", Untouched(j)'
        PROVE  /\ fw' => (j \in media' <=> node_list'[j] # NoNode)
               /\ node_list'[j] # NoNode /\ OwnBit(j)' => Bit(j)' \notin no_link'
    <3>1. NonePending(j) /\ device = "running"
      BY <1>1, <1>5, <2>2 DEF Untouched
    <3>2. j \notin wrong /\ j \notin untold
      BY <1>2, <1>5, <1>6, <3>1
    <3>3. /\ OwnBit(j) => IF j = e.macid THEN e.valid => Bit(j) \notin no_link'
                          ELSE Bit(j) \notin no_link => Bit(j) \notin no_link'
          /\ fw => (j \in media' <=> IF j = e.macid THEN e.valid ELSE j \in media)
      BY <1>1, <1>2, <3>2, EnableLinkSound, TellSound
    <3>4. CASE e.macid = j
      <4>1. Ultimate(j, e)
        BY <1>1, <3>1, <3>4 DEF Ultimate, ExecutingFor
      <4>2. e.valid <=> node_list[j] # NoNode
        BY <1>1, <2>1, <4>1 DEF Informed
      <4> QED BY <1>1, <1>5, <2>1, <3>3, <3>4, <4>2
    <3>5. CASE e.macid # j
      <4>1. Untouched(j)
        BY <3>1, <3>5 DEF Untouched, ExecutingFor
      <4>2. /\ fw => (j \in media <=> node_list[j] # NoNode)
            /\ node_list[j] # NoNode /\ OwnBit(j) => Bit(j) \notin no_link
        BY <2>1, <3>1, <4>1 DEF Informed
      <4> QED BY <1>1, <1>5, <2>1, <3>3, <3>5, <4>2
    <3> QED BY <3>4, <3>5
  <2> QED BY <1>5, <2>1, <2>2 DEF Informed
<1> QED BY <1>3, <1>4, <1>6 DEF FwInv

\* rtwn_init(): the chip knows no station; those in the table without a command
\* on its way are unsure from now on.
LEMMA StartFw == ASSUME FwIInv, Start PROVE TypeOK' /\ FwInv'
<1>1. /\ TypeOK /\ Announced /\ device = "stopped" /\ device' = "running" /\ executing = NoCmd
      /\ UNCHANGED table /\ UNCHANGED <<rpt, fifo, executing>>
      /\ fw' \in BOOLEAN /\ media' = {} /\ no_link' = BitsAtReset
      /\ unsure' = (InTable \ Pending) \union (unsure \intersect Pending)
  BY DEF Start, FwIInv, FwInv, Announced
<1>2. TypeOK'
  <2>1. unsure' \subseteq Macids
    BY <1>1 DEF InTable, TypeOK
  <2>2. no_link' \subseteq {0, 1} \X (0 .. WordBits - 1)
    BY <1>1 DEF BitsAtReset
  <2> QED BY <1>1, <2>1, <2>2 DEF TypeOK, table
<1>3. Announced'
  BY <1>1 DEF Announced, table
<1>4. ASSUME NEW j \in Macids \ unsure', Silent(j)' PROVE Informed(j)'
  <2>1. /\ \A c : Ultimate(j, c)' <=> Ultimate(j, c)
        /\ Untouched(j)' <=> NonePending(j)
        /\ j \in Pending <=> ~NonePending(j)
        /\ node_list'[j] = node_list[j]
    BY <1>1, SameUltimate DEF Untouched, ExecutingFor, Pending, NonePending, table
  <2>2. CASE j \in Pending
    <3>1. Informed(j)
      BY <1>1, <1>4, <2>2 DEF FwIInv, FwInv, table, Silent
    <3> QED BY <2>1, <2>2, <3>1 DEF Informed
  <2>3. CASE j \notin Pending
    <3>1. node_list[j] = NoNode
      BY <1>1, <1>4, <2>3 DEF InTable
    <3>2. \A c : ~Ultimate(j, c)
      BY <1>1, <2>1, <2>3 DEF Ultimate, LastFor, NonePending, ExecutingFor
    <3> QED BY <1>1, <2>1, <3>1, <3>2 DEF Informed
  <2> QED BY <2>2, <2>3
<1> QED BY <1>2, <1>3, <1>4 DEF FwInv

LEMMA NextFwIInv == IInv /\ FwIInv /\ [Next]_vars => TypeOK' /\ FwInv'
<1> SUFFICES ASSUME FwIInv, [Next]_vars PROVE TypeOK' /\ FwInv'
  OBVIOUS
<1>1. ASSUME NEW n \in Nodes,
             \/ NodeAlloc(n) \/ Assign(n) \/ NodeFree(n) \/ MemoryFree(n)
             \/ \E i \in Macids : Announce(n, i)
      PROVE  TypeOK' /\ FwInv'
  BY <1>1, NodeAllocFw, AssignFw, AnnounceFw, NodeFreeFw, MemoryFreeFw
<1>2. CASE (\E i \in Macids : Report(i)) \/ ReportEnd \/ Stop \/ UNCHANGED vars
  BY <1>2, OtherFw
<1>3. CASE Begin \/ SetMediaStatus \/ Start
  BY <1>3, BeginFw, SetMediaStatusFw, StartFw
<1> QED BY <1>1, <1>2, <1>3 DEF Next

LEMMA FwIInvAgrees == FwIInv => FirmwareAgrees
<1> SUFFICES ASSUME FwIInv, Quiet, NEW i \in Macids \ unsure
             PROVE  /\ fw => (i \in media <=> node_list[i] # NoNode)
                    /\ i \in InTable /\ OwnBit(i) => Bit(i) \notin no_link
  BY DEF FwIInv, FirmwareAgrees, MediaAgrees, LinkAgrees, InTable
<1>1. Informed(i)
  BY DEF FwIInv, FwInv, Quiet, Silent
<1>2. Untouched(i)
  BY EmptySeq DEF Quiet, Untouched, NonePending, ExecutingFor
<1> QED BY <1>1, <1>2 DEF Informed, Quiet, InTable

\* Once the commands have run, the firmware, if it is loaded, takes exactly the
\* ids in the table for associated, and the no-link bit of each is clear, although
\* ids are reused at once and the commands run late, over stops and starts; but
\* for the ids of lost commands and of failed registers, and for bits that two ids
\* share.
THEOREM FirmwareCorrect == Spec => []FirmwareAgrees
<1>1. Init => IInv /\ FwIInv
  BY InitIInv, InitFw DEF IInv, FwIInv
<1>2. IInv /\ FwIInv /\ [Next]_vars => (IInv /\ FwIInv)'
  <2> SUFFICES ASSUME IInv, FwIInv, [Next]_vars PROVE (IInv /\ FwIInv)'
    OBVIOUS
  <2>1. IInv' /\ TypeOK' /\ FwInv'
    BY NextIInv, NextFwIInv
  <2> QED BY <2>1 DEF IInv, FwIInv
<1> QED BY <1>1, <1>2, FwIInvAgrees, PTL DEF Spec
=============================================================================
