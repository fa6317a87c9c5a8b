--------------------------- MODULE KeyCam_proofs ---------------------------
(* Proofs about KeyCam, for any keys, slots, key material and queue size. *)
EXTENDS KeyCam, SequenceTheorems, TLAPS

\* At most one deletion of a slot is on its way.
DeletedOnce ==
    /\ \A m, n \in 1 .. Len(fifo) :
          fifo[m].func = "del" /\ fifo[n].func = "del" /\ fifo[m].slot = fifo[n].slot => m = n
    /\ executing # NoKey /\ executing.func = "del" => executing.slot \notin PendingSlots("del")

\* A refused deletion leaves nothing in the queue.
LeakedForGood == Deleting \cap leaked = {}

Ownership == SlotsReserved /\ SlotsExclusive /\ DeletedOnce /\ LeakedForGood
IInv == TypeOK /\ Ownership

\* What Ownership speaks of.
owners == <<wk_keyix, keys_bmap, fifo, executing, leaked>>

-----------------------------------------------------------------------------
(* The queue. *)

LEMMA PendingDef ==
    ASSUME NEW f, NEW s
    PROVE  s \in PendingSlots(f) <=> \E n \in 1 .. Len(fifo) : fifo[n].func = f /\ fifo[n].slot = s
BY DEF PendingSlots, Pending

\* A command that is accepted is the last one.
LEMMA Accepted ==
    ASSUME fifo \in Seq(Cmds), NEW c \in Cmds, fifo' = Append(fifo, c)
    PROVE  /\ fifo' \in Seq(Cmds) /\ Len(fifo') = Len(fifo) + 1
           /\ \A n \in 1 .. Len(fifo) : fifo'[n] = fifo[n]
           /\ fifo'[Len(fifo) + 1] = c
BY AppendProperties

\* A command that is begun was the first one.
LEMMA Begun ==
    ASSUME fifo \in Seq(Cmds), fifo # <<>>, fifo' = Tail(fifo)
    PROVE  /\ fifo' \in Seq(Cmds) /\ Len(fifo) \in Nat \ {0} /\ Len(fifo') = Len(fifo) - 1
           /\ \A n \in 1 .. Len(fifo') : fifo'[n] = fifo[n + 1]
           /\ Head(fifo) = fifo[1] /\ Head(fifo) \in Cmds
<1>1. Len(fifo) \in Nat /\ Len(fifo) # 0
  BY EmptySeq, LenProperties
<1> QED BY <1>1, HeadTailProperties

-----------------------------------------------------------------------------
(* Types. *)

LEMMA InitTypes == Init => TypeOK
BY DEF Init, Queue!Init, TypeOK, Invalid, Cmds

LEMMA QueueTypes ==
    ASSUME TypeOK
    PROVE  /\ \A c \in Cmds : Queue!Enqueue(c) => fifo' \in Seq(Cmds) /\ executing' = executing
           /\ Queue!Begin => fifo' \in Seq(Cmds) /\ executing' \in Cmds
           /\ Queue!End => fifo' = fifo /\ executing' = NoKey
<1>1. ASSUME NEW c \in Cmds, Queue!Enqueue(c) PROVE fifo' \in Seq(Cmds) /\ executing' = executing
  BY <1>1, Accepted DEF TypeOK, Queue!Enqueue
<1>2. ASSUME Queue!Begin PROVE fifo' \in Seq(Cmds) /\ executing' \in Cmds
  BY <1>2, Begun DEF TypeOK, Queue!Begin
<1> QED BY <1>1, <1>2 DEF Queue!End

LEMMA CallbackTypes ==
    ASSUME TypeOK, NEW k \in Keys,
           \/ AllocGroup(k) \/ AllocPair(k) \/ (\E v \in Values : Set(k, v))
           \/ Delete(k) \/ DeleteSoftware(k),
           sc_hwcrypto' = sc_hwcrypto
    PROVE  TypeOK'
<1>1. CASE AllocGroup(k)
  <2>1. Wepidx[k] \in Slots
    BY <1>1, WepidxAssumption DEF AllocGroup, Slots
  <2>2. wk_keyix' \in [Keys -> Slots \union {NoSlot, Software}] /\ keys_bmap' \subseteq Slots
    BY <1>1, <2>1 DEF AllocGroup, TypeOK
  <2> QED BY <1>1, <2>2 DEF AllocGroup, TypeOK, history
<1>2. CASE AllocPair(k)
  BY <1>2 DEF AllocPair, TypeOK, FreeSlots, net80211, driver, history
<1>3. CASE \E v \in Values : Set(k, v)
  <2>1. PICK v \in Values : Set(k, v)
    BY <1>3
  <2>2. wk_keyix[k] \in Slots
    BY <2>1 DEF Set, HasSlot
  <2>3. [func |-> "set", key |-> k, slot |-> wk_keyix[k], value |-> v] \in Cmds
    BY <2>2 DEF Cmds
  <2>4. fifo' \in Seq(Cmds) /\ executing' \in Cmds \union {NoKey}
    BY <2>1, <2>3, QueueTypes DEF Set, Send, TypeOK
  <2>5. stale' \subseteq Slots
    BY <2>1, <2>2 DEF Set, Starting, TypeOK
  <2> QED BY <2>1, <2>2, <2>4, <2>5 DEF Set, TypeOK
<1>4. CASE Delete(k)
  <2>2. wk_keyix[k] \in Slots
    BY <1>4 DEF Delete, HasSlot
  <2>3. [func |-> "del", key |-> k, slot |-> wk_keyix[k], value |-> NoKey] \in Cmds
    BY <2>2 DEF Cmds
  <2>4. fifo' \in Seq(Cmds) /\ executing' \in Cmds \union {NoKey}
    BY <1>4, <2>3, QueueTypes DEF Delete, Send, TypeOK
  <2>5. stale' \subseteq Slots /\ leaked' \subseteq Slots /\ keys_bmap' \subseteq Slots
    BY <1>4, <2>2 DEF Delete, Starting, TypeOK
  <2> QED BY <1>4, <2>2, <2>4, <2>5 DEF Delete, TypeOK
<1>5. CASE DeleteSoftware(k)
  BY <1>5 DEF DeleteSoftware, TypeOK, driver, history
<1> QED BY <1>1, <1>2, <1>3, <1>4, <1>5

\* A command has a slot of the CAM, so whatever it writes is an entry.
LEMMA CommandTypes ==
    ASSUME TypeOK, Begin \/ SetKey \/ SetCtl \/ DelCtl \/ DelKey \/ WriteFails,
           sc_hwcrypto' = sc_hwcrypto
    PROVE  TypeOK'
<1>1. CASE Begin
  BY <1>1, QueueTypes DEF Begin, TypeOK, net80211, driver, history
<1>2. CASE executing # NoKey /\ (SetKey \/ SetCtl \/ DelCtl \/ DelKey \/ WriteFails)
  <2>1. /\ executing.key \in Keys /\ executing.slot \in Slots
        /\ executing.value \in Values \union {NoKey}
    BY <1>2 DEF TypeOK, Cmds
  <2>2. fifo' \in Seq(Cmds) /\ executing' \in Cmds \union {NoKey}
    BY <1>2, QueueTypes DEF SetKey, SetCtl, DelCtl, DelKey, WriteFails, TypeOK
  <2>3. /\ cam' \in [Slots -> [valid : BOOLEAN, owner : Keys \union {NoKey},
                               value : Values \union {NoKey}]]
        /\ step' \in {0, 1}
    <3>1. CASE SetKey
      BY <2>1, <3>1 DEF SetKey, TypeOK
    <3>2. CASE SetCtl
      BY <2>1, <3>2 DEF SetCtl, TypeOK
    <3>3. CASE DelCtl
      BY <2>1, <3>3 DEF DelCtl, TypeOK
    <3>4. CASE DelKey
      BY <2>1, <3>4 DEF DelKey, TypeOK
    <3>5. CASE WriteFails
      BY <2>1, <3>5 DEF WriteFails, TypeOK
    <3> QED BY <1>2, <3>1, <3>2, <3>3, <3>4, <3>5
  <2>4. keys_bmap' \subseteq Slots /\ stale' \subseteq Slots
    BY <1>2, <2>1 DEF SetKey, SetCtl, DelCtl, DelKey, WriteFails, TypeOK, driver, history
  <2> QED BY <1>2, <2>2, <2>3, <2>4
          DEF SetKey, SetCtl, DelCtl, DelKey, WriteFails, TypeOK, net80211, driver, history
<1> QED BY <1>1, <1>2 DEF SetKey, SetCtl, DelCtl, DelKey, WriteFails, Doing

LEMMA DeviceTypes ==
    ASSUME TypeOK, InitCam \/ InitDone \/ InitFails \/ Stop, sc_hwcrypto' = sc_hwcrypto
    PROVE  TypeOK'
<1>1. CASE InitCam
  <2>1. \A n \in 1 .. Len(fifo) : fifo[n].slot \in Slots
    <3>1. \A n \in 1 .. Len(fifo) : fifo[n] \in Cmds
      BY ElementOfSeq DEF TypeOK
    <3> QED BY <3>1 DEF Cmds
  <2>2. stale' \subseteq Slots
    BY <1>1, <2>1 DEF InitCam, PendingSlots, Pending
  <2>3. \A k \in keys : k \in Keys /\ wk_key[k] \in Values \union {NoKey}
    BY DEF TypeOK, Keys
  <2>4. \A i \in Slots : StaticEntry(i) # {} =>
           (CHOOSE k \in StaticEntry(i) : TRUE) \in keys
    BY DEF StaticEntry
  <2>5. cam' \in [Slots -> [valid : BOOLEAN, owner : Keys \union {NoKey},
                           value : Values \union {NoKey}]]
    BY <1>1, <2>3, <2>4 DEF InitCam, Invalid
  <2> QED BY <1>1, <2>2, <2>5 DEF InitCam, TypeOK, net80211, driver
<1>2. CASE InitDone \/ InitFails \/ Stop
  BY <1>2 DEF InitDone, InitFails, Stop, TypeOK, net80211, driver, history
<1> QED BY <1>1, <1>2

-----------------------------------------------------------------------------
(* The deletions under way, over the steps of the queue. *)

LEMMA DeletingDef ==
    ASSUME NEW s
    PROVE  /\ s \in Deleting <=>
                \/ \E n \in 1 .. Len(fifo) : fifo[n].func = "del" /\ fifo[n].slot = s
                \/ executing # NoKey /\ executing.func = "del" /\ executing.slot = s
           /\ s \in Deleting' <=>
                \/ \E n \in 1 .. Len(fifo') : fifo'[n].func = "del" /\ fifo'[n].slot = s
                \/ executing' # NoKey /\ executing'.func = "del" /\ executing'.slot = s
BY DEF Deleting, PendingSlots, Pending

\* DeletedOnce after a step, with its sets expanded.
LEMMA DeletedOnceDef ==
    DeletedOnce' <=>
        /\ \A m, n \in 1 .. Len(fifo') :
              fifo'[m].func = "del" /\ fifo'[n].func = "del" /\ fifo'[m].slot = fifo'[n].slot
                => m = n
        /\ executing' # NoKey /\ executing'.func = "del" =>
              \A n \in 1 .. Len(fifo') :
                 ~(fifo'[n].func = "del" /\ fifo'[n].slot = executing'.slot)
BY DEF DeletedOnce, PendingSlots, Pending

LEMMA EnqueueSet ==
    ASSUME TypeOK, DeletedOnce, NEW c \in Cmds, c.func = "set", Queue!Enqueue(c)
    PROVE  Deleting' = Deleting /\ DeletedOnce'
<1>1. /\ fifo \in Seq(Cmds) /\ fifo' = Append(fifo, c) /\ executing' = executing
  BY DEF TypeOK, Queue!Enqueue
<1>2. Len(fifo) \in Nat
  BY <1>1, LenProperties
<1>3. ASSUME NEW s PROVE s \in Deleting' <=> s \in Deleting
  BY <1>1, <1>2, Accepted, DeletingDef
<1>4. DeletedOnce'
  BY <1>1, <1>2, Accepted, DeletedOnceDef, PendingDef DEF DeletedOnce
<1> QED BY <1>3, <1>4

LEMMA EnqueueDel ==
    ASSUME TypeOK, DeletedOnce, NEW c \in Cmds, c.func = "del", c.slot \notin Deleting,
           Queue!Enqueue(c)
    PROVE  Deleting' = Deleting \union {c.slot} /\ DeletedOnce'
<1>1. /\ fifo \in Seq(Cmds) /\ fifo' = Append(fifo, c) /\ executing' = executing
  BY DEF TypeOK, Queue!Enqueue
<1>2. Len(fifo) \in Nat
  BY <1>1, LenProperties
<1>3. ASSUME NEW s PROVE s \in Deleting' <=> s \in Deleting \/ s = c.slot
  BY <1>1, <1>2, Accepted, DeletingDef
<1>4. DeletedOnce'
  BY <1>1, <1>2, Accepted, DeletingDef, DeletedOnceDef, PendingDef DEF DeletedOnce
<1> QED BY <1>3, <1>4

LEMMA BeginKeeps ==
    ASSUME TypeOK, DeletedOnce, Queue!Begin
    PROVE  Deleting' = Deleting /\ DeletedOnce'
<1>1. /\ fifo \in Seq(Cmds) /\ fifo # <<>> /\ fifo' = Tail(fifo)
      /\ executing = NoKey /\ executing' = Head(fifo)
  BY DEF TypeOK, Queue!Begin
<1>2. Len(fifo) \in Nat \ {0} /\ Len(fifo') = Len(fifo) - 1
      /\ executing' = fifo[1] /\ executing' # NoKey
      /\ \A n \in 1 .. Len(fifo') : fifo'[n] = fifo[n + 1]
  BY <1>1, Begun, CmdsAssumption
<1>3. \A n \in 1 .. Len(fifo) : n = 1 \/ (n - 1 \in 1 .. Len(fifo') /\ fifo'[n - 1] = fifo[n])
  <2>1. Len(fifo) \in Nat /\ Len(fifo') = Len(fifo) - 1
    BY <1>2
  <2>2. ASSUME NEW n \in 1 .. Len(fifo), n # 1
        PROVE  n - 1 \in 1 .. Len(fifo') /\ fifo'[n - 1] = fifo[n]
    <3>1. n - 1 \in 1 .. Len(fifo') /\ (n - 1) + 1 = n
      BY <2>1, <2>2
    <3>2. fifo'[n - 1] = fifo[(n - 1) + 1]
      BY <1>2, <3>1
    <3> QED BY <3>1, <3>2
  <2> QED BY <2>2
<1>4. ASSUME NEW s PROVE s \in Deleting' <=> s \in Deleting
  <2>1. ASSUME s \in Deleting' PROVE s \in Deleting
    <3>1. CASE \E n \in 1 .. Len(fifo') : fifo'[n].func = "del" /\ fifo'[n].slot = s
      <4>1. PICK n \in 1 .. Len(fifo') : fifo'[n].func = "del" /\ fifo'[n].slot = s
        BY <3>1
      <4>2. n + 1 \in 1 .. Len(fifo) /\ fifo[n + 1] = fifo'[n]
        BY <1>2
      <4> QED BY <4>1, <4>2, DeletingDef
    <3>2. CASE executing'.func = "del" /\ executing'.slot = s
      <4>1. 1 \in 1 .. Len(fifo)
        BY <1>2
      <4> QED BY <1>2, <3>2, <4>1, DeletingDef
    <3> QED BY <2>1, <3>1, <3>2, DeletingDef
  <2>2. ASSUME s \in Deleting PROVE s \in Deleting'
    <3>1. PICK n \in 1 .. Len(fifo) : fifo[n].func = "del" /\ fifo[n].slot = s
      BY <1>1, <2>2, DeletingDef
    <3> QED BY <1>2, <1>3, <3>1, DeletingDef
  <2> QED BY <2>1, <2>2
<1>5. DeletedOnce'
  <2>1. \A m, n \in 1 .. Len(fifo') :
           /\ m + 1 \in 1 .. Len(fifo) /\ n + 1 \in 1 .. Len(fifo)
           /\ fifo'[m] = fifo[m + 1] /\ fifo'[n] = fifo[n + 1]
           /\ (m + 1 = n + 1 => m = n)
    BY <1>2
  <2>2. \A n \in 1 .. Len(fifo') : n + 1 \in 1 .. Len(fifo) /\ n + 1 # 1 /\ 1 \in 1 .. Len(fifo)
    BY <1>2
  <2>3. \A m, n \in 1 .. Len(fifo') :
           fifo'[m].func = "del" /\ fifo'[n].func = "del" /\ fifo'[m].slot = fifo'[n].slot
             => m = n
    BY <2>1 DEF DeletedOnce
  <2>4. \A n \in 1 .. Len(fifo') :
           executing'.func = "del" => ~(fifo'[n].func = "del" /\ fifo'[n].slot = executing'.slot)
    BY <1>2, <2>2 DEF DeletedOnce
  <2> QED BY <2>3, <2>4, DeletedOnceDef
<1> QED BY <1>4, <1>5

LEMMA EndSet ==
    ASSUME DeletedOnce, executing # NoKey, executing.func = "set", Queue!End
    PROVE  Deleting' = Deleting /\ DeletedOnce'
<1>1. fifo' = fifo /\ executing' = NoKey
  BY DEF Queue!End
<1>2. ASSUME NEW s PROVE s \in Deleting' <=> s \in Deleting
  BY <1>1, DeletingDef
<1>3. DeletedOnce'
  BY <1>1, DeletedOnceDef DEF DeletedOnce
<1> QED BY <1>2, <1>3

LEMMA EndDel ==
    ASSUME DeletedOnce, executing # NoKey, executing.func = "del", Queue!End
    PROVE  /\ executing.slot \in Deleting /\ Deleting' = Deleting \ {executing.slot}
           /\ DeletedOnce'
<1>1. fifo' = fifo /\ executing' = NoKey
  BY DEF Queue!End
<1>2. ASSUME NEW s PROVE s \in Deleting' <=> s \in Deleting /\ s # executing.slot
  BY <1>1, DeletingDef, PendingDef DEF DeletedOnce
<1>3. DeletedOnce'
  BY <1>1, DeletedOnceDef DEF DeletedOnce
<1> QED BY <1>2, <1>3, DeletingDef

LEMMA QueueKept ==
    ASSUME DeletedOnce, UNCHANGED <<fifo, executing>>
    PROVE  Deleting' = Deleting /\ DeletedOnce'
<1>1. ASSUME NEW s PROVE s \in Deleting' <=> s \in Deleting
  BY DeletingDef
<1> QED BY <1>1, DeletedOnceDef, PendingDef DEF DeletedOnce

-----------------------------------------------------------------------------
(* Whose the slots are, over the ways a slot changes hands. *)

Slotted == SlotsReserved /\ SlotsExclusive /\ LeakedForGood

LEMMA ReservedDef ==
    ASSUME SlotsReserved, NEW s
    PROVE  s \in keys_bmap <=> \/ \E k \in Keys : wk_keyix[k] \in Slots /\ wk_keyix[k] = s
                              \/ s \in Deleting \/ s \in leaked
BY DEF SlotsReserved, HasSlot

LEMMA SlottedAfter ==
    ASSUME \A s : s \in keys_bmap' <=>
               \/ \E k \in Keys : wk_keyix'[k] \in Slots /\ wk_keyix'[k] = s
               \/ s \in Deleting' \/ s \in leaked',
           \A k \in Keys : wk_keyix'[k] \in Slots =>
               /\ wk_keyix'[k] \notin Deleting' /\ wk_keyix'[k] \notin leaked'
               /\ \A l \in Keys : l # k => wk_keyix'[l] # wk_keyix'[k],
           \A s \in leaked' : s \notin Deleting'
    PROVE  Slotted'
<1>1. SlotsReserved'
  BY DEF SlotsReserved, HasSlot
<1>2. SlotsExclusive'
  BY DEF SlotsExclusive, HasSlot
<1>3. LeakedForGood'
  BY DEF LeakedForGood
<1> QED BY <1>1, <1>2, <1>3 DEF Slotted

\* A key takes a free slot.
LEMMA SlotTaken ==
    ASSUME TypeOK, Slotted, NEW k \in Keys, NEW i \in Slots, i \notin keys_bmap,
           wk_keyix[k] = NoSlot, wk_keyix' = [wk_keyix EXCEPT ![k] = i],
           keys_bmap' = keys_bmap \union {i}, Deleting' = Deleting, leaked' = leaked
    PROVE  Slotted'
<1>1. NoSlot \notin Slots
  BY SlotsAssumption
<1>2. \A l \in Keys : wk_keyix'[l] = IF l = k THEN i ELSE wk_keyix[l]
  BY DEF TypeOK
<1>3. i \notin Deleting /\ i \notin leaked /\ \A l \in Keys : wk_keyix[l] # i
  BY ReservedDef DEF Slotted
<1>4. \A s : s \in keys_bmap' <=>
               \/ \E l \in Keys : wk_keyix'[l] \in Slots /\ wk_keyix'[l] = s
               \/ s \in Deleting' \/ s \in leaked'
  BY <1>1, <1>2, ReservedDef DEF Slotted
<1>5. \A l \in Keys : wk_keyix'[l] \in Slots =>
               /\ wk_keyix'[l] \notin Deleting' /\ wk_keyix'[l] \notin leaked'
               /\ \A m \in Keys : m # l => wk_keyix'[m] # wk_keyix'[l]
  BY <1>2, <1>3 DEF Slotted, SlotsExclusive, HasSlot
<1>6. \A s \in leaked' : s \notin Deleting'
  BY DEF Slotted, LeakedForGood
<1> QED BY <1>4, <1>5, <1>6, SlottedAfter

\* A key without a slot gets none.
LEMMA SlotNone ==
    ASSUME TypeOK, Slotted, NEW k \in Keys, NEW i \in {NoSlot, Software},
           wk_keyix[k] \notin Slots, wk_keyix' = [wk_keyix EXCEPT ![k] = i],
           keys_bmap' = keys_bmap, Deleting' = Deleting, leaked' = leaked
    PROVE  Slotted'
<1>1. i \notin Slots
  BY SlotsAssumption
<1>2. \A l \in Keys : wk_keyix'[l] = IF l = k THEN i ELSE wk_keyix[l]
  BY DEF TypeOK
<1>3. \A s : s \in keys_bmap' <=>
               \/ \E l \in Keys : wk_keyix'[l] \in Slots /\ wk_keyix'[l] = s
               \/ s \in Deleting' \/ s \in leaked'
  BY <1>1, <1>2, ReservedDef DEF Slotted
<1>4. \A l \in Keys : wk_keyix'[l] \in Slots =>
               /\ wk_keyix'[l] \notin Deleting' /\ wk_keyix'[l] \notin leaked'
               /\ \A m \in Keys : m # l => wk_keyix'[m] # wk_keyix'[l]
  BY <1>1, <1>2 DEF Slotted, SlotsExclusive, HasSlot
<1>5. \A s \in leaked' : s \notin Deleting'
  BY DEF Slotted, LeakedForGood
<1> QED BY <1>3, <1>4, <1>5, SlottedAfter

\* A key gives its slot up: to nobody, to the deletion, or for good.
LEMMA SlotLeft ==
    ASSUME TypeOK, Slotted, NEW k \in Keys, NEW i \in Slots, wk_keyix[k] = i,
           wk_keyix' = [wk_keyix EXCEPT ![k] = NoSlot],
           \/ /\ keys_bmap' = keys_bmap \ {i}
              /\ Deleting' = Deleting /\ leaked' = leaked
           \/ /\ Deleting' = Deleting \union {i}
              /\ keys_bmap' = keys_bmap /\ leaked' = leaked
           \/ /\ leaked' = leaked \union {i}
              /\ keys_bmap' = keys_bmap /\ Deleting' = Deleting
    PROVE  Slotted'
<1>1. NoSlot \notin Slots
  BY SlotsAssumption
<1>2. \A l \in Keys : wk_keyix'[l] = IF l = k THEN NoSlot ELSE wk_keyix[l]
  BY DEF TypeOK
<1>3. /\ i \in keys_bmap /\ i \notin Deleting /\ i \notin leaked
      /\ \A l \in Keys : wk_keyix[l] = i => l = k
  BY ReservedDef DEF Slotted, SlotsExclusive, HasSlot
<1>4. \A s : s \in keys_bmap' <=>
               \/ \E l \in Keys : wk_keyix'[l] \in Slots /\ wk_keyix'[l] = s
               \/ s \in Deleting' \/ s \in leaked'
  <2>1. \A s : (\E l \in Keys : wk_keyix'[l] \in Slots /\ wk_keyix'[l] = s) <=>
               s # i /\ \E l \in Keys : wk_keyix[l] \in Slots /\ wk_keyix[l] = s
    BY <1>1, <1>2, <1>3
  <2> QED BY <1>3, <2>1, ReservedDef DEF Slotted
<1>5. \A l \in Keys : wk_keyix'[l] \in Slots =>
               /\ wk_keyix'[l] \notin Deleting' /\ wk_keyix'[l] \notin leaked'
               /\ \A m \in Keys : m # l => wk_keyix'[m] # wk_keyix'[l]
  BY <1>1, <1>2, <1>3 DEF Slotted, SlotsExclusive, HasSlot
<1>6. \A s \in leaked' : s \notin Deleting'
  BY <1>3 DEF Slotted, LeakedForGood
<1> QED BY <1>4, <1>5, <1>6, SlottedAfter

\* A deletion ends and frees its slot.
LEMMA SlotCleared ==
    ASSUME Slotted, NEW i \in Deleting, wk_keyix' = wk_keyix,
           keys_bmap' = keys_bmap \ {i}, Deleting' = Deleting \ {i}, leaked' = leaked
    PROVE  Slotted'
<1>1. i \notin leaked /\ \A k \in Keys : wk_keyix[k] \in Slots => wk_keyix[k] # i
  BY DEF Slotted, LeakedForGood, SlotsExclusive, HasSlot
<1>2. \A s : s \in keys_bmap' <=>
               \/ \E k \in Keys : wk_keyix'[k] \in Slots /\ wk_keyix'[k] = s
               \/ s \in Deleting' \/ s \in leaked'
  BY <1>1, ReservedDef DEF Slotted
<1>3. \A k \in Keys : wk_keyix'[k] \in Slots =>
               /\ wk_keyix'[k] \notin Deleting' /\ wk_keyix'[k] \notin leaked'
               /\ \A l \in Keys : l # k => wk_keyix'[l] # wk_keyix'[k]
  BY DEF Slotted, SlotsExclusive, HasSlot
<1>4. \A s \in leaked' : s \notin Deleting'
  BY DEF Slotted, LeakedForGood
<1> QED BY <1>2, <1>3, <1>4, SlottedAfter

LEMMA SlotsKept ==
    ASSUME Slotted, wk_keyix' = wk_keyix, keys_bmap' = keys_bmap, Deleting' = Deleting,
           leaked' = leaked
    PROVE  Slotted'
BY DEF Slotted, SlotsReserved, SlotsExclusive, LeakedForGood, HasSlot

-----------------------------------------------------------------------------
(* The steps. *)

LEMMA InitOwnership == Init => Ownership
<1> SUFFICES ASSUME Init PROVE Ownership
  OBVIOUS
<1>1. /\ wk_keyix = [k \in Keys |-> NoSlot] /\ keys_bmap = {} /\ leaked = {}
      /\ fifo = <<>> /\ Len(fifo) = 0 /\ executing = NoKey /\ NoSlot \notin Slots
  BY SlotsAssumption, EmptySeq DEF Init, Queue!Init
<1>2. \A s : s \notin Deleting
  BY <1>1, DeletingDef
<1>3. DeletedOnce
  BY <1>1 DEF DeletedOnce
<1> QED BY <1>1, <1>2, <1>3 DEF Ownership, SlotsReserved, SlotsExclusive, LeakedForGood, HasSlot

LEMMA AllocOwnership ==
    ASSUME IInv, NEW k \in Keys, AllocGroup(k) \/ AllocPair(k)
    PROVE  Ownership'
<1>1. TypeOK /\ Slotted /\ DeletedOnce
  BY DEF IInv, Ownership, Slotted
<1>2. Deleting' = Deleting /\ DeletedOnce' /\ leaked' = leaked /\ wk_keyix[k] = NoSlot
  BY <1>1, QueueKept DEF AllocGroup, AllocPair, history
<1>3. \/ \E i \in Slots : /\ i \notin keys_bmap /\ keys_bmap' = keys_bmap \union {i}
                         /\ wk_keyix' = [wk_keyix EXCEPT ![k] = i]
      \/ keys_bmap' = keys_bmap /\ wk_keyix' = [wk_keyix EXCEPT ![k] = Software]
  <2>1. CASE AllocGroup(k)
    <3>1. Wepidx[k] \in Slots
      BY <2>1, WepidxAssumption DEF AllocGroup, Slots
    <3> QED BY <2>1, <3>1 DEF AllocGroup
  <2>2. CASE AllocPair(k)
    BY <2>2 DEF AllocPair, FreeSlots
  <2> QED BY <2>1, <2>2
<1>4. Slotted'
  BY <1>1, <1>2, <1>3, SlotTaken, SlotNone, SlotsAssumption
<1> QED BY <1>2, <1>4 DEF Ownership, Slotted

LEMMA SetOwnership ==
    ASSUME IInv, NEW k \in Keys, NEW v \in Values, Set(k, v)
    PROVE  Ownership'
<1>1. TypeOK /\ Slotted /\ DeletedOnce
  BY DEF IInv, Ownership, Slotted
<1>2. Deleting' = Deleting /\ DeletedOnce'
  <2>1. CASE UNCHANGED <<fifo, executing>>
    BY <1>1, <2>1, QueueKept
  <2>2. CASE Send("set", k, v)
    <3>1. [func |-> "set", key |-> k, slot |-> wk_keyix[k], value |-> v] \in Cmds
      BY DEF Cmds, Set, HasSlot
    <3> QED BY <1>1, <2>2, <3>1, EnqueueSet DEF Send
  <2> QED BY <2>1, <2>2 DEF Set
<1>3. wk_keyix' = wk_keyix /\ keys_bmap' = keys_bmap /\ leaked' = leaked
  BY DEF Set
<1> QED BY <1>1, <1>2, <1>3, SlotsKept DEF Ownership, Slotted

\* The three ways out of rtwn_key_delete().
LEMMA DeleteOwnership ==
    ASSUME IInv, NEW k \in Keys, Delete(k)
    PROVE  Ownership'
<1>1. TypeOK /\ Slotted /\ DeletedOnce
  BY DEF IInv, Ownership, Slotted
<1>2. PICK i \in Slots : wk_keyix[k] = i
  BY DEF Delete, HasSlot
<1>3. i \notin Deleting
  BY <1>1, <1>2 DEF Slotted, SlotsExclusive, HasSlot
<1>4. wk_keyix' = [wk_keyix EXCEPT ![k] = NoSlot]
  BY DEF Delete
<1>5. CASE UNCHANGED <<fifo, executing, leaked>> /\ keys_bmap' = keys_bmap \ {i}
  <2>1. Deleting' = Deleting /\ DeletedOnce'
    BY <1>1, <1>5, QueueKept
  <2> QED BY <1>1, <1>2, <1>4, <1>5, <2>1, SlotLeft DEF Ownership, Slotted
<1>6. CASE Send("del", k, NoKey) /\ UNCHANGED <<keys_bmap, leaked>>
  <2>1. [func |-> "del", key |-> k, slot |-> wk_keyix[k], value |-> NoKey] \in Cmds
    BY <1>2 DEF Cmds
  <2>2. Deleting' = Deleting \union {i} /\ DeletedOnce'
    BY <1>1, <1>2, <1>3, <1>6, <2>1, EnqueueDel DEF Send
  <2> QED BY <1>1, <1>2, <1>4, <1>6, <2>2, SlotLeft DEF Ownership, Slotted
<1>7. CASE leaked' = leaked \union {i} /\ UNCHANGED <<fifo, executing, keys_bmap>>
  <2>1. Deleting' = Deleting /\ DeletedOnce'
    BY <1>1, <1>7, QueueKept
  <2> QED BY <1>1, <1>2, <1>4, <1>7, <2>1, SlotLeft DEF Ownership, Slotted
<1> QED BY <1>2, <1>5, <1>6, <1>7 DEF Delete

LEMMA DeleteSoftwareOwnership ==
    ASSUME IInv, NEW k \in Keys, DeleteSoftware(k)
    PROVE  Ownership'
<1>1. TypeOK /\ Slotted /\ DeletedOnce /\ wk_keyix[k] \notin Slots
  BY SlotsAssumption DEF IInv, Ownership, Slotted, DeleteSoftware
<1>2. Deleting' = Deleting /\ DeletedOnce'
  BY <1>1, QueueKept DEF DeleteSoftware
<1> QED BY <1>1, <1>2, SlotNone DEF DeleteSoftware, Ownership, Slotted, driver, history

LEMMA CommandOwnership ==
    ASSUME IInv, Begin \/ SetKey \/ SetCtl \/ DelCtl \/ DelKey \/ WriteFails
    PROVE  Ownership'
<1>1. TypeOK /\ Slotted /\ DeletedOnce
  BY DEF IInv, Ownership, Slotted
<1>2. wk_keyix' = wk_keyix /\ leaked' = leaked
  BY DEF Begin, SetKey, SetCtl, DelCtl, DelKey, WriteFails, net80211, history
<1>3. CASE keys_bmap' = keys_bmap /\ Queue!Begin
  BY <1>1, <1>2, <1>3, BeginKeeps, SlotsKept DEF Ownership, Slotted
<1>4. CASE keys_bmap' = keys_bmap /\ executing # NoKey /\ executing.func = "set" /\ Queue!End
  BY <1>1, <1>2, <1>4, EndSet, SlotsKept DEF Ownership, Slotted
<1>5. CASE keys_bmap' = keys_bmap /\ UNCHANGED <<fifo, executing>>
  BY <1>1, <1>2, <1>5, QueueKept, SlotsKept DEF Ownership, Slotted
<1>6. CASE DelKey
  BY <1>1, <1>2, <1>6, EndDel, SlotCleared DEF DelKey, Doing, Ownership, Slotted
<1> QED BY <1>3, <1>4, <1>5, <1>6
        DEF Begin, SetKey, SetCtl, DelCtl, WriteFails, Doing, driver

LEMMA DeviceOwnership ==
    ASSUME IInv, UNCHANGED owners
    PROVE  Ownership'
<1>1. TypeOK /\ Slotted /\ DeletedOnce
  BY DEF IInv, Ownership, Slotted
<1> QED BY <1>1, QueueKept, SlotsKept DEF owners, Ownership, Slotted

-----------------------------------------------------------------------------
LEMMA NextIInv == IInv /\ [Next]_vars => IInv'
<1> SUFFICES ASSUME IInv, [Next]_vars PROVE IInv'
  OBVIOUS
<1>1. TypeOK
  BY DEF IInv
<1>2. CASE Next
  <2>1. sc_hwcrypto' = sc_hwcrypto
    BY <1>2 DEF Next
  <2>2. CASE \E k \in Keys : \/ AllocGroup(k) \/ AllocPair(k)
                             \/ \E v \in Values : Set(k, v)
                             \/ Delete(k) \/ DeleteSoftware(k)
    <3>1. TypeOK'
      BY <1>1, <2>1, <2>2, CallbackTypes
    <3>2. Ownership'
      BY <2>2, AllocOwnership, SetOwnership, DeleteOwnership, DeleteSoftwareOwnership
    <3> QED BY <3>1, <3>2 DEF IInv
  <2>3. CASE Begin \/ SetKey \/ SetCtl \/ DelCtl \/ DelKey \/ WriteFails
    BY <1>1, <2>1, <2>3, CommandTypes, CommandOwnership DEF IInv
  <2>4. CASE InitCam \/ InitDone \/ InitFails \/ Stop
    <3>1. UNCHANGED owners
      BY <2>4 DEF InitCam, InitDone, InitFails, Stop, owners, net80211, driver, history
    <3> QED BY <1>1, <2>1, <2>4, <3>1, DeviceTypes, DeviceOwnership DEF IInv
  <2> QED BY <1>2, <2>2, <2>3, <2>4 DEF Next
<1>3. CASE UNCHANGED vars
  <2>1. TypeOK'
    BY <1>1, <1>3 DEF TypeOK, vars
  <2>2. Ownership'
    BY <1>3, DeviceOwnership DEF vars, owners
  <2> QED BY <2>1, <2>2 DEF IInv
<1> QED BY <1>2, <1>3

\* A slot of the key memory is marked used exactly while a key has it or what
\* is left of one, and no two share it: rtwn_key_alloc() never gives out a slot
\* that a command is still going to clear.
THEOREM SlotsSafe == Spec => []SlotsSound
<1>1. Init => IInv
  BY InitTypes, InitOwnership DEF IInv
<1>2. IInv => SlotsSound
  BY DEF IInv, Ownership, SlotsSound
<1> QED BY <1>1, <1>2, NextIInv, PTL DEF Spec

-----------------------------------------------------------------------------
(* What the chip will hold: the last command on its way to a slot decides.    *)

\* The n-th command of the queue is the last one for slot s.
LastFor(s, n) ==
    /\ n \in 1 .. Len(fifo) /\ fifo[n].slot = s
    /\ \A m \in 1 .. Len(fifo) : n < m => fifo[m].slot # s
NonePending(s) == \A n \in 1 .. Len(fifo) : fifo[n].slot # s
ExecutingOn(s) == executing # NoKey /\ executing.slot = s

\* No command comes after the one being executed, and no command at all.
OnlyExecuting(s) == NonePending(s) /\ ExecutingOn(s)
Untouched(s) == NonePending(s) /\ ~ExecutingOn(s)

\* Command c is the last one on its way to slot s.
Ultimate(s, c) ==
    \/ \E n \in 1 .. Len(fifo) : LastFor(s, n) /\ c = fifo[n]
    \/ OnlyExecuting(s) /\ c = executing

\* Key k, in its present form, is in the chip or on its way there.
KeyReaches(k, s) ==
    /\ \A c \in Cmds : Ultimate(s, c) => c.func = "set" /\ c.key = k /\ c.value = wk_key[k]
    /\ OnlyExecuting(s) /\ step = 1 => cam[s].value = wk_key[k]
    /\ Untouched(s) => cam[s] = [valid |-> TRUE, owner |-> k, value |-> wk_key[k]]

\* The slot is invalid, or on its way to be.
SlotEmptied(s) ==
    /\ \A c \in Cmds : Ultimate(s, c) => c.func = "del"
    /\ OnlyExecuting(s) /\ step = 1 => ~cam[s].valid
    /\ Untouched(s) => ~cam[s].valid

Reached(s) ==
    /\ \A k \in Keys : wk_keyix[k] = s /\ isset[k] => KeyReaches(k, s)
    /\ s \notin leaked /\ (\A k \in Keys : wk_keyix[k] # s) => SlotEmptied(s)

\* rtwn_init() sees every key that was accepted.
StaticKnown ==
    /\ \A k \in Keys : isset[k] => wk_keyix[k] \in Slots
    /\ \A k \in GroupKeys : isset[k] => k \in keys
    /\ device # "running" =>
         executing = NoKey /\ \A k \in PairKeys : wk_keyix[k] \notin Slots

CamInv ==
    /\ StaticKnown
    /\ device # "stopped" => \A s \in Slots \ stale : Reached(s)

CamIInv == IInv /\ CamInv

LEMMA EnqueueFate ==
    ASSUME fifo \in Seq(Cmds), NEW c \in Cmds, Queue!Enqueue(c), NEW s
    PROVE  /\ s # c.slot =>
                /\ \A d : Ultimate(s, d)' <=> Ultimate(s, d)
                /\ OnlyExecuting(s)' <=> OnlyExecuting(s)
                /\ Untouched(s)' <=> Untouched(s)
           /\ s = c.slot => ~NonePending(s)' /\ \A d : Ultimate(s, d)' => d = c
<1>1. fifo' = Append(fifo, c) /\ executing' = executing
  BY DEF Queue!Enqueue
<1>2. /\ Len(fifo) \in Nat /\ Len(fifo') = Len(fifo) + 1
      /\ \A n \in 1 .. Len(fifo) : fifo'[n] = fifo[n]
      /\ fifo'[Len(fifo) + 1] = c
  BY <1>1, Accepted, LenProperties
<1>3. ExecutingOn(s)' <=> ExecutingOn(s)
  BY <1>1 DEF ExecutingOn
<1>4. ASSUME s # c.slot
      PROVE  /\ NonePending(s)' <=> NonePending(s)
             /\ \A n : LastFor(s, n)' <=> LastFor(s, n)
             /\ \A n : LastFor(s, n) => fifo'[n] = fifo[n]
  <2>1. NonePending(s)' <=> NonePending(s)
    BY <1>2, <1>4 DEF NonePending
  <2>2. ASSUME NEW n PROVE LastFor(s, n)' <=> LastFor(s, n)
    BY <1>2, <1>4 DEF LastFor
  <2>3. \A n : LastFor(s, n) => fifo'[n] = fifo[n]
    BY <1>2 DEF LastFor
  <2> QED BY <2>1, <2>2, <2>3
<1>5. ASSUME s = c.slot
      PROVE  /\ ~NonePending(s)'
             /\ \A n : LastFor(s, n)' => n = Len(fifo) + 1
  BY <1>2, <1>5 DEF NonePending, LastFor
<1>6. ASSUME s # c.slot, NEW d PROVE Ultimate(s, d)' <=> Ultimate(s, d)
  <2>1. OnlyExecuting(s)' <=> OnlyExecuting(s)
    BY <1>3, <1>4, <1>6 DEF OnlyExecuting
  <2>2. (\E n \in 1 .. Len(fifo') : LastFor(s, n)' /\ d = fifo'[n])
          <=> (\E n \in 1 .. Len(fifo) : LastFor(s, n) /\ d = fifo[n])
    BY <1>2, <1>4, <1>6 DEF LastFor
  <2> QED BY <1>1, <2>1, <2>2 DEF Ultimate
<1>7. ASSUME s = c.slot, NEW d, Ultimate(s, d)' PROVE d = c
  BY <1>2, <1>5, <1>7 DEF Ultimate, OnlyExecuting
<1> QED BY <1>3, <1>4, <1>5, <1>6, <1>7 DEF OnlyExecuting, Untouched

\* Beginning a command changes nothing about which is the last.
LEMMA BeginFate ==
    ASSUME fifo \in Seq(Cmds), Queue!Begin, NEW s
    PROVE  /\ \A d : Ultimate(s, d)' => Ultimate(s, d)
           /\ Untouched(s)' => Untouched(s)
<1>1. /\ fifo # <<>> /\ fifo' = Tail(fifo) /\ executing = NoKey /\ executing' = Head(fifo)
  BY DEF Queue!Begin
<1>2. /\ Len(fifo) \in Nat \ {0} /\ Len(fifo') = Len(fifo) - 1
      /\ \A n \in 1 .. Len(fifo') : fifo'[n] = fifo[n + 1]
      /\ executing' = fifo[1] /\ executing' # NoKey
  BY <1>1, Begun, CmdsAssumption
<1>3. \A n \in 1 .. Len(fifo) : n = 1 \/ (n - 1 \in 1 .. Len(fifo') /\ fifo'[n - 1] = fifo[n])
  <2>1. ASSUME NEW n \in 1 .. Len(fifo), n # 1
        PROVE  n - 1 \in 1 .. Len(fifo') /\ fifo'[n - 1] = fifo[n]
    <3>1. n - 1 \in 1 .. Len(fifo') /\ (n - 1) + 1 = n
      BY <1>2, <2>1
    <3>2. fifo'[n - 1] = fifo[(n - 1) + 1]
      BY <1>2, <3>1
    <3> QED BY <3>1, <3>2
  <2> QED BY <2>1
<1>4. ASSUME NEW n, LastFor(s, n)'
      PROVE  LastFor(s, n + 1) /\ n + 1 \in 1 .. Len(fifo) /\ fifo[n + 1] = fifo'[n]
  <2>1. /\ n \in 1 .. Len(fifo') /\ fifo'[n].slot = s
        /\ \A m \in 1 .. Len(fifo') : n < m => fifo'[m].slot # s
    BY <1>4 DEF LastFor
  <2>2. n + 1 \in 1 .. Len(fifo) /\ fifo[n + 1] = fifo'[n]
    BY <1>2, <2>1
  <2>3. ASSUME NEW m \in 1 .. Len(fifo), n + 1 < m PROVE fifo[m].slot # s
    <3>1. m # 1 /\ n < m - 1
      BY <1>2, <2>1, <2>3
    <3> QED BY <1>3, <2>1, <3>1
  <2> QED BY <2>1, <2>2, <2>3 DEF LastFor
<1>5. ASSUME NonePending(s)', executing'.slot = s
      PROVE  LastFor(s, 1) /\ 1 \in 1 .. Len(fifo)
  <2>1. ASSUME NEW m \in 1 .. Len(fifo), 1 < m PROVE fifo[m].slot # s
    <3>1. m # 1
      BY <2>1
    <3> QED BY <1>3, <1>5, <3>1 DEF NonePending
  <2>2. 1 \in 1 .. Len(fifo) /\ fifo[1].slot = s
    BY <1>2, <1>5
  <2> QED BY <2>1, <2>2 DEF LastFor
<1>6. ASSUME NEW d, Ultimate(s, d)' PROVE Ultimate(s, d)
  <2>1. CASE \E n \in 1 .. Len(fifo') : LastFor(s, n)' /\ d = fifo'[n]
    <3>1. PICK n \in 1 .. Len(fifo') : LastFor(s, n)' /\ d = fifo'[n]
      BY <2>1
    <3>2. LastFor(s, n + 1) /\ n + 1 \in 1 .. Len(fifo) /\ fifo[n + 1] = d
      BY <1>4, <3>1
    <3> QED BY <3>2 DEF Ultimate
  <2>2. CASE OnlyExecuting(s)' /\ d = executing'
    BY <1>2, <1>5, <2>2 DEF Ultimate, OnlyExecuting, ExecutingOn
  <2> QED BY <1>6, <2>1, <2>2 DEF Ultimate
<1>7. ASSUME Untouched(s)' PROVE Untouched(s)
  <2>1. \A n \in 1 .. Len(fifo) : fifo[n].slot # s
    BY <1>2, <1>3, <1>7 DEF Untouched, NonePending, ExecutingOn
  <2> QED BY <1>1, <2>1 DEF Untouched, NonePending, ExecutingOn
<1> QED BY <1>6, <1>7

LEMMA EndFate ==
    ASSUME executing # NoKey, Queue!End, NEW s
    PROVE  /\ \A d : Ultimate(s, d)' => Ultimate(s, d)
           /\ ~OnlyExecuting(s)'
           /\ Untouched(s)' => Untouched(s) \/ OnlyExecuting(s)
<1>1. fifo' = fifo /\ executing' = NoKey
  BY DEF Queue!End
<1>2. NonePending(s)' <=> NonePending(s)
  BY <1>1 DEF NonePending
<1>3. \A n : LastFor(s, n)' <=> LastFor(s, n)
  BY <1>1 DEF LastFor
<1> QED BY <1>1, <1>2, <1>3 DEF Ultimate, OnlyExecuting, Untouched, ExecutingOn

LEMMA SameFate ==
    ASSUME UNCHANGED <<fifo, executing>>, NEW s
    PROVE  /\ \A d : Ultimate(s, d)' <=> Ultimate(s, d)
           /\ OnlyExecuting(s)' <=> OnlyExecuting(s)
           /\ Untouched(s)' <=> Untouched(s)
BY DEF Ultimate, LastFor, OnlyExecuting, Untouched, NonePending, ExecutingOn

\* A slot, and its key, that a step does not touch.
LEMMA ReachedKept ==
    ASSUME NEW s \in Slots, Reached(s),
           \A c \in Cmds : Ultimate(s, c)' => Ultimate(s, c),
           Untouched(s)' => Untouched(s),
           OnlyExecuting(s)' /\ step' = 1 => OnlyExecuting(s) /\ step = 1,
           cam'[s] = cam[s],
           \A k \in Keys : wk_keyix'[k] = s /\ isset'[k] =>
               wk_keyix[k] = s /\ isset[k] /\ wk_key'[k] = wk_key[k],
           s \notin leaked' => s \notin leaked,
           (\A k \in Keys : wk_keyix'[k] # s) => \A k \in Keys : wk_keyix[k] # s
    PROVE  Reached(s)'
<1>1. ASSUME NEW k \in Keys, wk_keyix'[k] = s, isset'[k] PROVE KeyReaches(k, s)'
  <2>1. KeyReaches(k, s) /\ wk_key'[k] = wk_key[k]
    BY <1>1 DEF Reached
  <2> QED BY <2>1 DEF KeyReaches
<1>2. ASSUME s \notin leaked', \A k \in Keys : wk_keyix'[k] # s PROVE SlotEmptied(s)'
  <2>1. SlotEmptied(s)
    BY <1>2 DEF Reached
  <2> QED BY <2>1 DEF SlotEmptied
<1> QED BY <1>1, <1>2 DEF Reached

LEMMA CamInvInit == Init => CamInv
BY SlotsAssumption DEF Init, Queue!Init, CamInv, StaticKnown, Keys

\* No key had the slot before, and none has been set there yet.
LEMMA AllocCam ==
    ASSUME CamIInv, NEW k \in Keys, AllocGroup(k) \/ AllocPair(k)
    PROVE  CamInv'
<1>1. /\ TypeOK /\ Ownership /\ StaticKnown /\ wk_keyix[k] = NoSlot /\ NoSlot \notin Slots
      /\ UNCHANGED <<wk_key, isset, keys, cam, device, fifo, executing, step, leaked, stale>>
  BY SlotsAssumption DEF CamIInv, IInv, CamInv, AllocGroup, AllocPair, history
<1>2. ~isset[k]
  BY <1>1 DEF StaticKnown
<1>3. PICK i \in Slots \union {Software} : wk_keyix' = [wk_keyix EXCEPT ![k] = i]
  <2>1. Wepidx[k] \in Slots \/ k \notin GroupKeys
    BY WepidxAssumption DEF Slots
  <2> QED BY <2>1 DEF AllocGroup, AllocPair, FreeSlots
<1>4. \A l \in Keys : wk_keyix'[l] = IF l = k THEN i ELSE wk_keyix[l]
  BY <1>1, <1>3 DEF TypeOK
<1>5. StaticKnown'
  <2>1. CASE AllocGroup(k)
    <3>1. k \notin PairKeys
      BY <2>1, KeysAssumption DEF AllocGroup
    <3> QED BY <1>1, <1>2, <1>4, <3>1 DEF StaticKnown, Keys
  <2>2. CASE AllocPair(k)
    BY <1>1, <1>2, <1>4, <2>2 DEF StaticKnown, AllocPair
  <2> QED BY <2>1, <2>2
<1>6. ASSUME device' # "stopped", NEW s \in Slots \ stale' PROVE Reached(s)'
  <2>1. Reached(s)
    BY <1>1, <1>6 DEF CamIInv, CamInv
  <2>2. (\A l \in Keys : wk_keyix'[l] # s) => \A l \in Keys : wk_keyix[l] # s
    BY <1>1, <1>4
  <2>3. \A l \in Keys : wk_keyix'[l] = s /\ isset'[l] =>
            wk_keyix[l] = s /\ isset[l] /\ wk_key'[l] = wk_key[l]
    BY <1>1, <1>2, <1>4
  <2> QED BY <1>1, <2>1, <2>2, <2>3, SameFate, ReachedKept
<1> QED BY <1>5, <1>6 DEF CamInv

LEMMA SetCam ==
    ASSUME CamIInv, NEW k \in Keys, NEW v \in Values, Set(k, v)
    PROVE  CamInv'
<1>0. PICK i \in Slots : wk_keyix[k] = i
  BY DEF Set, HasSlot
<1>1. /\ TypeOK /\ SlotsExclusive /\ StaticKnown /\ i \in Slots
      /\ UNCHANGED <<wk_keyix, cam, device, step, leaked>>
  BY <1>0 DEF CamIInv, IInv, Ownership, CamInv, Set
<1>2. /\ \A l \in Keys \ {k} : wk_key'[l] = wk_key[l] /\ isset'[l] = isset[l]
      /\ \A l \in Keys \ {k} : wk_keyix[l] # i
      /\ wk_key'[k] = v
  BY <1>0, <1>1 DEF Set, TypeOK, SlotsExclusive, HasSlot
<1>3. StaticKnown'
  <2>1. \A l \in Keys : isset'[l] => wk_keyix'[l] \in Slots
    BY <1>0, <1>1, <1>2 DEF StaticKnown
  <2>2. \A l \in GroupKeys : isset'[l] => l \in keys'
    BY <1>1, <1>2 DEF StaticKnown, Set, Keys
  <2>3. executing' = executing
    BY DEF Set, Send, Queue!Enqueue
  <2> QED BY <1>1, <2>1, <2>2, <2>3 DEF StaticKnown
<1>4. ASSUME device' # "stopped", NEW s \in Slots \ stale', s # i PROVE Reached(s)'
  <2>1. s \notin stale
    BY <1>0, <1>4 DEF Set, Starting
  <2>2. Reached(s)
    BY <1>1, <1>4, <2>1 DEF CamIInv, CamInv
  <2>3. /\ \A c \in Cmds : Ultimate(s, c)' => Ultimate(s, c)
        /\ Untouched(s)' => Untouched(s)
        /\ OnlyExecuting(s)' => OnlyExecuting(s)
    <3>1. CASE Send("set", k, v)
      <4>1. [func |-> "set", key |-> k, slot |-> i, value |-> v] \in Cmds
        BY <1>1 DEF Cmds
      <4> QED BY <1>0, <1>1, <1>4, <3>1, <4>1, EnqueueFate DEF Send, TypeOK
    <3>2. CASE UNCHANGED <<fifo, executing>>
      BY <3>2, SameFate
    <3> QED BY <3>1, <3>2 DEF Set
  <2> QED BY <1>0, <1>1, <1>2, <1>4, <2>2, <2>3, ReachedKept
<1>5. ASSUME device' # "stopped", i \notin stale' PROVE Reached(i)'
  <2>1. ~(\A l \in Keys : wk_keyix'[l] # i)
    BY <1>0, <1>1
  <2>2. ASSUME isset'[k] PROVE KeyReaches(k, i)'
    <3>1. ~Deferred(k)
      <4>1. SUFFICES ASSUME Deferred(k) PROVE FALSE
        OBVIOUS
      <4>2. device = "starting"
        BY <1>1, <1>5, <4>1 DEF TypeOK, Deferred
      <4> QED BY <1>0, <1>5, <4>1, <4>2 DEF Set, Starting
    <3>2. Send("set", k, v)
      BY <1>1, <2>2, <3>1 DEF Set, TypeOK
    <3> DEFINE c == [func |-> "set", key |-> k, slot |-> i, value |-> v]
    <3>3. c \in Cmds /\ Queue!Enqueue(c) /\ c.slot = i
      BY <1>0, <1>1, <3>2 DEF Cmds, Send
    <3>4. ~NonePending(i)' /\ \A d : Ultimate(i, d)' => d = c
      BY <1>1, <3>3, EnqueueFate DEF TypeOK
    <3> QED BY <1>2, <3>4 DEF KeyReaches, OnlyExecuting, Untouched
  <2> QED BY <1>1, <1>2, <2>1, <2>2 DEF Reached
<1> QED BY <1>3, <1>4, <1>5 DEF CamInv

\* A slot whose deletion is accepted is on its way to be invalid.
LEMMA DeleteCam ==
    ASSUME CamIInv, NEW k \in Keys, Delete(k)
    PROVE  CamInv'
<1>0. PICK i \in Slots : wk_keyix[k] = i
  BY DEF Delete, HasSlot
<1>1. /\ TypeOK /\ SlotsExclusive /\ StaticKnown /\ i \in Slots /\ NoSlot \notin Slots
      /\ UNCHANGED <<cam, device, step>>
      /\ wk_keyix' = [wk_keyix EXCEPT ![k] = NoSlot]
      /\ isset' = [isset EXCEPT ![k] = FALSE]
      /\ wk_key' = [wk_key EXCEPT ![k] = NoKey]
      /\ keys' = keys \ {k}
  BY <1>0, SlotsAssumption DEF CamIInv, IInv, Ownership, CamInv, Delete
<1>2. /\ \A l \in Keys \ {k} : /\ wk_key'[l] = wk_key[l] /\ isset'[l] = isset[l]
                               /\ wk_keyix'[l] = wk_keyix[l]
      /\ \A l \in Keys \ {k} : wk_keyix[l] # i
      /\ ~isset'[k] /\ wk_keyix'[k] = NoSlot
  BY <1>0, <1>1 DEF TypeOK, SlotsExclusive, HasSlot
<1>3. StaticKnown'
  <2>1. executing' = executing
    BY DEF Delete, Send, Queue!Enqueue
  <2>2. \A l \in Keys : isset'[l] => wk_keyix'[l] \in Slots
    BY <1>1, <1>2 DEF StaticKnown
  <2>3. \A l \in GroupKeys : isset'[l] => l \in keys'
    BY <1>1, <1>2 DEF StaticKnown, Keys
  <2>4. device' # "running" =>
           executing' = NoKey /\ \A l \in PairKeys : wk_keyix'[l] \notin Slots
    BY <1>1, <1>2, <2>1 DEF StaticKnown, Keys
  <2> QED BY <2>2, <2>3, <2>4 DEF StaticKnown
<1>4. ASSUME device' # "stopped", NEW s \in Slots \ stale', s # i PROVE Reached(s)'
  <2>1. s \notin stale /\ (s \notin leaked' => s \notin leaked)
    BY <1>0, <1>4 DEF Delete, Starting
  <2>2. Reached(s)
    BY <1>1, <1>4, <2>1 DEF CamIInv, CamInv
  <2>3. /\ \A c \in Cmds : Ultimate(s, c)' => Ultimate(s, c)
        /\ Untouched(s)' => Untouched(s)
        /\ OnlyExecuting(s)' => OnlyExecuting(s)
    <3>1. CASE Send("del", k, NoKey)
      <4>1. [func |-> "del", key |-> k, slot |-> i, value |-> NoKey] \in Cmds
        BY <1>1 DEF Cmds
      <4> QED BY <1>0, <1>1, <1>4, <3>1, <4>1, EnqueueFate DEF Send, TypeOK
    <3>2. CASE UNCHANGED <<fifo, executing>>
      BY <3>2, SameFate
    <3> QED BY <3>1, <3>2 DEF Delete
  <2> QED BY <1>0, <1>1, <1>2, <1>4, <2>1, <2>2, <2>3, ReachedKept
<1>5. ASSUME device' # "stopped", i \notin stale' PROVE Reached(i)'
  <2>1. \A l \in Keys : wk_keyix'[l] # i
    BY <1>0, <1>1, <1>2
  <2>2. ASSUME i \notin leaked' PROVE SlotEmptied(i)'
    <3>1. ~Deferred(k)
      <4>1. SUFFICES ASSUME Deferred(k) PROVE FALSE
        OBVIOUS
      <4>2. device = "starting"
        BY <1>1, <1>5, <4>1 DEF TypeOK, Deferred
      <4> QED BY <1>0, <1>5, <4>1, <4>2 DEF Delete, Starting
    <3>2. Send("del", k, NoKey)
      BY <1>0, <2>2, <3>1 DEF Delete
    <3> DEFINE c == [func |-> "del", key |-> k, slot |-> i, value |-> NoKey]
    <3>3. c \in Cmds /\ Queue!Enqueue(c) /\ c.slot = i /\ c.func = "del"
      BY <1>0, <1>1, <3>2 DEF Cmds, Send
    <3>4. ~NonePending(i)' /\ \A d : Ultimate(i, d)' => d = c
      BY <1>1, <3>3, EnqueueFate DEF TypeOK
    <3> QED BY <3>3, <3>4 DEF SlotEmptied, OnlyExecuting, Untouched
  <2> QED BY <2>1, <2>2 DEF Reached
<1> QED BY <1>3, <1>4, <1>5 DEF CamInv

LEMMA DeleteSoftwareCam ==
    ASSUME CamIInv, NEW k \in Keys, DeleteSoftware(k)
    PROVE  CamInv'
<1>1. /\ TypeOK /\ StaticKnown /\ wk_keyix[k] \notin Slots /\ NoSlot \notin Slots
      /\ wk_keyix' = [wk_keyix EXCEPT ![k] = NoSlot]
      /\ UNCHANGED <<wk_key, isset, keys, cam, device, fifo, executing, step, leaked, stale>>
  BY SlotsAssumption DEF CamIInv, IInv, CamInv, DeleteSoftware, driver, history
<1>2. \A l \in Keys : wk_keyix'[l] = IF l = k THEN NoSlot ELSE wk_keyix[l]
  BY <1>1 DEF TypeOK
<1>3. StaticKnown'
  BY <1>1, <1>2 DEF StaticKnown, Keys
<1>4. ASSUME device' # "stopped", NEW s \in Slots \ stale' PROVE Reached(s)'
  <2>1. Reached(s)
    BY <1>1, <1>4 DEF CamIInv, CamInv
  <2> QED BY <1>1, <1>2, <2>1, SameFate, ReachedKept
<1> QED BY <1>3, <1>4 DEF CamInv

\* The writes of a command, to the slot it is for.
LEMMA CommandCam ==
    ASSUME CamIInv, Begin \/ SetKey \/ SetCtl \/ DelCtl \/ DelKey \/ WriteFails
    PROVE  CamInv'
<1>1. /\ TypeOK /\ StaticKnown
      /\ UNCHANGED <<wk_keyix, wk_key, isset, keys, device, leaked>>
      /\ stale \subseteq stale'
  BY DEF CamIInv, IInv, CamInv, Begin, SetKey, SetCtl, DelCtl, DelKey, WriteFails,
         net80211, driver, history
<1>2. StaticKnown'
  <2>1. device = "running"
    <3>1. CASE Begin
      BY <3>1 DEF Begin, Queue!Begin
    <3>2. CASE executing # NoKey
      BY <1>1, <3>2 DEF StaticKnown
    <3> QED BY <3>1, <3>2 DEF SetKey, SetCtl, DelCtl, DelKey, WriteFails, Doing
  <2> QED BY <1>1, <2>1 DEF StaticKnown
<1>3. SUFFICES ASSUME device # "stopped", NEW s \in Slots, s \notin stale' PROVE Reached(s)'
  BY <1>1, <1>2 DEF CamInv
<1>4. Reached(s)
  BY <1>1, <1>3 DEF CamIInv, CamInv
<1>5. cam \in [Slots -> [valid : BOOLEAN, owner : Keys \union {NoKey},
                         value : Values \union {NoKey}]]
  BY <1>1 DEF TypeOK
<1>6. CASE Begin
  <2>1. cam' = cam /\ step' = 0 /\ Queue!Begin
    BY <1>6 DEF Begin
  <2>2. /\ \A c \in Cmds : Ultimate(s, c)' => Ultimate(s, c)
        /\ Untouched(s)' => Untouched(s)
    BY <1>1, <2>1, BeginFate DEF TypeOK
  <2> QED BY <1>1, <1>4, <2>1, <2>2, ReachedKept
<1>7. ASSUME executing # NoKey, executing.slot # s,
             SetKey \/ SetCtl \/ DelCtl \/ DelKey \/ WriteFails
      PROVE  Reached(s)'
  <2>1. cam'[s] = cam[s]
    BY <1>5, <1>7 DEF SetKey, SetCtl, DelCtl, DelKey, WriteFails, TypeOK
  <2>2. ~OnlyExecuting(s)
    BY <1>7 DEF OnlyExecuting, ExecutingOn
  <2>3. UNCHANGED <<fifo, executing>> \/ Queue!End
    BY <1>7 DEF SetKey, SetCtl, DelCtl, DelKey, WriteFails
  <2>4. /\ \A c \in Cmds : Ultimate(s, c)' => Ultimate(s, c)
        /\ Untouched(s)' => Untouched(s)
        /\ ~OnlyExecuting(s)'
    BY <1>7, <2>2, <2>3, SameFate, EndFate
  <2> QED BY <1>1, <1>4, <2>1, <2>4, ReachedKept
<1>8. ASSUME executing # NoKey, executing.slot = s, SetKey \/ DelCtl
      PROVE  Reached(s)'
  <2>1. /\ UNCHANGED <<fifo, executing>> /\ executing \in Cmds
    BY <1>1, <1>8 DEF SetKey, DelCtl, TypeOK
  <2>2. /\ \A c : Ultimate(s, c)' <=> Ultimate(s, c)
        /\ OnlyExecuting(s)' <=> OnlyExecuting(s)
        /\ ~Untouched(s)'
    BY <1>8, <2>1, SameFate DEF Untouched, ExecutingOn
  <2>3. ASSUME OnlyExecuting(s) PROVE Ultimate(s, executing)
    BY <2>3 DEF Ultimate
  <2>4. ASSUME NEW k \in Keys, wk_keyix[k] = s, isset[k] PROVE KeyReaches(k, s)'
    <3>1. KeyReaches(k, s)
      BY <1>4, <2>4 DEF Reached
    <3>2. ASSUME OnlyExecuting(s) PROVE cam'[s].value = wk_key[k]
      <4>1. executing.func = "set" /\ executing.value = wk_key[k]
        BY <2>1, <2>3, <3>1, <3>2 DEF KeyReaches
      <4>2. SetKey
        BY <1>8, <4>1 DEF DelCtl, Doing
      <4>3. cam' = [cam EXCEPT ![s].value = wk_key[k]]
        BY <1>8, <4>1, <4>2 DEF SetKey
      <4> QED BY <1>5, <4>3
    <3> QED BY <1>1, <2>2, <3>1, <3>2 DEF KeyReaches
  <2>5. ASSUME s \notin leaked, \A k \in Keys : wk_keyix[k] # s PROVE SlotEmptied(s)'
    <3>1. SlotEmptied(s)
      BY <1>4, <2>5 DEF Reached
    <3>2. ASSUME OnlyExecuting(s) PROVE ~cam'[s].valid
      <4>1. executing.func = "del"
        BY <2>1, <2>3, <3>1, <3>2 DEF SlotEmptied
      <4>2. DelCtl
        BY <1>8, <4>1 DEF SetKey, Doing
      <4>3. cam' = [cam EXCEPT ![s].valid = FALSE, ![s].owner = NoKey]
        BY <1>8, <4>2 DEF DelCtl
      <4> QED BY <1>5, <4>3
    <3> QED BY <2>2, <3>1, <3>2 DEF SlotEmptied
  <2> QED BY <1>1, <2>4, <2>5 DEF Reached
<1>9. ASSUME executing # NoKey, executing.slot = s, SetCtl \/ DelKey
      PROVE  Reached(s)'
  <2>1. Queue!End /\ executing \in Cmds /\ step = 1
    BY <1>1, <1>9 DEF SetCtl, DelKey, Doing, TypeOK
  <2>2. /\ \A c : Ultimate(s, c)' => Ultimate(s, c)
        /\ ~OnlyExecuting(s)'
        /\ Untouched(s)' => OnlyExecuting(s)
    BY <1>9, <2>1, EndFate DEF Untouched, ExecutingOn
  <2>3. ASSUME OnlyExecuting(s) PROVE Ultimate(s, executing)
    BY <2>3 DEF Ultimate
  <2>4. ASSUME NEW k \in Keys, wk_keyix[k] = s, isset[k] PROVE KeyReaches(k, s)'
    <3>1. KeyReaches(k, s)
      BY <1>4, <2>4 DEF Reached
    <3>2. ASSUME OnlyExecuting(s)
          PROVE  cam'[s] = [valid |-> TRUE, owner |-> k, value |-> wk_key[k]]
      <4>1. /\ executing.func = "set" /\ executing.key = k /\ cam[s].value = wk_key[k]
        BY <2>1, <2>3, <3>1, <3>2 DEF KeyReaches
      <4>2. SetCtl
        BY <1>9, <4>1 DEF DelKey, Doing
      <4>3. cam' = [cam EXCEPT ![s].valid = TRUE, ![s].owner = k]
        BY <1>9, <4>1, <4>2 DEF SetCtl
      <4> QED BY <1>5, <4>1, <4>3
    <3> QED BY <1>1, <2>2, <3>1, <3>2 DEF KeyReaches
  <2>5. ASSUME s \notin leaked, \A k \in Keys : wk_keyix[k] # s PROVE SlotEmptied(s)'
    <3>1. SlotEmptied(s)
      BY <1>4, <2>5 DEF Reached
    <3>2. ASSUME OnlyExecuting(s) PROVE ~cam'[s].valid
      <4>1. executing.func = "del" /\ ~cam[s].valid
        BY <2>1, <2>3, <3>1, <3>2 DEF SlotEmptied
      <4>2. DelKey
        BY <1>9, <4>1 DEF SetCtl, Doing
      <4>3. cam' = [cam EXCEPT ![s].value = NoKey]
        BY <1>9, <4>2 DEF DelKey
      <4> QED BY <1>5, <4>1, <4>3
    <3> QED BY <2>2, <3>1, <3>2 DEF SlotEmptied
  <2> QED BY <1>1, <2>4, <2>5 DEF Reached
<1>10. CASE WriteFails
  <2>1. executing # NoKey /\ stale' = stale \union {executing.slot}
    BY <1>10 DEF WriteFails
  <2> QED BY <1>3, <1>7, <1>10, <2>1
<1> QED BY <1>6, <1>7, <1>8, <1>9, <1>10 DEF SetKey, SetCtl, DelCtl, DelKey, Doing

\* rtwn_init() writes the keys there are; a set command of earlier that is
\* still in the queue makes its slot stale.
LEMMA InitCamCam == ASSUME CamIInv, InitCam PROVE CamInv'
<1>1. /\ TypeOK /\ Ownership /\ StaticKnown /\ device = "stopped" /\ device' = "starting"
      /\ UNCHANGED <<wk_keyix, wk_key, isset, keys_bmap, keys, fifo, executing, step, leaked>>
      /\ executing = NoKey
  BY DEF CamIInv, IInv, CamInv, InitCam, net80211, driver, StaticKnown
<1>2. StaticKnown'
  BY <1>1 DEF StaticKnown
<1>3. SUFFICES ASSUME NEW s \in Slots, s \notin PendingSlots("set") PROVE Reached(s)'
  BY <1>1, <1>2 DEF CamInv, InitCam
<1>4. \A n \in 1 .. Len(fifo) : fifo[n] \in Cmds /\ (fifo[n].slot = s => fifo[n].func = "del")
  <2>1. \A n \in 1 .. Len(fifo) : fifo[n] \in Cmds
    BY <1>1, ElementOfSeq DEF TypeOK
  <2> QED BY <1>3, <2>1, PendingDef DEF Cmds
<1>5. /\ \A c : Ultimate(s, c)' <=> Ultimate(s, c)
      /\ ~OnlyExecuting(s)'
  BY <1>1, SameFate DEF OnlyExecuting, ExecutingOn
<1>6. \A c : Ultimate(s, c) => c.func = "del" /\ ~NonePending(s)
  BY <1>1, <1>4 DEF Ultimate, LastFor, OnlyExecuting, ExecutingOn, NonePending
<1>7. cam'[s] = IF StaticEntry(s) = {} THEN Invalid
                ELSE LET k == CHOOSE k \in StaticEntry(s) : TRUE
                     IN  [valid |-> TRUE, owner |-> k, value |-> wk_key[k]]
  BY DEF InitCam
<1>8. ASSUME NEW k \in Keys, wk_keyix[k] = s, isset[k] PROVE KeyReaches(k, s)'
  <2>1. s \notin Deleting
    BY <1>1, <1>8 DEF Ownership, SlotsExclusive, HasSlot
  <2>2. NonePending(s)
    BY <1>4, <2>1, DeletingDef DEF NonePending
  <2>3. k \in keys
    BY <1>1, <1>8 DEF StaticKnown, Keys
  <2>4. \A l \in StaticEntry(s) : l = k
    BY <1>1, <1>8 DEF StaticEntry, Ownership, SlotsExclusive, HasSlot, TypeOK, Keys
  <2>5. StaticEntry(s) = {k}
    BY <1>8, <2>3, <2>4 DEF StaticEntry
  <2>6. cam'[s] = [valid |-> TRUE, owner |-> k, value |-> wk_key[k]]
    BY <1>7, <2>5
  <2> QED BY <1>1, <1>5, <1>6, <2>2, <2>6 DEF KeyReaches
<1>9. ASSUME \A k \in Keys : wk_keyix[k] # s PROVE SlotEmptied(s)'
  <2>1. StaticEntry(s) = {}
    BY <1>1, <1>9 DEF StaticEntry, TypeOK, Keys
  <2>2. ~cam'[s].valid
    BY <1>7, <2>1 DEF Invalid
  <2> QED BY <1>5, <1>6, <2>2 DEF SlotEmptied
<1> QED BY <1>1, <1>8, <1>9 DEF Reached

LEMMA DeviceCam ==
    ASSUME CamIInv, InitDone \/ InitFails \/ Stop \/ UNCHANGED vars
    PROVE  CamInv'
<1>1. /\ StaticKnown
      /\ UNCHANGED <<wk_keyix, wk_key, isset, keys_bmap, keys, cam, fifo, executing, step,
                     leaked, stale>>
      /\ device' # "stopped" => device # "stopped"
  BY DEF CamIInv, CamInv, InitDone, InitFails, Stop, vars, net80211, driver, history
<1>2. StaticKnown'
  BY <1>1, SlotsAssumption DEF StaticKnown, InitDone, InitFails, Stop, vars
<1>3. ASSUME device' # "stopped", NEW s \in Slots \ stale' PROVE Reached(s)'
  <2>1. Reached(s)
    BY <1>1, <1>3 DEF CamIInv, CamInv
  <2> QED BY <1>1, <2>1, SameFate, ReachedKept
<1> QED BY <1>2, <1>3 DEF CamInv

LEMMA NextCamIInv == CamIInv /\ [Next]_vars => CamIInv'
<1> SUFFICES ASSUME CamIInv, [Next]_vars PROVE CamIInv'
  OBVIOUS
<1>1. IInv'
  BY NextIInv DEF CamIInv
<1>2. CamInv'
  BY AllocCam, SetCam, DeleteCam, DeleteSoftwareCam, CommandCam, InitCamCam, DeviceCam DEF Next
<1> QED BY <1>1, <1>2 DEF CamIInv

LEMMA CamIInvAgrees == CamIInv => CamAgrees
<1> SUFFICES ASSUME CamIInv, Quiet PROVE /\ \A k \in Keys : HasSlot(k) /\ isset[k] =>
                                                Installed(k) \/ wk_keyix[k] \in stale
                                         /\ \A i \in Slots : cam[i].valid =>
                                                \/ i \in stale \union leaked
                                                \/ \E k \in Keys : wk_keyix[k] = i
  BY DEF CamAgrees
<1>1. \A s \in Slots \ stale : Reached(s)
  BY DEF CamIInv, CamInv, Quiet
<1>2. \A s : Untouched(s)
  BY EmptySeq DEF Quiet, Untouched, NonePending, ExecutingOn
<1>3. \A k \in Keys : HasSlot(k) /\ isset[k] => Installed(k) \/ wk_keyix[k] \in stale
  BY <1>1, <1>2 DEF Reached, KeyReaches, HasSlot, Installed
<1>4. \A i \in Slots : cam[i].valid =>
         i \in stale \union leaked \/ \E k \in Keys : wk_keyix[k] = i
  BY <1>1, <1>2 DEF Reached, SlotEmptied
<1> QED BY <1>3, <1>4

\* Once the commands have run, the chip has every key that net80211 was told is
\* set, with its last material, and no valid entry without a key, whatever keys
\* have been replaced, deleted and allocated, and whatever stops and starts came
\* meanwhile; but for the slots of the history variables.
THEOREM ChipKeysCorrect == Spec => []CamAgrees
<1>1. Init => CamIInv
  BY InitTypes, InitOwnership, CamInvInit DEF CamIInv, IInv
<1> QED BY <1>1, CamIInvAgrees, NextCamIInv, PTL DEF Spec
=============================================================================
