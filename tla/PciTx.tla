-------------------------------- MODULE PciTx --------------------------------
(***************************************************************************)
(* Transmission on PCI: the software queue sc_snd, the Tx descriptor rings *)
(* shared with the device, the interrupt handler that reaps them, deletion *)
(* of a vap while others keep running, the watchdog and restarts           *)
(* (if_rtwn_tx.c, pci/rtwn_pci_{tx,rx,attach}.c, if_rtwn.c).               *)
(*                                                                         *)
(* RTWN_LOCK serialises the driver; "lock" says which loop its holder is   *)
(* in.  The interrupt handler drops it while it hands received frames to   *)
(* net80211, after it has read and acknowledged the interrupt status.  The *)
(* device owns the entries whose OWN bit is set and finishes each ring in  *)
(* order.                                                                  *)
(***************************************************************************)
EXTENDS Integers, Sequences, FiniteSets

CONSTANTS
    Queues,         \* Tx rings, as indices
    Vaps,           \* virtual interfaces
    Plans,          \* records [count, queues, vaps]: the length of the rings
                    \* (256), which of them are used, and by which vaps
    NoMbuf,         \* data->m == NULL
    NoNode,         \* data->m != NULL, data->ni == NULL
    SndLimit,       \* bound of sc_snd (ifqmaxlen)
    TxTimeout       \* seconds the watchdog grants (5)

ASSUME PlansAssumption ==
    \A p \in Plans : p.count \in Nat \ {0, 1} /\ p.queues \subseteq Queues /\ p.vaps \subseteq Vaps
ASSUME QueuesAssumption == Queues \subseteq Nat /\ IsFiniteSet(Queues)
ASSUME MarksAssumption == NoMbuf # NoNode /\ {NoMbuf, NoNode} \cap Vaps = {}
ASSUME BoundsAssumption == SndLimit \in Nat /\ TxTimeout \in Nat \ {0}

VARIABLES
    plan,
    vaps,           \* vaps that exist
    running,        \* sc_flags & RTWN_RUNNING
    snd,            \* sc_snd: frames not yet given to a ring
    data,           \* ring, entry -> vap of data->ni, NoNode or NoMbuf
    own,            \* ring, entry -> the OWN bit
    cur, last, queued,
    qfullmsk,       \* rings whose bit is set
    timer,          \* sc_tx_timer
    watchdog,       \* sc_watchdog_to is armed
    restart,        \* ieee80211_restart_all() was called: "no", "stop", "init"
    intr,           \* rings with an unacknowledged completion interrupt
    lock,           \* RTWN_LOCK: "free", or held in "start" / "done"
    isr,            \* rtwn_pci_intr(): "idle", "input" (lock dropped), "done"
    rings           \* its local tx_rings, those still to be reaped

ringvars == <<data, own, cur, last, queued, qfullmsk>>
dog == <<timer, watchdog, restart>>
vars == <<plan, vaps, running, snd, data, own, cur, last, queued, qfullmsk, timer,
          watchdog, restart, intr, lock, isr, rings>>

TX_LIST_COUNT == plan.count
Entries == 0 .. TX_LIST_COUNT - 1
Advance(i) == (i + 1) % TX_LIST_COUNT
Frames == [vap : Vaps, q : Queues]
EmptyRing(x) == [q \in Queues |-> [i \in Entries |-> x]]
Zero == [q \in Queues |-> 0]

Init ==
    /\ plan \in Plans
    /\ vaps = plan.vaps
    /\ running = FALSE
    /\ snd = <<>>
    /\ data = EmptyRing(NoMbuf)
    /\ own = EmptyRing(FALSE)
    /\ cur = Zero /\ last = Zero /\ queued = Zero
    /\ qfullmsk = {}
    /\ timer = 0 /\ watchdog = FALSE /\ restart = "no"
    /\ intr = {}
    /\ lock = "free"
    /\ isr = "idle"
    /\ rings = {}

-----------------------------------------------------------------------------
(* rtwn_pci_tx_start_frame() *)

\* When the bit of a ring is set; the last entry is never filled.
Full(n) == n >= TX_LIST_COUNT - 1

\* ENOBUFS otherwise.
HasRoom(q) == data[q][cur[q]] = NoMbuf /\ ~own[q][cur[q]]

Place(q, v) ==
    /\ HasRoom(q)
    /\ data' = [data EXCEPT ![q][cur[q]] = v]
    /\ own' = [own EXCEPT ![q][cur[q]] = TRUE]
    /\ cur' = [cur EXCEPT ![q] = Advance(@)]
    /\ queued' = [queued EXCEPT ![q] = @ + 1]
    /\ qfullmsk' = IF Full(queued[q] + 1)
                   THEN qfullmsk \union {q} ELSE qfullmsk
    /\ timer' = TxTimeout
    /\ UNCHANGED <<last, watchdog, restart>>

\* The frame cannot be mapped even after it was defragmented: it is freed and
\* the call reports success.
DropUnmapped(q) == HasRoom(q) /\ UNCHANGED <<ringvars, dog>>

-----------------------------------------------------------------------------
(* rtwn_transmit(), rtwn_raw_xmit() and rtwn_start() *)

Transmit(v, q) ==
    /\ lock = "free"
    /\ running
    /\ v \in vaps
    /\ Len(snd) < SndLimit
    /\ snd' = Append(snd, [vap |-> v, q |-> q])
    /\ lock' = "start"
    /\ UNCHANGED <<plan, vaps, running, ringvars, dog, intr, isr, rings>>

\* Management frames go to their ring at once or are refused.
RawXmit(v, q) ==
    /\ lock = "free"
    /\ running
    /\ v \in vaps
    /\ qfullmsk = {}
    /\ Place(q, v)
    /\ UNCHANGED <<plan, vaps, running, snd, intr, lock, isr, rings>>

\* rtwn_start() was called by rtwn_transmit() or from rtwn_pci_tx_done().
StartReturns == lock' = IF isr = "done" THEN "done" ELSE "free"

StartFrame ==
    /\ lock = "start"
    /\ snd # <<>>
    /\ qfullmsk = {}
    /\ \/ Place(Head(snd).q, Head(snd).vap)
       \/ DropUnmapped(Head(snd).q)
    /\ snd' = Tail(snd)
    /\ UNCHANGED <<plan, vaps, running, intr, lock, isr, rings>>

\* rtwn_tx_data() fails (no key, no mapping, no room): the frame is lost and
\* the loop is left.
StartError ==
    /\ lock = "start"
    /\ snd # <<>>
    /\ qfullmsk = {}
    /\ snd' = Tail(snd)
    /\ StartReturns
    /\ UNCHANGED <<plan, vaps, running, ringvars, dog, intr, isr, rings>>

StartEnd ==
    /\ lock = "start"
    /\ snd = <<>> \/ qfullmsk # {}
    /\ StartReturns
    /\ UNCHANGED <<plan, vaps, running, snd, ringvars, dog, intr, isr, rings>>

-----------------------------------------------------------------------------
(* The device *)

\* The first entry it still owns, counted from "last".
NextOwned(q, i) ==
    /\ own[q][i]
    /\ \A j \in Entries :
          own[q][j] => (i - last[q]) % TX_LIST_COUNT <= (j - last[q]) % TX_LIST_COUNT

DeviceSends(q) ==
    /\ running
    /\ \E i \in Entries : /\ NextOwned(q, i)
                          /\ own' = [own EXCEPT ![q][i] = FALSE]
    /\ intr' = intr \union {q}
    /\ UNCHANGED <<plan, vaps, running, snd, data, cur, last, queued, qfullmsk, dog,
                   lock, isr, rings>>

-----------------------------------------------------------------------------
(* rtwn_pci_intr() *)

\* The status is read and acknowledged and interrupts are masked; "input" is
\* RTWN_LOCK dropped in rtwn_pci_rx_frame(), for received frames.
Interrupt(receives) ==
    /\ lock = "free"
    /\ isr = "idle"
    /\ running
    /\ intr # {} \/ receives
    /\ rings' = intr
    /\ intr' = {}
    /\ IF receives THEN isr' = "input" /\ lock' = "free"
                   ELSE isr' = "done" /\ lock' = "done"
    /\ UNCHANGED <<plan, vaps, running, snd, ringvars, dog>>

\* Back from net80211: the device may have been stopped, and started, since.
InputReturns ==
    /\ isr = "input"
    /\ lock = "free"
    /\ IF running
       THEN isr' = "done" /\ lock' = "done" /\ UNCHANGED rings
       ELSE isr' = "idle" /\ rings' = {} /\ UNCHANGED lock
    /\ UNCHANGED <<plan, vaps, running, snd, ringvars, dog, intr>>

\* Rings are reaped in the order of their indices.
Reaping(q) == lock = "done" /\ q \in rings /\ \A p \in rings : q <= p

\* The loop goes on: there is an entry, and the device is done with it.
Finished(q) == last[q] # cur[q] /\ ~own[q][last[q]]

\* One turn of the loop of rtwn_pci_tx_done().
ReapEntry(q) ==
    /\ Reaping(q)
    /\ Finished(q)
    /\ queued' = IF data[q][last[q]] # NoNode
                 THEN [queued EXCEPT ![q] = @ - 1] ELSE queued
    /\ data' = [data EXCEPT ![q][last[q]] = NoMbuf]
    /\ last' = [last EXCEPT ![q] = Advance(@)]
    /\ timer' = IF queued'[q] > 0 THEN TxTimeout ELSE 0
    /\ UNCHANGED <<plan, vaps, running, snd, own, cur, qfullmsk, watchdog, restart,
                   intr, lock, isr, rings>>

\* The loop ends; a ring that is no longer full lets rtwn_start() run.
ReapEnd(q) ==
    /\ Reaping(q)
    /\ ~Finished(q)
    /\ rings' = rings \ {q}
    /\ IF q \in qfullmsk /\ ~Full(queued[q])
       THEN qfullmsk' = qfullmsk \ {q} /\ lock' = "start"
       ELSE UNCHANGED <<qfullmsk, lock>>
    /\ UNCHANGED <<plan, vaps, running, snd, data, own, cur, last, queued, dog, intr, isr>>

\* Mutant: the status is acknowledged at the end.
InterruptEndAcks ==
    /\ lock = "done"
    /\ rings = {}
    /\ intr' = {}
    /\ lock' = "free"
    /\ isr' = "idle"
    /\ UNCHANGED <<plan, vaps, running, snd, ringvars, dog, rings>>

InterruptEnd ==
    /\ lock = "done"
    /\ rings = {}
    /\ lock' = "free"
    /\ isr' = "idle"
    /\ UNCHANGED <<plan, vaps, running, snd, ringvars, dog, intr, rings>>

-----------------------------------------------------------------------------
(* rtwn_init(), rtwn_stop(), rtwn_watchdog(), rtwn_vap_delete() *)

\* rtwn_start_xfers() clears what interrupts are pending.
Start ==
    /\ lock = "free"
    /\ ~running
    /\ vaps # {}
    /\ running' = TRUE
    /\ watchdog' = TRUE
    /\ restart' = "no"
    /\ intr' = {}
    /\ UNCHANGED <<plan, vaps, snd, ringvars, timer, lock, isr, rings>>

DrainNothing == UNCHANGED snd                       \* mutant
DrainMbufq == snd' = <<>>

\* rtwn_drain_mbufq(), rtwn_power_off() and rtwn_reset_lists(sc, NULL).
Stop ==
    /\ lock = "free"
    /\ running
    /\ running' = FALSE
    /\ watchdog' = FALSE
    /\ timer' = 0
    /\ restart' = IF restart = "stop" THEN "init" ELSE "no"
    /\ DrainMbufq
    /\ data' = EmptyRing(NoMbuf)
    /\ own' = EmptyRing(FALSE)
    /\ cur' = Zero /\ last' = Zero /\ queued' = Zero
    /\ qfullmsk' = {}
    /\ UNCHANGED <<plan, vaps, intr, lock, isr, rings>>

\* Mutant: no restart is requested.
TickOnly ==
    /\ watchdog
    /\ lock = "free"
    /\ timer > 0
    /\ timer' = timer - 1
    /\ watchdog' = (timer # 1)
    /\ UNCHANGED <<plan, vaps, running, snd, ringvars, restart, intr, lock, isr, rings>>

\* One second passes; on expiry the watchdog is not armed again.
Tick ==
    /\ watchdog
    /\ lock = "free"
    /\ timer > 0
    /\ timer' = timer - 1
    /\ IF timer = 1 THEN watchdog' = FALSE /\ restart' = "stop"
                    ELSE UNCHANGED <<watchdog, restart>>
    /\ UNCHANGED <<plan, vaps, running, snd, ringvars, intr, lock, isr, rings>>

\* Mutant: the counts are reset as they are for the whole device.
VapDeleteRecounts(v) ==
    /\ lock = "free"
    /\ v \in vaps
    /\ running => vaps # {v}
    /\ vaps' = vaps \ {v}
    /\ data' = [q \in Queues |-> [i \in Entries |->
                  IF data[q][i] = v THEN NoNode ELSE data[q][i]]]
    /\ queued' = Zero
    /\ UNCHANGED <<plan, running, snd, own, cur, last, qfullmsk, dog, intr, lock, isr, rings>>

\* ieee80211_stop() has stopped the device if v was the last one up.
VapDelete(v) ==
    /\ lock = "free"
    /\ v \in vaps
    /\ running => vaps # {v}
    /\ vaps' = vaps \ {v}
    /\ data' = [q \in Queues |-> [i \in Entries |->
                  IF data[q][i] = v THEN NoNode ELSE data[q][i]]]
    /\ UNCHANGED <<plan, running, snd, own, cur, last, queued, qfullmsk, dog, intr,
                   lock, isr, rings>>

VapCreate(v) ==
    /\ lock = "free"
    /\ v \in Vaps \ vaps
    /\ vaps' = vaps \union {v}
    /\ UNCHANGED <<plan, running, snd, ringvars, dog, intr, lock, isr, rings>>

-----------------------------------------------------------------------------
LockHolder ==
    \/ StartFrame \/ StartError \/ StartEnd
    \/ \E q \in Queues : ReapEntry(q) \/ ReapEnd(q)
    \/ InterruptEnd

Next ==
    \/ \E v \in plan.vaps, q \in plan.queues : Transmit(v, q) \/ RawXmit(v, q)
    \/ LockHolder
    \/ \E q \in Queues : DeviceSends(q)
    \/ \E receives \in BOOLEAN : Interrupt(receives)
    \/ InputReturns
    \/ Start \/ Stop \/ Tick
    \/ \E v \in plan.vaps : VapDelete(v) \/ VapCreate(v)

Spec == Init /\ [][Next]_vars

\* A holder of RTWN_LOCK goes on and releases it, and whoever waits for it gets
\* it eventually; time passes; a restart that was requested is carried out.
Fairness ==
    /\ WF_vars(LockHolder)
    /\ SF_vars(InputReturns)
    /\ SF_vars(Tick)
    /\ SF_vars((restart = "stop" /\ Stop) \/ (restart = "init" /\ Start))

\* The device finishes the entries it owns and its interrupts are delivered.
\* (Without this a ring can stay full: the timer the rings share is switched off
\* by any other ring that runs empty.)
DeviceFairness ==
    /\ \A q \in Queues : WF_vars(DeviceSends(q))
    /\ SF_vars(Interrupt(FALSE))

FairSpec == Spec /\ Fairness /\ DeviceFairness

-----------------------------------------------------------------------------
\* Types of the variables; the indices stay in the ring and the timer does not
\* go below zero.
TypeOK ==
    /\ vaps \subseteq Vaps
    /\ running \in BOOLEAN
    /\ snd \in Seq(Frames)
    /\ data \in [Queues -> [Entries -> Vaps \union {NoNode, NoMbuf}]]
    /\ own \in [Queues -> [Entries -> BOOLEAN]]
    /\ cur \in [Queues -> Entries]
    /\ last \in [Queues -> Entries]
    /\ queued \in [Queues -> Int]
    /\ qfullmsk \subseteq Queues
    /\ timer \in 0 .. TxTimeout
    /\ watchdog \in BOOLEAN
    /\ restart \in {"no", "stop", "init"}
    /\ intr \subseteq Queues
    /\ lock \in {"free", "start", "done"}
    /\ isr \in {"idle", "input", "done"}
    /\ rings \subseteq Queues

Loaded(q) == {i \in Entries : data[q][i] # NoMbuf}
Pending(q) == (cur[q] - last[q]) % TX_LIST_COUNT

\* The loaded entries of a ring are those from last up to cur, and never all
\* of it: last = cur always means empty, so a full ring is never mistaken for
\* an empty one and "no mbuf" is never hit; and the device is only ever given
\* loaded entries.
RingIsWindow ==
    \A q \in Queues :
        /\ Loaded(q) = {(last[q] + k) % TX_LIST_COUNT : k \in 0 .. Pending(q) - 1}
        /\ \A i \in Entries : own[q][i] => i \in Loaded(q)

\* An entry the device has finished with will be reaped: its ring's interrupt
\* is pending, or the handler has yet to come to it.
NoLostCompletion ==
    running => \A q \in Queues :
        (last[q] # cur[q] /\ ~own[q][last[q]]) => q \in intr \union rings

\* Driver and device agree on the rings, through interrupts that drop the lock,
\* deletions of vaps, stops and starts.
RingSound == TypeOK /\ RingIsWindow /\ NoLostCompletion

\* "ring->queued underflow": the count covers every entry that has a node.
QueuedCovers ==
    \A q \in Queues :
        queued[q] >= Cardinality({i \in Loaded(q) : data[q][i] # NoNode})

\* The flow-control bit agrees with the count whenever the lock is free.
FullBitAgrees ==
    lock = "free" =>
        \A q \in Queues : q \in qfullmsk <=> queued[q] >= TX_LIST_COUNT - 1

\* The count and the bit that rtwn_start() and rtwn_raw_xmit() go by.
FlowAgrees == QueuedCovers /\ FullBitAgrees

\* A stopped device has no frame left anywhere.
StoppedIsEmpty ==
    ~running => snd = <<>> /\ qfullmsk = {} /\ \A q \in Queues : Loaded(q) = {}

\* rtwn_vap_delete(): "Cancel any unfinished Tx."  No frame of a vap that is
\* gone is left in sc_snd or, with its node, in a ring.  (Not so in sc_snd: see
\* the README.)
NothingUnfinished ==
    /\ \A k \in 1 .. Len(snd) : snd[k].vap \in vaps
    /\ \A q \in Queues, i \in Entries : data[q][i] \in vaps \union {NoNode, NoMbuf}

\* The count of a ring is too high: frames of a deleted vap went uncounted.
Miscounted(q) == queued[q] > Cardinality({i \in Loaded(q) : data[q][i] # NoNode})

\* Flow control is lifted again, if need be by the watchdog.  The one way out is
\* a ring whose count is too high, once another ring has run empty and has
\* switched off the timer they share, so that the watchdog never fires.
FlowResumes ==
    \A q \in Queues :
        (q \in qfullmsk) ~> (q \notin qfullmsk \/ (Miscounted(q) /\ watchdog /\ timer = 0))
=============================================================================
