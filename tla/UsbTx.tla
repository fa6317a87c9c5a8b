-------------------------------- MODULE UsbTx --------------------------------
(***************************************************************************)
(* Transmission on USB: the software queue, the buffers and the lists they *)
(* move between, the bulk transfers and their callbacks, flow control, the *)
(* watchdog, deletion of a vap and the stop of the device                  *)
(* (if_rtwn_tx.c, usb/rtwn_usb_{tx,attach}.c, if_rtwn.c).                  *)
(*                                                                         *)
(* RTWN_LOCK serialises all of it, also the callbacks, but it is dropped   *)
(* while rtwn_stop() waits for the transfers to end.  The lists are common *)
(* to all transfers: a callback completes the oldest active buffer and     *)
(* sends the oldest pending one, whichever transfer these were meant for.  *)
(* "lock" is "start" while its holder is in the loop of rtwn_start().      *)
(***************************************************************************)
EXTENDS Integers, Sequences, FiniteSets, SequencesExt

CONSTANTS
    Bufs,           \* uc_tx[] (16)
    Xfers,          \* bulk transfers for sending, as indices (BE 1 .. VO 4)
    VO,             \* the one for management frames
    Vaps,
    VapId,          \* vap -> uvp->id
    NoId,           \* RTWN_VAP_ID_INVALID, a monitor vap
    NoFrame,        \* a free buffer
    SndLimit,       \* bound of sc_snd (ifqmaxlen)
    BeaconLimit,    \* bound of the beacons in the lists, fewer than buffers
    TxTimeout       \* seconds the watchdog grants (5)

ASSUME XfersAssumption == Xfers \subseteq Nat /\ IsFiniteSet(Xfers) /\ VO \in Xfers
ASSUME BufsAssumption == IsFiniteSet(Bufs) /\ Bufs # {}
ASSUME FrameAssumption == NoFrame \notin [vap : Vaps, beacon : BOOLEAN]
ASSUME BoundsAssumption ==
    SndLimit \in Nat /\ TxTimeout \in Nat \ {0} /\ BeaconLimit \in 0 .. Cardinality(Bufs) - 1

VARIABLES
    running,        \* sc_flags & RTWN_RUNNING
    vaps,           \* vaps that exist
    snd,            \* sc_snd
    inactive, pending, active,  \* the lists of buffers
    frame,          \* what a buffer holds
    qfullmsk,
    timer, watchdog,
    restart,        \* ieee80211_restart_all() was called: "no", "stop", "init"
    xfer,           \* the USB stack: state of a transfer
    lock,
    draining        \* rtwn_usb_abort_xfers(): transfers yet to be waited for

lists == <<inactive, pending, active, frame>>
flow == <<qfullmsk, timer>>
dog == <<watchdog, restart>>
vars == <<running, vaps, snd, inactive, pending, active, frame, qfullmsk, timer,
          watchdog, restart, xfer, lock, draining>>

\* A frame with its vap (data->ni), or a beacon (data->ni == NULL, data->id).
Frames == [vap : Vaps, beacon : BOOLEAN]
Queued == [vap : Vaps, ac : Xfers]
Stopping == draining # {}
Idle == [x \in Xfers |-> "idle"]

Init ==
    /\ running = FALSE
    /\ vaps = Vaps
    /\ snd = <<>>
    /\ inactive = SetToSeq(Bufs) /\ pending = <<>> /\ active = <<>>
    /\ frame = [b \in Bufs |-> NoFrame]
    /\ qfullmsk = FALSE
    /\ timer = 0 /\ watchdog = FALSE /\ restart = "no"
    /\ xfer = Idle
    /\ lock = "free"
    /\ draining = {}

-----------------------------------------------------------------------------
(* rtwn_usb_tx_start() *)

LastBuffer == Len(inactive) = 1

\* usbd_transfer_start(): a transfer that is under way is left alone.
StartXfer(x) == xfer' = [xfer EXCEPT ![x] = IF @ = "idle" THEN "setup" ELSE @]

\* ENOBUFS without a buffer.
TxStart(f, x) ==
    /\ inactive # <<>>
    /\ inactive' = Tail(inactive)
    /\ pending' = Append(pending, Head(inactive))
    /\ frame' = [frame EXCEPT ![Head(inactive)] = f]
    /\ qfullmsk' = (qfullmsk \/ LastBuffer)
    /\ timer' = IF f.beacon THEN timer ELSE TxTimeout
    /\ StartXfer(x)
    /\ UNCHANGED active

-----------------------------------------------------------------------------
(* rtwn_transmit(), rtwn_raw_xmit(), rtwn_tx_beacon(), rtwn_start() *)

Transmit(v, x) ==
    /\ lock = "free"
    /\ running
    /\ v \in vaps
    /\ Len(snd) < SndLimit
    /\ snd' = Append(snd, [vap |-> v, ac |-> x])
    /\ lock' = "start"
    /\ UNCHANGED <<running, vaps, lists, flow, dog, xfer, draining>>

RawXmit(v) ==
    /\ lock = "free"
    /\ running
    /\ v \in vaps
    /\ ~qfullmsk
    /\ TxStart([vap |-> v, beacon |-> FALSE], VO)
    /\ UNCHANGED <<running, vaps, snd, dog, lock, draining>>

Beacons == {b \in Bufs : frame[b] \in [vap : Vaps, beacon : {TRUE}]}

\* A beacon is sent without a look at qfullmsk, by a vap that is up.
TxBeacon(v) ==
    /\ lock = "free"
    /\ running
    /\ v \in vaps /\ VapId[v] # NoId
    /\ Cardinality(Beacons) < BeaconLimit
    /\ TxStart([vap |-> v, beacon |-> TRUE], VO)
    /\ UNCHANGED <<running, vaps, snd, dog, lock, draining>>

StartFrame ==
    /\ lock = "start"
    /\ snd # <<>>
    /\ ~qfullmsk
    /\ TxStart([vap |-> Head(snd).vap, beacon |-> FALSE], Head(snd).ac)
    /\ snd' = Tail(snd)
    /\ UNCHANGED <<running, vaps, dog, lock, draining>>

\* rtwn_tx_data() fails: the frame is lost and the loop is left.
StartError ==
    /\ lock = "start"
    /\ snd # <<>>
    /\ ~qfullmsk
    /\ snd' = Tail(snd)
    /\ lock' = "free"
    /\ UNCHANGED <<running, vaps, lists, flow, dog, xfer, draining>>

StartEnd ==
    /\ lock = "start"
    /\ snd = <<>> \/ qfullmsk
    /\ lock' = "free"
    /\ UNCHANGED <<running, vaps, snd, lists, flow, dog, xfer, draining>>

-----------------------------------------------------------------------------
(* The transfers: rtwn_bulk_tx_callback() *)

\* The device takes the frame, or the transfer fails or times out; the callback
\* does the same (after an error it also clears the stall).
XferEnds(x) ==
    /\ xfer[x] = "flight"
    /\ xfer' = [xfer EXCEPT ![x] = "ended"]
    /\ UNCHANGED <<running, vaps, snd, lists, flow, dog, lock, draining>>

\* rtwn_usb_txeof() of the oldest active buffer.
Txeof ==
    /\ inactive' = Append(inactive, Head(active))
    /\ frame' = [frame EXCEPT ![Head(active)] = NoFrame]
    /\ qfullmsk' = FALSE
    /\ timer' = IF Tail(active) = <<>> /\ pending = <<>> THEN 0 ELSE TxTimeout

\* From tr_setup on; "rest" is the active list by then.
TrSetup(x, rest) ==
    IF pending = <<>>
    THEN /\ active' = rest
         /\ xfer' = [xfer EXCEPT ![x] = "idle"]
         /\ UNCHANGED pending
    ELSE /\ active' = Append(rest, Head(pending))
         /\ pending' = Tail(pending)
         /\ xfer' = [xfer EXCEPT ![x] = "flight"]

Callback(x) == lock = "free" /\ lock' = "start" /\ UNCHANGED <<running, vaps, snd, dog, draining>>

\* USB_ST_SETUP, and an end that finds no active buffer.
Setup(x) ==
    /\ Callback(x)
    /\ \/ xfer[x] = "setup"
       \/ xfer[x] \in {"ended", "cancelled"} /\ active = <<>>
    /\ TrSetup(x, active)
    /\ UNCHANGED <<inactive, frame, flow>>

\* USB_ST_TRANSFERRED, and errors other than USB_ERR_CANCELLED.
TransferredStops(x) ==                              \* mutant: no next frame
    /\ Callback(x)
    /\ xfer[x] = "ended"
    /\ active # <<>>
    /\ Txeof
    /\ active' = Tail(active)
    /\ xfer' = [xfer EXCEPT ![x] = "idle"]
    /\ UNCHANGED pending
Transferred(x) ==
    /\ Callback(x)
    /\ xfer[x] = "ended"
    /\ active # <<>>
    /\ Txeof
    /\ TrSetup(x, Tail(active))

CancelledKeepsBuffer(x) ==                          \* mutant: still active
    /\ Callback(x)
    /\ xfer[x] = "cancelled"
    /\ active # <<>>
    /\ xfer' = [xfer EXCEPT ![x] = "idle"]
    /\ UNCHANGED <<lists, flow>>
Cancelled(x) ==
    /\ Callback(x)
    /\ xfer[x] = "cancelled"
    /\ active # <<>>
    /\ Txeof
    /\ active' = Tail(active)
    /\ xfer' = [xfer EXCEPT ![x] = "idle"]
    /\ UNCHANGED pending

-----------------------------------------------------------------------------
(* rtwn_usb_reset_lists() *)

\* The entries of a list that are in a set, in their order: the k-th of them is
\* the one with k of them up to it.  (SelectSeq, in a form to prove things of.)
Rank(places, n) == Cardinality({m \in places : m <= n})
Select(list, bufs) ==
    LET places == {n \in 1 .. Len(list) : list[n] \in bufs}
    IN  [k \in 1 .. Cardinality(places) |->
            list[CHOOSE n \in places : Rank(places, n) = k]]

ToInactive(gone) ==
    /\ inactive' = inactive \o Select(active \o pending, gone)
    /\ active' = Select(active, Bufs \ gone)
    /\ pending' = Select(pending, Bufs \ gone)
    /\ frame' = [b \in Bufs |-> IF b \in gone THEN NoFrame ELSE frame[b]]

InLists == ToSet(active) \union ToSet(pending)

\* A vap without an id takes every beacon for its own.
OfVap(b, v) == IF frame[b].beacon THEN VapId[v] \in {VapId[frame[b].vap], NoId}
                                  ELSE frame[b].vap = v

VapDelete(v) ==
    /\ lock = "free"
    /\ v \in vaps
    /\ running => vaps # {v}
    /\ vaps' = vaps \ {v}
    /\ ToInactive({b \in InLists : OfVap(b, v)})
    /\ UNCHANGED <<running, snd, flow, dog, xfer, lock, draining>>

VapCreate(v) ==
    /\ lock = "free"
    /\ v \in Vaps \ vaps
    /\ vaps' = vaps \union {v}
    /\ UNCHANGED <<running, snd, lists, flow, dog, xfer, lock, draining>>

-----------------------------------------------------------------------------
(* rtwn_init(), rtwn_stop(), rtwn_watchdog() *)

Start ==
    /\ lock = "free"
    /\ ~running /\ ~Stopping
    /\ vaps # {}
    /\ running' = TRUE
    /\ watchdog' = TRUE
    /\ restart' = "no"
    /\ UNCHANGED <<vaps, snd, lists, flow, xfer, lock, draining>>

StopBegin ==
    /\ lock = "free"
    /\ running
    /\ running' = FALSE
    /\ watchdog' = FALSE
    /\ timer' = 0
    /\ restart' = IF restart = "stop" THEN "init" ELSE "no"
    /\ draining' = Xfers
    /\ UNCHANGED <<vaps, snd, lists, qfullmsk, xfer, lock>>

\* usbd_transfer_drain(), one transfer after the other and without the lock.
Draining(x) == x \in draining /\ \A y \in draining : x <= y

DrainBegin(x) ==
    /\ Draining(x)
    /\ xfer[x] \in {"setup", "flight"}
    /\ xfer' = [xfer EXCEPT ![x] = IF @ = "flight" THEN "cancelled" ELSE "idle"]
    /\ UNCHANGED <<running, vaps, snd, lists, flow, dog, lock, draining>>

DrainNext(x) ==
    /\ Draining(x)
    /\ xfer[x] = "idle"
    /\ draining # {x}
    /\ draining' = draining \ {x}
    /\ UNCHANGED <<running, vaps, snd, lists, flow, dog, xfer, lock>>

\* After the last one: rtwn_drain_mbufq(), rtwn_power_off(),
\* rtwn_reset_lists(sc, NULL).
DrainEndKeepsLists(x) ==                            \* mutant: not reset
    /\ lock = "free"
    /\ draining = {x}
    /\ xfer[x] = "idle"
    /\ draining' = {}
    /\ snd' = <<>>
    /\ qfullmsk' = FALSE
    /\ UNCHANGED <<running, vaps, lists, timer, dog, xfer, lock>>
DrainEnd(x) ==
    /\ lock = "free"
    /\ draining = {x}
    /\ xfer[x] = "idle"
    /\ draining' = {}
    /\ snd' = <<>>
    /\ ToInactive(InLists)
    /\ qfullmsk' = FALSE
    /\ UNCHANGED <<running, vaps, timer, dog, xfer, lock>>

TickNoRestart ==                                    \* mutant
    /\ watchdog
    /\ lock = "free"
    /\ timer > 0
    /\ timer' = timer - 1
    /\ watchdog' = (timer # 1)
    /\ UNCHANGED <<running, vaps, snd, lists, qfullmsk, restart, xfer, lock, draining>>
Tick ==
    /\ watchdog
    /\ lock = "free"
    /\ timer > 0
    /\ timer' = timer - 1
    /\ IF timer = 1 THEN watchdog' = FALSE /\ restart' = "stop" ELSE UNCHANGED dog
    /\ UNCHANGED <<running, vaps, snd, lists, qfullmsk, xfer, lock, draining>>

-----------------------------------------------------------------------------
LockHolder == StartFrame \/ StartError \/ StartEnd

Callbacks(x) == Setup(x) \/ Transferred(x) \/ Cancelled(x)

Next ==
    \/ \E v \in Vaps :
          \/ \E x \in Xfers : Transmit(v, x)
          \/ RawXmit(v) \/ TxBeacon(v)
          \/ VapDelete(v) \/ VapCreate(v)
    \/ LockHolder
    \/ \E x \in Xfers :
          \/ XferEnds(x)
          \/ Callbacks(x)
          \/ DrainBegin(x) \/ DrainNext(x) \/ DrainEnd(x)
    \/ Start \/ StopBegin \/ Tick

Spec == Init /\ [][Next]_vars

\* A holder of RTWN_LOCK goes on, and whoever waits for it gets it; a bulk
\* transfer ends, since it has a timeout (RTWN_TX_TIMEOUT); time passes; a
\* restart that was requested is carried out.
Fairness ==
    /\ WF_vars(LockHolder)
    /\ WF_vars(\E x \in Xfers : XferEnds(x))
    /\ SF_vars(\E x \in Xfers : Callbacks(x))
    /\ SF_vars(\E x \in Xfers : DrainBegin(x) \/ DrainNext(x) \/ DrainEnd(x))
    /\ SF_vars(Tick)
    /\ SF_vars(restart = "stop" /\ StopBegin)
    /\ SF_vars(restart = "init" /\ Start)

FairSpec == Spec /\ Fairness

-----------------------------------------------------------------------------
States == {"idle", "setup", "flight", "ended", "cancelled"}

\* Types of the variables; the watchdog's timer does not go below zero.
TypeOK ==
    /\ running \in BOOLEAN
    /\ vaps \subseteq Vaps
    /\ snd \in Seq(Queued)
    /\ \A list \in {inactive, pending, active} : list \in Seq(Bufs)
    /\ frame \in [Bufs -> Frames \union {NoFrame}]
    /\ qfullmsk \in BOOLEAN
    /\ timer \in 0 .. TxTimeout
    /\ watchdog \in BOOLEAN
    /\ restart \in {"no", "stop", "init"}
    /\ xfer \in [Xfers -> States]
    /\ lock \in {"free", "start"}
    /\ draining \subseteq Xfers

\* No buffer is lost or is in two lists, and the free ones hold no frame.
BuffersOnce ==
    LET all == inactive \o pending \o active
    IN  /\ Len(all) = Cardinality(Bufs)
        /\ \A b \in Bufs : Contains(all, b)
        /\ \A b \in Bufs : frame[b] = NoFrame <=> Contains(inactive, b)

UnderWay == {x \in Xfers : xfer[x] \notin {"idle", "setup"}}

\* Every active buffer has a transfer whose end will complete a buffer: none
\* stays active for ever, although a callback completes the oldest one and
\* not its own, and a deleted vap takes buffers away from their transfers.
ActiveServed == Len(active) <= Cardinality(UnderWay)

\* A pending buffer has a transfer whose callback will send it: no start of a
\* transfer is lost.
PendingServed ==
    (pending # <<>> /\ ~Stopping) => \E x \in Xfers : xfer[x] # "idle"

\* No buffer is lost, stuck or left without a transfer.
BuffersServed == TypeOK /\ BuffersOnce /\ ActiveServed /\ PendingServed

\* rtwn_start() and rtwn_raw_xmit() look at qfullmsk only: whenever it is clear
\* there is a buffer.
RoomAgrees == inactive = <<>> => qfullmsk

\* Once rtwn_stop() is through, no frame is left in any queue.
StoppedIsEmpty ==
    (~running /\ ~Stopping) => snd = <<>> /\ pending = <<>> /\ active = <<>> /\ ~qfullmsk

\* What others go by is true of the lists.
ListsAgree == RoomAgrees /\ StoppedIsEmpty

\* Flow control is lifted again, if need be by the watchdog: deleting a vap
\* frees buffers and leaves qfullmsk set.  (Beacons do not start the watchdog:
\* that they never hold every buffer, BeaconLimit, is needed here.)
FlowResumes == qfullmsk ~> ~qfullmsk
=============================================================================
