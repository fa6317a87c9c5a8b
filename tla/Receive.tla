------------------------------ MODULE Receive ------------------------------
(***************************************************************************)
(* Reception: the descriptor ring of a PCI device and its interrupt, the   *)
(* bulk transfers of a USB device and their callback, and the reports that *)
(* come back for transmitted frames, as frames (pci/rtwn_pci_rx.c,         *)
(* usb/rtwn_usb_rx.c, if_rtwn_rx.c) or, on the r92c family, as events in a *)
(* register that the driver polls (rtl8192c/r92c_fw.c).                    *)
(*                                                                         *)
(* Both handlers hold RTWN_LOCK but drop it before a frame is given to     *)
(* net80211: the device may be stopped, and started again, in that window. *)
(***************************************************************************)
EXTENDS Frames, FiniteSets, TLC

CONSTANTS
    Chips,                      \* subset of ChipNames
    RTWN_PCI_RX_LIST_COUNT,     \* descriptors of the ring (64)
    Packets,                    \* what the air and the firmware send
    Transfers,                  \* contents of a bulk transfer
    Requests,                   \* chip -> frames to send, with settings and the
                                \* value of the node's sequence counter
    FrameLimit,                 \* chip -> bound of the frames of both directions
    StopLimit,                  \* bound of the stops
    CommandLimit                \* bound of the commands in the queue

N == RTWN_PCI_RX_LIST_COUNT
ASSUME RingAssumption == N \in Nat \ {0}
ASSUME ChipsAssumption == Chips \subseteq ChipNames
\* What the radio says of a packet: a byte of the gain, the rate.
Received(pkt) == pkt.agc \in 0 .. 255 /\ pkt.rate \in Nat
\* Reports are sent for frames of the driver's own, see TxReport.
ASSUME PacketsAssumption == \A pkt \in Packets : pkt.kind \in {"data", "c2h"} /\ Received(pkt)
\* The device puts no empty packet into a transfer.
ASSUME TransfersAssumption ==
    \A t \in Transfers :
       /\ Len(t.pkts) \in Nat \ {0}
       /\ \A i \in 1 .. Len(t.pkts) :
             t.pkts[i].len \in Nat \ {0} /\ t.pkts[i].infosz \in Nat /\ Received(t.pkts[i])
       /\ t.tail \in {"padded", "bare", "cut"}

VARIABLES
    chip,
    power,      \* "off", "on" (rtwn_init() under way), "running", "draining"
    stops,
    posted,     \* frames so far
    delivered,  \* those given to net80211, in order, with the buffers they are in
    node,       \* the sender's last_rssi and avg_pwdb
    tx,         \* the last frame sent, its descriptor, the node its report went to
    ring, cur,  \* descriptors with their buffers; ring->cur
    dev,        \* the device's place in the ring
    hisr, himr, \* pending causes; interrupts enabled
    isr,        \* where rtwn_pci_intr() is, with its local rx_desc
    odd,        \* conditions of which the properties speak
    xfer,       \* state of the transfer
    chain,      \* frames of the running callback that are yet to be passed up
    incb,       \* the callback is in net80211
    due,        \* frames the transfers so far are to deliver
    c2h         \* polled events: the register, the timer, commands in the queue,
                \* RTWN_FW_LOADED as of the last start

pciVars == <<ring, cur, dev, hisr, himr, isr, odd>>
usbVars == <<xfer, chain, incb, due>>
vars == <<chip, power, stops, posted, delivered, node, tx, ring, cur, dev, hisr,
          himr, isr, odd, xfer, chain, incb, due, c2h>>

Pci == chip \in PciChips
R92c == chip \in {"r92ce", "r92cu"}
NoPacket == [kind |-> "none", len |-> 0, infosz |-> 0, physt |-> FALSE, err |-> FALSE,
             cksum |-> "none", rate |-> 0, agc |-> 0, macid |-> 0]
Nothing == [no |-> 0, pkt |-> NoPacket]
NoTx == [desc |-> {}, rq |-> (CHOOSE r \in Requests[chip] : TRUE).rq,
         ic |-> (CHOOSE r \in Requests[chip] : TRUE).ic, seq |-> 0, credit |-> -1, report |-> "no"]
NoEvents == [event |-> -1, timer |-> FALSE, cmds |-> 0, refused |-> FALSE, fw |-> FALSE]

\* rtwn_pci_setup_rx_desc(): the descriptor is written, and owned last.  idx
\* decides which is the end of the ring.
setup_rx_desc(slot, idx) ==
    [slot EXCEPT !.addr = slot.buf, !.eor = (idx = N - 1), !.own = TRUE, !.got = Nothing]
FreshSlot(i) == setup_rx_desc([own |-> FALSE, eor |-> FALSE, addr |-> i, buf |-> i,
                               got |-> Nothing], i)

Init ==
    /\ chip \in Chips
    /\ power = "off" /\ stops = 0 /\ posted = 0
    /\ delivered = <<>>
    /\ node = [last_rssi |-> 0, avg_pwdb |-> -1]
    /\ tx = NoTx
    /\ ring = [i \in 0 .. N - 1 |-> FreshSlot(i)] /\ cur = 0 /\ dev = 0
    /\ hisr = {} /\ himr = FALSE /\ isr = [at |-> "idle", idx |-> 0] /\ odd = {}
    /\ xfer = "idle" /\ chain = <<>> /\ incb = FALSE /\ due = <<>>
    /\ c2h = NoEvents

---------------------------------------------------------------------------
(* The frames' way up. *)

IEEE80211_ACK_LEN == 10
MJUMPAGESIZE == 4096
\* What a handler gives to net80211, checks that are common to both buses.
Sound(pkt) == ~pkt.err /\ pkt.len >= IEEE80211_ACK_LEN

\* rtwn_handle_tx_report(), r92c_ratectl_tx_complete(): the node of the
\* report's macid is told; macids above the limit are refused.
MacidBits == CASE R92c -> 5 [] chip \in {"r88ee", "r88eu"} -> 6 [] OTHER -> 8
ReportMacid(macid) == macid % 2 ^ MacidBits
Credit(macid) ==
    tx' = IF tx.ic.ratectl = "net80211" /\ ReportMacid(macid) <= ParamsOf[chip].macid_limit
          THEN [tx EXCEPT !.credit = ReportMacid(macid), !.report = "no"]
          ELSE [tx EXCEPT !.report = "no"]

\* rtwn_rx_common(): frames that are too short have no sender.
Heard(pkt) == node' = IF pkt.len >= 16 THEN rtwn_rx_common(chip, pkt, node, FALSE) ELSE node

---------------------------------------------------------------------------
(* PCI.  The device fills the descriptors it owns, up to the end mark. *)

RxCauses == {"ROK", "RDU", "RXFOVW"}
TxCauses == {"TXOK"}
\* "OTHER": a cause that the driver neither enables nor knows.
ReportCauses == IF chip = "r88ee" THEN {"TXRPT"} ELSE {}
Enabled == RxCauses \union TxCauses \union ReportCauses

Post(pkt) ==
    /\ power \in {"on", "running"} /\ posted < FrameLimit[chip]
    /\ dev \in DOMAIN ring
    /\ posted' = posted + 1
    /\ \/ /\ ring[dev].own
          /\ ring' = [ring EXCEPT ![dev].own = FALSE,
                                  ![dev].got = [no |-> posted + 1, pkt |-> pkt]]
          /\ dev' = IF ring[dev].eor THEN 0 ELSE dev + 1
          /\ hisr' = hisr \union {IF pkt.kind = "report" THEN "TXRPT" ELSE "ROK"}
       \/ /\ ~ring[dev].own
          /\ hisr' = hisr \union {"RDU"}
          /\ UNCHANGED <<ring, dev>>
    /\ UNCHANGED <<chip, power, stops, delivered, node, cur, himr, isr, odd, c2h, usbVars>>
PciReceive ==
    Pci /\ \E pkt \in Packets : (pkt.kind = "c2h" => ~R92c) /\ Post(pkt) /\ UNCHANGED tx

PciCause ==
    /\ Pci /\ power = "running"
    /\ \E c \in {"TXOK", "OTHER", "RXFOVW"} : hisr = {} /\ hisr' = {c}
    /\ UNCHANGED <<chip, power, stops, posted, delivered, node, tx, ring, cur, dev, himr,
                   isr, odd, c2h, usbVars>>

\* r92ce_get_intr_status(), r88ee_get_intr_status(): all interrupts are masked,
\* whatever the cause.
get_intr_status == himr' = FALSE /\ hisr' = {}
\* rtwn_pci_intr(): called for the device's own interrupt or, on a shared
\* line, for another's: also while rtwn_init() or r88ee_power_off() sleep.
Intr ==
    /\ Pci /\ power # "off" /\ isr.at = "idle" /\ hisr # {}
    /\ get_intr_status
    /\ IF hisr \intersect Enabled = {}
       THEN odd' = odd \union {"deaf"} /\ isr' = isr
       ELSE odd' = odd /\ isr' = [isr EXCEPT !.at =
                IF hisr \intersect (RxCauses \union ReportCauses) # {} THEN "loop" ELSE "end"]
    /\ UNCHANGED <<chip, power, stops, posted, delivered, node, tx, ring, cur, dev, c2h, usbVars>>

\* The end of the handler.
enable_intr == himr' = (power = "running")
IntrEnd ==
    /\ \/ isr.at = "end"
       \/ isr.at = "loop" /\ ring[cur].own
    /\ enable_intr
    /\ isr' = [isr EXCEPT !.at = "idle"]
    /\ odd' = IF isr.at = "loop" THEN odd \ {"early"} ELSE odd
    /\ UNCHANGED <<chip, power, stops, posted, delivered, node, tx, ring, cur, dev, hisr, c2h, usbVars>>

\* The frame is taken from the ring; the lock is dropped before net80211 gets it,
\* and until it is back.
LockFree == isr.at \in {"idle", "taken", "input"}
Fresh == 1 + Max({ring[i].buf : i \in DOMAIN ring})
rx_frame(pkt, no) ==
    /\ Sound(pkt) /\ pkt.len <= MJUMPAGESIZE
    /\ ring' = [ring EXCEPT ![cur].buf = Fresh]
    /\ delivered' = Append(delivered, [no |-> no, buf |-> ring[cur].buf])
    /\ Heard(pkt)
    /\ isr' = [at |-> "taken", idx |-> cur]
    /\ UNCHANGED <<tx, odd>>

\* A descriptor given back.  The handler ends there when the device does not
\* run, and its place stays: "mixed".
GivenBack(idx) ==
    /\ ring' = [ring EXCEPT ![idx] = setup_rx_desc(ring[idx], cur)]
    /\ isr' = [at |-> IF power = "running" THEN "own" ELSE "idle", idx |-> idx]
Parted == CASE power = "running" -> {} [] power = "draining" -> {"mixed"}
            [] OTHER -> {"mixed", "disorder"}

\* The descriptor goes back to the device at once: a frame that is not sound,
\* no memory for a new buffer, a report, an event.
Recycle == GivenBack(cur) /\ odd' = odd \union Parted /\ UNCHANGED <<delivered, node>>

RxDone ==
    /\ isr.at = "loop" /\ ~ring[cur].own
    /\ LET pkt == ring[cur].got.pkt
           kind == classify_intr(chip, pkt)
       IN \/ kind = "data" /\ rx_frame(pkt, ring[cur].got.no)
          \/ kind = "data" /\ Recycle /\ UNCHANGED tx
          \/ kind = "report" /\ Credit(pkt.macid) /\ Recycle
          \/ kind = "c2h" /\ Recycle /\ UNCHANGED tx
    /\ UNCHANGED <<chip, power, stops, posted, cur, dev, hisr, himr, c2h, usbVars>>

\* ieee80211_input(), called without the lock.
PciPass ==
    /\ isr.at = "taken" /\ isr' = [isr EXCEPT !.at = "input"]
    /\ UNCHANGED <<chip, power, stops, posted, delivered, node, tx, ring, cur, dev, hisr, himr, odd, c2h, usbVars>>
\* ring->cur may have been reset in the meantime: "mixed".
InputReturns ==
    /\ isr.at = "input" /\ GivenBack(isr.idx)
    /\ odd' = IF "stopped" \in odd THEN (odd \ {"stopped"}) \union {"mixed", "disorder"}
              ELSE odd \union Parted
    /\ UNCHANGED <<chip, power, stops, posted, delivered, node, tx, cur, dev, hisr, himr, c2h, usbVars>>

\* "device can reuse current descriptor".
Advance ==
    IF ring[isr.idx].own THEN cur' = (cur + 1) % N /\ odd' = odd
    ELSE cur' = cur /\ odd' = odd \union {"reused", "disorder"}
RxNext ==
    /\ isr.at = "own" /\ Advance
    /\ isr' = [isr EXCEPT !.at = "loop"]
    /\ UNCHANGED <<chip, power, stops, posted, delivered, node, tx, ring, dev, hisr, himr, c2h, usbVars>>

\* rtwn_init(): the receiver works before start_xfers(), and the calibrations in
\* between sleep without the lock.
PciPowerOn ==
    /\ Pci /\ power = "off" /\ LockFree
    /\ power' = "on" /\ dev' = 0
    /\ UNCHANGED <<chip, stops, posted, delivered, node, tx, ring, cur, hisr, himr, isr, odd, c2h, usbVars>>
\* r92cu_post_init(), r92ce_post_init(): rtwn_init() goes on without firmware.
StartEvents ==
    IF R92c
    THEN \/ c2h' = [c2h EXCEPT !.timer = TRUE, !.refused = FALSE, !.fw = TRUE]
         \/ c2h' = [c2h EXCEPT !.fw = FALSE]
    ELSE UNCHANGED c2h
start_xfers == hisr' = {} /\ himr' = TRUE
PciStart ==
    /\ Pci /\ power = "on" /\ LockFree /\ power' = "running"
    /\ start_xfers /\ StartEvents
    /\ odd' = odd \union {"early"}
    /\ UNCHANGED <<chip, stops, posted, delivered, node, tx, ring, cur, dev, isr, usbVars>>

\* rtwn_stop(): nothing is drained.  r92ce_power_off() keeps the lock;
\* r88ee_power_off() stops the device's DMA, then sleeps without the lock.
StopEvents == c2h' = [c2h EXCEPT !.timer = FALSE, !.event = -1]
\* Mutant: the place is kept.
reset_rx_list_KeepCur == ring' = [i \in DOMAIN ring |-> setup_rx_desc(ring[i], i)] /\ cur' = cur
reset_rx_list == ring' = [i \in DOMAIN ring |-> setup_rx_desc(ring[i], i)] /\ cur' = 0
PowerOff ==
    /\ power' = "off" /\ reset_rx_list
    /\ hisr' = {} /\ himr' = FALSE /\ StopEvents
    /\ odd' = IF isr.at = "idle" THEN odd \ {"deaf", "reused", "mixed"} ELSE odd \union {"stopped"}
    /\ tx' = NoTx
PciStop ==
    /\ Pci /\ power = "running" /\ stops < StopLimit /\ LockFree
    /\ stops' = stops + 1
    /\ IF chip = "r92ce" THEN PowerOff
       ELSE power' = "draining" /\ UNCHANGED <<ring, cur, hisr, himr, c2h, odd, tx>>
    /\ UNCHANGED <<chip, posted, delivered, node, dev, isr, usbVars>>
PciStopped ==
    /\ Pci /\ power = "draining" /\ LockFree /\ PowerOff
    /\ UNCHANGED <<chip, stops, posted, delivered, node, dev, isr, usbVars>>

---------------------------------------------------------------------------
(* USB.  A transfer holds packets, each on its boundary, and a tail that   *)
(* is filled up to the boundary, bare, or cut off.                         *)

R92C_RX_STAT_LEN == 24
PacketLen(pkt) == R92C_RX_STAT_LEN + pkt.infosz + pkt.len
DeviceAlign(len) == roundup2(len, IF chip \in {"r12au", "r21au"} THEN 8 ELSE 128)
\* Where the first i packets end, and the next begins.
Offset(t) == LET end[i \in 0 .. Len(t.pkts)] ==
                     IF i = 0 THEN 0 ELSE end[i - 1] + DeviceAlign(PacketLen(t.pkts[i]))
             IN end
TransferLen(t) ==
    LET n == Len(t.pkts)
        last == PacketLen(t.pkts[n])
    IN Offset(t)[n - 1] + (CASE t.tail = "padded" -> DeviceAlign(last) [] t.tail = "bare" -> last
                             [] t.tail = "cut" -> last - 1)

\* rtwn_rx_copy_to_mbuf(); noMem: packets for which there is no memory.
Copied(pkt, i, noMem) ==
    power = "running" /\ Sound(pkt) /\ i \notin noMem /\ r12a_check_frame_checksum(chip, pkt)

\* rtwn_rxeof(): the packets of the chain, by index.  A length that has become
\* negative does not end the loop by itself: len is compared as unsigned.
\* Mutant: the next packet is looked for where the last one ends.
rxeof_Unaligned(t, noMem) ==
    LET step[i \in 0 .. Len(t.pkts)] ==
            IF i = 0 THEN [off |-> 0, len |-> TransferLen(t), out |-> <<>>, go |-> TRUE]
            ELSE LET s == step[i - 1]
                     totlen == PacketLen(t.pkts[i])
                 IN IF ~s.go \/ (s.len >= 0 /\ s.len < R92C_RX_STAT_LEN) \/ s.off # Offset(t)[i - 1]
                       \/ t.pkts[i].len = 0 \/ totlen > s.len
                    THEN [s EXCEPT !.go = FALSE]
                    ELSE [s EXCEPT !.off = @ + totlen, !.len = @ - totlen,
                            !.out = IF Copied(t.pkts[i], i, noMem) THEN Append(@, i) ELSE @]
    IN step[Len(t.pkts)].out
rxeof(t, noMem) ==
    LET step[i \in 0 .. Len(t.pkts)] ==
            IF i = 0 THEN [off |-> 0, len |-> TransferLen(t), out |-> <<>>, go |-> TRUE]
            ELSE LET s == step[i - 1]
                     totlen == PacketLen(t.pkts[i])
                     next == align_rx(chip, totlen, s.len)
                 IN IF ~s.go \/ (s.len >= 0 /\ s.len < R92C_RX_STAT_LEN) \/ s.off # Offset(t)[i - 1]
                       \/ t.pkts[i].len = 0 \/ totlen > s.len
                    THEN [s EXCEPT !.go = FALSE]
                    ELSE [s EXCEPT !.off = @ + next, !.len = @ - next,
                            !.out = IF Copied(t.pkts[i], i, noMem) THEN Append(@, i) ELSE @]
    IN step[Len(t.pkts)].out

\* What a transfer holds: its complete and sound frames.
Holds(t, noMem) ==
    LET held[i \in 0 .. Len(t.pkts)] ==
            IF i = 0 THEN <<>>
            ELSE IF Copied(t.pkts[i], i, noMem) /\ ~(i = Len(t.pkts) /\ t.tail = "cut")
            THEN Append(held[i - 1], i) ELSE held[i - 1]
    IN held[Len(t.pkts)]

\* rtwn_bulk_rx_callback() up to the first frame's way up: the transfer is
\* handed back to the device before its frames are passed on.
\* A frame of a transfer is passed on as a copy.
Copy(no) == [no |-> no, buf |-> -1]
Numbered(s) == [j \in DOMAIN s |-> posted + s[j]]
UsbTransferred ==
    /\ ~Pci /\ power \in {"running", "draining"} /\ xfer = "submitted" /\ ~incb
    /\ \E t \in Transfers : \E noMem \in {{}, {1}} :
         LET frames == Numbered(rxeof(t, noMem))
         IN /\ posted + Len(t.pkts) <= FrameLimit[chip]
            /\ posted' = posted + Len(t.pkts)
            /\ due' = due \o Numbered(Holds(t, noMem))
            /\ IF frames = <<>> THEN incb' = FALSE /\ UNCHANGED <<delivered, node, chain>>
               ELSE /\ incb' = TRUE /\ chain' = Tail(frames)
                    /\ delivered' = Append(delivered, Copy(Head(frames)))
                    /\ Heard(t.pkts[Head(frames) - posted])
    /\ UNCHANGED <<chip, power, stops, tx, xfer, c2h, pciVars>>
\* A transfer that is a report or an event.
UsbReport(pkt) ==
    /\ power \in {"running", "draining"} /\ xfer = "submitted" /\ ~incb /\ posted < FrameLimit[chip]
    /\ posted' = posted + 1
    /\ IF classify_intr(chip, pkt) = "report" THEN Credit(pkt.macid) ELSE UNCHANGED tx
    /\ UNCHANGED <<chip, power, stops, delivered, node, usbVars, c2h, pciVars>>
\* The other frames of the callback, one each time the lock is dropped; RUNNING
\* is not looked at again.
UsbPass ==
    /\ incb /\ chain # <<>>
    /\ delivered' = Append(delivered, Copy(Head(chain))) /\ chain' = Tail(chain)
    /\ \E pkt \in {p \in Packets : Sound(p)} : Heard(pkt)
    /\ UNCHANGED <<chip, power, stops, posted, tx, xfer, incb, due, c2h, pciVars>>
UsbReturn ==
    /\ incb /\ chain = <<>> /\ incb' = FALSE
    /\ UNCHANGED <<chip, power, stops, posted, delivered, node, tx, xfer, chain, due, c2h, pciVars>>
\* A failed transfer is submitted again after its stall is cleared.
UsbError ==
    /\ ~Pci /\ xfer = "submitted" /\ ~incb /\ power = "running" /\ xfer' = "stalled"
    /\ UNCHANGED <<chip, power, stops, posted, delivered, node, tx, chain, incb, due, c2h, pciVars>>
UsbSetup ==
    /\ xfer = "stalled" /\ power = "running" /\ xfer' = "submitted"
    /\ UNCHANGED <<chip, power, stops, posted, delivered, node, tx, chain, incb, due, c2h, pciVars>>

UsbStart ==
    /\ ~Pci /\ power = "off"
    /\ power' = "running" /\ xfer' = "submitted" /\ StartEvents
    /\ UNCHANGED <<chip, stops, posted, delivered, node, tx, chain, incb, due, pciVars>>
\* rtwn_stop(): rtwn_usb_abort_xfers() drops the lock and waits.
UsbStop ==
    /\ ~Pci /\ power = "running" /\ stops < StopLimit
    /\ power' = "draining" /\ stops' = stops + 1
    /\ UNCHANGED <<chip, posted, delivered, node, tx, usbVars, c2h, pciVars>>
UsbCancelled ==
    /\ ~Pci /\ power = "draining" /\ xfer # "idle" /\ ~incb /\ xfer' = "idle"
    /\ UNCHANGED <<chip, power, stops, posted, delivered, node, tx, chain, incb, due, c2h, pciVars>>
\* Mutant: without waiting for the callback.
UsbDrained_NoWait == power = "draining"
UsbDrained == power = "draining" /\ xfer = "idle" /\ ~incb
UsbStopped ==
    /\ ~Pci /\ UsbDrained
    /\ power' = "off" /\ StopEvents /\ tx' = NoTx
    /\ UNCHANGED <<chip, stops, posted, delivered, node, usbVars, pciVars>>

---------------------------------------------------------------------------
(* Transmission, and what comes back. *)

Transmit ==
    /\ power = "running" /\ tx.report = "no" /\ posted < FrameLimit[chip]
    /\ LockFree
    /\ \E r \in Requests[chip] :
         LET desc == CASE r.rq.tmpl -> fill_tx_desc_null(chip, r.rq.mode = "11b", r.rq.qos, r.rq.vap)
                       [] r.rq.raw /\ ~r.rq.tmpl -> rtwn_tx_raw(chip, r.rq, r.ic)
                       [] OTHER -> rtwn_tx_data(chip, r.rq, r.seq, r.ic)
         IN /\ r.rq.id <= ParamsOf[chip].macid_limit
            /\ r.ic.ratectl \in {"none"} \union (IF R92c /\ ~c2h.fw THEN {} ELSE {"net80211"})
            /\ tx' = [desc |-> desc, rq |-> r.rq, ic |-> r.ic, seq |-> r.seq, credit |-> -1,
                      report |-> IF MS(desc, Layout(chip).RPT) = 1 THEN "due" ELSE "no"]
    /\ posted' = posted + 1
    /\ UNCHANGED <<chip, power, stops, delivered, node, c2h, pciVars, usbVars>>

Macid == MS(tx.desc, Layout(chip).MACID)
ReportPacket == [NoPacket EXCEPT !.kind = "report", !.len = 8, !.macid = Macid]
TxReport ==
    /\ tx.report = "due" /\ ~R92c
    /\ \/ Pci /\ Post(ReportPacket) /\ tx' = [tx EXCEPT !.report = "sent"]
       \/ ~Pci /\ UsbReport(ReportPacket)

\* r92c: the firmware writes an event when the register is free ...
FwEvent ==
    /\ tx.report = "due" /\ R92c /\ c2h.fw /\ c2h.event = -1 /\ power = "running"
    /\ c2h' = [c2h EXCEPT !.event = Macid] /\ tx' = [tx EXCEPT !.report = "sent"]
    /\ UNCHANGED <<chip, power, stops, posted, delivered, node, pciVars, usbVars>>
\* ... r92c_handle_c2h_report() queues a command, which may be refused ...
C2hTimer ==
    /\ c2h.timer /\ c2h.cmds < CommandLimit
    /\ \/ c2h' = [c2h EXCEPT !.timer = FALSE, !.cmds = @ + 1]
       \/ c2h' = [c2h EXCEPT !.timer = FALSE, !.refused = TRUE]
    /\ UNCHANGED <<chip, power, stops, posted, delivered, node, tx, pciVars, usbVars>>
\* ... and r92c_handle_c2h_task() takes the event and sets the timer again.
\* Mutant: the timer is not set when there was nothing to do.
NextPoll_OnlyBusy == c2h.event # -1
NextPoll == TRUE
C2hTask ==
    /\ c2h.cmds > 0 /\ LockFree
    /\ IF power = "running"
       THEN /\ c2h' = [c2h EXCEPT !.cmds = @ - 1, !.event = -1, !.timer = NextPoll]
            /\ IF c2h.event # -1 THEN Credit(c2h.event) ELSE UNCHANGED tx
       ELSE c2h' = [c2h EXCEPT !.cmds = @ - 1] /\ UNCHANGED tx
    /\ UNCHANGED <<chip, power, stops, posted, delivered, node, pciVars, usbVars>>

Next ==
    \/ PciReceive \/ PciCause \/ Intr \/ IntrEnd \/ RxDone \/ PciPass \/ InputReturns
    \/ RxNext \/ PciPowerOn \/ PciStart \/ PciStop \/ PciStopped
    \/ UsbTransferred \/ UsbPass \/ UsbReturn \/ UsbError \/ UsbSetup
    \/ UsbStart \/ UsbStop \/ UsbCancelled \/ UsbStopped
    \/ Transmit \/ TxReport \/ FwEvent \/ C2hTimer \/ C2hTask

Spec == Init /\ [][Next]_vars

---------------------------------------------------------------------------
(* Properties *)

Odd(c) == odd \intersect c # {}
Filled == {i \in DOMAIN ring : ~ring[i].own}

\* The device writes only to buffers that are in the ring and nowhere else:
\* a descriptor it owns points to its own slot's buffer, no two slots share
\* one, and none of them is with net80211.
DmaSafe ==
    \A i \in DOMAIN ring : ring[i].own =>
        /\ ring[i].addr = ring[i].buf
        /\ \A j \in DOMAIN ring \ {i} : ring[j].buf # ring[i].buf
        /\ \A k \in DOMAIN delivered : delivered[k].buf # ring[i].addr

\* The driver and the device go round the ring together: the filled
\* descriptors are those between the driver's place and the device's, and the
\* end mark is on the last descriptor.  Not after the device was stopped while
\* the handler was away with a frame, nor after it has reused the current
\* descriptor, nor when the handler has run while rtwn_init() slept.
RingAgrees ==
    power = "running" /\ ~Odd({"mixed", "stopped", "reused"}) =>
        LET first == IF isr.at = "own" THEN (cur + 1) % N ELSE cur
            n == Cardinality(Filled \ (IF isr.at = "own" THEN {isr.idx} ELSE {}))
        IN /\ \A i \in DOMAIN ring : ring[i].eor <=> i = N - 1
           /\ Filled \ {isr.idx} = {(first + k) % N : k \in 0 .. n - 1} \ {isr.idx}
           /\ isr.at # "own" => dev = (first + n) % N

\* No frame waits in the ring without an interrupt to come for it, and the
\* interrupts are not left masked.  Not when the line was shared and the only
\* cause was one that the driver does not know ("deaf"), and until the first
\* interrupt after the start, which has cleared the causes of earlier frames.
NoLostReception ==
    Pci /\ power = "running" /\ isr.at = "idle" /\ ~Odd({"mixed", "reused", "deaf", "early"}) =>
        himr /\ (Filled # {} => hisr \intersect (RxCauses \union ReportCauses) # {})

\* The ring is safe, the two agree on it, and the driver comes back to it.
RingSound == DmaSafe /\ RingAgrees /\ NoLostReception

\* Frames are passed up in the order of their arrival: from the ring (with the
\* exceptions of RingAgrees), and from the transfers all the sound ones.
PassedUp ==
    IF Pci THEN ~Odd({"disorder"}) =>
                    \A j, k \in DOMAIN delivered : j < k => delivered[j].no < delivered[k].no
    ELSE [k \in DOMAIN delivered |-> delivered[k].no] \o chain = due

\* Once rtwn_stop() has returned nothing is taken from the ring or a transfer,
\* and nothing is passed up but the one frame that the PCI handler had taken: it
\* had dropped the lock and not yet called net80211.
Passed == Len(delivered) - (IF isr.at = "taken" THEN 1 ELSE 0)
StopIsQuiet ==
    [][power = "off" =>
         /\ delivered' = delivered
         /\ Passed' # Passed => isr.at = "taken" /\ "stopped" \in odd]_vars

\* The signal that a node is told of is one that a radio can have.
SignalInRange == node.avg_pwdb \in -1 .. 100 /\ node.last_rssi \in -128 .. 127

\* What the hardware reads from a descriptor is what was asked for, although
\* the routines that set its fields know nothing of each other.  Aggregated
\* frames of the r92c and r88e families are excepted once the sequence counter
\* has passed 4095, and macids that do not fit their field.
Described ==
    tx.desc # {} =>
    LET L == Layout(chip)
        D(f) == MS(tx.desc, f)
        rq == tx.rq
        ucdata == ~rq.mcast /\ rq.type = "data" /\ ~rq.raw
        ridx == D(L.DATARATE)
        overflow == tx.seq >= 4096 /\ rq.ampdu /\ rq.qos /\ L # r12a_tx_desc
        wide == rq.id >= 2 ^ L.MACID[3]
        number == IF rq.raw THEN rq.seq ELSE IF rq.ampdu THEN tx.seq % 4096 ELSE rq.seq
    IN /\ (D(L.MACID) = IF rq.tmpl THEN 0 ELSE IF rq.mcast \/ rq.raw THEN RTWN_MACID_BC ELSE rq.id)
          \/ wide
       /\ IF ucdata THEN D(L.QSEL) \in 0 .. 7 ELSE D(L.QSEL) = QSEL_MGNT
       /\ ~overflow => /\ D(L.HWSEQ_EN) = 1 <=> ~rq.qos
                       /\ rq.qos /\ ~rq.tmpl => D(L.SEQ) = number
       /\ ucdata => D(L.AGGEN) + D(L.AGGBK) = 1 /\ (D(L.AGGEN) = 1 <=> rq.ampdu)
       /\ D(L.RTSEN) + D(L.CTS2SELF) <= 1
       /\ D(L.RPT) = 1 <=> ucdata /\ tx.ic.ratectl = "net80211"
       /\ ~rq.raw => (D(L.RTY_ENA) = 1 <=> ~rq.mcast /\ ~rq.noack)
       /\ ~rq.raw => ridx = rate2ridx(tx_rate(rq, tx.ic))
       /\ (IF chip \in {"r12au", "r21au"} THEN r12a_tx_radiotap_flags(L, tx.desc)
           ELSE r92c_tx_radiotap_flags(L, tx.desc)) =
          {f \in {"pre", "gi"} :
             /\ ucdata
             /\ \/ f = "pre" /\ ridx \in 1 .. 3 /\ tx.ic.shpre
                \/ f = "gi" /\ ridx \in 12 .. 27
                   /\ (20 \in rq.sgi \/ (40 \in rq.sgi /\ rq.ht40 # "no"))}

\* The report of a frame goes to the node it was sent to; macids that do not
\* fit the field of the descriptor are excepted.
Credited ==
    tx.credit # -1 => tx.credit = tx.rq.id \/ tx.rq.id >= 2 ^ Layout(chip).MACID[3]

\* Both ways of a frame: what goes out and what is said of it later.
FramesDescribed == Described /\ Credited

\* While an r92c runs with firmware its events are polled: the timer is set or
\* its command waits.  Not after the queue has refused the command: nothing sets
\* the timer again.
EventsPolled ==
    R92c /\ power = "running" /\ c2h.fw /\ ~c2h.refused => c2h.timer \/ c2h.cmds > 0
=============================================================================
