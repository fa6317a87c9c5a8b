# TLA+ models of the rtwn driver

`rtwn` is a FreeBSD driver for Realtek 802.11 chips (RTL8188C/E, 8192C, 8812A,
8821A) on PCI and USB.  This directory holds TLA+ specifications of its
concurrent and stateful parts, TLC configurations that check them on small
instances, and TLAPS proofs of what holds for every instance.  The reference
for every definition is the C code under `src/sys/dev/rtwn`; `PROJECT.json`
gives, for each definition, the lines it stands for.

## 1. The system

The driver is called from many threads and calls back into net80211:

* **net80211 callbacks** (`ic_transmit`, `ic_raw_xmit`, `iv_newstate`, key,
  node and scan callbacks) run in the threads of the 802.11 stack.
* **`ic_tq`** is net80211's taskqueue.  It has one thread, which runs
  `ic_parent_task` (so `rtwn_init` and `rtwn_stop`), state changes, and the
  driver's own `cmdq_task`.
* **Interrupts** (PCI) and **USB transfer callbacks** deliver completions,
  received frames, transmit reports and firmware messages.
* **Callouts**: watchdog, calibration, power-save start, TSF synchronisation.

Three locks matter: `RTWN_LOCK` (device and transmit state; dropped while a
received frame is passed up), `RTWN_CMDQ_LOCK` (the command ring) and
`RTWN_NT_LOCK` (the node table).  On USB every register access sleeps, so a
context that may not sleep never touches the device itself: it queues a
command.

How they interact: net80211 threads put frames into `sc_snd` and the rings or
buffer lists (`RTWN_LOCK`), change the node table (`RTWN_NT_LOCK`) and the key
slots, and queue commands for everything that must touch the chip.  The thread
of `ic_tq` runs those commands, one at a time, and is the only one that talks to
the firmware mailbox and that starts and stops the device.  Completions come
back on the interrupt or USB path, free ring entries or buffers, lift flow
control and look nodes up in the table.

## 2. Inventory

Files are under `src/sys/dev/rtwn`.

| component | state | operations | what is hard | what makes it correct | module |
|---|---|---|---|---|---|
| command queue (`if_rtwn_task.c`) | ring of 16 commands, `cmdq_task` | `rtwn_cmd_sleepable`, `rtwn_cmdq_cb` | many callers, one consumer that drops the lock while it runs a command; stop and detach | nothing lost, overwritten, run unpowered or run after detach | `CmdQueue`, `CmdFifo` |
| transmit, software (`if_rtwn_tx.c`, `rtwn_watchdog`) | `sc_snd`, `qfullmsk`, `sc_tx_timer` | transmit, raw transmit, start, drain, watchdog | shared by all vaps and rings; flow control | no stall, no frame left behind | `PciTx`, `UsbTx` |
| PCI transmit (`pci/rtwn_pci_{tx,rx,attach}.c`) | descriptors with OWN bit, `cur`, `last`, `queued` | place, reap, reset | shared with the device; the interrupt handler drops its lock | loaded entries are a window, counts agree, no completion lost | `PciTx` |
| USB transmit (`usb/rtwn_usb_{tx,attach}.c`) | inactive, pending, active lists; transfers | send, callback, reset, drain | lists shared by all transfers; callbacks during a stop | no buffer lost or stuck | `UsbTx` |
| firmware mailbox (`r92c_fw_cmd`, `r88e_fw_cmd`) | `fwcur`, boxes, `HMETFR` | one command | the firmware reads at its own pace; writes fail | same box order on both sides, no box overwritten | `FwMailbox` |
| key memory (`if_rtwn_cam.c`) | `keys_bmap`, `rvp->keys`, the CAM | alloc, set, delete, init | allocation is immediate, installation deferred; writes fail | slots exclusive, chip and net80211 agree | `KeyCam` |
| stations (`rtwn_newassoc`, `rtwn_node_free`, media status) | `node_list`, `un->id`, firmware's and chip's view | associate, free, report | ids reused at once, notifications deferred and refusable | table exact, firmware agrees, no freed node used | `NodeTable` |
| vaps and states (`rtwn_vap_create/delete`, `rtwn_newstate`, `rtwn_run`) | `vaps[2]`, counters, `curr_mode`, timers | create, delete, state change, init, stop | id chosen under a lock that is dropped before it is stored; two vaps share the chip; states change after the lock is dropped | counters equal the vaps, each port one vap, timers run exactly while needed | `Vaps` |
| beacons (`if_rtwn_beacon.c`, `*_beacon.c`) | beacon pages, enable bits | setup, update, CSA | updates without the lock; the page is shared with null data frames | ports in RUN send their own beacon, others none | `Vaps` |
| receive filter, TSF (`if_rtwn_rx.c`, `rtwn_tsf_sync_adhoc`) | RCR, `RXFLTMAP`, `RTWN_RCR_LOCKED` | promisc, sync, vap changes | updates during a long delay | each vap hears what its mode needs | `Vaps` |
| power save (`rtwn_push_nulldata`, `rtwn_pwrmode_init`) | template page, delayed command | push, set mode | vap may have left RUN | power save only for a running station whose frames the firmware has | `Vaps` |
| radar detection (`r21au_dfs.c`) | callout task | start, check, stop | check against scans, state changes, its own unlock | checks go on exactly while radar is enabled | `Vaps` |
| scan and channel (`if_rtwn.c`, `*_chan.c`) | band, width, gain, transmit power, pauses | start, change, end | band switches skipped when unchanged; table arithmetic in bytes | registers are those of the channel, power is what the ROM means | `Radio`, `TxPower`, `Vaps` |
| calibration (`if_rtwn_calib.c`, `*_calib.c`, `r12a_fw.c`) | `RTWN_TEMP_MEASURED`, `thcal_temp`, timer, borrowed registers | measure, LC, IQ, by firmware | two-phase measurement across stops; long waits with the lock dropped | borrowed registers come back, only measured results are used, the timer goes on | `Radio` |
| PCI receive (`pci/rtwn_pci_rx.c`) | ring, interrupt mask and causes | replace buffer, pass up, interrupt | failure half-way; device walks on; lock dropped | device writes only into its own buffers, no frame waits unannounced | `Receive` |
| USB receive (`usb/rtwn_usb_rx.c`) | transfer, chain of frames | split, pass up | lengths from the device; lock dropped | all sound frames in order, none after a stop | `Receive` |
| receive descriptors, reports (`*_rx.c`, `r92c_fw.c` events) | `last_rssi`, `avg_pwdb`, event poll | decode, report, poll | report for a wrong id; poll refused | signal in range, reports to the sender, polling goes on | `Frames`, `Receive` |
| transmit descriptors (`*_tx.c`, `if_rtwn_tx.c`) | none | fill | field widths | fields hold what was meant | `Frames` |
| ROM and efuse (`if_rtwn_efuse.c`, `*_rom.c`) | `next_rom_addr`, map | read, parse | headers, offsets and lengths | map as the packets say | `Efuse`, `TxPower` |
| firmware load (`if_rtwn_fw.c`) | `MCUFWDL` | load, verify, boot | failure at each point | `RTWN_FW_LOADED` only with running firmware | `ChipPower` |
| init and power (`rtwn_init`, `*_init.c`) | flags, registers | init, stop | failure at every step; registers survive | boundaries before receiver, whole chip awake, receiver off after stop | `ChipPower`, `ChipParams` |
| attach (`*_attach.c`, `usb/rtwn_usb_ep.c`) | resources, endpoints, pages | attach, detach | failure of any acquisition | each resource released once; buffer shared out | `Attach` |
| register access, RF serial access, LEDs | none in the driver | read, write | errors on USB | | errors appear in `FwMailbox`, `KeyCam`, `ChipPower` |

`PROJECT.json` lists the same components with their files, and under `hazards`
the places where each hard behaviour bites, with the properties that watch it.

## 3. Modules

### Queues, mailboxes, tables

**`CmdQueue`** models the ring, any number of callers and the thread of `ic_tq`.
`Accept` is the critical section of `rtwn_cmd_sleepable()`, `RunTask` the
`ieee80211_runtask()` after it: everything may happen in between.  `TaskBegin`,
`CheckRunning`, `Pop`, `Return`, `Clear` and `TaskEnd` are the scheduling and
lock points of `rtwn_cmdq_cb()`.  `ParentInit`, `ParentInitFails` and `ParentStop`
are `rtwn_parent()` on the same thread, `UpDown` is net80211, `Detach*` is
`rtwn_detach()`.
`fresh` is a history variable: a command was accepted since the device was last
started.  (Commands left over from before a stop wait for the next accepted
one; the code does not kick them.)

**`CmdFifo`** is the abstract queue: bounded, first in first out, one executor,
powered, shut down once.  **`CmdQueueRefinement`** maps the ring to it.  `KeyCam`
and `NodeTable` use `CmdFifo` for the queue their commands go through.

**`FwMailbox`** runs one call at a time (`Call`, `PollBusy`, `PollEnd`, `WriteExt`,
`Trigger`, or `WriteFails` at any write) beside a firmware that reads a box in
`FwRead`.  `Load` and `Unload` are restarts.

**`KeyCam`** has net80211's view of each key, the driver's bitmap and pointers, the
CAM and the commands.  A command is two steps (`SetKey`, `SetCtl`; `DelCtl`,
`DelKey`), between which callbacks run and either of which may be `WriteFails`.
`InitCam` and `InitDone` (or `InitFails`) are the two ends of the window of
`rtwn_init()` between the static keys and `RTWN_RUNNING`.

**`NodeTable`** has the stations, the table, the report handler that holds
`RTWN_NT_LOCK` (`Report`, `ReportEnd`), the media-status commands, the firmware's
list of associated ids and the link bits of RTL8188E.

### Transmission and reception

**`PciTx`** has the rings with their OWN bits, `cur`, `last` and `queued`, the
software queue, and the interrupt handler as `Interrupt` (status read and
acknowledged), `InputReturns` (back from a received frame, the lock was free
meanwhile), `ReapEntry`/`ReapEnd` and `InterruptEnd`.  `rtwn_start()` is a loop of
one action per frame that holds the lock.  `VapDelete` is
`rtwn_pci_reset_tx_list()`, `Tick` the watchdog, `Start` and `Stop` the device.
`plan`, chosen once, gives the length of the rings, their number and the vaps.

**`UsbTx`** has the three lists, the bulk transfers as the USB stack sees them
(idle, set up, in flight, ended, cancelled) and their callback in the three
cases `Setup`, `Transferred`, `Cancelled`.  The stop is `StopBegin`, then for each
transfer `DrainBegin`/`DrainNext` without the lock, then `DrainEnd`.

**`Frames`** has the descriptors as sets of bits.  A field is a word, a shift and a
width, so that a value that is too wide spills into its neighbour or is cut by
its mask exactly as in the code.  The fill routines of the two families become
one operator over two layouts.  The other half reads receive descriptors: rates,
signal strengths in the ways of the four families, reports.

**`Receive`** extends it with the PCI ring (`own` and `addr` of each descriptor as the
device sees them, the interrupt handler split where it drops the lock), with
the bulk transfer and its callback, and with the reports and events that come
back for frames sent.  `odd` collects the conditions that a property excepts.

### The chip

**`ChipPower`** turns `rtwn_init()`, the power sequences, the firmware download,
the block initialisations and `rtwn_stop()` of six chip and bus variants into
programs: sequences of register operations that `Chk` marks as checked and that
may end early where the code does.  `on` is the set of register bits that are 1;
`Layout` groups them in bytes, so that writing a byte clears what the code
clears.  One action interprets one operation.

**`ChipParams`** holds the limits and page counts that attach gives each chip.

**`Efuse`** reads one of several ROM images from a write-once memory byte by byte, with
`ReadExtended` and its siblings for the branches of `rtwn_efuse_read()`.
**`Attach`** extends it: the attach routines as lists of acquisitions, each of which
may fail (`AcquireFails`), the unwinding as a list of releases that look at the
pointers (`ptr`) and need what is really held (`held`); the endpoints of USB
devices and the pages they get; the page table of the packet buffer.

**`TxPower`** computes powers from a ROM with the widths of the C variables;
**`Radio`** extends it with the registers that tuning, scans and calibrations write.
`pc` is where the calibration command waits with the lock dropped: between the
phases of an LC or IQ calibration and while a command to the firmware is sent.
`hw` groups registers as the code writes them.

### Vaps

**`Vaps`** composes what happens above: creation in its three critical sections
(`ChoosePort`, `StoreVap`, `AttachVap`), deletion, `iv_newstate` (the whole of
`rtwn_newstate()` and `rtwn_run()` up to the unlock) and `SetState` (when net80211
assigns `iv_state`), the parent task, scans, the TSF task with its long delay,
radar checks, beacon updates with their unlock window, power save and the
ioctls.  `tq` is what net80211's task queue is in the middle of: state changes,
scans, the parent task, TSF tasks and commands exclude each other, everything
else does not.  Routines are operators from a record of the three groups of
variables to such a record, in the order of the code.

All parameters are constants, with named assumptions where a proof or a run
needs them.  The definitions marked "mutant" are variants with a plausible bug;
no specification uses them.  They show that a property can fail: put in place of
the definition they follow, they violate the property `PROJECT.json` pairs them
with.

## 4. What the runs show

Run a configuration with `tlc -config X.cfg M`.

| configuration | bounds | states | what holds |
|---|---|---|---|
| `MCCmdQueue.cfg` | 3 slots, 2 callers, 2 commands | 32 thousand | `TypeOK`; `ExecutionSound` (one slot decides between full and empty, commands run powered and from a held slot, no wakeup is lost); `NoOverwrite`; `ImplementsFifo`; `EveryoneServed` (accepted commands run, detach returns) |
| `MCPciTx.cfg` | rings of 3 and 2 entries, 1 or 2 of them, 1 or 2 vaps, `sc_snd` of 1 | 120 thousand | `RingSound` (loaded entries are a window, owned ones are loaded, no completion is lost); `FlowAgrees` (counts and full bits); `StoppedIsEmpty`; `FlowResumes` |
| `MCUsbTx.cfg` | 2 buffers, 2 transfers, a station and a monitor vap | 99 thousand | `BuffersServed`, `ListsAgree`, `FlowResumes` |
| `MCFwMailbox.cfg` | 3 boxes, 3 commands, 2 polls | 202 thousand | `BoxesAgree` (order, completeness), `Returns` |
| `MCKeyCam.cfg` | 2 group and 2 node keys, 2 slots, 2 materials, queue of 2 | 823 thousand | `SlotsSound` (reserved and exclusive), `CamAgrees` |
| `MCNodeTable.cfg` | 3 stations, 2 usable ids, words of 1 bit, queue of 2 | 303 thousand | `TableAgrees`, `ReportedInUse`, `FirmwareAgrees` |
| `MCReceive.cfg` | 6 chips, 2 descriptors, 3 or 4 frames, 1 stop, 12 transfers, 30 kinds of frame | 646 thousand | `RingSound`, `PassedUp`, `StopIsQuiet`, `SignalInRange`, `FramesDescribed`, `EventsPolled` |
| `MCChipPower.cfg` | 6 chips, 2 starts, 1 lost write | 586 thousand | `FlagsAgree`, `NoReceptionWhenOff`, `BoundariesFirst`, `RunningIsAwake` |
| `MCAttach.cfg` | 6 chips, 7 images, lists of 2, 2 rings | 19 thousand | `UnwindsClean`, `BufferPlanned`, `RomAgrees` |
| `MCRadio.cfg` | 7 devices, 5 channels, 3 temperatures, 4 results | 677 thousand | `TunedAgrees`, `PowerSound`, `CalibrationSound`, `CalibRestores` |
| `MCVaps.cfg` | 2 vaps, 14 plans | 794 thousand | `VapsHear` (ports, counters, filter), `BeaconAgrees`, `PausesAgree`, `ChainsGoOn` |
| `MCVaps_responses.cfg` | the same | | `ResponsesDropped` is violated, see below |

**Why the bounds are enough.**  A ring of three slots has a first, a last and one
in between, so full, empty, wrapped and "one popped and not yet cleared" all
occur; two callers can be between unlock and wakeup at once.  PCI rings of three
entries have two usable ones, so partial and full rings and a finished entry in
front of an unfinished one occur; two rings are what the shared timer needs, and
two vaps what a deletion beside a running vap needs.  Two USB buffers on two
transfers give every assignment of the wrong buffer to a callback.  There is
always one station more than ids, and there are more keys than slots of each
kind, so exhaustion and reuse happen, and the queues of two overflow.  Two
receive descriptors make the current one also the next but one, so the device
can reuse it at once.  Transfers hold up to three packets, with the last one
whole, without padding or cut.  Frames cover both sides of each field's limit
(ids 31, 32, 64 and 127, sequence counters 1, 4096 and 33000).  ROM images have each kind
of header, an override, a word at the end of the map and one that runs out of
the memory.  ROM powers differ between the groups of channels and the
chains, and sit where sums reach the limit, wrap or go below zero;
channels are on both sides of every comparison.  Two starts of a chip are one
after every kind of failed or completed stop.  `MCVaps` has two vaps because the
chip has two ports; each plan names which of the environment's actions may occur,
so that those which disturb one another are together and the failures are in
plans of their own.

Bounded besides: the watchdog counts one second instead of five, polls are two
instead of fifty and the timeout test four instead of a hundred, keeping their
order; `SndLimit` and `BeaconLimit` bound counters that the code bounds by
`ifqmaxlen` and by the beacon interval; `FrameLimit`, `StopLimit` and `CommandLimit`
of `Receive`; `MaxErrors` and `MaxStarts` of `ChipPower`; in `Vaps`, failures end after
one `rtwn_run()` failed for a vap in RUN, because the counters are wrong from then
on.  Vaps, values, keys and stations are symmetric in the safety runs; runs with
liveness use no symmetry.

**Deadlock** is not checked where the system ends: `MCChipPower` (the last start),
`MCAttach` (detached) and `MCReceive` (all frames sent).

**Fairness and why the code justifies it.**  `CmdQueue`: the taskqueue thread is a
kernel thread that is always scheduled and takes its tasks in turn; a caller that
has stored a command returns through `ieee80211_runtask()`.  Nothing is assumed
about callers.  `PciTx`, `UsbTx`: the holder of `RTWN_LOCK` goes on and waiters get
it; a transfer ends because it has a timeout; callouts fire; a restart that
was asked for is carried out by `ic_tq`.  The PCI device finishes the entries it
owns and its interrupts are delivered (`DeviceFairness`): the watchdog is no
substitute, because a ring that runs empty switches off the timer that a stuck
ring would need.  What the watchdog is needed for is a ring whose count has
drifted.  `FwMailbox`: only the driver is fair; the firmware may never read.  The
other modules state safety only; "goes on" is there the invariant that the next
run of a periodic task is scheduled (`ChainsGoOn`, `EventsPolled`, `CalibrationSound`),
which needs no fairness.

**What the properties except.**  Where the code really loses something, the property
names the case and a history variable records it, so that the property says
what survives:

* `FlowResumes` of `PciTx`: a ring whose `queued` is too high after a vap deletion stays
  blocked if another ring runs empty and clears the shared timer.  `FlowResumes` of
  `UsbTx` needs `BeaconLimit`: beacons do not arm the watchdog.
* `CamAgrees`: slots touched around a restart or by a failed write (`stale`), slots
  whose deletion was refused (`leaked`).  `FirmwareAgrees`: ids whose command was
  refused (`unsure`).
* `RingSound` of `Receive`: a descriptor the device reused at once, a stop while a frame
  was in net80211, and an interrupt whose only cause the driver does not know,
  which leaves all interrupts masked (`rtwn_pci_intr`).
* `FramesDescribed`: ids that do not fit the macid field (`id <= macid_limit`), and
  sequence counters past 4095 on the older chips.
* `EventsPolled`, `CalibrationSound`: the chain ends for good when the command queue was
  full once; an IQ calibration by the firmware whose event came before the flag.
* `FlagsAgree`: a start that follows a failed one keeps `RTWN_FW_LOADED`.
  `BoundariesFirst`: `r92ce_power_on()` enables the receiver itself.
* `UnwindsClean`: the PCI acquisitions in `UnsafeToFail`, and the maps of transmit
  rings, which no path destroys.  `RomAgrees`: an extended header without words.
* `PowerSound`: the last rate, which the `memset` leaves out, when the regulatory
  byte leaves it out too; channel 14 of RTL8188E, past the end of a table; sums
  that do not fit a byte.
* `CalibRestores`: the pauses an LC calibration clears whoever set them, the serial mode
  when it was off, and the antenna configuration of RTL8192CE.
* `Vaps` keeps in `d.past` what went wrong: a port released while a creation had chosen
  one (`raced`), `rtwn_run()` failing for a vap that stays in RUN (`lost`) or half-way
  (`failed`), the creation of a monitor vap failing after a filter update had counted it,
  which leaves the filter as it is for a monitor until the next start or update
  (`undone`, `if_rtwn.c:551`), a restored beacon that hides a failed upload (`hidden`), power save set by
  an ioctl while the vap was leaving RUN (`late`).  Each property lists which of
  them it does not survive.

## 5. Disagreements found

One is a run of its own:

* **`ResponsesDropped`** (`if_rtwn_rx.c:397`, "AP vaps only").  The test is `ap_vaps ==
  nvaps - mon_vaps`, but monitor vaps are not counted in `nvaps`, so a station beside
  a monitor vap has its association responses filtered out.

The others are definitions kept in the modules with the remark "Not so"; add the
name as an INVARIANT to the configuration to see the trace:

* **`QueueStopped`** in `MCCmdQueue.cfg` (`if_rtwn.c:384`, "Stop command queue.").
  `rtwn_detach()` drains `cmdq_task`, but a caller that has left the critical section
  of `rtwn_cmd_sleepable()` wakes it again afterwards.
* **`NothingUnfinished`** in `MCPciTx.cfg` (`if_rtwn.c:633`).  "Cancel any unfinished Tx"
  does not look at `sc_snd`.
* **`BoxEmptied`** in `MCFwMailbox.cfg` (`rtl8192c/r92c_fw.c:88`).  The polling loop ends at
  50, the timeout is tested at 100, so the call goes on to an unread box.
* **`StaticKeysInstalled`** in `MCKeyCam.cfg` (`if_rtwn_cam.c:337`).  A group key set between
  the static keys of `rtwn_init()` and `RTWN_RUNNING` is never written.
* **`EveryLinkAgrees`** in `MCNodeTable.cfg` with `macid_limit = 3` and `WordBits = 2`
  (`rtl8188e/r88e_fw.c:143`).  `id > 32` puts id 32 into the first word, on the bit of id 0.
  `LinkAgrees` leaves such ids out.

Weak points for which nothing in the repository promises otherwise are the
exceptions of section 4.  Two more were met on the way: promiscuous mode or a vap
change during a scan puts the BSSID filter back, so that the scan hears its own
BSS only, against the comment at `if_rtwn.c:1535`; and
`r92c_iq_calib_compare_results()` lets the second component of a result decide
alone (`r92c_calib.c:318`), so a result that is not "stable after consecutive runs"
(395) may be taken.

## 6. Proofs

`tlapm M.tla` checks every step of a module `M` of theorems: `CmdQueue_proofs`,
`KeyCam_proofs`, `NodeTable_proofs`, `PciTx_proofs`, `UsbTx_proofs`, `Receive_proofs`,
`Vaps_proofs` and `Radio_proofs` (which holds the theorem about `FwMailbox` too).  The
theorems hold for every value of the constants that meets the assumptions of the
modules: rings of any size (at least two entries to transmit), any callers,
commands, boxes, keys, stations, buffers, transfers and vaps, any ROM, channel and
temperature, and any id limit that includes the broadcast id.  The assumptions say
no more than that sizes and bounds are numbers, that "none" is not one of the things
it stands beside (`NoneAssumption`, `CmdsAssumption`, `MarksAssumption`,
`FrameAssumption`, `VapsAssumption`), that a vap is of one of the four kinds
`rtwn_vap_create()` accepts (`PlansAssumption`), and what the world consists of:

* what arrives is data or an event of the firmware (`PacketsAssumption`; reports answer
  frames that were sent, `TxReport`), with a gain that is a byte and a rate that is a
  number (`Received`), and a transfer holds no empty packet (`TransfersAssumption`);
* a device is of one of the four families with one or two chains, RTL8188E and
  RTL8821A with one (`ConfigsAssumption`); its ROM has the arrays of the layout its
  family reads, with bytes and nibbles of any value in them (`RomsAssumption`,
  `IsRom`); what lies behind a table is some number (`GarbageAssumption`); channels are
  those of the two bands, 20 or 40 MHz wide (`ChannelsAssumption`).

Each inductive invariant was first checked by TLC on the run of its module.

**Command queue.**  `TypeCorrect` (`TypeOK`), `ExecutionSafe` (`ExecutionSound`) and
`NothingOverwritten` (`NoOverwrite`).  That one slot decides between full and empty
is not inductive: it says what one slot tells of all, and nothing of where the
others lie.  The inductive invariant `IInv`
adds `Window`, that the occupied slots are exactly those from the oldest one to
`cmdq_last` going round the ring, where the oldest is the slot being run, or
`cmdq_first`; and that `cmdq_first` is one past the slot being run.  `Window` is
stated with the distance from the oldest slot.  `AdvanceWraps` removes the modulus;
`AcceptWindow`, `PopWindow` and the lemma for `Clear` are the three ways the
window moves; `WindowDecides` derives `OneSlotDecides` from it.  The other
actions leave the ring alone.  `NoOverwrite` follows from `IInv` step by step,
since only `Accept` writes a slot and it tests it first.

**The ring implements the fifo.**  `StepsImplementFifo` is the safety part of
`ImplementsFifo`.  `OccupiedCount` turns `Window` into a number, by the bijection
between distances and occupied slots, and `SlotDistance` says where the k-th
command of the fifo lies.  Then `Accept` appends, `Pop` takes the head, `Clear`
ends a command that was not part of the fifo any more, `ParentInit` and
`ParentStop` switch the power, `DetachStart` shuts down, and the rest stutters.

**Stations.**  `TableCorrect` (`TableAgrees`) and `ReportsSafe` (`ReportedInUse`).
`TableAgrees` with the types of the table is inductive, because it is an
equivalence: that a used station's id names an entry pointing back is what lets
`rtwn_node_free()` clear exactly its own.  `ReportedInUse` needs `TableAgrees` at the
look-up and the lock at the free.
`FirmwareCorrect` (`FirmwareAgrees`) is about commands that run late and ids reused at
once.  Added for induction: `Ultimate`, the last command on its way to an id (queued or
being run), says what the table says of that id, and if there is none the chip does
already (`Informed`).  `EnqueueUltimate` and `BeginUltimate` are what a queue does to it.

**Firmware mailbox.**  `MailboxSafe` (`BoxesAgree`).  Added for induction: a call that
goes on to write has an empty box before it and its extension word in place
(`CallInPlace`), and without firmware nothing is unread (`ChipOff`).  The two steps
that matter are `TriggerIInv`, where the box written is the one after the last
unread command's because a full ring would put a busy box there, and `ReadIInv`,
where all commands move up by one box.  A failed write leaves `fwcur` and so the
order alone.  The proof is in `Radio_proofs`.

**Key memory.**  `SlotsSafe` (`SlotsSound`).  Added for induction: at most one deletion
of a slot is under way (`DeletedOnce`) and a refused one left nothing in the queue
(`LeakedForGood`).  The lemmas `SlotTaken`, `SlotNone`, `SlotLeft` and `SlotCleared` are
the ways a slot changes hands, `EnqueueSet`, `EnqueueDel`, `BeginKeeps`, `EndSet` and
`EndDel` what the queue's steps do to the deletions under way; each action is one
of each.  That the bitmap is released only by `rtwn_key_del_cb()`, and not by
`rtwn_key_delete()`, is what makes it true.
`ChipKeysCorrect` (`CamAgrees`) is about what the chip will hold.  Its invariant speaks of
every state, not only of those without commands: the last command on its way to a
slot installs the key that has the slot, with its present material (`KeyReaches`), or
empties it when no key has it (`SlotEmptied`); between the two writes of a command the
CAM entry is half of either.  `EnqueueFate`, `BeginFate` and `EndFate` are the queue's
steps, `InitCamCam` the restart, which installs keys beside the queue.

**PCI transmit rings.**  `RingsSound` (`RingSound`), `FlowCorrect` (`FlowAgrees`) and
`StopCorrect` (`StoppedIsEmpty`), through one invariant: the loaded entries of a ring
are a window from `last` to `cur` that is never the whole ring (`Window`), the count is
at least its length (`Counted`; more after a vap deletion), the full bit is set from
the moment the count reaches the limit until the handler has reaped the ring to its
end (`FullBit`), and who holds the lock in which part of the handler (`LockHeld`).
`AdvanceWraps` removes the modulus, `LoadedCount` turns the window into a number.
`PlaceRings`, `ReapEntryIInv` and `VapIInv` are the three ways a ring changes.

**USB transmit.**  `BuffersCorrect` (`BuffersServed`) and `ListsCorrect` (`ListsAgree`).  The
invariant has each buffer once in one of the lists, with a frame exactly when it is
not in the free one (`Parted`), which is what `BuffersOnce` counts, and that only a
stop cancels transfers, and waits for them (`CancelledDraining`).  `ActiveServed` is
inductive because a callback and a transfer leave together (`XferMoves`).  `Ranks` and
`Selected` say what `Select`, the loop of `rtwn_usb_reset_tx_list()`, returns for any
list, and `Appended`, `Removed`, `Joined` what the other operations do.

**Receive ring.**  `RingCorrect` (`RingSound`), `PollingCorrect` (`EventsPolled`) and
`StopCorrect` (`StopIsQuiet`, an action property).  As long as nothing excepted has
happened (`Good`), the filled descriptors are a window from the driver's place to the
device's, in one of two forms: at "own" the current descriptor has been given back
and `cur` not yet moved, and the device may already have filled it again, so that all
are filled (`Together`).  `WindowGrows` and `WindowShrinks` are the device's and the
driver's step.  Buffers passed up are older than one in the ring (`Buffers`), which
with `MaxOf` makes a fresh buffer new.  `Awaited` carries the causes of an interrupt over
the handler's end: it ends only where the window is empty.

**What is passed up, and with which signal.**  `PassedUpAlways` (`PassedUp`) and
`SignalAlways` (`SignalInRange`), through a second invariant, `Passing`.  For the ring
(`InOrder`): the frames in it are later than those passed up, and each is later than
those the driver comes to before it.  For a bulk transfer (`Listed`): what has been
passed up and what is still in the chain are together what is due.  That they are
when the chain is made is `WholePackets`: the walk of `rtwn_rxeof()` over the offsets of
a transfer, with its tests of length, errors and end of buffer, yields the packets
the transfer holds, for transfers of any length.  It goes by recursive functions,
packet by packet (`StepByStep`, `CountUp`).  `SignalByte`, `SignalPercent` and `SignalAverage`
bound what the conversions from gain to signal and the running average return.

**Vaps.**  `VapsCorrect` (`VapsHear`), for any number of vaps of any modes, on any chip.
`VapsHear` says what holds of ports, counters and filter, and not why.  Its invariant
`IInv` has one part for each thing the driver keeps: `LivesSound` (only a vap that is up
leaves INIT, and only an IBSS vap is in a callout or task), `SlotsSound` (who is in a
slot chose its number, and port 1 is chosen only beside a vap on port 0, which
is why two creations between their critical sections do not meet), `CountsSound` and
`LinksSound` (the counters are the sizes of sets of vaps), `RcrSound` and `MgtSound` (the
filter as the driver remembers it, which is what the chip gets when the TSF task
unlocks it), `UdtSound` (whose TSF beacons may set).  What went wrong is part of it:
each part holds until a failure that `d.past` remembers, and rests only on what
holds without it.  Most steps are one of a few frames: `FramedStep` (nothing the
invariant speaks of), `Filtered` (the filter alone), `Apart` (one vap's life), and `FrameL`
(a state change); `LeaveEffect`, `RunEffect` and `NewstateEffect` say what
`rtwn_newstate()` does to `vr`, the filter and the mode registers on each of its
paths, failed ones included, and `NewstateKeeps` that this is what the set of
linking vaps does.
`ChainsCorrect` (`ChainsGoOn`) and `PausesCorrect` (`PausesAgree`) rest on a second
invariant, `JInv`, inductive relative to `IInv`: it speaks of linking vaps, and `IInv`
says who they are and that `vr` counts them.  `RadarSound` has radar enabled only for a
vap above CSA, and then the chip looking for it and a check set or under way unless a
scan has stopped it; `CalibSound` the next calibration set or queued while a vap is
linked; `SyncSound` the next synchronisation of each linked IBSS vap set, waiting or
being run, so that a task that starts a vap's state change finds it not deleted;
`PauseSound` what a scan and a channel switch leave in `TXPAUSE`.  `MonitorsSound` is there
for a reason that is not obvious: a scan pauses the queues only when `vaps_running`
is 0, and since monitors are counted in it, 0 says "no linked vap" only when their
share is the number of monitors in RUN.
`BeaconsCorrect` (`BeaconAgrees`) needs a third, `BInv`, inductive relative to `IInv`.
`FlagsSound` says who may be updating a beacon or saving power, and `PagesSound` that at
most one vap beacons where the ports share a page: `rtwn_vap_create()` refuses the
second.  While the driver runs and nothing was raced, lost or failed, `EnabledSound`
has exactly the ports of the beaconing vaps enabled, each with its own frame in its
page, and `SaveSound` has null data frames in the chip for every linked STA of port 0,
whether or not it saves power: they are sent when it is linked, and power save comes
later.  These frames are what makes the page hard: on a chip with one page they
overwrite the beacon of the other port, and `PushedAir` says that it is back when
`rtwn_push_nulldata()` has succeeded.  `EnableAir`,
`TxAir`, `LeaveAir`, `RunsAir` and `NewstateAir` say what each routine does to beacons and
power save; `MovedSound` puts a state change on one port together with a vap that
beacons on the other.

**Tuning and calibration.**  `TunedAlways` (`TunedAgrees`), `RestoresAlways`
(`CalibRestores`, an action property) and `CalibrationAlways` (`CalibrationSound`), for any
channels of the two bands in any order.  `TunedAgrees` says something only while no
calibration is under way, and one that ends must leave the tuned state behind;
so `TunedInv` has the registers that tuning alone writes tuned to `tuned` at all
times, and `CalibInv` says what a calibration has borrowed: during an LC calibration
the registers are exactly those before it with the changes of `LcStart`; during
an IQ calibration of the older chips all others are as before, and what its
first run saved is what was there before, however many runs follow.  `SchedInv`
follows the callout, the queued commands and the flag of the calibration by the
firmware.  What `set_chan()` leaves is independent of what it finds, register by
register (lemmas up to `InitTuned`), which is what changes of band could break.

**Transmit power.**  `PowerAlways` (`PowerSound`) for any content of the ROM, in two
halves.  `PowerInv` adds that `rt` is what `parse_rom()` makes of the ROM and that the
gain registers hold what `PowerRight` requires for the tuned channel: only tuning
writes them.  The rest is arithmetic: the group of a channel exists in the ROM's
arrays, sign extension of a nibble gives -8 to 7, and a sum of ROM values that fits a
byte survives the conversions to the C types in between and the limit after them;
where it does not fit, the exception of section 4 applies.

**Only model-checked:** the liveness properties (`EveryoneServed`, `FlowResumes`,
`Returns`, and the fairness part of `ImplementsFifo`), which are out of the prover's
reach; `FramesDescribed` of `Receive`, because a descriptor is a set of bits whose
fields are read as sums over sets, and what a fold returns for every set needs
induction over data; and the properties of `ChipPower` and `Attach`.  These two
interpret programs given as sequences, one for each chip: their properties are
facts about these programs and not about a parameter, and TLC goes through all of
them.

## 7. What is left out

Frame contents, DMA mapping (its failure is in `PciTx` as `DropUnmapped` and in
`Receive`), logging and statistics, radiotap beyond the flags of `Frames`.  The build
options `D4054` and `IEEE80211_SUPPORT_SUPERG` are off, `RTWN_WITHOUT_UCODE` is not
set.  Rate adaptation commands (`r92c_init_ra`) and their node references, the life of
`bcn_mbuf`, MAC addresses and regulatory domains, sysctls and capabilities, the
retries of one USB control transfer, and serial access to radio registers and
LEDs are not modelled: the first two need a model of net80211's reference counts,
the others keep no state in the driver or are assignments on one thread.  Tables
of register values are data; they are one bit ("programmed") in `ChipPower`.
Waits of milliseconds with the lock held are inside a step, waits with the lock
dropped never are.
net80211, the taskqueue, the USB stack, the PCI device and the firmware are
modelled only as `src/` uses them and are marked external in `PROJECT.json`.

## 8. Plan

What is left to add is rate adaptation with net80211's reference counts, over `NodeTable`.
