------------------------------ MODULE FwMailbox ------------------------------
(***************************************************************************)
(* Commands to the firmware: r92c_fw_cmd() and r88e_fw_cmd().              *)
(*                                                                         *)
(* The chip has a ring of mailboxes.  A command that does not fit one word *)
(* has its rest in the extension word of the same box; writing the first   *)
(* word sets the box's bit in R92C_HMETFR and starts the firmware, which   *)
(* clears the bit when it has read the box.  The callers are the thread of *)
(* ic_tq (commands, state changes, rtwn_init() and rtwn_stop()) and the    *)
(* threads of rtwn_ioctl_reset().  They hold RTWN_LOCK, which rtwn_delay() *)
(* drops on both buses and every access to a register on USB, so several   *)
(* calls may be under way; the firmware runs beside them.                  *)
(***************************************************************************)
EXTENDS Naturals, Sequences

CONSTANTS
    R92C_H2C_NBOX,  \* boxes (4)
    MaxTries,       \* polls before the call stops waiting (50)
    TimedOutAt,     \* value of ntries the code takes for a timeout (100)
    Short, Long,    \* commands of one word, and with an extension word
    Callers, IcTq,  \* threads that send commands; the one of ic_tq
    PwrMode,        \* commands of rtwn_set_pwrmode(), all that an ioctl sends
    NoCmd

ASSUME BoxAssumption == R92C_H2C_NBOX \in Nat \ {0}
ASSUME TriesAssumption == MaxTries \in Nat /\ TimedOutAt \in Nat
ASSUME CmdAssumption == Short \cap Long = {} /\ NoCmd \notin Short \union Long
ASSUME CallersAssumption == IcTq \in Callers /\ PwrMode \subseteq Short \union Long

VARIABLES
    usb,            \* the bus is USB, and not PCI
    loaded,         \* sc_flags & RTWN_FW_LOADED
    fwcur,          \* the box the driver uses next
    box, ext,       \* the words of the boxes, as the command they came from
    busy,           \* boxes whose bit is set in R92C_HMETFR
    fwpc, cmd, ntries,\* the calls in progress: caller -> where it is, what it sends
    seen,           \* caller -> what it has read from R92C_HMETFR
    fwnext,         \* firmware: the box it reads next
    unread,         \* history: commands written and not yet read
    overrun,        \* history: a call went on to a box that was not empty
    raced           \* history: two calls were writing at once, or one over a start

chip == <<box, ext, busy>>
calls == <<fwpc, cmd, ntries, seen>>
fwvars == <<usb, loaded, fwcur, box, ext, busy, fwpc, cmd, ntries, seen, fwnext, unread,
            overrun, raced>>

Boxes == 0 .. R92C_H2C_NBOX - 1
Cmds == Short \union Long
Following(b) == (b + 1) % R92C_H2C_NBOX

FwInit ==
    /\ usb \in BOOLEAN
    /\ loaded = FALSE
    /\ fwcur = 0
    /\ box = [b \in Boxes |-> NoCmd]
    /\ ext = [b \in Boxes |-> NoCmd]
    /\ busy = {}
    /\ fwpc = [c \in Callers |-> "idle"]
    /\ cmd = [c \in Callers |-> NoCmd]
    /\ ntries = [c \in Callers |-> 0]
    /\ seen = [c \in Callers |-> {}]
    /\ fwnext = 0
    /\ unread = <<>>
    /\ overrun = FALSE /\ raced = FALSE

-----------------------------------------------------------------------------
(* The call *)

\* On PCI a call keeps RTWN_LOCK but in the delay between two polls.
MayRun(c) == usb \/ \A d \in Callers \ {c} : fwpc[d] \in {"idle", "poll"}

\* The call has found its box empty, and has not advanced fwcur.
Writing(c) == fwpc[c] \in {"write", "trigger", "advance"}

\* Driver and firmware may count the boxes differently.
Lost == overrun \/ raced

Goto(c, where) == fwpc' = [fwpc EXCEPT ![c] = where]
CallEnds(c) ==
    /\ Goto(c, "idle")
    /\ cmd' = [cmd EXCEPT ![c] = NoCmd]
    /\ ntries' = [ntries EXCEPT ![c] = 0]
    /\ seen' = [seen EXCEPT ![c] = {}]

\* Without firmware the command is discarded and the call succeeds.
Call(c, k) ==
    /\ fwpc[c] = "idle" /\ MayRun(c)
    /\ loaded
    /\ c # IcTq => k \in PwrMode
    /\ Goto(c, "poll")
    /\ cmd' = [cmd EXCEPT ![c] = k]
    /\ UNCHANGED <<usb, loaded, fwcur, chip, ntries, seen, fwnext, unread, overrun, raced>>

\* R92C_HMETFR is read; a read that fails, or of a chip that is off, has every
\* bit set.
PollRead(c) ==
    /\ fwpc[c] = "poll" /\ MayRun(c)
    /\ ntries[c] < MaxTries
    /\ Goto(c, "seen")
    /\ \E bits \in {busy, Boxes} : seen' = [seen EXCEPT ![c] = bits]
    /\ UNCHANGED <<usb, loaded, fwcur, chip, cmd, ntries, fwnext, unread, overrun, raced>>

\* Mutant: the tries are not counted.
PollForever(c) ==
    /\ fwpc[c] = "seen"
    /\ fwcur \in seen[c]
    /\ Goto(c, "poll")
    /\ seen' = [seen EXCEPT ![c] = {}]
    /\ UNCHANGED <<usb, loaded, fwcur, chip, cmd, ntries, fwnext, unread, overrun, raced>>

\* The bit of the current box is set: 2 ms pass and it is looked at again.
PollBusy(c) ==
    /\ fwpc[c] = "seen"
    /\ fwcur \in seen[c]
    /\ Goto(c, "poll")
    /\ ntries' = [ntries EXCEPT ![c] = @ + 1]
    /\ seen' = [seen EXCEPT ![c] = {}]
    /\ UNCHANGED <<usb, loaded, fwcur, chip, cmd, fwnext, unread, overrun, raced>>

\* The loop is left, by break or because its bound is reached; a timeout ends
\* the call.
PollEnd(c) ==
    /\ \/ fwpc[c] = "poll" /\ MayRun(c) /\ ntries[c] = MaxTries
       \/ fwpc[c] = "seen" /\ fwcur \notin seen[c]
    /\ IF ntries[c] = TimedOutAt
       THEN CallEnds(c) /\ UNCHANGED <<unread, overrun, raced>>
       ELSE /\ Goto(c, "write")
            /\ overrun' = (overrun \/ fwcur \in busy)
            /\ raced' = (raced \/ \E d \in Callers \ {c} : Writing(d))
            /\ unread' = IF Lost' THEN <<>> ELSE unread
            /\ seen' = [seen EXCEPT ![c] = {}]
            /\ UNCHANGED <<cmd, ntries>>
    /\ UNCHANGED <<usb, loaded, fwcur, chip, fwnext>>

\* A register write fails: the call returns, and fwcur stays where it is.
AdvanceAndFail(c) ==                                \* mutant
    /\ fwpc[c] \in {"write", "trigger"}
    /\ CallEnds(c)
    /\ fwcur' = Following(fwcur)
    /\ UNCHANGED <<usb, loaded, chip, fwnext, unread, overrun, raced>>
WriteFails(c) ==
    /\ fwpc[c] \in {"write", "trigger"}
    /\ CallEnds(c)
    /\ UNCHANGED <<usb, loaded, fwcur, chip, fwnext, unread, overrun, raced>>

\* What the boxes hold is followed as long as each belongs to one call.
Stored(words, word) ==
    IF Lost THEN [b \in Boxes |-> NoCmd] ELSE [words EXCEPT ![fwcur] = word]

\* The extension word goes first, if there is one.
WriteExt(c) ==
    /\ fwpc[c] = "write"
    /\ ext' = Stored(ext, IF cmd[c] \in Long THEN cmd[c] ELSE ext[fwcur])
    /\ Goto(c, "trigger")
    /\ UNCHANGED <<usb, loaded, fwcur, box, busy, cmd, ntries, seen, fwnext, unread, overrun, raced>>

\* "Write the first word last since that will trigger the FW."  Between a stop
\* and a start the chip may take the word, too.
Trigger(c) ==
    /\ fwpc[c] = "trigger"
    /\ \/ /\ box' = Stored(box, cmd[c])
          /\ busy' = busy \union {fwcur}
          /\ raced' = (raced \/ ~loaded)
          /\ unread' = IF overrun \/ raced' THEN <<>> ELSE Append(unread, cmd[c])
       \/ ~loaded /\ UNCHANGED <<box, busy, unread, raced>>
    /\ Goto(c, "advance")
    /\ UNCHANGED <<usb, loaded, fwcur, ext, cmd, ntries, seen, fwnext, overrun>>

\* The write has returned.
Advance(c) ==
    /\ fwpc[c] = "advance"
    /\ fwcur' = Following(fwcur)
    /\ CallEnds(c)
    /\ UNCHANGED <<usb, loaded, chip, fwnext, unread, overrun, raced>>

-----------------------------------------------------------------------------
(* The firmware, and the device being started and stopped *)

FwRead ==
    /\ loaded
    /\ fwnext \in busy
    /\ busy' = busy \ {fwnext}
    /\ fwnext' = Following(fwnext)
    /\ unread' = IF Lost THEN <<>> ELSE Tail(unread)
    /\ UNCHANGED <<usb, loaded, fwcur, box, ext, calls, overrun, raced>>

\* The thread of ic_tq is in rtwn_init() or rtwn_stop(); other calls may be
\* under way.
Free == fwpc[IcTq] = "idle" /\ MayRun(IcTq)

\* rtwn_init(): firmware is loaded, the chip's boxes are empty.
Load ==
    /\ Free
    /\ ~loaded
    /\ loaded' = TRUE
    /\ fwcur' = 0
    /\ raced' = (raced \/ \E c \in Callers : Writing(c))
    /\ UNCHANGED <<usb, chip, calls, fwnext, unread, overrun>>

\* rtwn_stop(): the chip is powered off.
Unload ==
    /\ Free
    /\ loaded
    /\ loaded' = FALSE
    /\ box' = [b \in Boxes |-> NoCmd]
    /\ ext' = [b \in Boxes |-> NoCmd]
    /\ busy' = {}
    /\ fwnext' = 0
    /\ unread' = <<>>
    /\ overrun' = FALSE /\ raced' = FALSE
    /\ UNCHANGED <<usb, fwcur, calls>>

-----------------------------------------------------------------------------
Step(c) ==
    \/ PollRead(c) \/ PollBusy(c) \/ PollEnd(c)
    \/ WriteFails(c) \/ WriteExt(c) \/ Trigger(c) \/ Advance(c)

FwNext ==
    \/ \E c \in Callers : Step(c) \/ \E k \in Cmds : Call(c, k)
    \/ FwRead \/ Load \/ Unload

\* A call that was begun goes on, and RTWN_LOCK is handed on to a call that
\* waits for it.  The firmware may be slow, or hang.
FwSpec == FwInit /\ [][FwNext]_fwvars /\ \A c \in Callers : SF_fwvars(Step(c))

-----------------------------------------------------------------------------
\* Types of the variables; fwcur and the firmware's index stay in the ring of
\* boxes, and the tries within their bound.
FwTypeOK ==
    /\ usb \in BOOLEAN
    /\ loaded \in BOOLEAN
    /\ fwcur \in Boxes
    /\ box \in [Boxes -> Cmds \union {NoCmd}]
    /\ ext \in [Boxes -> Long \union {NoCmd}]
    /\ busy \subseteq Boxes
    /\ fwpc \in [Callers -> {"idle", "poll", "seen", "write", "trigger", "advance"}]
    /\ cmd \in [Callers -> Cmds \union {NoCmd}]
    /\ ntries \in [Callers -> 0 .. MaxTries]
    /\ seen \in [Callers -> SUBSET Boxes]
    /\ fwnext \in Boxes
    /\ unread \in Seq(Cmds)
    /\ overrun \in BOOLEAN /\ raced \in BOOLEAN

\* The box after the last one written: fwcur, or the next when a call has
\* written its box and is about to advance.
NextBox == IF \E c \in Callers : fwpc[c] = "advance" THEN Following(fwcur) ELSE fwcur

\* Driver and firmware agree on the ring: the busy boxes are those from fwnext
\* up to fwcur and hold, in order, what the calls have written, also after
\* writes that failed half-way, between calls that overlap, and after restarts --
\* but after two calls were writing at once, which only happens on USB, or one
\* was writing while the device was stopped and started.
InOrder ==
    ~Lost =>
        /\ Len(unread) <= R92C_H2C_NBOX
        /\ busy = {(fwnext + k - 1) % R92C_H2C_NBOX : k \in 1 .. Len(unread)}
        /\ \A k \in 1 .. Len(unread) : box[(fwnext + k - 1) % R92C_H2C_NBOX] = unread[k]
        /\ loaded => NextBox = (fwnext + Len(unread)) % R92C_H2C_NBOX

\* "Write the first word last": whenever the firmware may read a long command,
\* its extension word is already in place, and is its own.
Complete ==
    ~Lost => \A b \in busy : box[b] \in Long => ext[b] = box[b]

\* On PCI, RTWN_LOCK keeps one call out of another's box.
AlwaysOneWriter == \A c, d \in Callers : Writing(c) /\ Writing(d) => c = d
OneWriter == ~usb => AlwaysOneWriter

\* Driver and firmware agree on the boxes and on what is in them.
BoxesAgree == FwTypeOK /\ InOrder /\ Complete /\ OneWriter

\* "Wait for current FW box to be empty": no call goes on to write a box that
\* the firmware has not read.  (Not so, and AlwaysOneWriter is not so on USB:
\* see the README.)
BoxEmptied == ~overrun

\* However slow the firmware, a call returns.
Returns == \A c \in Callers : fwpc[c] # "idle" ~> fwpc[c] = "idle"
=============================================================================
