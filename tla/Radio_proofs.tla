---------------------------- MODULE Radio_proofs ----------------------------
(* Proofs about Radio and FwMailbox: the radio, for every chip, ROM, set of  *)
(* channels and results of calibrations; and the mailbox through which its   *)
(* firmware takes commands, for any number of boxes, callers and tries.      *)
EXTENDS FwMailbox, Radio, SequenceTheorems, TLAPS

-----------------------------------------------------------------------------
(* The mailbox. *)

\* The box of the k-th unread command.
BoxOf(k) == (fwnext + k - 1) % R92C_H2C_NBOX

\* On PCI one call at a time holds the lock.
PciLock ==
    ~usb => \A c, d \in Callers :
               fwpc[c] \notin {"idle", "poll"} /\ fwpc[d] \notin {"idle", "poll"} => c = d

\* One call at a time writes, if not recorded.
Alone == loaded /\ ~raced => AlwaysOneWriter

\* A call that goes on to write has an empty box before it, and its extension
\* word in place once it comes to the first word.
CallInPlace ==
    \A c \in Callers :
       /\ fwpc[c] # "idle" => cmd[c] \in Cmds
       /\ fwpc[c] = "seen" => ntries[c] < MaxTries
       /\ loaded /\ ~Lost => /\ fwpc[c] \in {"write", "trigger"} => fwcur \notin busy
                             /\ fwpc[c] = "trigger" /\ cmd[c] \in Long => ext[fwcur] = cmd[c]

\* Without firmware there is nothing to read.
ChipOff == ~loaded => fwnext = 0 /\ unread = <<>> /\ (~raced => busy = {})

MailboxInv == FwTypeOK /\ InOrder /\ Complete /\ PciLock /\ Alone /\ CallInPlace /\ ChipOff

-----------------------------------------------------------------------------
(* The index of a box, modulo the number of boxes, without the modulus. *)

LEMMA Wraps ==
    ASSUME NEW i \in 0 .. 2 * R92C_H2C_NBOX - 1
    PROVE  /\ i % R92C_H2C_NBOX \in Boxes
           /\ i % R92C_H2C_NBOX = IF i < R92C_H2C_NBOX THEN i ELSE i - R92C_H2C_NBOX
<1>1. R92C_H2C_NBOX \in Nat /\ R92C_H2C_NBOX > 0 /\ i \in Nat
  BY BoxAssumption
<1>2. CASE i < R92C_H2C_NBOX
  BY <1>1, <1>2 DEF Boxes
<1>3. CASE i >= R92C_H2C_NBOX
  <2>1. i = R92C_H2C_NBOX + (i - R92C_H2C_NBOX) /\ i - R92C_H2C_NBOX \in 0 .. R92C_H2C_NBOX - 1
    BY <1>1, <1>3
  <2>2. i % R92C_H2C_NBOX = i - R92C_H2C_NBOX
    BY <1>1, <2>1
  <2> QED BY <1>1, <1>3, <2>1, <2>2 DEF Boxes
<1> QED BY <1>1, <1>2, <1>3

LEMMA FollowingWraps ==
    ASSUME NEW b \in Boxes
    PROVE  /\ Following(b) \in Boxes
           /\ Following(b) = IF b = R92C_H2C_NBOX - 1 THEN 0 ELSE b + 1
BY Wraps, BoxAssumption DEF Following, Boxes

LEMMA BoxOfWraps ==
    ASSUME fwnext \in Boxes, NEW k \in 1 .. R92C_H2C_NBOX
    PROVE  /\ BoxOf(k) \in Boxes
           /\ BoxOf(k) = IF fwnext + k - 1 < R92C_H2C_NBOX THEN fwnext + k - 1
                         ELSE fwnext + k - 1 - R92C_H2C_NBOX
<1>1. PICK i \in 0 .. 2 * R92C_H2C_NBOX - 1 : i = fwnext + k - 1
  BY BoxAssumption DEF Boxes
<1>2. BoxOf(k) = i % R92C_H2C_NBOX
  BY <1>1 DEF BoxOf
<1>3. fwnext \in Int /\ k \in Int /\ i \in Int /\ R92C_H2C_NBOX \in Int
  BY BoxAssumption DEF Boxes
<1>4. i % R92C_H2C_NBOX \in Boxes
      /\ i % R92C_H2C_NBOX = IF i < R92C_H2C_NBOX THEN i ELSE i - R92C_H2C_NBOX
  BY Wraps
<1> QED BY <1>1, <1>2, <1>3, <1>4

\* Different unread commands are in different boxes.
LEMMA BoxOfOnce ==
    ASSUME fwnext \in Boxes, NEW j \in 1 .. R92C_H2C_NBOX, NEW k \in 1 .. R92C_H2C_NBOX,
           BoxOf(j) = BoxOf(k)
    PROVE  j = k
BY BoxOfWraps, BoxAssumption DEF Boxes

-----------------------------------------------------------------------------
(* InOrder, with the box of each command by name. *)

LEMMA InOrderDef ==
    InOrder <=>
        (~Lost =>
            /\ Len(unread) <= R92C_H2C_NBOX
            /\ busy = {BoxOf(k) : k \in 1 .. Len(unread)}
            /\ \A k \in 1 .. Len(unread) : box[BoxOf(k)] = unread[k]
            /\ loaded => NextBox = (fwnext + Len(unread)) % R92C_H2C_NBOX)
BY DEF InOrder, BoxOf

LEMMA InOrderAfter ==
    InOrder' <=>
        (~Lost' =>
            /\ Len(unread') <= R92C_H2C_NBOX
            /\ busy' = {BoxOf(k)' : k \in 1 .. Len(unread')}
            /\ \A k \in 1 .. Len(unread') : box'[BoxOf(k)'] = unread'[k]
            /\ loaded' => NextBox' = (fwnext' + Len(unread')) % R92C_H2C_NBOX)
BY DEF InOrder, BoxOf

-----------------------------------------------------------------------------
LEMMA InitMailbox == FwInit => MailboxInv
<1> SUFFICES ASSUME FwInit PROVE MailboxInv
  OBVIOUS
<1>1. unread = <<>> /\ Len(unread) = 0 /\ unread \in Seq(Cmds)
  BY DEF FwInit
<1>2. FwTypeOK
  <2>1. 0 \in Boxes /\ 0 \in 0 .. MaxTries
    BY BoxAssumption, TriesAssumption DEF Boxes
  <2> QED BY <1>1, <2>1 DEF FwInit, FwTypeOK
<1>3. InOrder
  BY <1>1, BoxAssumption DEF FwInit, InOrder
<1> QED BY <1>1, <1>2, <1>3
        DEF FwInit, MailboxInv, Complete, PciLock, Alone, AlwaysOneWriter, Writing, CallInPlace, ChipOff

\* Nothing that is read or written changes.
LEMMA ChipKept ==
    ASSUME MailboxInv, UNCHANGED <<fwcur, box, ext, busy, fwnext, loaded>>,
           ~Lost' => ~Lost /\ unread' = unread /\ NextBox' = NextBox
    PROVE  InOrder' /\ Complete'
<1>1. CASE Lost'
  BY <1>1 DEF InOrder, Complete
<1>2. CASE ~Lost'
  <2>1. ~Lost /\ unread' = unread /\ NextBox' = NextBox
    BY <1>2
  <2> QED BY <1>2, <2>1 DEF MailboxInv, InOrder, Complete
<1> QED BY <1>1, <1>2

\* The steps of a call that write nothing, and where they lead.
Polling(c) ==
    \/ \E k \in Cmds : Call(c, k)
    \/ PollRead(c) \/ PollBusy(c) \/ PollEnd(c) \/ WriteFails(c)
NewPlace(c) ==
    /\ \A d \in Callers \ {c} : fwpc'[d] = fwpc[d] /\ cmd'[d] = cmd[d] /\ ntries'[d] = ntries[d]
    /\ fwpc[c] # "advance" /\ fwpc'[c] \in {"idle", "poll", "seen", "write"}
    /\ cmd'[c] = cmd[c] \/ fwpc'[c] = "idle" \/ cmd'[c] \in Cmds
    /\ fwpc[c] = "idle" => fwpc'[c] = "poll" /\ cmd'[c] \in Cmds
    /\ fwpc'[c] = "seen" => ntries'[c] < MaxTries
    /\ fwpc'[c] \notin {"idle", "poll"} => MayRun(c) \/ fwpc[c] \notin {"idle", "poll"}
    /\ fwpc'[c] = "write" => /\ ~overrun' => fwcur \notin busy
                             /\ ~raced' => \A d \in Callers \ {c} : ~Writing(d)

LEMMA PollingIs ==
    ASSUME MailboxInv, NEW c \in Callers, Polling(c)
    PROVE  /\ FwTypeOK'
           /\ UNCHANGED <<usb, loaded, fwcur, box, ext, busy, fwnext>>
           /\ ~Lost' => ~Lost /\ unread' = unread
           /\ ~raced' => ~raced
           /\ unread' \in {unread, <<>>}
           /\ NewPlace(c)
<1>1. /\ fwpc \in [Callers -> {"idle", "poll", "seen", "write", "trigger", "advance"}]
      /\ cmd \in [Callers -> Cmds \union {NoCmd}] /\ ntries \in [Callers -> 0 .. MaxTries]
      /\ seen \in [Callers -> SUBSET Boxes] /\ unread \in Seq(Cmds) /\ <<>> \in Seq(Cmds)
      /\ busy \subseteq Boxes /\ overrun \in BOOLEAN /\ raced \in BOOLEAN
      /\ 0 \in 0 .. MaxTries /\ MaxTries \in Nat
      /\ fwpc[c] # "idle" => cmd[c] \in Cmds
      /\ fwpc[c] = "seen" => ntries[c] < MaxTries
  BY TriesAssumption DEF MailboxInv, FwTypeOK, CallInPlace
<1>2. UNCHANGED <<usb, loaded, fwcur, box, ext, busy, fwnext>>
  BY DEF Polling, Call, PollRead, PollBusy, PollEnd, WriteFails, chip
<1>3. ASSUME fwpc' \in [Callers -> {"idle", "poll", "seen", "write", "trigger", "advance"}],
             cmd' \in [Callers -> Cmds \union {NoCmd}], ntries' \in [Callers -> 0 .. MaxTries],
             seen' \in [Callers -> SUBSET Boxes], unread' \in Seq(Cmds),
             overrun' \in BOOLEAN, raced' \in BOOLEAN
      PROVE  FwTypeOK'
  BY <1>2, <1>3 DEF MailboxInv, FwTypeOK
<1>4. ASSUME NEW k \in Cmds, Call(c, k)
      PROVE  FwTypeOK' /\ UNCHANGED <<overrun, raced, unread>> /\ NewPlace(c)
  <2>1. UNCHANGED <<overrun, raced, unread, ntries, seen>>
    BY <1>4 DEF Call
  <2>2. fwpc' = [fwpc EXCEPT ![c] = "poll"] /\ cmd' = [cmd EXCEPT ![c] = k] /\ fwpc[c] = "idle"
    BY <1>4 DEF Call, Goto
  <2>3. FwTypeOK'
    BY <1>1, <1>3, <2>1, <2>2
  <2> QED BY <1>1, <2>1, <2>2, <2>3 DEF NewPlace
<1>5. CASE PollRead(c)
  <2>1. UNCHANGED <<overrun, raced, unread, ntries, cmd>> /\ fwpc[c] = "poll" /\ MayRun(c)
        /\ ntries[c] < MaxTries
    BY <1>5 DEF PollRead
  <2>2. fwpc' = [fwpc EXCEPT ![c] = "seen"]
    BY <1>5 DEF PollRead, Goto
  <2>3. seen' \in [Callers -> SUBSET Boxes]
    BY <1>1, <1>5 DEF PollRead
  <2>4. FwTypeOK'
    BY <1>1, <1>3, <2>1, <2>2, <2>3
  <2>5. /\ fwpc'[c] = "seen" /\ cmd'[c] = cmd[c] /\ ntries'[c] < MaxTries
        /\ \A d \in Callers \ {c} : fwpc'[d] = fwpc[d] /\ cmd'[d] = cmd[d] /\ ntries'[d] = ntries[d]
    BY <1>1, <2>1, <2>2
  <2>6. NewPlace(c)
    BY <2>1, <2>5 DEF NewPlace
  <2> QED BY <1>2, <2>1, <2>4, <2>6 DEF Lost
<1>6. CASE PollBusy(c)
  <2>1. UNCHANGED <<overrun, raced, unread, cmd>> /\ fwpc[c] = "seen"
        /\ ntries' = [ntries EXCEPT ![c] = @ + 1] /\ seen' = [seen EXCEPT ![c] = {}]
    BY <1>6 DEF PollBusy
  <2>2. fwpc' = [fwpc EXCEPT ![c] = "poll"]
    BY <1>6 DEF PollBusy, Goto
  <2>3. ntries[c] + 1 \in 0 .. MaxTries
    BY <1>1, <2>1
  <2>4. FwTypeOK'
    BY <1>1, <1>3, <2>1, <2>2, <2>3
  <2>5. /\ fwpc'[c] = "poll" /\ cmd'[c] = cmd[c]
        /\ \A d \in Callers \ {c} : fwpc'[d] = fwpc[d] /\ cmd'[d] = cmd[d] /\ ntries'[d] = ntries[d]
    BY <1>1, <2>1, <2>2
  <2>6. NewPlace(c)
    BY <2>1, <2>5 DEF NewPlace
  <2> QED BY <1>2, <2>1, <2>4, <2>6 DEF Lost
<1>7. ASSUME CallEnds(c), fwpc[c] # "idle", fwpc[c] # "advance", UNCHANGED <<unread, overrun, raced>>
      PROVE  FwTypeOK' /\ NewPlace(c)
  <2>1. /\ fwpc' = [fwpc EXCEPT ![c] = "idle"] /\ cmd' = [cmd EXCEPT ![c] = NoCmd]
        /\ ntries' = [ntries EXCEPT ![c] = 0] /\ seen' = [seen EXCEPT ![c] = {}]
    BY <1>7 DEF CallEnds, Goto
  <2>2. FwTypeOK'
    BY <1>1, <1>3, <1>7, <2>1
  <2> QED BY <1>1, <1>7, <2>1, <2>2 DEF NewPlace
<1>8. CASE PollEnd(c)
  <2>1. (fwpc[c] = "poll" /\ MayRun(c)) \/ fwpc[c] = "seen"
    BY <1>8 DEF PollEnd
  <2>2. CASE CallEnds(c) /\ UNCHANGED <<unread, overrun, raced>>
    BY <1>2, <1>7, <2>1, <2>2 DEF Lost
  <2>3. CASE /\ Goto(c, "write") /\ overrun' = (overrun \/ fwcur \in busy)
             /\ raced' = (raced \/ \E d \in Callers \ {c} : Writing(d))
             /\ unread' = IF Lost' THEN <<>> ELSE unread
             /\ seen' = [seen EXCEPT ![c] = {}] /\ UNCHANGED <<cmd, ntries>>
    <3>1. fwpc' = [fwpc EXCEPT ![c] = "write"]
      BY <2>3 DEF Goto
    <3>2. /\ overrun' \in BOOLEAN /\ raced' \in BOOLEAN /\ (~raced' => ~raced)
          /\ ~Lost' => ~Lost
      BY <1>1, <2>3 DEF Lost
    <3>3. unread' \in {unread, <<>>} /\ (~Lost' => unread' = unread)
      BY <2>3
    <3>4. FwTypeOK'
      BY <1>1, <1>3, <2>3, <3>1, <3>2, <3>3
    <3>5. NewPlace(c)
      BY <1>1, <2>1, <2>3, <3>1 DEF NewPlace
    <3> QED BY <1>2, <3>2, <3>3, <3>4, <3>5
  <2> QED BY <1>8, <2>2, <2>3 DEF PollEnd
<1>9. CASE WriteFails(c)
  BY <1>2, <1>7, <1>9 DEF WriteFails, Lost
<1>10. CASE PollRead(c) \/ PollBusy(c) \/ \E k \in Cmds : Call(c, k)
  BY <1>2, <1>4, <1>5, <1>6, <1>10 DEF PollRead, PollBusy, Lost
<1> QED BY <1>8, <1>9, <1>10 DEF Polling

LEMMA PollIInv == ASSUME MailboxInv, NEW c \in Callers, Polling(c) PROVE MailboxInv'
<1>1. /\ FwTypeOK' /\ FwTypeOK
      /\ UNCHANGED <<usb, loaded, fwcur, box, ext, busy, fwnext>>
      /\ ~Lost' => ~Lost /\ unread' = unread
      /\ ~raced' => ~raced
      /\ unread' \in {unread, <<>>}
      /\ NewPlace(c)
  BY PollingIs DEF MailboxInv
<1>2. NextBox' = NextBox
  BY <1>1 DEF NextBox, NewPlace
<1>3. InOrder' /\ Complete'
  BY <1>1, <1>2, ChipKept
<1>4. PciLock'
  <2>1. ASSUME ~usb', NEW d \in Callers, NEW e \in Callers, fwpc'[d] \notin {"idle", "poll"},
               fwpc'[e] \notin {"idle", "poll"}
        PROVE  d = e
    <3>1. \A f \in Callers \ {c} : fwpc'[f] = fwpc[f]
      BY <1>1 DEF NewPlace
    <3>2. fwpc'[c] \notin {"idle", "poll"} =>
             \A f \in Callers \ {c} : fwpc[f] \in {"idle", "poll"}
      BY <1>1, <2>1 DEF NewPlace, MayRun, MailboxInv, PciLock
    <3>3. d # c /\ e # c => d = e
      BY <1>1, <2>1, <3>1 DEF MailboxInv, PciLock
    <3> QED BY <2>1, <3>1, <3>2, <3>3
  <2> QED BY <2>1 DEF PciLock
<1>5. Alone'
  <2>1. ASSUME loaded', ~raced', NEW d \in Callers, NEW e \in Callers, Writing(d)', Writing(e)'
        PROVE  d = e
    <3>1. \A f \in Callers \ {c} : fwpc'[f] = fwpc[f]
      BY <1>1 DEF NewPlace
    <3>2. Writing(c)' => \A f \in Callers \ {c} : ~Writing(f)
      BY <1>1, <2>1 DEF NewPlace, Writing
    <3>3. d # c /\ e # c => d = e
      BY <1>1, <2>1, <3>1 DEF MailboxInv, Alone, AlwaysOneWriter, Writing
    <3> QED BY <2>1, <3>1, <3>2, <3>3 DEF Writing
  <2> QED BY <2>1 DEF Alone, AlwaysOneWriter
<1>6. CallInPlace'
  <2>1. ASSUME NEW d \in Callers
        PROVE  /\ fwpc'[d] # "idle" => cmd'[d] \in Cmds
               /\ fwpc'[d] = "seen" => ntries'[d] < MaxTries
               /\ loaded' /\ ~Lost' =>
                     /\ fwpc'[d] \in {"write", "trigger"} => fwcur' \notin busy'
                     /\ fwpc'[d] = "trigger" /\ cmd'[d] \in Long => ext'[fwcur'] = cmd'[d]
    <3>1. CASE d = c
      BY <1>1, <3>1 DEF MailboxInv, CallInPlace, NewPlace, Lost
    <3>2. CASE d # c
      BY <1>1, <3>2 DEF MailboxInv, CallInPlace, NewPlace
    <3> QED BY <3>1, <3>2
  <2> QED BY <2>1 DEF CallInPlace
<1>7. ChipOff'
  BY <1>1 DEF MailboxInv, ChipOff
<1> QED BY <1>1, <1>3, <1>4, <1>5, <1>6, <1>7 DEF MailboxInv

\* The steps of a call that writes: on PCI, and in Alone, it stays what it was.
LEMMA WritingKeeps ==
    ASSUME MailboxInv, NEW c \in Callers, Writing(c), NEW p \in {"idle", "trigger", "advance"},
           fwpc' = [fwpc EXCEPT ![c] = p], UNCHANGED <<usb, loaded>>, ~raced' => ~raced
    PROVE  PciLock' /\ Alone'
<1>1. /\ \A d \in Callers \ {c} : fwpc'[d] = fwpc[d]
      /\ fwpc[c] \notin {"idle", "poll"}
  BY DEF MailboxInv, FwTypeOK, Writing
<1>2. \A d \in Callers : fwpc'[d] \notin {"idle", "poll"} => fwpc[d] \notin {"idle", "poll"}
  BY <1>1
<1>3. \A d \in Callers : Writing(d)' => Writing(d)
  BY <1>1 DEF Writing
<1>4. PciLock'
  BY <1>2 DEF MailboxInv, PciLock
<1>5. Alone'
  BY <1>3 DEF MailboxInv, Alone, AlwaysOneWriter
<1> QED BY <1>4, <1>5

\* The extension word goes into a box the firmware does not read.
LEMMA WriteExtIInv == ASSUME MailboxInv, NEW c \in Callers, WriteExt(c) PROVE MailboxInv'
<1>1. /\ fwcur \in Boxes /\ cmd[c] \in Cmds /\ fwpc[c] = "write" /\ Writing(c)
      /\ loaded /\ ~Lost => fwcur \notin busy
      /\ fwpc' = [fwpc EXCEPT ![c] = "trigger"]
      /\ ext' = Stored(ext, IF cmd[c] \in Long THEN cmd[c] ELSE ext[fwcur])
      /\ UNCHANGED <<usb, loaded, fwcur, box, busy, cmd, ntries, seen, fwnext, unread, overrun, raced>>
  BY DEF MailboxInv, FwTypeOK, CallInPlace, WriteExt, Writing, Goto
<1>2. ext \in [Boxes -> Long \union {NoCmd}] /\ ext' \in [Boxes -> Long \union {NoCmd}]
  BY <1>1 DEF MailboxInv, FwTypeOK, Stored
<1>3. FwTypeOK'
  BY <1>1, <1>2 DEF MailboxInv, FwTypeOK
<1>4. NextBox' = NextBox
  BY <1>1 DEF NextBox, MailboxInv, FwTypeOK
<1>5. InOrder'
  BY <1>1, <1>4 DEF MailboxInv, InOrder, Lost
<1>6. ~Lost => \A b \in Boxes \ {fwcur} : ext'[b] = ext[b]
  BY <1>1, <1>2 DEF Stored
<1>7. Complete'
  <2>1. ASSUME ~Lost PROVE \A b \in busy : box[b] \in Long => ext'[b] = box[b]
    <3>1. busy \subseteq Boxes
      BY DEF MailboxInv, FwTypeOK
    <3>2. CASE loaded
      BY <1>1, <1>6, <2>1, <3>1, <3>2 DEF MailboxInv, Complete
    <3>3. CASE ~loaded
      BY <2>1, <3>3 DEF MailboxInv, ChipOff, Lost
    <3> QED BY <3>2, <3>3
  <2> QED BY <1>1, <2>1 DEF Complete, Lost
<1>8. PciLock' /\ Alone'
  BY <1>1, WritingKeeps
<1>9. CallInPlace'
  <2>1. ASSUME NEW d \in Callers
        PROVE  /\ fwpc'[d] # "idle" => cmd'[d] \in Cmds
               /\ fwpc'[d] = "seen" => ntries'[d] < MaxTries
               /\ loaded' /\ ~Lost' =>
                     /\ fwpc'[d] \in {"write", "trigger"} => fwcur' \notin busy'
                     /\ fwpc'[d] = "trigger" /\ cmd'[d] \in Long => ext'[fwcur'] = cmd'[d]
    <3>1. CASE d = c
      <4>1. ~Lost => (cmd[c] \in Long => ext'[fwcur] = cmd[c])
        BY <1>1, <1>2 DEF Stored
      <4> QED BY <1>1, <3>1, <4>1 DEF MailboxInv, FwTypeOK, Lost
    <3>2. CASE d # c
      <4>1. fwpc'[d] = fwpc[d]
        BY <1>1, <3>2 DEF MailboxInv, FwTypeOK
      <4>2. loaded /\ ~Lost => ~Writing(d)
        BY <1>1, <3>2 DEF MailboxInv, Alone, AlwaysOneWriter, Lost
      <4> QED BY <1>1, <4>1, <4>2 DEF MailboxInv, CallInPlace, Writing, Lost
    <3> QED BY <3>1, <3>2
  <2> QED BY <2>1 DEF CallInPlace
<1>10. ChipOff'
  BY <1>1 DEF MailboxInv, ChipOff
<1> QED BY <1>3, <1>5, <1>7, <1>8, <1>9, <1>10 DEF MailboxInv

\* What the step that starts the firmware does not disturb.
LEMMA TriggerKeeps ==
    ASSUME MailboxInv, NEW c \in Callers, Trigger(c)
    PROVE  /\ FwTypeOK' /\ PciLock' /\ Alone' /\ CallInPlace' /\ ChipOff' /\ Complete'
           /\ fwpc[c] = "trigger" /\ fwpc' = [fwpc EXCEPT ![c] = "advance"]
           /\ UNCHANGED <<usb, loaded, fwcur, ext, cmd, ntries, seen, fwnext, overrun>>
           /\ fwcur \in Boxes /\ cmd[c] \in Cmds
           /\ loaded /\ ~Lost => fwcur \notin busy
           /\ loaded => /\ box' = Stored(box, cmd[c]) /\ busy' = busy \union {fwcur}
                        /\ raced' = raced /\ unread' = IF Lost THEN <<>> ELSE Append(unread, cmd[c])
<1>1. /\ fwcur \in Boxes /\ cmd[c] \in Cmds /\ fwpc[c] = "trigger" /\ Writing(c)
      /\ loaded /\ ~Lost => /\ fwcur \notin busy
                            /\ cmd[c] \in Long => ext[fwcur] = cmd[c]
      /\ fwpc' = [fwpc EXCEPT ![c] = "advance"]
      /\ UNCHANGED <<usb, loaded, fwcur, ext, cmd, ntries, seen, fwnext, overrun>>
  BY DEF MailboxInv, FwTypeOK, CallInPlace, Trigger, Writing, Goto
<1>2. /\ loaded => /\ box' = Stored(box, cmd[c]) /\ busy' = busy \union {fwcur}
                   /\ raced' = raced /\ unread' = IF Lost THEN <<>> ELSE Append(unread, cmd[c])
      /\ ~loaded => /\ unread' \in {unread, <<>>} /\ (~raced' => ~raced /\ busy' = busy /\ box' = box)
      /\ ~raced' => ~raced
  <2>1. raced \in BOOLEAN /\ overrun \in BOOLEAN
    BY DEF MailboxInv, FwTypeOK
  <2>2. CASE loaded
    <3>1. /\ box' = Stored(box, cmd[c]) /\ busy' = busy \union {fwcur}
          /\ raced' = (raced \/ ~loaded)
          /\ unread' = IF overrun \/ raced' THEN <<>> ELSE Append(unread, cmd[c])
      BY <2>2 DEF Trigger
    <3>2. raced' = raced
      BY <2>1, <2>2, <3>1
    <3> QED BY <2>2, <3>1, <3>2 DEF Lost
  <2>3. CASE ~loaded
    BY <2>1, <2>3 DEF Trigger
  <2> QED BY <2>2, <2>3
<1>3. FwTypeOK'
  <2>1. box' \in [Boxes -> Cmds \union {NoCmd}] /\ busy' \subseteq Boxes /\ raced' \in BOOLEAN
    BY <1>1 DEF Trigger, Stored, MailboxInv, FwTypeOK
  <2>2. unread' \in Seq(Cmds)
    <3>1. unread' \in {unread, <<>>, Append(unread, cmd[c])}
      BY DEF Trigger
    <3>2. unread \in Seq(Cmds) /\ <<>> \in Seq(Cmds)
      BY DEF MailboxInv, FwTypeOK
    <3>3. Append(unread, cmd[c]) \in Seq(Cmds)
      BY <1>1, <3>2, AppendProperties
    <3> QED BY <3>1, <3>2, <3>3
  <2> QED BY <1>1, <2>1, <2>2 DEF MailboxInv, FwTypeOK
<1>4. PciLock' /\ Alone'
  BY <1>1, <1>2, WritingKeeps
<1>5. CallInPlace'
  <2>1. ASSUME NEW d \in Callers
        PROVE  /\ fwpc'[d] # "idle" => cmd'[d] \in Cmds
               /\ fwpc'[d] = "seen" => ntries'[d] < MaxTries
               /\ loaded' /\ ~Lost' => fwpc'[d] \notin {"write", "trigger"}
    <3>1. CASE d = c
      BY <1>1, <3>1 DEF MailboxInv, FwTypeOK
    <3>2. CASE d # c
      <4>1. fwpc'[d] = fwpc[d]
        BY <1>1, <3>2 DEF MailboxInv, FwTypeOK
      <4>2. loaded /\ ~Lost => ~Writing(d)
        BY <1>1, <3>2 DEF MailboxInv, Alone, AlwaysOneWriter, Lost
      <4> QED BY <1>1, <1>2, <4>1, <4>2 DEF MailboxInv, CallInPlace, Writing, Lost
    <3> QED BY <3>1, <3>2
  <2> QED BY <2>1 DEF CallInPlace
<1>6. ChipOff'
  BY <1>1, <1>2 DEF MailboxInv, ChipOff
<1>7. Complete'
  <2>1. ASSUME ~Lost' PROVE \A b \in busy' : box'[b] \in Long => ext'[b] = box'[b]
    <3>1. ~Lost
      BY <1>1, <1>2, <2>1 DEF Lost
    <3>2. CASE loaded
      <4>1. box' = [box EXCEPT ![fwcur] = cmd[c]] /\ busy' = busy \union {fwcur}
        BY <1>2, <3>1, <3>2 DEF Stored
      <4>2. box \in [Boxes -> Cmds \union {NoCmd}] /\ busy \subseteq Boxes
        BY DEF MailboxInv, FwTypeOK
      <4>3. \A b \in busy : b # fwcur /\ box'[b] = box[b] /\ (box[b] \in Long => ext[b] = box[b])
        BY <1>1, <3>1, <3>2, <4>1, <4>2 DEF MailboxInv, Complete
      <4>4. box'[fwcur] = cmd[c]
        BY <1>1, <4>1, <4>2
      <4> QED BY <1>1, <3>1, <3>2, <4>1, <4>3, <4>4
    <3>3. CASE ~loaded
      BY <1>2, <2>1, <3>1, <3>3 DEF MailboxInv, ChipOff, Lost
    <3> QED BY <3>2, <3>3
  <2> QED BY <2>1 DEF Complete
<1> QED BY <1>1, <1>2, <1>3, <1>4, <1>5, <1>6, <1>7

\* The box that is triggered is the one after the last unread command's.
LEMMA TriggerIInv == ASSUME MailboxInv, NEW c \in Callers, Trigger(c) PROVE MailboxInv'
<1>1. /\ FwTypeOK' /\ PciLock' /\ Alone' /\ CallInPlace' /\ ChipOff' /\ Complete'
      /\ fwpc[c] = "trigger" /\ fwpc' = [fwpc EXCEPT ![c] = "advance"]
      /\ loaded' = loaded /\ fwcur' = fwcur /\ fwnext' = fwnext /\ overrun' = overrun
      /\ fwcur \in Boxes /\ cmd[c] \in Cmds
      /\ loaded /\ ~Lost => fwcur \notin busy
      /\ loaded => /\ box' = Stored(box, cmd[c]) /\ busy' = busy \union {fwcur}
                   /\ raced' = raced /\ unread' = IF Lost THEN <<>> ELSE Append(unread, cmd[c])
  BY TriggerKeeps
<1>2. /\ fwnext \in Boxes /\ unread \in Seq(Cmds) /\ Following(fwcur) \in Boxes
      /\ fwpc \in [Callers -> {"idle", "poll", "seen", "write", "trigger", "advance"}]
      /\ box \in [Boxes -> Cmds \union {NoCmd}]
  BY <1>1, FollowingWraps DEF MailboxInv, FwTypeOK
<1>3. CASE Lost'
  BY <1>1, <1>3 DEF MailboxInv, InOrder
<1>4. CASE ~Lost' /\ ~loaded
  <2>1. UNCHANGED <<box, busy>> /\ raced = FALSE /\ ~Lost
    BY <1>1, <1>4 DEF Trigger, Lost, MailboxInv, FwTypeOK
  <2>2. unread' = unread
    BY <1>1, <1>4, <2>1 DEF Trigger, Lost
  <2> QED BY <1>1, <1>4, <2>1, <2>2 DEF MailboxInv, InOrder
<1>5. CASE ~Lost' /\ loaded
  <2>1. /\ ~Lost /\ fwcur \notin busy /\ box' = [box EXCEPT ![fwcur] = cmd[c]]
        /\ busy' = busy \union {fwcur} /\ unread' = Append(unread, cmd[c])
    BY <1>1, <1>5 DEF Lost, Stored
  <2>2. PICK m \in Nat : m = Len(unread)
    BY <1>2, LenProperties
  <2>3. /\ Len(unread') = m + 1
        /\ \A k \in 1 .. m : unread'[k] = unread[k]
        /\ unread'[m + 1] = cmd[c]
    BY <1>1, <1>2, <2>1, <2>2, AppendProperties
  <2>4. NextBox = fwcur /\ NextBox' = Following(fwcur)
    <3>1. \A d \in Callers : d # c => ~Writing(d)
      BY <1>1, <1>5, <2>1 DEF MailboxInv, Alone, AlwaysOneWriter, Writing, Lost
    <3>2. \A d \in Callers : fwpc[d] # "advance"
      BY <1>1, <3>1 DEF Writing
    <3>3. fwpc'[c] = "advance"
      BY <1>1, <1>2
    <3> QED BY <1>1, <3>2, <3>3 DEF NextBox
  <2>5. /\ m <= R92C_H2C_NBOX /\ fwcur = (fwnext + m) % R92C_H2C_NBOX
        /\ busy = {BoxOf(k) : k \in 1 .. m}
        /\ \A k \in 1 .. m : box[BoxOf(k)] = unread[k]
    BY <1>5, <2>1, <2>2, <2>4, InOrderDef DEF MailboxInv
  <2>6. m < R92C_H2C_NBOX
    <3>1. SUFFICES ASSUME m = R92C_H2C_NBOX PROVE FALSE
      BY <2>5, BoxAssumption
    <3>2. PICK i \in 0 .. 2 * R92C_H2C_NBOX - 1 : i = fwnext + m
      BY <1>2, <3>1, BoxAssumption DEF Boxes
    <3>3. fwcur = fwnext
      <4>1. i % R92C_H2C_NBOX = IF i < R92C_H2C_NBOX THEN i ELSE i - R92C_H2C_NBOX
        BY Wraps
      <4>2. i % R92C_H2C_NBOX = fwnext
        BY <1>2, <3>1, <3>2, <4>1, BoxAssumption DEF Boxes
      <4> QED BY <2>5, <3>2, <4>2
    <3>4. 1 \in 1 .. m /\ 1 \in 1 .. R92C_H2C_NBOX
      BY <3>1, BoxAssumption
    <3>5. BoxOf(1) = fwnext
      BY <1>2, <3>4, BoxOfWraps, BoxAssumption DEF Boxes
    <3> QED BY <2>1, <2>5, <3>3, <3>4, <3>5
  <2>7. m + 1 \in 1 .. R92C_H2C_NBOX /\ BoxOf(m + 1) = fwcur
    <3>1. (fwnext + (m + 1)) - 1 = fwnext + m
      BY <1>2, <2>2, BoxAssumption DEF Boxes
    <3> QED BY <2>5, <2>6, <3>1, BoxAssumption DEF BoxOf
  <2>8. \A k : BoxOf(k)' = BoxOf(k)
    BY <1>1 DEF BoxOf
  <2>9. 1 .. m + 1 = (1 .. m) \union {m + 1}
    BY <2>2
  <2>10. \A k \in 1 .. m : BoxOf(k) # fwcur
    BY <2>1, <2>5
  <2>11. busy' = {BoxOf(k) : k \in 1 .. m + 1}
    BY <2>1, <2>5, <2>7, <2>9
  <2>12. \A k \in 1 .. m + 1 : box'[BoxOf(k)] = unread'[k]
    <3>1. \A k \in 1 .. m : BoxOf(k) \in Boxes
      BY <1>2, <2>6, BoxOfWraps, BoxAssumption
    <3> QED BY <1>1, <1>2, <2>1, <2>3, <2>5, <2>7, <2>9, <2>10, <3>1
  <2>13. NextBox' = (fwnext + (m + 1)) % R92C_H2C_NBOX
    <3>1. PICK i \in 0 .. 2 * R92C_H2C_NBOX - 1 : i = fwnext + m /\ fwcur = i % R92C_H2C_NBOX
      BY <1>2, <2>5, <2>6, BoxAssumption DEF Boxes
    <3>2. PICK j \in 0 .. 2 * R92C_H2C_NBOX - 1 : j = fwnext + (m + 1) /\ j = i + 1
      BY <1>2, <2>6, <3>1, BoxAssumption DEF Boxes
    <3>3. Following(fwcur) = j % R92C_H2C_NBOX
      <4>1. /\ i % R92C_H2C_NBOX = IF i < R92C_H2C_NBOX THEN i ELSE i - R92C_H2C_NBOX
            /\ j % R92C_H2C_NBOX = IF j < R92C_H2C_NBOX THEN j ELSE j - R92C_H2C_NBOX
        BY Wraps
      <4>2. Following(fwcur) = IF fwcur = R92C_H2C_NBOX - 1 THEN 0 ELSE fwcur + 1
        BY <1>1, FollowingWraps
      <4> QED BY <3>1, <3>2, <4>1, <4>2, BoxAssumption
    <3> QED BY <2>4, <3>2, <3>3
  <2>14. InOrder'
    <3>1. Len(unread') <= R92C_H2C_NBOX
      BY <2>2, <2>3, <2>6, BoxAssumption
    <3> QED BY <1>1, <2>3, <2>8, <2>11, <2>12, <2>13, <3>1, InOrderAfter
  <2> QED BY <1>1, <2>14 DEF MailboxInv
<1> QED BY <1>1, <1>3, <1>4, <1>5 DEF MailboxInv

\* fwcur moves on to the box that is next already.
LEMMA AdvanceIInv == ASSUME MailboxInv, NEW c \in Callers, Advance(c) PROVE MailboxInv'
<1>1. /\ fwcur \in Boxes /\ fwpc[c] = "advance" /\ Writing(c)
      /\ fwpc' = [fwpc EXCEPT ![c] = "idle"] /\ cmd' = [cmd EXCEPT ![c] = NoCmd]
      /\ ntries' = [ntries EXCEPT ![c] = 0] /\ seen' = [seen EXCEPT ![c] = {}]
      /\ fwcur' = Following(fwcur) /\ Following(fwcur) \in Boxes
      /\ UNCHANGED <<usb, loaded, box, ext, busy, fwnext, unread, overrun, raced>>
  BY FollowingWraps DEF MailboxInv, FwTypeOK, Advance, CallEnds, Goto, Writing, chip
<1>2. /\ fwpc \in [Callers -> {"idle", "poll", "seen", "write", "trigger", "advance"}]
      /\ cmd \in [Callers -> Cmds \union {NoCmd}] /\ ntries \in [Callers -> 0 .. MaxTries]
      /\ seen \in [Callers -> SUBSET Boxes] /\ 0 \in 0 .. MaxTries
  BY TriesAssumption DEF MailboxInv, FwTypeOK
<1>3. FwTypeOK'
  BY <1>1, <1>2 DEF MailboxInv, FwTypeOK
<1>4. loaded /\ ~Lost => \A d \in Callers : d # c => ~Writing(d)
  BY <1>1 DEF MailboxInv, Alone, AlwaysOneWriter, Lost
<1>5. loaded /\ ~Lost => NextBox' = NextBox
  <2>1. NextBox = Following(fwcur)
    BY <1>1 DEF NextBox
  <2>2. ASSUME loaded, ~Lost PROVE \A d \in Callers : fwpc'[d] # "advance"
    <3>1. ASSUME NEW d \in Callers PROVE fwpc'[d] # "advance"
      <4>1. CASE d = c
        BY <1>1, <1>2, <4>1
      <4>2. CASE d # c
        BY <1>1, <1>2, <1>4, <2>2, <4>2 DEF Writing
      <4> QED BY <4>1, <4>2
    <3> QED BY <3>1
  <2> QED BY <1>1, <2>1, <2>2 DEF NextBox
<1>6. InOrder'
  BY <1>1, <1>5 DEF MailboxInv, InOrder, Lost
<1>7. Complete'
  BY <1>1 DEF MailboxInv, Complete, Lost
<1>8. PciLock' /\ Alone'
  BY <1>1, WritingKeeps
<1>9. CallInPlace'
  <2>1. ASSUME NEW d \in Callers
        PROVE  /\ fwpc'[d] # "idle" => cmd'[d] \in Cmds
               /\ fwpc'[d] = "seen" => ntries'[d] < MaxTries
               /\ loaded' /\ ~Lost' => fwpc'[d] \notin {"write", "trigger"}
    <3>1. CASE d = c
      BY <1>1, <1>2, <3>1
    <3>2. CASE d # c
      <4>1. fwpc'[d] = fwpc[d] /\ cmd'[d] = cmd[d] /\ ntries'[d] = ntries[d]
        BY <1>1, <1>2, <3>2
      <4> QED BY <1>1, <1>4, <3>2, <4>1 DEF MailboxInv, CallInPlace, Writing, Lost
    <3> QED BY <3>1, <3>2
  <2> QED BY <2>1 DEF CallInPlace
<1>10. ChipOff'
  BY <1>1 DEF MailboxInv, ChipOff
<1> QED BY <1>3, <1>6, <1>7, <1>8, <1>9, <1>10 DEF MailboxInv

\* The box that is read holds the first unread command; the others move up.
LEMMA ReadIInv == ASSUME MailboxInv, FwRead PROVE MailboxInv'
<1>1. /\ fwnext \in Boxes /\ Following(fwnext) \in Boxes /\ fwnext \in busy
      /\ unread \in Seq(Cmds) /\ loaded /\ NextBox' = NextBox
      /\ busy' = busy \ {fwnext} /\ fwnext' = Following(fwnext)
      /\ unread' = IF Lost THEN <<>> ELSE Tail(unread)
      /\ UNCHANGED <<usb, loaded, fwcur, box, ext, overrun, raced>>
      /\ UNCHANGED <<fwpc, cmd, ntries, seen>>
  BY FollowingWraps DEF MailboxInv, FwTypeOK, FwRead, NextBox, calls
<1>2. ASSUME unread' \in Seq(Cmds) PROVE FwTypeOK'
  BY <1>1, <1>2 DEF MailboxInv, FwTypeOK
<1>3. PciLock' /\ Alone' /\ CallInPlace' /\ ChipOff' /\ Complete'
  <2>1. PciLock' /\ Alone'
    BY <1>1 DEF MailboxInv, PciLock, Alone, AlwaysOneWriter, Writing
  <2>2. CallInPlace'
    BY <1>1 DEF MailboxInv, CallInPlace, Lost
  <2> QED BY <1>1, <2>1, <2>2 DEF MailboxInv, ChipOff, Complete, Lost
<1>4. CASE Lost
  <2>1. Lost' /\ unread' \in Seq(Cmds)
    BY <1>1, <1>4 DEF Lost
  <2> QED BY <1>2, <1>3, <2>1 DEF MailboxInv, InOrder
<1>5. CASE ~Lost
  <2>1. PICK m \in Nat : m = Len(unread)
    BY <1>1, LenProperties
  <2>2. /\ m <= R92C_H2C_NBOX /\ NextBox = (fwnext + m) % R92C_H2C_NBOX
        /\ busy = {BoxOf(k) : k \in 1 .. m}
        /\ \A k \in 1 .. m : box[BoxOf(k)] = unread[k]
    BY <1>1, <1>5, <2>1, InOrderDef DEF MailboxInv
  <2>3. m > 0
    BY <1>1, <2>1, <2>2
  <2>4. 1 \in 1 .. R92C_H2C_NBOX /\ BoxOf(1) = fwnext
    <3>1. 1 \in 1 .. R92C_H2C_NBOX
      BY BoxAssumption
    <3> QED BY <1>1, <3>1, BoxOfWraps, BoxAssumption DEF Boxes
  <2>5. /\ unread' = Tail(unread) /\ unread' \in Seq(Cmds) /\ Len(unread') = m - 1
        /\ \A k \in 1 .. m - 1 : unread'[k] = unread[k + 1]
    <3>1. unread # <<>>
      BY <2>1, <2>3, EmptySeq
    <3> QED BY <1>1, <1>5, <2>1, <3>1, HeadTailProperties
  <2>6. ASSUME NEW k \in 1 .. m - 1
        PROVE  BoxOf(k)' = BoxOf(k + 1) /\ BoxOf(k)' # fwnext /\ k + 1 \in 1 .. m
    <3>1. /\ k + 1 \in 1 .. m /\ k + 1 \in 1 .. R92C_H2C_NBOX /\ k \in 1 .. R92C_H2C_NBOX
          /\ k + 1 # 1
      BY <2>1, <2>2, BoxAssumption
    <3>2. fwnext' = IF fwnext = R92C_H2C_NBOX - 1 THEN 0 ELSE fwnext + 1
      BY <1>1, FollowingWraps
    <3>3. BoxOf(k)' = (fwnext' + k - 1) % R92C_H2C_NBOX
      BY DEF BoxOf
    <3>4. PICK j \in 0 .. 2 * R92C_H2C_NBOX - 1 : j = fwnext' + k - 1
      BY <1>1, <3>1, <3>2, BoxAssumption DEF Boxes
    <3>5. j % R92C_H2C_NBOX = IF j < R92C_H2C_NBOX THEN j ELSE j - R92C_H2C_NBOX
      BY Wraps
    <3>6. BoxOf(k + 1) = IF fwnext + (k + 1) - 1 < R92C_H2C_NBOX THEN fwnext + (k + 1) - 1
                         ELSE fwnext + (k + 1) - 1 - R92C_H2C_NBOX
      BY <1>1, <3>1, BoxOfWraps
    <3>7. j % R92C_H2C_NBOX = BoxOf(k + 1)
      BY <1>1, <3>1, <3>2, <3>4, <3>5, <3>6, BoxAssumption DEF Boxes
    <3>8. BoxOf(k + 1) # fwnext
      BY <1>1, <2>4, <3>1, BoxOfOnce
    <3> QED BY <3>1, <3>3, <3>4, <3>7, <3>8
  <2>7. \A i \in 1 .. m : i = 1 \/ (i - 1 \in 1 .. m - 1 /\ (i - 1) + 1 = i)
    BY <2>1
  <2>8. busy' = {BoxOf(k)' : k \in 1 .. m - 1}
    <3>1. ASSUME NEW b \in busy' PROVE \E k \in 1 .. m - 1 : b = BoxOf(k)'
      <4>1. PICK i \in 1 .. m : b = BoxOf(i) /\ b # fwnext
        BY <1>1, <2>2
      <4>2. i # 1
        BY <2>4, <4>1
      <4>3. i - 1 \in 1 .. m - 1 /\ (i - 1) + 1 = i
        BY <2>7, <4>2
      <4>4. BoxOf(i - 1)' = BoxOf((i - 1) + 1)
        BY <2>6, <4>3
      <4> QED BY <4>1, <4>3, <4>4
    <3>2. ASSUME NEW k \in 1 .. m - 1 PROVE BoxOf(k)' \in busy'
      BY <1>1, <2>2, <2>6
    <3> QED BY <3>1, <3>2
  <2>9. \A k \in 1 .. m - 1 : box'[BoxOf(k)'] = unread'[k]
    BY <1>1, <2>2, <2>5, <2>6
  <2>10. NextBox' = (fwnext' + (m - 1)) % R92C_H2C_NBOX
    <3>1. /\ fwnext' = IF fwnext = R92C_H2C_NBOX - 1 THEN 0 ELSE fwnext + 1
          /\ fwnext' \in Int /\ fwnext \in Int /\ R92C_H2C_NBOX \in Int /\ m \in Int
          /\ fwnext' \in 0 .. R92C_H2C_NBOX - 1 /\ fwnext \in 0 .. R92C_H2C_NBOX - 1
      BY <1>1, FollowingWraps, BoxAssumption DEF Boxes
    <3>2. PICK i \in 0 .. 2 * R92C_H2C_NBOX - 1 : i = fwnext + m
      BY <1>1, <2>2, BoxAssumption DEF Boxes
    <3>3. PICK j \in 0 .. 2 * R92C_H2C_NBOX - 1 : j = fwnext' + (m - 1)
      BY <2>2, <2>3, <3>1
    <3>4. /\ i % R92C_H2C_NBOX = IF i < R92C_H2C_NBOX THEN i ELSE i - R92C_H2C_NBOX
          /\ j % R92C_H2C_NBOX = IF j < R92C_H2C_NBOX THEN j ELSE j - R92C_H2C_NBOX
      BY Wraps
    <3>5. i % R92C_H2C_NBOX = j % R92C_H2C_NBOX
      <4>1. CASE fwnext = R92C_H2C_NBOX - 1
        BY <2>2, <2>3, <3>1, <3>2, <3>3, <3>4, <4>1
      <4>2. CASE fwnext # R92C_H2C_NBOX - 1
        BY <2>2, <2>3, <3>1, <3>2, <3>3, <3>4, <4>2
      <4> QED BY <4>1, <4>2
    <3> QED BY <1>1, <2>2, <3>2, <3>3, <3>5
  <2>11. InOrder'
    <3>1. Len(unread') <= R92C_H2C_NBOX
      BY <2>2, <2>5, BoxAssumption
    <3> QED BY <2>5, <2>8, <2>9, <2>10, <3>1, InOrderAfter
  <2> QED BY <1>2, <1>3, <2>5, <2>11 DEF MailboxInv
<1> QED BY <1>4, <1>5

\* rtwn_init() puts fwcur where the firmware starts; rtwn_stop() forgets all.
LEMMA RestartIInv == ASSUME MailboxInv, Load \/ Unload PROVE MailboxInv'
<1>1. 0 \in Boxes /\ 0 % R92C_H2C_NBOX = 0 /\ 0 + 0 = 0
  <2>1. 0 \in 0 .. 2 * R92C_H2C_NBOX - 1 /\ 0 < R92C_H2C_NBOX
    BY BoxAssumption
  <2> QED BY <2>1, Wraps
<1>2. Len(<<>>) = 0 /\ <<>> \in Seq(Cmds)
  OBVIOUS
<1>3. UNCHANGED <<usb, fwpc, cmd, ntries, seen>>
  BY DEF Load, Unload, calls
<1>4. PciLock'
  BY <1>3 DEF MailboxInv, PciLock
<1>5. CASE Load
  <2>1. /\ ~loaded /\ loaded' = TRUE /\ fwcur' = 0
        /\ raced' = (raced \/ \E c \in Callers : Writing(c))
        /\ UNCHANGED <<box, ext, busy, fwnext, unread, overrun>>
        /\ raced \in BOOLEAN
    BY <1>5 DEF Load, chip, MailboxInv, FwTypeOK
  <2>2. ~raced' => ~raced /\ \A c \in Callers : ~Writing(c)
    BY <2>1
  <2>3. FwTypeOK'
    BY <1>1, <1>3, <2>1 DEF MailboxInv, FwTypeOK
  <2>4. ~Lost' => /\ ~Lost /\ fwnext' = 0 /\ unread' = <<>> /\ busy' = {} /\ NextBox' = 0
    <3>1. ~Lost' => ~Lost /\ ~raced /\ \A c \in Callers : fwpc'[c] # "advance"
      BY <1>3, <2>1, <2>2 DEF Lost, Writing
    <3> QED BY <2>1, <3>1 DEF MailboxInv, ChipOff, NextBox
  <2>5. InOrder'
    BY <1>1, <1>2, <2>4, BoxAssumption DEF InOrder
  <2>6. Alone'
    BY <1>3, <2>2 DEF Alone, AlwaysOneWriter, Writing
  <2>7. CallInPlace'
    BY <1>3, <2>2 DEF MailboxInv, CallInPlace, Writing, Lost
  <2> QED BY <1>4, <2>1, <2>3, <2>4, <2>5, <2>6, <2>7 DEF MailboxInv, Complete, ChipOff
<1>6. CASE Unload
  <2>1. /\ loaded' = FALSE /\ fwnext' = 0 /\ unread' = <<>> /\ busy' = {} /\ fwcur' = fwcur
        /\ box' = [b \in Boxes |-> NoCmd] /\ ext' = [b \in Boxes |-> NoCmd]
        /\ overrun' = FALSE /\ raced' = FALSE
    BY <1>6 DEF Unload
  <2>2. FwTypeOK'
    BY <1>1, <1>2, <1>3, <2>1 DEF MailboxInv, FwTypeOK
  <2>3. InOrder'
    BY <1>2, <2>1, BoxAssumption DEF InOrder
  <2>4. CallInPlace'
    BY <1>3, <2>1 DEF MailboxInv, CallInPlace
  <2> QED BY <1>4, <2>1, <2>2, <2>3, <2>4 DEF MailboxInv, Complete, Alone, ChipOff
<1> QED BY <1>5, <1>6

-----------------------------------------------------------------------------
LEMMA NextMailbox == MailboxInv /\ [FwNext]_fwvars => MailboxInv'
<1> SUFFICES ASSUME MailboxInv, [FwNext]_fwvars PROVE MailboxInv'
  OBVIOUS
<1>1. ASSUME NEW c \in Callers, Step(c) PROVE MailboxInv'
  BY <1>1, PollIInv, WriteExtIInv, TriggerIInv, AdvanceIInv DEF Step, Polling
<1>2. ASSUME NEW c \in Callers, NEW k \in Cmds, Call(c, k) PROVE MailboxInv'
  BY <1>2, PollIInv DEF Polling
<1>3. CASE FwRead \/ Load \/ Unload
  BY <1>3, ReadIInv, RestartIInv
<1>4. CASE UNCHANGED fwvars
  <2>1. UNCHANGED <<usb, loaded, fwcur, box, ext, busy, fwnext, unread, overrun, raced>>
        /\ UNCHANGED <<fwpc, cmd, ntries, seen>>
    BY <1>4 DEF fwvars
  <2>2. FwTypeOK'
    BY <2>1 DEF MailboxInv, FwTypeOK
  <2>3. NextBox' = NextBox /\ Lost' = Lost
    BY <2>1 DEF NextBox, Lost
  <2>4. PciLock' /\ Alone' /\ ChipOff'
    BY <2>1 DEF MailboxInv, PciLock, Alone, AlwaysOneWriter, Writing, ChipOff
  <2> QED BY <2>1, <2>2, <2>3, <2>4 DEF MailboxInv, InOrder, Complete, CallInPlace
<1> QED BY <1>1, <1>2, <1>3, <1>4 DEF FwNext

\* r92c_fw_cmd() and the firmware go round the boxes together: what is in them
\* is, in order and whole, what was reported as sent and is not yet read, after
\* any failed writes and restarts, and while other threads send commands, too;
\* on PCI they never write at once.
THEOREM MailboxSafe == FwSpec => []BoxesAgree
<1>1. MailboxInv => BoxesAgree
  <2>1. PciLock => OneWriter
    BY DEF PciLock, OneWriter, AlwaysOneWriter, Writing
  <2> QED BY <2>1 DEF MailboxInv, BoxesAgree
<1> QED BY <1>1, InitMailbox, NextMailbox, PTL DEF FwSpec

-----------------------------------------------------------------------------
(* Tuning: what set_chan() makes of the registers.                           *)


HwFields == {"agc", "chnl", "gain", "bwop20", "rfmod40", "cbw20", "side", "cckcheck", "blocks", "fe",
             "path", "swing", "fc", "rfband", "dsec", "rfmod", "ext", "spur", "adcclk", "peak",
             "txpause", "bcn", "enbt", "adda", "afe", "ant", "pi", "tone", "rfmode", "lcstart",
             "lck", "page", "iqres"}
FeNames == {"mux", "inv", "lna", "pa", "bypass"}
Reset == [ieee |-> 0, bw |-> "reset"]
KnownChip == cfg.family \in {"r92c", "r88e", "r12a", "r21a"} /\ cfg.ntx \in 1..2 /\ cfg.nrx \in 1..2

\* What no channel changes: the registers of chains that do not receive, and
\* of the front end those the chip does not have.
Base(h) ==
    /\ DOMAIN h = HwFields
    /\ h.chnl = [i \in Chains |-> h.chnl[i]] /\ \A i \in Chains : i >= cfg.nrx => h.chnl[i] = Reset
    /\ h.blocks \subseteq {"cck", "ofdm"}
    /\ h.fe = [f \in FeNames |-> h.fe[f]]
    /\ cfg.family = "r12a" => /\ \A f \in {"lna", "pa", "bypass"} : h.fe[f] = "table"
                              /\ rt.rfe \notin KnownRfe => \A f \in {"mux", "inv"} : h.fe[f] = "table"
    /\ cfg.family = "r21a" => \A f \in {"mux", "inv"} : h.fe[f] = "table"
    /\ cfg.family = "r21a" \/ ~cfg.ccut => h.spur = 0

\* What depends on the band alone.
Banded(h, band) ==
    /\ h.cckcheck = band /\ h.path = band
    /\ h.blocks = IF band = "2G" THEN {"cck", "ofdm"} ELSE {"ofdm"}
    /\ h.swing = rt.swing[band]
    /\ cfg.family = "r12a" /\ rt.rfe \in KnownRfe =>
         h.fe["mux"] = FrontEnd12a(rt.rfe, band)[1] /\ h.fe["inv"] = FrontEnd12a(rt.rfe, band)[2]
    /\ cfg.family = "r21a" =>
         /\ h.fe["lna"] = IF band = "2G" THEN "7" ELSE "5"
         /\ h.fe["pa"] = IF band = "2G" THEN "7" ELSE "4"
         /\ band = "2G" => h.fe["bypass"] = IF rt.ext_lna_2g THEN "amplified" ELSE "bypassed"

Narrow13(c) == ~Ht40(c) /\ c.ieee \in {13, 14}
Peak == IF cfg.nrx = 2 /\ cfg.ntx = 2 THEN "01c" ELSE "020"

\* What tuning a chip of the last two families to a channel leaves.
Tuned12a(g, c) ==
    /\ \A i \in Chains : g.chnl[i] = IF i < cfg.nrx THEN [ieee |-> c.ieee, bw |-> c.width] ELSE Reset
    /\ g.fc = FcArea(c.ieee) /\ g.rfband = RfBand(c.ieee)
    /\ g.dsec = IF Ht40(c) THEN (IF c.upper THEN "down20" ELSE "up20") ELSE "no_ext"
    /\ g.rfmod40 = Ht40(c)
    /\ g.rfmod = IF Narrow13(c) /\ cfg.family # "r21a" THEN 3 ELSE 2
    /\ g.spur = IF cfg.family = "r21a" \/ ~cfg.ccut THEN 0 ELSE IF Ht40(c) /\ c.ieee = 11 THEN 3 ELSE 2
    /\ g.adcclk = IF cfg.family # "r21a" /\ cfg.ccut /\ (Narrow13(c) \/ (Ht40(c) /\ c.ieee = 11)) THEN 1 ELSE 0
    /\ g.peak = IF Ht40(c) /\ cfg.r837 THEN "018" ELSE Peak
    /\ Ht40(c) => g.side = (IF c.upper THEN "upper" ELSE "lower")
                  /\ g.ext = (IF c.upper THEN "down20" ELSE "up20")

\* What tuning a chip of the first two families leaves.
Tuned92c(g, c) ==
    /\ \A i \in Chains : g.chnl[i] = IF i >= cfg.nrx THEN Reset
                                    ELSE [ieee |-> c.ieee, bw |-> IF i # 0 THEN "reset" ELSE IF Ht40(c) THEN 40 ELSE 20]
    /\ g.bwop20 = ~Ht40(c) /\ g.rfmod40 = Ht40(c)
    /\ Ht40(c) => g.side = IF c.upper THEN "upper" ELSE "lower"
    /\ cfg.family # "r88e" => g.cbw20 = ~Ht40(c)

\* What no channel change touches.
Kept == {"gain", "txpause", "bcn", "enbt", "adda", "afe", "ant", "pi", "tone", "rfmode", "lck",
         "page", "iqres"}

LEMMA BandOf ==
    ASSUME NEW h, NEW band \in Bands, Base(h), cfg.family \in {"r12a", "r21a"}
    PROVE  LET g == [(IF cfg.family = "r21a" THEN r21a_set_band_ghz(h, band)
                      ELSE r12a_set_band_ghz(h, band)) EXCEPT !.swing = rt.swing[band]]
           IN  Base(g) /\ Banded(g, band)
<1> DEFINE G == IF cfg.family = "r21a" THEN r21a_set_band_ghz(h, band)
                ELSE r12a_set_band_ghz(h, band)
           g == [G EXCEPT !.swing = rt.swing[band]]
<1> SUFFICES Base(g) /\ Banded(g, band)
  OBVIOUS
<1>1. CASE cfg.family = "r21a"
  <2>1. G = r21a_set_band_ghz(h, band)
    BY <1>1
  <2>2. DOMAIN g = HwFields
    BY <2>1 DEF r21a_set_band_ghz, Base
  <2>3. /\ g.chnl = h.chnl /\ g.spur = h.spur /\ g.path = band /\ g.cckcheck = band
        /\ g.swing = rt.swing[band] /\ g.fe = FrontEnd21a(h.fe, band)
        /\ g.blocks = IF band = "2G" THEN h.blocks \cup {"cck", "ofdm"} ELSE (h.blocks \ {"cck"}) \cup {"ofdm"}
    BY <2>1 DEF r21a_set_band_ghz, Base, HwFields
  <2>4. /\ FrontEnd21a(h.fe, band) = [f \in FeNames |-> FrontEnd21a(h.fe, band)[f]]
        /\ FrontEnd21a(h.fe, band)["mux"] = h.fe["mux"] /\ FrontEnd21a(h.fe, band)["inv"] = h.fe["inv"]
        /\ FrontEnd21a(h.fe, band)["lna"] = (IF band = "2G" THEN "7" ELSE "5")
        /\ FrontEnd21a(h.fe, band)["pa"] = (IF band = "2G" THEN "7" ELSE "4")
        /\ band = "2G" => FrontEnd21a(h.fe, band)["bypass"] = IF rt.ext_lna_2g THEN "amplified" ELSE "bypassed"
    BY DEF FrontEnd21a, Base, FeNames
  <2>5. g.blocks = IF band = "2G" THEN {"cck", "ofdm"} ELSE {"ofdm"}
    BY <2>3 DEF Base
  <2> HIDE DEF G, g
  <2>5a. h.fe["mux"] = "table" /\ h.fe["inv"] = "table"
    BY <1>1 DEF Base
  <2> DEFINE fe == FrontEnd21a(h.fe, band)
  <2>5b. /\ g.fe = fe /\ fe = [f \in FeNames |-> fe[f]] /\ fe["mux"] = "table" /\ fe["inv"] = "table"
         /\ fe["lna"] = (IF band = "2G" THEN "7" ELSE "5")
         /\ fe["pa"] = (IF band = "2G" THEN "7" ELSE "4")
         /\ band = "2G" => fe["bypass"] = IF rt.ext_lna_2g THEN "amplified" ELSE "bypassed"
    BY <2>3, <2>4, <2>5a, Zenon
  <2> HIDE DEF fe
  <2>6a. g.fe["mux"] = "table" /\ g.fe["inv"] = "table" /\ g.fe = [f \in FeNames |-> g.fe[f]]
    BY <2>5b
  <2>6b. g.blocks \subseteq {"cck", "ofdm"}
    BY <2>5
  <2>6. /\ g.fe = [f \in FeNames |-> g.fe[f]] /\ \A f \in {"mux", "inv"} : g.fe[f] = "table"
        /\ g.blocks \subseteq {"cck", "ofdm"} /\ cfg.family # "r12a"
    BY <1>1, <2>6a, <2>6b
  <2>7. Base(g)
    BY <2>2, <2>3, <2>6 DEF Base
  <2>8. Banded(g, band)
    BY <1>1, <2>3, <2>5b, <2>5 DEF Banded
  <2> QED BY <2>7, <2>8
<1>2. CASE cfg.family = "r12a"
  <2>1. G = r12a_set_band_ghz(h, band)
    BY <1>2
  <2> DEFINE fe == IF rt.rfe \in KnownRfe
                   THEN [h.fe EXCEPT !.mux = FrontEnd12a(rt.rfe, band)[1],
                                     !.inv = FrontEnd12a(rt.rfe, band)[2]] ELSE h.fe
  <2>2. DOMAIN g = HwFields
    BY <2>1 DEF r12a_set_band_ghz, Base
  <2>3. /\ g.chnl = h.chnl /\ g.spur = h.spur /\ g.path = band /\ g.cckcheck = band
        /\ g.swing = rt.swing[band] /\ g.fe = fe
        /\ g.blocks = IF band = "2G" THEN h.blocks \cup {"cck", "ofdm"} ELSE (h.blocks \ {"cck"}) \cup {"ofdm"}
    BY <2>1 DEF r12a_set_band_ghz, Base, HwFields
  <2>4. fe = [f \in FeNames |-> fe[f]] /\ \A f \in {"lna", "pa", "bypass"} : fe[f] = h.fe[f]
    BY DEF Base, FeNames
  <2>5. rt.rfe \in KnownRfe =>
          fe["mux"] = FrontEnd12a(rt.rfe, band)[1] /\ fe["inv"] = FrontEnd12a(rt.rfe, band)[2]
    BY DEF Base, FeNames
  <2>6. rt.rfe \notin KnownRfe => fe = h.fe
    OBVIOUS
  <2>7. g.blocks = IF band = "2G" THEN {"cck", "ofdm"} ELSE {"ofdm"}
    BY <2>3 DEF Base
  <2> HIDE DEF fe, g
  <2> QED BY <1>2, <2>2, <2>3, <2>4, <2>5, <2>6, <2>7 DEF Base, Banded
<1> QED BY <1>1, <1>2

LEMMA SetBand ==
    ASSUME NEW h, NEW c \in Channels, NEW initialising, Base(h), KnownChip, ~Old92c,
           initialising \/ Banded(h, h.cckcheck)
    PROVE  Base(r12a_set_band(h, c, initialising)) /\ Banded(r12a_set_band(h, c, initialising), c.band)
<1>1. cfg.family \in {"r12a", "r21a"} /\ c.band \in Bands
  BY ChannelsAssumption DEF KnownChip, Old92c
<1>2. CASE ~initialising /\ h.cckcheck = c.band
  BY <1>2 DEF r12a_set_band
<1>3. CASE ~(~initialising /\ h.cckcheck = c.band)
  BY <1>1, <1>3, BandOf DEF r12a_set_band
<1> QED BY <1>2, <1>3

\* The fields in which the parts of r12a_set_chan() meet.
LEMMA FixSpur ==
    ASSUME NEW h, NEW c, DOMAIN h = HwFields
    PROVE  LET g == r12a_fix_spur(h, c)
               spurs == cfg.family # "r21a" /\ cfg.ccut
               wide11 == Ht40(c) /\ c.ieee = 11
           IN  /\ DOMAIN g = HwFields
               /\ \A f \in HwFields \ {"spur", "adcclk", "rfmod"} : g[f] = h[f]
               /\ g.spur = IF ~spurs THEN h.spur ELSE IF wide11 THEN 3 ELSE 2
               /\ g.adcclk = IF ~spurs THEN h.adcclk ELSE IF wide11 \/ Narrow13(c) THEN 1 ELSE 0
               /\ cfg.family = "r21a" => g.rfmod = h.rfmod
               /\ cfg.family # "r21a" /\ Narrow13(c) => g.rfmod = 3
               /\ cfg.family # "r21a" /\ ~Narrow13(c) => g.rfmod \in {2, h.rfmod}
<1> SUFFICES /\ DOMAIN r12a_fix_spur(h, c) = HwFields
             /\ \A f \in HwFields \ {"spur", "adcclk", "rfmod"} : r12a_fix_spur(h, c)[f] = h[f]
             /\ r12a_fix_spur(h, c).spur = IF ~(cfg.family # "r21a" /\ cfg.ccut) THEN h.spur
                                           ELSE IF Ht40(c) /\ c.ieee = 11 THEN 3 ELSE 2
             /\ r12a_fix_spur(h, c).adcclk = IF ~(cfg.family # "r21a" /\ cfg.ccut) THEN h.adcclk
                                             ELSE IF (Ht40(c) /\ c.ieee = 11) \/ Narrow13(c) THEN 1 ELSE 0
             /\ cfg.family = "r21a" => r12a_fix_spur(h, c).rfmod = h.rfmod
             /\ cfg.family # "r21a" /\ Narrow13(c) => r12a_fix_spur(h, c).rfmod = 3
             /\ cfg.family # "r21a" /\ ~Narrow13(c) => r12a_fix_spur(h, c).rfmod \in {2, h.rfmod}
  OBVIOUS
<1>1. CASE cfg.family = "r21a"
  BY <1>1 DEF r12a_fix_spur
<1>2. CASE cfg.family # "r21a" /\ cfg.ccut /\ Ht40(c) /\ c.ieee = 11
  <2>1. r12a_fix_spur(h, c) = [h EXCEPT !.spur = 3, !.adcclk = 1] /\ ~Narrow13(c)
    BY <1>2 DEF r12a_fix_spur, Narrow13
  <2> QED BY <1>2, <2>1 DEF HwFields
<1>3. CASE cfg.family # "r21a" /\ cfg.ccut /\ ~(Ht40(c) /\ c.ieee = 11)
  <2>1. r12a_fix_spur(h, c) = [h EXCEPT !.spur = 2, !.rfmod = IF Narrow13(c) THEN 3 ELSE 2,
                                        !.adcclk = IF Narrow13(c) THEN 1 ELSE 0]
    BY <1>3 DEF r12a_fix_spur, Narrow13
  <2> QED BY <1>3, <2>1 DEF HwFields
<1>4. CASE cfg.family # "r21a" /\ ~cfg.ccut
  <2>1. r12a_fix_spur(h, c) = IF Narrow13(c) THEN [h EXCEPT !.rfmod = 3]
                              ELSE IF c.band = "2G" THEN [h EXCEPT !.rfmod = 2] ELSE h
    BY <1>4 DEF r12a_fix_spur, Narrow13
  <2> QED BY <1>4, <2>1 DEF HwFields
<1> QED BY <1>1, <1>2, <1>3, <1>4

LEMMA SetWidth ==
    ASSUME NEW h, NEW c, DOMAIN h = HwFields
    PROVE  /\ DOMAIN SetWidth12a(h, c) = HwFields
           /\ \A f \in HwFields \ {"rfmod", "adcclk", "peak", "dsec", "ext", "side", "rfmod40"} :
                 SetWidth12a(h, c)[f] = h[f]
           /\ SetWidth12a(h, c).rfmod = 2 /\ SetWidth12a(h, c).adcclk = 0
           /\ SetWidth12a(h, c).rfmod40 = Ht40(c)
           /\ SetWidth12a(h, c).peak = IF Ht40(c) /\ cfg.r837 THEN "018" ELSE Peak
           /\ SetWidth12a(h, c).dsec = IF Ht40(c) THEN (IF c.upper THEN "down20" ELSE "up20") ELSE "no_ext"
           /\ Ht40(c) => SetWidth12a(h, c).side = (IF c.upper THEN "upper" ELSE "lower")
                         /\ SetWidth12a(h, c).ext = (IF c.upper THEN "down20" ELSE "up20")
<1>1. Ht40(c) \in BOOLEAN
  BY DEF Ht40
<1>2. CASE Ht40(c)
  <2> DEFINE peak == IF cfg.r837 THEN "018" ELSE Peak
             second == IF c.upper THEN "down20" ELSE "up20"
             side == IF c.upper THEN "upper" ELSE "lower"
  <2>1. SetWidth12a(h, c) = [h EXCEPT !.rfmod = 2, !.adcclk = 0, !.peak = peak, !.dsec = second,
                                      !.ext = second, !.side = side, !.rfmod40 = TRUE]
    BY <1>2 DEF SetWidth12a, Peak
  <2>2. peak = (IF Ht40(c) /\ cfg.r837 THEN "018" ELSE Peak)
        /\ second = (IF Ht40(c) THEN (IF c.upper THEN "down20" ELSE "up20") ELSE "no_ext")
        /\ side = (IF c.upper THEN "upper" ELSE "lower")
        /\ second = (IF c.upper THEN "down20" ELSE "up20")
    BY <1>2
  <2> HIDE DEF peak, second, side
  <2>3. /\ DOMAIN SetWidth12a(h, c) = HwFields
        /\ SetWidth12a(h, c).rfmod = 2 /\ SetWidth12a(h, c).adcclk = 0
        /\ SetWidth12a(h, c).peak = peak /\ SetWidth12a(h, c).dsec = second
        /\ SetWidth12a(h, c).ext = second /\ SetWidth12a(h, c).side = side
        /\ SetWidth12a(h, c).rfmod40 = TRUE
    BY <2>1 DEF HwFields
  <2>4. \A f \in HwFields \ {"rfmod", "adcclk", "peak", "dsec", "ext", "side", "rfmod40"} :
                 SetWidth12a(h, c)[f] = h[f]
    BY <2>1
  <2> QED BY <1>2, <2>2, <2>3, <2>4
<1>3. CASE ~Ht40(c)
  <2>1. SetWidth12a(h, c) = [h EXCEPT !.rfmod = 2, !.adcclk = 0, !.peak = Peak, !.dsec = "no_ext",
                                      !.rfmod40 = FALSE]
    BY <1>3 DEF SetWidth12a, Peak
  <2> QED BY <1>1, <1>3, <2>1 DEF HwFields
<1> QED BY <1>2, <1>3

LEMMA SetChan12a ==
    ASSUME NEW h, NEW c \in Channels, NEW initialising, Base(h), KnownChip, ~Old92c,
           initialising \/ Banded(h, h.cckcheck)
    PROVE  LET g == r12a_set_chan(h, c, initialising)
           IN  Base(g) /\ Banded(g, c.band) /\ Tuned12a(g, c)
<1> DEFINE b == r12a_set_band(h, c, initialising)
           f == [b EXCEPT !.fc = FcArea(c.ieee), !.rfband = RfBand(c.ieee)]
           s1 == r12a_fix_spur(f, c)
           s2 == SetWidth12a(s1, c)
           s3 == r12a_fix_spur(s2, c)
           chnl == [i \in Chains |-> IF i < cfg.nrx THEN [ieee |-> c.ieee, bw |-> c.width] ELSE h.chnl[i]]
           agc == r12a_set_txpower(cfg, rt, h.agc, c)
           g == [s3 EXCEPT !.chnl = chnl, !.agc = agc]
<1> SUFFICES Base(g) /\ Banded(g, c.band) /\ Tuned12a(g, c)
  BY DEF r12a_set_chan
<1>1. Base(b) /\ Banded(b, c.band)
  BY SetBand
<1> HIDE DEF b
<1>2. /\ DOMAIN f = HwFields /\ \A x \in HwFields \ {"fc", "rfband"} : f[x] = b[x]
      /\ f.fc = FcArea(c.ieee) /\ f.rfband = RfBand(c.ieee)
  BY <1>1 DEF Base, HwFields
<1> HIDE DEF f
<1>3. /\ DOMAIN s1 = HwFields
      /\ \A x \in HwFields \ {"spur", "adcclk", "rfmod"} : s1[x] = f[x]
      /\ s1.spur = IF ~(cfg.family # "r21a" /\ cfg.ccut) THEN f.spur ELSE IF Ht40(c) /\ c.ieee = 11 THEN 3 ELSE 2
  BY <1>2, FixSpur
<1> HIDE DEF s1
<1>4. /\ DOMAIN s2 = HwFields
      /\ \A x \in HwFields \ {"rfmod", "adcclk", "peak", "dsec", "ext", "side", "rfmod40"} : s2[x] = s1[x]
      /\ s2.rfmod = 2 /\ s2.adcclk = 0 /\ s2.rfmod40 = Ht40(c)
      /\ s2.peak = IF Ht40(c) /\ cfg.r837 THEN "018" ELSE Peak
      /\ s2.dsec = IF Ht40(c) THEN (IF c.upper THEN "down20" ELSE "up20") ELSE "no_ext"
      /\ Ht40(c) => s2.side = (IF c.upper THEN "upper" ELSE "lower")
                    /\ s2.ext = (IF c.upper THEN "down20" ELSE "up20")
  BY <1>3, SetWidth
<1> HIDE DEF s2
<1>5. /\ DOMAIN s3 = HwFields
      /\ \A x \in HwFields \ {"spur", "adcclk", "rfmod"} : s3[x] = s2[x]
      /\ s3.spur = IF ~(cfg.family # "r21a" /\ cfg.ccut) THEN s2.spur ELSE IF Ht40(c) /\ c.ieee = 11 THEN 3 ELSE 2
      /\ s3.adcclk = IF ~(cfg.family # "r21a" /\ cfg.ccut) THEN s2.adcclk
                     ELSE IF (Ht40(c) /\ c.ieee = 11) \/ Narrow13(c) THEN 1 ELSE 0
      /\ cfg.family = "r21a" => s3.rfmod = s2.rfmod
      /\ cfg.family # "r21a" /\ Narrow13(c) => s3.rfmod = 3
      /\ cfg.family # "r21a" /\ ~Narrow13(c) => s3.rfmod \in {2, s2.rfmod}
  BY <1>4, FixSpur
<1> HIDE DEF s3
<1>6. /\ DOMAIN g = HwFields /\ g.chnl = chnl
      /\ \A x \in HwFields \ {"chnl", "agc"} : g[x] = s3[x]
  BY <1>5 DEF HwFields
<1> HIDE DEF g, agc
<1>7. /\ g.fc = FcArea(c.ieee) /\ g.rfband = RfBand(c.ieee) /\ g.cckcheck = b.cckcheck
      /\ g.path = b.path /\ g.blocks = b.blocks /\ g.swing = b.swing /\ g.fe = b.fe
  BY <1>2, <1>3, <1>4, <1>5, <1>6 DEF HwFields
<1>8. g.dsec = s2.dsec /\ g.rfmod40 = s2.rfmod40 /\ g.peak = s2.peak /\ g.side = s2.side /\ g.ext = s2.ext
  BY <1>5, <1>6 DEF HwFields
<1>9. g.rfmod = s3.rfmod /\ g.spur = s3.spur /\ g.adcclk = s3.adcclk
  BY <1>6 DEF HwFields
<1>10. s2.spur = s1.spur /\ f.spur = b.spur
  BY <1>2, <1>4 DEF HwFields
<1>11. /\ chnl = [i \in Chains |-> chnl[i]]
       /\ \A i \in Chains : chnl[i] = IF i < cfg.nrx THEN [ieee |-> c.ieee, bw |-> c.width] ELSE Reset
  BY DEF Base, Chains, KnownChip
<1> HIDE DEF chnl
<1>12. cfg.family = "r21a" \/ ~cfg.ccut => b.spur = 0
  BY <1>1 DEF Base
<1>13. g.spur = IF cfg.family = "r21a" \/ ~cfg.ccut THEN 0 ELSE IF Ht40(c) /\ c.ieee = 11 THEN 3 ELSE 2
  BY <1>3, <1>5, <1>9, <1>10, <1>12
<1>14. Banded(g, c.band)
  BY <1>1, <1>7 DEF Banded
<1>15. Base(g)
  <2>1. \A i \in Chains : i >= cfg.nrx => g.chnl[i] = Reset
    BY <1>6, <1>11 DEF Chains, KnownChip
  <2> QED BY <1>1, <1>6, <1>7, <1>11, <1>13, <2>1 DEF Base
<1>16. Tuned12a(g, c)
  <2>1. g.rfmod = IF Narrow13(c) /\ cfg.family # "r21a" THEN 3 ELSE 2
    BY <1>4, <1>5, <1>9
  <2>2. g.adcclk = IF cfg.family # "r21a" /\ cfg.ccut /\ (Narrow13(c) \/ (Ht40(c) /\ c.ieee = 11)) THEN 1 ELSE 0
    BY <1>4, <1>5, <1>9
  <2> QED BY <1>4, <1>6, <1>7, <1>8, <1>11, <1>13, <2>1, <2>2 DEF Tuned12a
<1> QED BY <1>14, <1>15, <1>16

LEMMA SetChan92c ==
    ASSUME NEW h, NEW c, NEW held, Base(h), KnownChip, Old92c
    PROVE  LET g == r92c_set_chan(h, c, held)
           IN  Base(g) /\ Tuned92c(g, c) /\ \A f \in Kept : g[f] = h[f]
<1> DEFINE agc == r92c_set_txpower(cfg, rt, h.agc, c, held)
           powered == [h EXCEPT !.agc = agc]
           chnl == [i \in Chains |-> IF i < cfg.nrx THEN [ieee |-> c.ieee, bw |-> "reset"] ELSE powered.chnl[i]]
           moved == [powered EXCEPT !.chnl = chnl, !.lcstart = FALSE]
           chnl0 == [ieee |-> c.ieee, bw |-> IF Ht40(c) THEN 40 ELSE 20]
           g == r92c_set_chan(h, c, held)
<1> SUFFICES Base(g) /\ Tuned92c(g, c) /\ \A f \in Kept : g[f] = h[f]
  OBVIOUS
<1>1. g = IF Ht40(c) THEN r92c_set_bw40(moved, c)
          ELSE IF cfg.family = "r88e" THEN r88e_set_bw20(moved, c) ELSE r92c_set_bw20(moved, c)
  BY DEF r92c_set_chan
<1>2. /\ DOMAIN powered = HwFields /\ powered.chnl = h.chnl
      /\ \A f \in HwFields \ {"agc"} : powered[f] = h[f]
  BY DEF Base, HwFields
<1>3. /\ DOMAIN moved = HwFields /\ moved.chnl = chnl
      /\ \A f \in HwFields \ {"agc", "chnl", "lcstart"} : moved[f] = h[f]
  BY <1>2 DEF HwFields
<1>4. /\ chnl = [i \in Chains |-> chnl[i]]
      /\ \A i \in Chains : chnl[i] = IF i < cfg.nrx THEN [ieee |-> c.ieee, bw |-> "reset"] ELSE Reset
  BY <1>2 DEF Base, Chains, KnownChip
<1> HIDE DEF g, agc, powered, chnl, moved
<1>5. /\ DOMAIN g = HwFields /\ g.bwop20 = ~Ht40(c) /\ g.rfmod40 = Ht40(c) /\ g.chnl = [chnl EXCEPT ![0] = chnl0]
      /\ Ht40(c) => g.side = IF c.upper THEN "upper" ELSE "lower"
      /\ cfg.family # "r88e" => g.cbw20 = ~Ht40(c)
      /\ \A f \in HwFields \ {"agc", "chnl", "lcstart", "bwop20", "rfmod40", "cbw20", "side"} : g[f] = h[f]
  <2>1. Ht40(c) \in BOOLEAN
    BY DEF Ht40
  <2> HIDE DEF chnl0
  <2>2. CASE Ht40(c)
    <3> DEFINE side == IF c.upper THEN "upper" ELSE "lower"
    <3>1. chnl0 = [ieee |-> c.ieee, bw |-> 40]
      BY <2>2 DEF chnl0
    <3>2. g = [moved EXCEPT !.bwop20 = FALSE, !.rfmod40 = TRUE, !.cbw20 = FALSE, !.side = side,
                            !.chnl[0] = chnl0]
      BY <1>1, <2>2, <3>1 DEF r92c_set_bw40
    <3>3. side = IF c.upper THEN "upper" ELSE "lower"
      OBVIOUS
    <3> HIDE DEF side
    <3>4. /\ DOMAIN g = HwFields /\ g.bwop20 = FALSE /\ g.rfmod40 = TRUE /\ g.cbw20 = FALSE
          /\ g.side = side /\ g.chnl = [chnl EXCEPT ![0] = chnl0]
      BY <1>3, <3>2 DEF HwFields
    <3>5. \A f \in HwFields \ {"agc", "chnl", "lcstart", "bwop20", "rfmod40", "cbw20", "side"} : g[f] = h[f]
      BY <1>3, <3>2
    <3> QED BY <2>2, <3>3, <3>4, <3>5
  <2>3. CASE ~Ht40(c)
    <3>1. chnl0 = [ieee |-> c.ieee, bw |-> 20]
      BY <2>3 DEF chnl0
    <3>2. CASE cfg.family = "r88e"
      <4>1. g = [moved EXCEPT !.bwop20 = TRUE, !.rfmod40 = FALSE, !.chnl[0] = chnl0]
        BY <1>1, <2>3, <3>1, <3>2 DEF r88e_set_bw20
      <4>2. /\ DOMAIN g = HwFields /\ g.bwop20 = TRUE /\ g.rfmod40 = FALSE
            /\ g.chnl = [chnl EXCEPT ![0] = chnl0]
        BY <1>3, <4>1 DEF HwFields
      <4>3. \A f \in HwFields \ {"agc", "chnl", "lcstart", "bwop20", "rfmod40", "cbw20", "side"} : g[f] = h[f]
        BY <1>3, <4>1
      <4> QED BY <2>1, <2>3, <3>2, <4>2, <4>3
    <3>3. CASE cfg.family # "r88e"
      <4>1. g = [moved EXCEPT !.bwop20 = TRUE, !.rfmod40 = FALSE, !.cbw20 = TRUE, !.chnl[0] = chnl0]
        BY <1>1, <2>3, <3>1, <3>3 DEF r92c_set_bw20
      <4>2. /\ DOMAIN g = HwFields /\ g.bwop20 = TRUE /\ g.rfmod40 = FALSE /\ g.cbw20 = TRUE
            /\ g.chnl = [chnl EXCEPT ![0] = chnl0]
        BY <1>3, <4>1 DEF HwFields
      <4>3. \A f \in HwFields \ {"agc", "chnl", "lcstart", "bwop20", "rfmod40", "cbw20", "side"} : g[f] = h[f]
        BY <1>3, <4>1
      <4> QED BY <2>1, <2>3, <4>2, <4>3
    <3> QED BY <3>2, <3>3
  <2> QED BY <2>2, <2>3
<1>6. /\ g.chnl = [i \in Chains |-> g.chnl[i]]
      /\ \A i \in Chains : g.chnl[i] = IF i = 0 THEN chnl0 ELSE chnl[i]
  BY <1>4, <1>5
<1>7. \A i \in Chains : i >= cfg.nrx => g.chnl[i] = Reset
  BY <1>4, <1>6 DEF Chains, KnownChip
<1>8. \A i \in Chains : g.chnl[i] = IF i >= cfg.nrx THEN Reset
                                    ELSE [ieee |-> c.ieee, bw |-> IF i # 0 THEN "reset" ELSE IF Ht40(c) THEN 40 ELSE 20]
  <2> SUFFICES ASSUME NEW i \in Chains
               PROVE  g.chnl[i] = IF i >= cfg.nrx THEN Reset
                                  ELSE [ieee |-> c.ieee, bw |-> IF i # 0 THEN "reset" ELSE IF Ht40(c) THEN 40 ELSE 20]
    OBVIOUS
  <2>1. CASE i = 0
    BY <1>6, <2>1 DEF KnownChip
  <2>2. CASE i # 0
    BY <1>4, <1>6, <2>2 DEF KnownChip, Chains
  <2> QED BY <2>1, <2>2
<1>9. \A f \in {"blocks", "fe", "spur"} \cup Kept : g[f] = h[f]
  BY <1>5 DEF HwFields, Kept
<1>10. Base(g)
  BY <1>5, <1>6, <1>7, <1>9 DEF Base
<1>11. Tuned92c(g, c)
  BY <1>5, <1>8 DEF Tuned92c
<1> QED BY <1>9, <1>10, <1>11

LEMMA Keeps12a ==
    ASSUME NEW h, NEW c, NEW initialising, DOMAIN h = HwFields
    PROVE  \A f \in Kept : r12a_set_chan(h, c, initialising)[f] = h[f]
<1> DEFINE b == r12a_set_band(h, c, initialising)
           f == [b EXCEPT !.fc = FcArea(c.ieee), !.rfband = RfBand(c.ieee)]
           s1 == r12a_fix_spur(f, c)
           s2 == SetWidth12a(s1, c)
           s3 == r12a_fix_spur(s2, c)
           chnl == [i \in Chains |-> IF i < cfg.nrx THEN [ieee |-> c.ieee, bw |-> c.width] ELSE h.chnl[i]]
           agc == r12a_set_txpower(cfg, rt, h.agc, c)
           g == [s3 EXCEPT !.chnl = chnl, !.agc = agc]
<1>0. r12a_set_chan(h, c, initialising) = g
  BY DEF r12a_set_chan
<1> DEFINE G == IF cfg.family = "r21a" THEN r21a_set_band_ghz(h, c.band) ELSE r12a_set_band_ghz(h, c.band)
<1>1. DOMAIN G = HwFields /\ \A x \in HwFields \ {"blocks", "fe", "path", "cckcheck"} : G[x] = h[x]
  <2>1. DOMAIN r21a_set_band_ghz(h, c.band) = HwFields
        /\ \A x \in HwFields \ {"blocks", "fe", "path", "cckcheck"} : r21a_set_band_ghz(h, c.band)[x] = h[x]
    BY DEF r21a_set_band_ghz
  <2>2. DOMAIN r12a_set_band_ghz(h, c.band) = HwFields
        /\ \A x \in HwFields \ {"blocks", "fe", "path", "cckcheck"} : r12a_set_band_ghz(h, c.band)[x] = h[x]
    BY DEF r12a_set_band_ghz
  <2> QED BY <2>1, <2>2
<1>2. b = h \/ b = [G EXCEPT !.swing = rt.swing[c.band]]
  BY DEF r12a_set_band
<1> HIDE DEF G, b
<1>3. DOMAIN b = HwFields /\ \A x \in HwFields \ {"blocks", "fe", "path", "cckcheck", "swing"} : b[x] = h[x]
  <2>1. DOMAIN [G EXCEPT !.swing = rt.swing[c.band]] = HwFields
        /\ \A x \in HwFields \ {"blocks", "fe", "path", "cckcheck", "swing"} :
              [G EXCEPT !.swing = rt.swing[c.band]][x] = h[x]
    BY <1>1
  <2> QED BY <1>2, <2>1
<1>4. DOMAIN f = HwFields /\ \A x \in HwFields \ {"fc", "rfband"} : f[x] = b[x]
  BY <1>3
<1> HIDE DEF f
<1>5. DOMAIN s1 = HwFields /\ \A x \in HwFields \ {"spur", "adcclk", "rfmod"} : s1[x] = f[x]
  BY <1>4, FixSpur
<1> HIDE DEF s1
<1>6. /\ DOMAIN s2 = HwFields
      /\ \A x \in HwFields \ {"rfmod", "adcclk", "peak", "dsec", "ext", "side", "rfmod40"} : s2[x] = s1[x]
  BY <1>5, SetWidth
<1> HIDE DEF s2
<1>7. DOMAIN s3 = HwFields /\ \A x \in HwFields \ {"spur", "adcclk", "rfmod"} : s3[x] = s2[x]
  BY <1>6, FixSpur
<1> HIDE DEF s3, agc, chnl
<1>8. \A x \in HwFields \ {"chnl", "agc"} : g[x] = s3[x]
  BY <1>7
<1> HIDE DEF g
<1>9. \A x \in Kept : /\ x \in HwFields
                     /\ x \notin {"blocks", "fe", "path", "cckcheck", "swing", "fc", "rfband", "spur", "adcclk",
                                  "rfmod", "peak", "dsec", "ext", "side", "rfmod40", "chnl", "agc"}
  BY DEF Kept, HwFields
<1> QED BY <1>0, <1>3, <1>4, <1>5, <1>6, <1>7, <1>8, <1>9

\* The radio is on a channel.
TunedTo(h, c) == IF Old92c THEN Tuned92c(h, c) ELSE Banded(h, c.band) /\ Tuned12a(h, c)

LEMMA SetChan ==
    ASSUME NEW h, NEW c \in Channels, NEW initialising, NEW held, Base(h), KnownChip,
           ~Old92c /\ ~initialising => Banded(h, h.cckcheck)
    PROVE  LET g == set_chan(h, c, initialising, held)
           IN  Base(g) /\ TunedTo(g, c) /\ \A f \in Kept : g[f] = h[f]
<1>1. CASE Old92c
  BY <1>1, SetChan92c DEF set_chan, TunedTo
<1>2. CASE ~Old92c
  <2>1. set_chan(h, c, initialising, held) = r12a_set_chan(h, c, initialising)
    BY <1>2 DEF set_chan
  <2>2. \A f \in Kept : r12a_set_chan(h, c, initialising)[f] = h[f]
    BY Keeps12a DEF Base
  <2>3. initialising \/ Banded(h, h.cckcheck)
    BY <1>2
  <2>4. LET g == r12a_set_chan(h, c, initialising)
        IN  Base(g) /\ Banded(g, c.band) /\ Tuned12a(g, c)
    BY <1>2, <2>3, SetChan12a
  <2> QED BY <1>2, <2>1, <2>2, <2>4 DEF TunedTo
<1> QED BY <1>1, <1>2

-----------------------------------------------------------------------------
(* What the steps of a calibration leave alone. *)

\* The fields a calibration or a scan writes, all others say how the radio
\* is tuned.
Tuned == HwFields \ (Kept \cup {"lcstart"})
SameTuning(g, h) == DOMAIN g = HwFields /\ \A f \in Tuned : g[f] = h[f]

LEMMA StaysTuned ==
    ASSUME NEW g, NEW h, NEW c, Base(h), SameTuning(g, h)
    PROVE  /\ Base(g)
           /\ TunedTo(h, c) => TunedTo(g, c)
<1>1. /\ DOMAIN g = HwFields /\ g.chnl = h.chnl /\ g.blocks = h.blocks /\ g.fe = h.fe /\ g.spur = h.spur
      /\ g.bwop20 = h.bwop20 /\ g.rfmod40 = h.rfmod40 /\ g.side = h.side /\ g.cbw20 = h.cbw20
      /\ g.cckcheck = h.cckcheck /\ g.path = h.path /\ g.swing = h.swing
      /\ g.fc = h.fc /\ g.rfband = h.rfband /\ g.dsec = h.dsec /\ g.rfmod = h.rfmod
      /\ g.adcclk = h.adcclk /\ g.peak = h.peak /\ g.ext = h.ext
  BY DEF SameTuning, Tuned, HwFields, Kept
<1>2. Base(g)
  BY <1>1 DEF Base
<1>3. ASSUME TunedTo(h, c) PROVE TunedTo(g, c)
  <2>1. CASE Old92c
    <3>1. Tuned92c(h, c)
      BY <1>3, <2>1 DEF TunedTo
    <3>2. Tuned92c(g, c)
      BY <1>1, <3>1 DEF Tuned92c
    <3> QED BY <2>1, <3>2 DEF TunedTo
  <2>2. CASE ~Old92c
    <3>1. Banded(h, c.band) /\ Tuned12a(h, c)
      BY <1>3, <2>2 DEF TunedTo
    <3>2. Banded(g, c.band)
      BY <1>1, <3>1 DEF Banded
    <3>3. Tuned12a(g, c)
      BY <1>1, <3>1 DEF Tuned12a
    <3> QED BY <2>2, <3>2, <3>3 DEF TunedTo
  <2> QED BY <2>1, <2>2
<1> QED BY <1>2, <1>3

LEMMA LcSteps ==
    ASSUME NEW h, DOMAIN h = HwFields
    PROVE  /\ DOMAIN LcStart(h) = HwFields /\ DOMAIN LcEnd(h) = HwFields
           /\ \A f \in HwFields \ {"txpause", "lcstart", "lck"} : LcStart(h)[f] = h[f] /\ LcEnd(h)[f] = h[f]
           /\ LcStart(h).txpause = ALL /\ LcEnd(h).txpause = {} /\ LcEnd(h).lck = FALSE
<1>1. /\ DOMAIN LcStart(h) = HwFields
      /\ \A f \in HwFields \ {"txpause", "lcstart", "lck"} : LcStart(h)[f] = h[f]
  BY DEF LcStart
<1>2. /\ DOMAIN LcEnd(h) = HwFields
      /\ \A f \in HwFields \ {"txpause", "lcstart", "lck"} : LcEnd(h)[f] = h[f]
  BY DEF LcEnd
<1>3. LcStart(h).txpause = ALL /\ LcEnd(h).txpause = {} /\ LcEnd(h).lck = FALSE
  BY DEF LcStart, LcEnd, HwFields
<1> QED BY <1>1, <1>2, <1>3

Borrowable == {"txpause", "bcn", "enbt", "adda", "afe", "ant", "pi", "tone", "rfmode"}

LEMMA IqStart ==
    ASSUME NEW h, DOMAIN h = HwFields
    PROVE  /\ DOMAIN IqRunStart(h) = HwFields /\ IqRunStart(h).pi = TRUE
           /\ IqRunStart(h).txpause = {"ac", "mgt", "high"}
           /\ \A f \in HwFields \ Borrowable : IqRunStart(h)[f] = h[f]
<1>1. DOMAIN IqRunStart(h) = HwFields
  BY DEF IqRunStart
<1>2. IqRunStart(h).pi = TRUE /\ IqRunStart(h).txpause = {"ac", "mgt", "high"}
  BY DEF IqRunStart, HwFields
<1>3. \A f \in HwFields \ Borrowable : IqRunStart(h)[f] = h[f]
  BY DEF IqRunStart, Borrowable
<1> QED BY <1>1, <1>2, <1>3

LEMMA AfeBack ==
    ASSUME NEW h, NEW v, DOMAIN h = HwFields
    PROVE  /\ DOMAIN AfeRestored(h, v) = HwFields
           /\ \A f \in HwFields \ {"afe", "rfmode"} : AfeRestored(h, v)[f] = h[f]
           /\ AfeRestored(h, v).afe = v.afe /\ AfeRestored(h, v).rfmode = "normal"
<1>1. /\ DOMAIN AfeRestored(h, v) = HwFields
      /\ \A f \in HwFields \ {"afe", "rfmode"} : AfeRestored(h, v)[f] = h[f]
  BY DEF AfeRestored
<1>2. AfeRestored(h, v).afe = v.afe /\ AfeRestored(h, v).rfmode = "normal"
  BY DEF AfeRestored, HwFields
<1> QED BY <1>1, <1>2

LEMMA MacBack ==
    ASSUME NEW h, NEW v, NEW p, DOMAIN h = HwFields
    PROVE  /\ DOMAIN MacRestored(h, v, p) = HwFields
           /\ \A f \in HwFields \ {"pi", "adda", "txpause", "bcn", "enbt"} : MacRestored(h, v, p)[f] = h[f]
           /\ MacRestored(h, v, p).pi = (p /\ h.pi) /\ MacRestored(h, v, p).adda = v.adda
           /\ MacRestored(h, v, p).txpause = v.txpause /\ MacRestored(h, v, p).bcn = v.bcn
           /\ MacRestored(h, v, p).enbt = v.enbt
<1>3. /\ DOMAIN MacRestored(h, v, p) = HwFields
      /\ \A f \in HwFields \ {"pi", "adda", "txpause", "bcn", "enbt"} : MacRestored(h, v, p)[f] = h[f]
  BY DEF MacRestored
<1>4. /\ MacRestored(h, v, p).adda = v.adda /\ MacRestored(h, v, p).txpause = v.txpause
      /\ MacRestored(h, v, p).bcn = v.bcn /\ MacRestored(h, v, p).enbt = v.enbt
  BY DEF MacRestored, HwFields
<1>5. MacRestored(h, v, p).pi = (p /\ h.pi)
  <2> DEFINE pi == p /\ h.pi
  <2>1. MacRestored(h, v, p) = [h EXCEPT !.pi = pi, !.adda = v.adda, !.txpause = v.txpause,
                                         !.bcn = v.bcn, !.enbt = v.enbt]
    BY DEF MacRestored
  <2>2. pi = (p /\ h.pi)
    OBVIOUS
  <2> HIDE DEF pi
  <2>3. MacRestored(h, v, p).pi = pi
    BY <2>1 DEF HwFields
  <2> QED BY <2>2, <2>3
<1> QED BY <1>3, <1>4, <1>5

\* What the end of a run restores; after the first run the registers of the
\* MAC are still borrowed.
LEMMA IqEnd ==
    ASSUME NEW h, NEW n, NEW v, NEW p, DOMAIN h = HwFields, Old92c
    PROVE  LET g == IqRunEnd(h, n, v, p)
           IN  /\ DOMAIN g = HwFields /\ \A f \in HwFields \ Borrowable : g[f] = h[f]
               /\ g.afe = v.afe /\ g.rfmode = "normal"
               /\ ~(cfg.bus = "pci" /\ cfg.family = "r92c") => g.ant = v.ant
               /\ n = 0 => g.pi = h.pi /\ g.txpause = h.txpause
               /\ n # 0 => /\ g.pi = (p /\ h.pi) /\ g.adda = v.adda /\ g.txpause = v.txpause
                          /\ g.bcn = v.bcn /\ g.enbt = v.enbt
<1> DEFINE g == IqRunEnd(h, n, v, p)
           r == AfeRestored(h, v)
           e == [r EXCEPT !.ant = v.ant]
           m == MacRestored(r, v, p)
           em == MacRestored(e, v, p)
           t == [em EXCEPT !.tone = "normal"]
<1>1. /\ DOMAIN r = HwFields /\ \A f \in HwFields \ {"afe", "rfmode"} : r[f] = h[f]
      /\ r.afe = v.afe /\ r.rfmode = "normal"
  BY AfeBack
<1>2. g = IF cfg.family = "r88e" THEN (IF n = 0 THEN e ELSE em)
          ELSE IF cfg.bus = "pci" THEN (IF n = 0 THEN r ELSE m)
          ELSE IF n = 0 THEN e ELSE t
  BY DEF IqRunEnd, r88e_iq_calib_run, r92ce_iq_calib_run, r92c_iq_calib_run
<1> HIDE DEF g, r
<1>3. /\ DOMAIN e = HwFields /\ e.ant = v.ant /\ \A f \in HwFields \ {"ant"} : e[f] = r[f]
  BY <1>1 DEF HwFields
<1> HIDE DEF e
<1>4. /\ DOMAIN m = HwFields /\ \A f \in HwFields \ {"pi", "adda", "txpause", "bcn", "enbt"} : m[f] = r[f]
      /\ m.pi = (p /\ r.pi) /\ m.adda = v.adda /\ m.txpause = v.txpause /\ m.bcn = v.bcn /\ m.enbt = v.enbt
  BY <1>1, MacBack
<1>5. /\ DOMAIN em = HwFields /\ \A f \in HwFields \ {"pi", "adda", "txpause", "bcn", "enbt"} : em[f] = e[f]
      /\ em.pi = (p /\ e.pi) /\ em.adda = v.adda /\ em.txpause = v.txpause /\ em.bcn = v.bcn /\ em.enbt = v.enbt
  BY <1>3, MacBack
<1> HIDE DEF m, em
<1>6. DOMAIN t = HwFields /\ \A f \in HwFields \ {"tone"} : t[f] = em[f]
  BY <1>5
<1> HIDE DEF t
<1> DEFINE Kind(x) == /\ DOMAIN x = HwFields /\ \A f \in HwFields \ Borrowable : x[f] = h[f]
                     /\ x.afe = v.afe /\ x.rfmode = "normal"
           First(x) == x.pi = h.pi /\ x.txpause = h.txpause
           Later(x) == /\ x.pi = (p /\ h.pi) /\ x.adda = v.adda /\ x.txpause = v.txpause
                       /\ x.bcn = v.bcn /\ x.enbt = v.enbt
<1>7. Kind(r) /\ First(r)
  BY <1>1 DEF HwFields, Borrowable
<1>8. Kind(e) /\ First(e) /\ e.ant = v.ant
  BY <1>1, <1>3 DEF HwFields, Borrowable
<1>9. Kind(m) /\ Later(m)
  BY <1>1, <1>4 DEF HwFields, Borrowable
<1>10. Kind(em) /\ Later(em) /\ em.ant = v.ant
  BY <1>1, <1>3, <1>5 DEF HwFields, Borrowable
<1>11. Kind(t) /\ Later(t) /\ t.ant = v.ant
  BY <1>6, <1>10 DEF HwFields, Borrowable
<1> HIDE DEF Kind, First, Later
<1>13. Kind(g) /\ (n = 0 => First(g)) /\ (n # 0 => Later(g))
  BY <1>2, <1>7, <1>8, <1>9, <1>10, <1>11
<1>14. ~(cfg.bus = "pci" /\ cfg.family = "r92c") => g.ant = v.ant
  BY <1>2, <1>8, <1>10, <1>11 DEF Old92c
<1> QED BY <1>13, <1>14 DEF Kind, First, Later, g

Quiet(h) == h.lck = FALSE /\ h.rfmode = "normal" /\ h.page = "C"
Measured(h) ==
    \A i \in 0..(cfg.ntx - 1) :
       /\ (h.iqres[i].tx[1] = FAILED) = (h.iqres[i].tx[2] = FAILED)
       /\ h.iqres[i].rx[1] # FAILED => h.iqres[i].tx[1] # FAILED

LEMMA WriteResults ==
    ASSUME NEW h, NEW res, DOMAIN h = HwFields, KnownChip
    PROVE  LET g == iq_calib_write_results(h, res)
           IN  /\ DOMAIN g = HwFields /\ \A f \in HwFields \ {"iqres"} : g[f] = h[f]
               /\ Measured(h) => Measured(g)
<1> DEFINE Writes(i) == i < cfg.ntx /\ FAILED \notin {res[i].tx[1], res[i].tx[2]}
           Rx(i) == IF FAILED \in {res[i].rx[1], res[i].rx[2]} THEN h.iqres[i].rx ELSE res[i].rx
           one(i) == IF ~Writes(i) THEN h.iqres[i] ELSE [tx |-> res[i].tx, rx |-> Rx(i)]
           all == [i \in Chains |-> one(i)]
           g == iq_calib_write_results(h, res)
<1>1. g = [h EXCEPT !.iqres = all]
  BY DEF iq_calib_write_results
<1>2. \A i \in Chains : all[i] = one(i)
  OBVIOUS
<1>3. ASSUME NEW i \in Chains, Writes(i)
      PROVE  one(i).tx[1] # FAILED /\ one(i).tx[2] # FAILED
  BY <1>3
<1>4. ASSUME NEW i \in Chains, ~Writes(i)
      PROVE  one(i) = h.iqres[i]
  BY <1>4
<1> HIDE DEF g, all, one, Writes
<1>5. /\ DOMAIN g = HwFields /\ g.iqres = all /\ \A f \in HwFields \ {"iqres"} : g[f] = h[f]
  BY <1>1 DEF HwFields
<1>6. ASSUME Measured(h) PROVE Measured(g)
  <2> SUFFICES ASSUME NEW i \in 0..(cfg.ntx - 1)
               PROVE  /\ (g.iqres[i].tx[1] = FAILED) = (g.iqres[i].tx[2] = FAILED)
                      /\ g.iqres[i].rx[1] # FAILED => g.iqres[i].tx[1] # FAILED
    BY DEF Measured
  <2>1. i \in Chains
    BY DEF Chains, KnownChip
  <2>2. g.iqres[i] = one(i)
    BY <1>2, <1>5, <2>1
  <2>3. CASE Writes(i)
    BY <1>3, <2>1, <2>2, <2>3
  <2>4. CASE ~Writes(i)
    <3>1. /\ (h.iqres[i].tx[1] = FAILED) = (h.iqres[i].tx[2] = FAILED)
          /\ h.iqres[i].rx[1] # FAILED => h.iqres[i].tx[1] # FAILED
      BY <1>6 DEF Measured
    <3>2. g.iqres[i] = h.iqres[i]
      BY <1>4, <2>1, <2>2, <2>4
    <3> QED BY <3>1, <3>2
  <2> QED BY <2>3, <2>4
<1> QED BY <1>5, <1>6 DEF g

LEMMA PostInitRadio ==
    ASSUME NEW h, NEW res, DOMAIN h = HwFields, KnownChip, Quiet(h), Measured(h), h.txpause = {}
    PROVE  LET g == PostInit(h, res)
           IN  SameTuning(g, h) /\ Quiet(g) /\ Measured(g) /\ g.txpause = {}
<1> DEFINE g == PostInit(h, res)
<1> SUFFICES SameTuning(g, h) /\ Quiet(g) /\ Measured(g) /\ g.txpause = {}
  OBVIOUS
<1>1. CASE ~Old92c
  BY <1>1 DEF PostInit, SameTuning
<1>2. CASE Old92c
  <2> DEFINE v == IqSaved(h)
             start0 == IqRunStart(h)
             run0 == IqRunEnd(start0, 0, v, h.pi)
             start1 == IqRunStart(run0)
             yes == TRUE
             run1 == IqRunEnd(start1, 1, v, yes)
             kept == IF iq_calib_compare_results(res, res) THEN iq_calib_write_results(run1, res) ELSE run1
  <2>1. g = LcEnd(LcStart(kept))
    BY <1>2 DEF PostInit
  <2> HIDE DEF g, v, yes
  <2>2. DOMAIN start0 = HwFields /\ \A f \in HwFields \ Borrowable : start0[f] = h[f]
    BY IqStart
  <2> HIDE DEF start0
  <2>3. DOMAIN run0 = HwFields /\ \A f \in HwFields \ Borrowable : run0[f] = start0[f]
    BY <1>2, <2>2, IqEnd
  <2> HIDE DEF run0
  <2>4. DOMAIN start1 = HwFields /\ \A f \in HwFields \ Borrowable : start1[f] = run0[f]
    BY <2>3, IqStart
  <2> HIDE DEF start1
  <2>5. /\ DOMAIN run1 = HwFields /\ run1.rfmode = "normal"
        /\ \A f \in HwFields \ Borrowable : run1[f] = start1[f]
    BY <1>2, <2>4, IqEnd
  <2> HIDE DEF run1
  <2>6. \A f \in HwFields \ Borrowable : run1[f] = h[f]
    BY <2>2, <2>3, <2>4, <2>5
  <2>7. Measured(run1)
    BY <2>6 DEF Measured, Borrowable, HwFields
  <2>8. /\ DOMAIN kept = HwFields /\ \A f \in HwFields \ {"iqres"} : kept[f] = run1[f]
        /\ Measured(kept)
    BY <2>5, <2>7, WriteResults
  <2> HIDE DEF kept
  <2> DEFINE lc == LcStart(kept)
  <2>9. DOMAIN lc = HwFields /\ \A f \in HwFields \ {"txpause", "lcstart", "lck"} : lc[f] = kept[f]
    BY <2>8, LcSteps
  <2> HIDE DEF lc
  <2>10. /\ DOMAIN g = HwFields /\ \A f \in HwFields \ {"txpause", "lcstart", "lck"} : g[f] = lc[f]
         /\ g.txpause = {} /\ g.lck = FALSE
    BY <2>1, <2>9, LcSteps DEF lc
  <2>11. \A f \in HwFields \ {"txpause", "lcstart", "lck"} : g[f] = kept[f]
    BY <2>9, <2>10
  <2>12. Measured(g)
    BY <2>8, <2>11 DEF Measured, HwFields
  <2>13. Quiet(g)
    BY <2>5, <2>6, <2>8, <2>10, <2>11 DEF Quiet, HwFields, Borrowable
  <2>14. SameTuning(g, h)
    BY <2>6, <2>8, <2>10, <2>11 DEF SameTuning, Tuned, Kept, Borrowable
  <2> QED BY <2>10, <2>12, <2>13, <2>14
<1> QED BY <1>1, <1>2

LEMMA FreshRadio ==
    ASSUME NEW band, NEW agc, NEW pi, KnownChip
    PROVE  LET h == Fresh(band, agc, pi)
           IN  Base(h) /\ h.txpause = {} /\ Quiet(h) /\ Measured(h)
<1> DEFINE h == Fresh(band, agc, pi)
           fe == [f \in {"mux", "inv", "lna", "pa", "bypass"} |-> "table"]
<1>1. DOMAIN h = HwFields
  BY DEF Fresh, HwFields
<1>2. /\ h.txpause = {} /\ h.rfmode = "normal" /\ h.lck = FALSE /\ h.page = "C"
      /\ h.iqres = [i \in Chains |-> [tx |-> <<FAILED, FAILED>>, rx |-> <<FAILED, FAILED>>]]
      /\ h.chnl = [i \in Chains |-> Reset] /\ h.blocks = {"cck", "ofdm"} /\ h.fe = fe /\ h.spur = 0
  BY DEF Fresh, Reset
<1> HIDE DEF h
<1>3. Base(h)
  <2>1. h.chnl = [i \in Chains |-> h.chnl[i]] /\ \A i \in Chains : h.chnl[i] = Reset
    BY <1>2
  <2>2. h.fe = [f \in FeNames |-> h.fe[f]] /\ \A f \in FeNames : h.fe[f] = "table"
    BY <1>2 DEF FeNames
  <2> QED BY <1>1, <1>2, <2>1, <2>2 DEF Base, FeNames
<1>4. Measured(h)
  <2> SUFFICES ASSUME NEW i \in 0..(cfg.ntx - 1)
               PROVE  /\ (h.iqres[i].tx[1] = FAILED) = (h.iqres[i].tx[2] = FAILED)
                      /\ h.iqres[i].rx[1] # FAILED => h.iqres[i].tx[1] # FAILED
    BY DEF Measured
  <2>1. i \in Chains
    BY DEF Chains, KnownChip
  <2> QED BY <1>2, <2>1
<1>5. Quiet(h)
  BY <1>2 DEF Quiet
<1> QED BY <1>2, <1>3, <1>4, <1>5 DEF h

LEMMA StartedRadio ==
    ASSUME NEW band, NEW c \in Channels, NEW held, NEW res, KnownChip
    PROVE  LET g == Started(band, c, held, res)
           IN  Base(g) /\ TunedTo(g, c) /\ Quiet(g) /\ Measured(g) /\ g.txpause = {}
<1> DEFINE fresh == Fresh(band, 0, cfg.pi)
           on == set_chan(fresh, c, TRUE, held)
           g == Started(band, c, held, res)
<1>1. Base(fresh) /\ fresh.txpause = {} /\ Quiet(fresh) /\ Measured(fresh)
  BY FreshRadio
<1> HIDE DEF fresh
<1>0. ASSUME NEW yes, yes
      PROVE  /\ Base(set_chan(fresh, c, yes, held)) /\ TunedTo(set_chan(fresh, c, yes, held), c)
             /\ \A f \in Kept : set_chan(fresh, c, yes, held)[f] = fresh[f]
  <2>1. ~Old92c /\ ~yes => Banded(fresh, fresh.cckcheck)
    BY <1>0
  <2> QED BY <1>1, <2>1, SetChan
<1>3. Base(on) /\ TunedTo(on, c) /\ \A f \in Kept : on[f] = fresh[f]
  BY <1>0
<1> HIDE DEF on
<1>4. Quiet(on) /\ on.txpause = {} /\ Measured(on) /\ DOMAIN on = HwFields
  <2>1. on.lck = fresh.lck /\ on.rfmode = fresh.rfmode /\ on.page = fresh.page /\ on.txpause = fresh.txpause
        /\ on.iqres = fresh.iqres
    BY <1>3 DEF Kept
  <2> QED BY <1>1, <1>3, <2>1 DEF Quiet, Measured, Base
<1>5. g = PostInit(on, res)
  BY DEF Started, on, fresh
<1> HIDE DEF g
<1>6. SameTuning(g, on) /\ Quiet(g) /\ Measured(g) /\ g.txpause = {}
  BY <1>4, <1>5, PostInitRadio
<1>7. Base(g) /\ TunedTo(g, c)
  BY <1>3, <1>6, StaysTuned
<1> QED BY <1>6, <1>7 DEF g

LEMMA SwCalib ==
    ASSUME NEW h, DOMAIN h = HwFields
    PROVE  /\ DOMAIN iq_calib_sw(h) = HwFields /\ iq_calib_sw(h).page = "C"
           /\ \A f \in HwFields \ {"page", "tone"} : iq_calib_sw(h)[f] = h[f]
<1>1. DOMAIN iq_calib_sw(h) = HwFields /\ \A f \in HwFields \ {"page", "tone"} : iq_calib_sw(h)[f] = h[f]
  BY DEF iq_calib_sw
<1>2. iq_calib_sw(h).page = "C"
  BY DEF iq_calib_sw, HwFields
<1> QED BY <1>1, <1>2

LEMMA CalibTuning ==
    ASSUME NEW h, DOMAIN h = HwFields
    PROVE  /\ SameTuning(LcStart(h), h) /\ SameTuning(LcEnd(h), h) /\ SameTuning(IqRunStart(h), h)
           /\ SameTuning(iq_calib_sw(h), h)
           /\ \A g : DOMAIN g = HwFields /\ (\A f \in HwFields \ Kept : g[f] = h[f]) => SameTuning(g, h)
<1>1. Tuned \subseteq HwFields \ {"txpause", "lcstart", "lck"} /\ Tuned \subseteq HwFields \ Borrowable
      /\ Tuned \subseteq HwFields \ {"page", "tone"} /\ Tuned \subseteq HwFields \ Kept
  BY DEF Tuned, Kept, Borrowable
<1>2. SameTuning(LcStart(h), h) /\ SameTuning(LcEnd(h), h)
  BY <1>1, LcSteps DEF SameTuning
<1>3. SameTuning(IqRunStart(h), h)
  BY <1>1, IqStart DEF SameTuning
<1>4. SameTuning(iq_calib_sw(h), h)
  BY <1>1, SwCalib DEF SameTuning
<1>5. ASSUME NEW g, DOMAIN g = HwFields, \A f \in HwFields \ Kept : g[f] = h[f]
      PROVE  SameTuning(g, h)
  BY <1>1, <1>5 DEF SameTuning
<1> QED BY <1>2, <1>3, <1>4, <1>5

\* What the gain of a scan and the pause of its beacons leave alone.
LEMMA ScanSteps ==
    ASSUME NEW h, NEW gain, NEW pause, DOMAIN h = HwFields
    PROVE  LET g == [(IF Old92c THEN set_gain(h, gain) ELSE h) EXCEPT !.txpause = pause]
           IN  /\ DOMAIN g = HwFields /\ g.txpause = pause
               /\ \A f \in HwFields \ {"gain", "txpause"} : g[f] = h[f]
<1> DEFINE k == IF Old92c THEN set_gain(h, gain) ELSE h
           g == [k EXCEPT !.txpause = pause]
<1>1. DOMAIN set_gain(h, gain) = HwFields /\ \A f \in HwFields \ {"gain"} : set_gain(h, gain)[f] = h[f]
  <2>1. CASE cfg.family = "r88e"
    BY <2>1 DEF set_gain
  <2>2. CASE cfg.family # "r88e"
    BY <2>2 DEF set_gain
  <2> QED BY <2>1, <2>2
<1>2. DOMAIN k = HwFields /\ \A f \in HwFields \ {"gain"} : k[f] = h[f]
  BY <1>1
<1> HIDE DEF k
<1>3. DOMAIN g = HwFields /\ g.txpause = pause
  BY <1>2 DEF HwFields
<1>4. \A f \in HwFields \ {"gain", "txpause"} : g[f] = h[f]
  BY <1>2
<1> QED BY <1>3, <1>4 DEF k

-----------------------------------------------------------------------------
(* The invariant: the radio is on the channel it was last set to, whatever  *)
(* the calibration in progress has borrowed.                                *)

OnBand(c) == c \in Channels /\ (c.band = "5G" => ~Old92c)
TunedInv ==
    /\ cfg \in Configs
    /\ OnBand(curchan) /\ OnBand(tuned) /\ (~task => tuned = curchan)
    /\ Base(hw) /\ TunedTo(hw, tuned)

Same == HwFields \ (Borrowable \cup {"lcstart", "lck"})
IqFields == {"n", "prev", "saved", "pi", "temp", "both", "before"}

\* A calibration in progress knows what the registers held before; what an
\* LC calibration changed it changes back, and the runs of an IQ calibration
\* all restore what the first one saved.
CalibInv ==
    /\ pc \in {"idle", "lc", "iq", "fwsend"} /\ DOMAIN iq = IqFields
    /\ Measured(hw)
    /\ pc \in {"idle", "fwsend"} => Quiet(hw)
    /\ pc \in {"lc", "iq"} => DOMAIN iq.before = HwFields /\ Quiet(iq.before)
    /\ pc = "lc" => hw = IF HasLc THEN LcStart(iq.before) ELSE iq.before
    /\ pc = "iq" =>
         /\ Old92c /\ iq.n \in 0..2 /\ hw.lck = FALSE
         /\ \A f \in Same : hw[f] = iq.before[f]
         /\ iq.saved.txpause = {} /\ iq.saved.bcn = iq.before.bcn /\ iq.saved.enbt = iq.before.enbt
         /\ iq.saved.adda = iq.before.adda /\ iq.saved.afe = iq.before.afe /\ iq.saved.ant = iq.before.ant
         /\ hw.pi /\ (iq.before.pi => iq.pi)

LEMMA ChipKnown == cfg \in Configs => KnownChip
BY ConfigsAssumption DEF KnownChip

LEMMA InitTuned == Init => TunedInv /\ CalibInv
<1> SUFFICES ASSUME Init PROVE TunedInv /\ CalibInv
  OBVIOUS
<1>1. cfg \in Configs /\ KnownChip /\ OnBand(curchan) /\ tuned = curchan /\ pc = "idle" /\ iq = NoIq
  BY ChipKnown DEF Init, OnBand
<1>2. PICK held \in Garbage, res \in Results : hw = Started("2G", curchan, held, res)
  BY DEF Init
<1>3. Base(hw) /\ TunedTo(hw, curchan) /\ Quiet(hw) /\ Measured(hw)
  BY <1>1, <1>2, StartedRadio DEF OnBand
<1>4. DOMAIN iq = IqFields
  BY <1>1 DEF NoIq, IqFields
<1> QED BY <1>1, <1>3, <1>4 DEF TunedInv, CalibInv

\* The four outcomes of a call of sc_iq_calib().
LEMMA IqCalibStep ==
    ASSUME NEW h, NEW temp, NEW before, IqCalib(h, temp, before), KnownChip
    PROVE  \/ /\ Old92c /\ hw' = IqRunStart(h) /\ pc' = "iq" /\ UNCHANGED <<sc, chain, chipfw>>
              /\ iq' = [n |-> 0, prev |-> <<>>, saved |-> IqSaved(h), pi |-> h.pi, temp |-> temp,
                        both |-> TRUE, before |-> before]
           \/ /\ ~Old92c /\ hw' = h /\ pc' = "fwsend" /\ iq' = [NoIq EXCEPT !.temp = temp]
              /\ chipfw = "idle" /\ ~sc.iqk /\ chipfw' = "busy" /\ UNCHANGED <<sc, chain>>
           \/ ~Old92c /\ hw' \in {h, iq_calib_sw(h)} /\ Finish(temp) /\ UNCHANGED chipfw
<1>1. CASE Old92c
  BY <1>1 DEF IqCalib
<1>2. CASE ~Old92c /\ cfg.fwiq
  <2>1. IqByFirmware(h, temp)
    BY <1>2 DEF IqCalib
  <2> QED BY <1>2, <2>1 DEF IqByFirmware
<1>3. CASE ~Old92c /\ ~cfg.fwiq
  BY <1>3 DEF IqCalib
<1> QED BY <1>1, <1>2, <1>3

LEMMA CalibStaysTuned ==
    ASSUME TunedInv, CalibInv, Calibration
    PROVE  SameTuning(hw', hw) /\ UNCHANGED <<cfg, rt, curchan, tuned, task, scanning>>
<1>1. DOMAIN hw = HwFields /\ KnownChip
  BY ChipKnown DEF TunedInv, Base
<1>2. SameTuning(hw, hw)
  BY <1>1 DEF SameTuning
<1>3. CASE rtwn_calib_cb
  <2>1. UNCHANGED <<cfg, rt, curchan, tuned, task, scanning>> /\ hw' \in {hw, LcStart(hw)}
    <3>1. CASE Measure
      BY <1>3, <3>1 DEF rtwn_calib_cb, Measure
    <3>2. CASE \E temp \in Temps : Read(temp)
      BY <1>3, <3>2 DEF rtwn_calib_cb, Read
    <3> QED BY <1>3, <3>1, <3>2 DEF rtwn_calib_cb
  <2> QED BY <1>1, <1>2, <2>1, CalibTuning
<1>4. CASE lc_done
  <2> DEFINE h == IF HasLc THEN LcEnd(hw) ELSE hw
  <2>1. SameTuning(h, hw) /\ DOMAIN h = HwFields
    BY <1>1, <1>2, CalibTuning DEF SameTuning
  <2>2. /\ UNCHANGED <<cfg, rt, curchan, tuned, task, scanning>>
        /\ IqCalib(h, iq.temp, iq.before) \/ hw' = h
    BY <1>4 DEF lc_done
  <2> HIDE DEF h
  <2>3. hw' \in {h, IqRunStart(h), iq_calib_sw(h)}
    BY <1>1, <2>2, IqCalibStep
  <2>4. SameTuning(hw', h)
    <3>1. SameTuning(h, h)
      BY <2>1 DEF SameTuning
    <3> QED BY <2>1, <2>3, <3>1, CalibTuning
  <2>5. SameTuning(hw', hw)
    BY <2>1, <2>4 DEF SameTuning
  <2> QED BY <2>2, <2>5
<1>5. CASE iq_calib_next
  <2>1. Old92c
    BY <1>5 DEF iq_calib_next, CalibInv
  <2> DEFINE ended == IqRunEnd(hw, iq.n, iq.saved, iq.pi)
  <2>2. /\ UNCHANGED <<cfg, rt, curchan, tuned, task, scanning>>
        /\ \E res : hw' \in {ended, iq_calib_write_results(ended, res), IqRunStart(ended)}
    BY <1>5 DEF iq_calib_next
  <2>3. PICK res : hw' \in {ended, iq_calib_write_results(ended, res), IqRunStart(ended)}
    BY <2>2
  <2>4. DOMAIN ended = HwFields /\ \A f \in HwFields \ Borrowable : ended[f] = hw[f]
    BY <1>1, <2>1, IqEnd
  <2> HIDE DEF ended
  <2>5. \A f \in HwFields \ Kept : f \in HwFields \ Borrowable /\ f \in HwFields \ {"iqres"}
    BY DEF Borrowable, Kept
  <2>6. CASE hw' = ended
    BY <1>1, <2>2, <2>4, <2>5, <2>6, CalibTuning
  <2>7. CASE hw' = iq_calib_write_results(ended, res)
    <3>1. DOMAIN hw' = HwFields /\ \A f \in HwFields \ {"iqres"} : hw'[f] = ended[f]
      BY <1>1, <2>4, <2>7, WriteResults
    <3> QED BY <1>1, <2>2, <2>4, <2>5, <3>1, CalibTuning
  <2>8. CASE hw' = IqRunStart(ended)
    <3>1. DOMAIN hw' = HwFields /\ \A f \in HwFields \ Borrowable : hw'[f] = ended[f]
      BY <2>4, <2>8, IqStart
    <3> QED BY <1>1, <2>2, <2>4, <2>5, <3>1, CalibTuning
  <2> QED BY <2>2, <2>3, <2>6, <2>7, <2>8
<1>6. CASE iq_calib_sent
  BY <1>2, <1>6 DEF iq_calib_sent
<1> QED BY <1>3, <1>4, <1>5, <1>6 DEF Calibration

LEMMA NextTuned == TunedInv /\ CalibInv /\ [Next]_vars => TunedInv'
<1> SUFFICES ASSUME TunedInv, CalibInv, [Next]_vars PROVE TunedInv'
  OBVIOUS
<1>1. DOMAIN hw = HwFields /\ KnownChip /\ Base(hw) /\ TunedTo(hw, tuned) /\ SameTuning(hw, hw)
  BY ChipKnown DEF TunedInv, Base, SameTuning
<1> DEFINE Chosen == OnBand(curchan') /\ OnBand(tuned') /\ (~task' => tuned' = curchan')
           Goal == cfg' = cfg /\ rt' = rt /\ Chosen /\ Base(hw') /\ TunedTo(hw', tuned')
<1> SUFFICES Goal
  <2> SUFFICES ASSUME Goal PROVE TunedInv'
    OBVIOUS
  <2>1. Base(hw)' /\ TunedTo(hw, tuned)'
    <3>1. Base(hw') = Base(hw)'
      BY DEF Base
    <3>2. TunedTo(hw', tuned') = TunedTo(hw, tuned)'
      BY DEF TunedTo, Old92c, Tuned92c, Banded, Tuned12a, Peak
    <3> QED BY <3>1, <3>2
  <2>2. OnBand(curchan)' /\ OnBand(tuned)' /\ (~task' => tuned' = curchan')
    BY DEF OnBand, Old92c
  <2>3. cfg' \in Configs
    BY DEF TunedInv
  <2> QED BY <2>1, <2>2, <2>3 DEF TunedInv
<1>2. ASSUME cfg' = cfg, rt' = rt, Chosen, tuned' = tuned, SameTuning(hw', hw)
      PROVE  Goal
  BY <1>1, <1>2, StaysTuned
<1>3. ASSUME UNCHANGED <<cfg, rt, curchan, tuned, task>>
      PROVE  Chosen
  BY <1>3 DEF TunedInv
<1>4. CASE UNCHANGED vars
  <2>1. UNCHANGED <<cfg, rt, curchan, tuned, task>> /\ hw' = hw
    BY <1>4 DEF vars
  <2> QED BY <1>1, <1>2, <1>3, <2>1
<1>5. CASE Restart
  <2>1. PICK held \in Garbage, res \in Results : hw' = Started(hw.cckcheck, curchan, held, res)
    BY <1>5 DEF Restart
  <2>2. UNCHANGED <<cfg, rt, curchan, task>> /\ tuned' = curchan
    BY <1>5 DEF Restart
  <2>3. Base(hw') /\ TunedTo(hw', curchan)
    BY <1>1, <2>1, StartedRadio DEF TunedInv, OnBand
  <2>4. Chosen
    BY <2>2 DEF TunedInv
  <2> QED BY <2>2, <2>3, <2>4
<1>6. CASE rtwn_set_channel
  <2>1. PICK held \in Garbage : hw' = set_chan(hw, curchan, FALSE, held)
    BY <1>6 DEF rtwn_set_channel
  <2>2. UNCHANGED <<cfg, rt, curchan>> /\ tuned' = curchan
    BY <1>6 DEF rtwn_set_channel
  <2>3. ASSUME ~Old92c PROVE Banded(hw, hw.cckcheck)
    <3>1. Banded(hw, tuned.band)
      BY <1>1, <2>3 DEF TunedTo
    <3>2. tuned.band = hw.cckcheck
      BY <3>1 DEF Banded
    <3> QED BY <3>1, <3>2
  <2>4. ~Old92c /\ ~FALSE => Banded(hw, hw.cckcheck)
    BY <2>3
  <2>5. Base(hw') /\ TunedTo(hw', curchan)
    <3>1. curchan \in Channels
      BY DEF TunedInv, OnBand
    <3> QED BY <1>1, <2>1, <2>4, <3>1, SetChan
  <2>6. Chosen
    BY <2>2 DEF TunedInv
  <2> QED BY <2>2, <2>5, <2>6
<1>7. CASE scan_start
  <2>1. UNCHANGED <<cfg, rt, curchan, tuned, task>>
    BY <1>7 DEF scan_start
  <2> DEFINE k == IF Old92c THEN set_gain(hw, "scan") ELSE hw
  <2>2. hw' = [k EXCEPT !.txpause = k.txpause \cup {"bcn"}]
    BY <1>7 DEF scan_start
  <2>3. DOMAIN hw' = HwFields /\ \A f \in HwFields \ {"gain", "txpause"} : hw'[f] = hw[f]
    BY <1>1, <2>2, ScanSteps
  <2>4. SameTuning(hw', hw)
    <3>1. \A f \in HwFields \ Kept : f \in HwFields \ {"gain", "txpause"}
      BY DEF Kept
    <3> QED BY <1>1, <2>3, <3>1, CalibTuning
  <2> QED BY <1>2, <1>3, <2>1, <2>4
<1>8. CASE scan_end
  <2>1. UNCHANGED <<cfg, rt, curchan, tuned, task>>
    BY <1>8 DEF scan_end
  <2> DEFINE k == IF Old92c THEN set_gain(hw, "link") ELSE hw
  <2>2. hw' = [k EXCEPT !.txpause = k.txpause \ {"bcn"}]
    BY <1>8 DEF scan_end
  <2>3. DOMAIN hw' = HwFields /\ \A f \in HwFields \ {"gain", "txpause"} : hw'[f] = hw[f]
    BY <1>1, <2>2, ScanSteps
  <2>4. SameTuning(hw', hw)
    <3>1. \A f \in HwFields \ Kept : f \in HwFields \ {"gain", "txpause"}
      BY DEF Kept
    <3> QED BY <1>1, <2>3, <3>1, CalibTuning
  <2> QED BY <1>2, <1>3, <2>1, <2>4
<1>9. CASE run_first \/ stop_last \/ rtwn_calib_to \/ IqFinished \/ handle_iqk_finished
  <2>1. UNCHANGED <<cfg, rt, curchan, tuned, task>> /\ hw' = hw
    BY <1>9 DEF run_first, stop_last, rtwn_calib_to, IqFinished, handle_iqk_finished
  <2> QED BY <1>1, <1>2, <1>3, <2>1
<1>10. CASE \E c \in Channels : ChooseChannel(c)
  <2>1. PICK c \in Channels : ChooseChannel(c)
    BY <1>10
  <2>2. UNCHANGED <<cfg, rt, tuned>> /\ hw' = hw /\ curchan' = c /\ task' = TRUE /\ (c.band = "5G" => ~Old92c)
    BY <2>1 DEF ChooseChannel
  <2>3. Chosen
    BY <2>2 DEF TunedInv, OnBand
  <2> QED BY <1>1, <1>2, <2>2, <2>3
<1>11. CASE Calibration
  BY <1>2, <1>3, <1>11, CalibStaysTuned
<1> QED BY <1>4, <1>5, <1>6, <1>7, <1>8, <1>9, <1>10, <1>11 DEF Next

LEMMA SameChannels ==
    ASSUME NEW g, NEW h, Base(g), Base(h), \A i \in Chains : g.chnl[i] = h.chnl[i]
    PROVE  g.chnl = h.chnl
BY DEF Base

LEMMA SameFrontEnd ==
    ASSUME NEW g, NEW h, NEW band \in Bands, Base(g), Base(h), Banded(g, band), Banded(h, band), KnownChip, ~Old92c
    PROVE  /\ \A f \in FeNames \ {"bypass"} : g.fe[f] = h.fe[f]
           /\ band = "2G" => g.fe = h.fe
<1>1. CASE cfg.family = "r12a"
  <2>1. \A f \in {"lna", "pa", "bypass"} : g.fe[f] = h.fe[f]
    BY <1>1 DEF Base
  <2>2. \A f \in {"mux", "inv"} : g.fe[f] = h.fe[f]
    <3>1. CASE rt.rfe \in KnownRfe
      BY <1>1, <3>1 DEF Banded
    <3>2. CASE rt.rfe \notin KnownRfe
      BY <1>1, <3>2 DEF Base
    <3> QED BY <3>1, <3>2
  <2>3. \A f \in FeNames : g.fe[f] = h.fe[f]
    BY <2>1, <2>2 DEF FeNames
  <2> QED BY <2>3 DEF Base
<1>2. CASE cfg.family = "r21a"
  <2>1. \A f \in {"mux", "inv"} : g.fe[f] = h.fe[f]
    BY <1>2 DEF Base
  <2>2. g.fe["lna"] = h.fe["lna"] /\ g.fe["pa"] = h.fe["pa"] /\ (band = "2G" => g.fe["bypass"] = h.fe["bypass"])
    BY <1>2 DEF Banded
  <2>3. \A f \in FeNames \ {"bypass"} : g.fe[f] = h.fe[f]
    BY <2>1, <2>2 DEF FeNames
  <2>4. band = "2G" => \A f \in FeNames : g.fe[f] = h.fe[f]
    BY <2>2, <2>3
  <2> QED BY <2>3, <2>4 DEF Base
<1> QED BY <1>1, <1>2 DEF KnownChip, Old92c

LEMMA SameTuned ==
    ASSUME NEW g, NEW h, NEW c \in Channels, Base(g), Base(h), TunedTo(g, c), TunedTo(h, c), KnownChip
    PROVE  Tuning(g, c) = Tuning(h, c)
<1>1. CASE Old92c
  <2>1. Tuned92c(g, c) /\ Tuned92c(h, c)
    BY <1>1 DEF TunedTo
  <2>2. g.chnl = h.chnl
    BY <2>1, SameChannels DEF Tuned92c
  <2>3. g.bwop20 = h.bwop20 /\ g.rfmod40 = h.rfmod40
    BY <2>1 DEF Tuned92c
  <2>4. (IF Ht40(c) THEN g.side ELSE "none") = (IF Ht40(c) THEN h.side ELSE "none")
    BY <2>1 DEF Tuned92c
  <2>5. (IF cfg.family = "r88e" THEN FALSE ELSE g.cbw20) = (IF cfg.family = "r88e" THEN FALSE ELSE h.cbw20)
    BY <2>1 DEF Tuned92c
  <2> QED BY <1>1, <2>2, <2>3, <2>4, <2>5, Zenon DEF Tuning
<1>2. CASE ~Old92c
  <2>1. Banded(g, c.band) /\ Banded(h, c.band) /\ Tuned12a(g, c) /\ Tuned12a(h, c) /\ c.band \in Bands
    BY <1>2, ChannelsAssumption DEF TunedTo
  <2>2. g.chnl = h.chnl
    BY <2>1, SameChannels DEF Tuned12a
  <2>3. /\ g.cckcheck = h.cckcheck /\ g.path = h.path /\ g.blocks = h.blocks /\ g.swing = h.swing
    BY <2>1 DEF Banded
  <2>4. /\ g.fc = h.fc /\ g.rfband = h.rfband /\ g.dsec = h.dsec /\ g.rfmod = h.rfmod /\ g.spur = h.spur
        /\ g.adcclk = h.adcclk /\ g.peak = h.peak /\ g.rfmod40 = h.rfmod40
    BY <2>1 DEF Tuned12a
  <2>5. (IF Ht40(c) THEN <<g.side, g.ext>> ELSE <<>>) = (IF Ht40(c) THEN <<h.side, h.ext>> ELSE <<>>)
    BY <2>1 DEF Tuned12a
  <2>6. (IF c.band = "5G" THEN [g.fe EXCEPT !.bypass = ""] ELSE g.fe)
        = (IF c.band = "5G" THEN [h.fe EXCEPT !.bypass = ""] ELSE h.fe)
    <3>1. /\ \A f \in FeNames \ {"bypass"} : g.fe[f] = h.fe[f]
          /\ c.band = "2G" => g.fe = h.fe
      BY <1>2, <2>1, SameFrontEnd
    <3>2. CASE c.band = "2G"
      BY <3>1, <3>2
    <3>3. CASE c.band # "2G"
      <4>1. c.band = "5G"
        BY <2>1, <3>3 DEF Bands
      <4>2. DOMAIN g.fe = FeNames /\ DOMAIN h.fe = FeNames
        BY DEF Base
      <4>3. [g.fe EXCEPT !.bypass = ""] = [h.fe EXCEPT !.bypass = ""]
        BY <3>1, <4>2
      <4> QED BY <4>1, <4>3
    <3> QED BY <3>2, <3>3
  <2> QED BY <1>2, <2>2, <2>3, <2>4, <2>5, <2>6, Zenon DEF Tuning
<1> QED BY <1>1, <1>2

LEMMA InvTunedAgrees == TunedInv => TunedAgrees
<1> SUFFICES ASSUME TunedInv, ~task
             PROVE  /\ tuned = curchan
                    /\ Tuning(hw, tuned) = Tuning(set_chan(Fresh("2G", 0, cfg.pi), tuned, TRUE, 0), tuned)
                    /\ \A i \in 0..(cfg.nrx - 1) : hw.chnl[i].ieee = tuned.ieee
                    /\ ~Old92c => hw.cckcheck = tuned.band /\ ("cck" \in hw.blocks <=> tuned.band = "2G")
  BY DEF TunedAgrees
<1>1. KnownChip /\ tuned \in Channels /\ Base(hw) /\ TunedTo(hw, tuned) /\ tuned = curchan
  BY ChipKnown DEF TunedInv, OnBand
<1> DEFINE fresh == Fresh("2G", 0, cfg.pi)
           on == set_chan(fresh, tuned, TRUE, 0)
<1>2. Base(fresh)
  BY <1>1, FreshRadio
<1> HIDE DEF fresh
<1>3. ~Old92c /\ ~TRUE => Banded(fresh, fresh.cckcheck)
  OBVIOUS
<1>4. Base(on) /\ TunedTo(on, tuned)
  BY <1>1, <1>2, <1>3, SetChan
<1> HIDE DEF on
<1>5. Tuning(hw, tuned) = Tuning(on, tuned)
  BY <1>1, <1>4, SameTuned
<1>6. \A i \in 0..(cfg.nrx - 1) : hw.chnl[i].ieee = tuned.ieee
  <2> SUFFICES ASSUME NEW i \in 0..(cfg.nrx - 1) PROVE hw.chnl[i].ieee = tuned.ieee
    OBVIOUS
  <2>1. i \in Chains /\ i < cfg.nrx /\ ~(i >= cfg.nrx)
    BY <1>1 DEF Chains, KnownChip
  <2>2. CASE Old92c
    <3>1. Tuned92c(hw, tuned)
      BY <1>1, <2>2 DEF TunedTo
    <3>2. hw.chnl[i] = [ieee |-> tuned.ieee, bw |-> IF i # 0 THEN "reset" ELSE IF Ht40(tuned) THEN 40 ELSE 20]
      BY <2>1, <3>1 DEF Tuned92c
    <3> QED BY <3>2
  <2>3. CASE ~Old92c
    <3>1. Tuned12a(hw, tuned)
      BY <1>1, <2>3 DEF TunedTo
    <3>2. hw.chnl[i] = [ieee |-> tuned.ieee, bw |-> tuned.width]
      BY <2>1, <3>1 DEF Tuned12a
    <3> QED BY <3>2
  <2> QED BY <2>2, <2>3
<1>7. ~Old92c => hw.cckcheck = tuned.band /\ ("cck" \in hw.blocks <=> tuned.band = "2G")
  BY <1>1 DEF TunedTo, Banded
<1> QED BY <1>1, <1>5, <1>6, <1>7 DEF on, fresh

-----------------------------------------------------------------------------
(* What a calibration borrows it gives back. *)

\* CalibInv in the state after a step, which leaves the chip what it is.
Kept_CalibInv ==
    /\ cfg' = cfg
    /\ pc' \in {"idle", "lc", "iq", "fwsend"} /\ DOMAIN iq' = IqFields
    /\ Measured(hw')
    /\ pc' \in {"idle", "fwsend"} => Quiet(hw')
    /\ pc' \in {"lc", "iq"} => DOMAIN iq'.before = HwFields /\ Quiet(iq'.before)
    /\ pc' = "lc" => hw' = IF HasLc THEN LcStart(iq'.before) ELSE iq'.before
    /\ pc' = "iq" =>
         /\ Old92c /\ iq'.n \in 0..2 /\ hw'.lck = FALSE
         /\ \A f \in Same : hw'[f] = iq'.before[f]
         /\ iq'.saved.txpause = {} /\ iq'.saved.bcn = iq'.before.bcn /\ iq'.saved.enbt = iq'.before.enbt
         /\ iq'.saved.adda = iq'.before.adda /\ iq'.saved.afe = iq'.before.afe /\ iq'.saved.ant = iq'.before.ant
         /\ hw'.pi /\ (iq'.before.pi => iq'.pi)

LEMMA CalibInvKept == Kept_CalibInv => CalibInv'
<1> SUFFICES ASSUME Kept_CalibInv PROVE CalibInv'
  OBVIOUS
<1>1. Measured(hw') = Measured(hw)'
  BY DEF Kept_CalibInv, Measured
<1>2. Quiet(hw') = Quiet(hw)' /\ Quiet(iq'.before) = Quiet(iq.before)'
  BY DEF Quiet
<1>3. HasLc' = HasLc /\ Old92c' = Old92c /\ LcStart(iq'.before) = LcStart(iq.before)'
  BY DEF Kept_CalibInv, HasLc, Old92c, LcStart
<1> QED BY <1>1, <1>2, <1>3 DEF Kept_CalibInv, CalibInv

LEMMA Idle ==
    ASSUME cfg' = cfg, pc' \in {"idle", "fwsend"}, DOMAIN iq' = IqFields, Quiet(hw'), Measured(hw')
    PROVE  Kept_CalibInv
BY DEF Kept_CalibInv

LEMMA NoIqFields ==
    /\ DOMAIN NoIq = IqFields
    /\ \A t : DOMAIN [NoIq EXCEPT !.temp = t] = IqFields
BY DEF NoIq, IqFields

LEMMA CalibCbStep ==
    ASSUME TunedInv, CalibInv, rtwn_calib_cb
    PROVE  Kept_CalibInv /\ RegistersRestored
<1>1. DOMAIN hw = HwFields /\ KnownChip /\ pc = "idle" /\ Quiet(hw) /\ Measured(hw) /\ cfg' = cfg
      /\ DOMAIN iq = IqFields
  BY ChipKnown DEF TunedInv, Base, rtwn_calib_cb, CalibInv
<1>2. RegistersRestored
  BY <1>1 DEF RegistersRestored
<1>3. CASE UNCHANGED <<hw, pc, iq>>
  <2>1. pc' \in {"idle", "fwsend"} /\ Quiet(hw') /\ Measured(hw') /\ DOMAIN iq' = IqFields
    BY <1>1, <1>3 DEF Quiet, Measured
  <2> QED BY <1>1, <1>2, <2>1, Idle
<1>4. ASSUME NEW temp, NEW both, hw' = IF HasLc THEN LcStart(hw) ELSE hw, pc' = "lc",
             iq' = [NoIq EXCEPT !.temp = temp, !.both = both, !.before = hw]
      PROVE  Kept_CalibInv
  <2>1. DOMAIN iq' = IqFields /\ iq'.before = hw
    BY <1>4 DEF NoIq, IqFields
  <2>2. hw'.iqres = hw.iqres
    <3>1. "iqres" \in HwFields \ {"txpause", "lcstart", "lck"}
      BY DEF HwFields
    <3>2. LcStart(hw).iqres = hw.iqres
      BY <1>1, <3>1, LcSteps
    <3> QED BY <1>4, <3>2
  <2>3. Measured(hw')
    BY <1>1, <2>2 DEF Measured
  <2> QED BY <1>1, <1>4, <2>1, <2>3 DEF Kept_CalibInv
<1>5. CASE Measure
  BY <1>2, <1>3, <1>5 DEF Measure
<1>6. CASE \E temp \in Temps : Read(temp)
  <2>1. PICK temp \in Temps : Read(temp)
    BY <1>6
  <2>2. CASE temp = 0 \/ (sc.thcal # 255 /\ ~Drifted(temp))
    BY <1>2, <1>3, <2>1, <2>2 DEF Read
  <2>3. CASE ~(temp = 0 \/ (sc.thcal # 255 /\ ~Drifted(temp)))
    <3> DEFINE both == sc.thcal # 255
    <3>1. /\ hw' = IF HasLc THEN LcStart(hw) ELSE hw
          /\ pc' = "lc" /\ iq' = [NoIq EXCEPT !.temp = temp, !.both = both, !.before = hw]
      BY <2>1, <2>3 DEF Read
    <3> HIDE DEF both
    <3> QED BY <1>2, <1>4, <3>1
  <2> QED BY <2>2, <2>3
<1> QED BY <1>5, <1>6 DEF rtwn_calib_cb

\* The registers when the LC calibration has given back its own.
LEMMA LcGivesBack ==
    ASSUME TunedInv, CalibInv, pc = "lc"
    PROVE  LET h == IF HasLc THEN LcEnd(hw) ELSE hw
           IN  /\ DOMAIN h = HwFields /\ Quiet(h) /\ Measured(h)
               /\ \A f \in HwFields \ {"txpause", "lcstart", "lck"} : h[f] = iq.before[f]
               /\ h.txpause = IF HasLc THEN {} ELSE iq.before.txpause
<1> DEFINE b == iq.before
           h == IF HasLc THEN LcEnd(hw) ELSE hw
<1>1. /\ DOMAIN b = HwFields /\ Quiet(b) /\ Measured(hw) /\ DOMAIN hw = HwFields
      /\ hw = IF HasLc THEN LcStart(b) ELSE b
  BY DEF CalibInv, TunedInv, Base
<1> HIDE DEF b
<1>2. CASE HasLc
  <2>1. hw = LcStart(b) /\ h = LcEnd(hw)
    BY <1>1, <1>2
  <2>2. \A f \in HwFields \ {"txpause", "lcstart", "lck"} : hw[f] = b[f]
    BY <1>1, <2>1, LcSteps
  <2>3. /\ DOMAIN h = HwFields /\ h.txpause = {} /\ h.lck = FALSE
        /\ \A f \in HwFields \ {"txpause", "lcstart", "lck"} : h[f] = hw[f]
    BY <1>1, <2>1, LcSteps
  <2> HIDE DEF h
  <2>4. h.rfmode = b.rfmode /\ h.page = b.page /\ h.iqres = hw.iqres
    BY <2>2, <2>3 DEF HwFields
  <2>5. Quiet(h) /\ Measured(h)
    BY <1>1, <2>3, <2>4 DEF Quiet, Measured
  <2> QED BY <1>2, <2>2, <2>3, <2>5 DEF h, b
<1>3. CASE ~HasLc
  BY <1>1, <1>3 DEF b
<1> QED BY <1>2, <1>3

\* Two sets of registers that agree on what a calibration does not borrow,
\* and on what it does.
LEMMA SameBorrowed ==
    ASSUME NEW g, NEW h, \A f \in Same : g[f] = h[f],
           g.bcn = h.bcn, g.enbt = h.enbt, g.adda = h.adda, g.afe = h.afe, g.lck = h.lck,
           g.rfmode = h.rfmode, ~(cfg.bus = "pci" /\ cfg.family = "r92c") => g.ant = h.ant
    PROVE  Borrowed(g) = Borrowed(h)
<1>1. /\ g.page = h.page /\ g.chnl = h.chnl /\ g.gain = h.gain /\ g.agc = h.agc /\ g.fe = h.fe
      /\ g.path = h.path /\ g.fc = h.fc /\ g.rfband = h.rfband /\ g.rfmod40 = h.rfmod40
      /\ g.bwop20 = h.bwop20 /\ g.cbw20 = h.cbw20
  BY DEF Same, HwFields, Borrowable
<1>2. (IF cfg.bus = "pci" /\ cfg.family = "r92c" THEN "" ELSE g.ant)
      = (IF cfg.bus = "pci" /\ cfg.family = "r92c" THEN "" ELSE h.ant)
  OBVIOUS
<1> QED BY <1>1, <1>2 DEF Borrowed

LEMMA LcDoneStep ==
    ASSUME TunedInv, CalibInv, lc_done
    PROVE  Kept_CalibInv /\ RegistersRestored
<1> DEFINE b == iq.before
           h == IF HasLc THEN LcEnd(hw) ELSE hw
<1>1. /\ KnownChip /\ pc = "lc" /\ cfg' = cfg /\ DOMAIN b = HwFields /\ Quiet(b)
  BY ChipKnown DEF TunedInv, CalibInv, lc_done
<1>2. /\ DOMAIN h = HwFields /\ Quiet(h) /\ Measured(h)
      /\ \A f \in HwFields \ {"txpause", "lcstart", "lck"} : h[f] = b[f]
      /\ h.txpause = IF HasLc THEN {} ELSE b.txpause
  BY <1>1, LcGivesBack
<1>3. (IqCalib(h, iq.temp, b) \/ (hw' = h /\ Finish(iq.temp)))
  BY DEF lc_done
<1> HIDE DEF h
<1>4. /\ \A f \in Same : h[f] = b[f]
      /\ h.bcn = b.bcn /\ h.enbt = b.enbt /\ h.adda = b.adda /\ h.afe = b.afe /\ h.ant = b.ant
      /\ h.pi = b.pi
  BY <1>2 DEF Same, Borrowable, HwFields
<1>5. h.lck = b.lck /\ h.rfmode = b.rfmode
  BY <1>1, <1>2 DEF Quiet
<1>6. ASSUME hw' = h, pc' = "idle", iq' = NoIq
      PROVE  Kept_CalibInv /\ RegistersRestored
  <2>1. Kept_CalibInv
    BY <1>1, <1>2, <1>6, Idle, NoIqFields
  <2>2. Borrowed(h) = Borrowed(b)
    BY <1>4, <1>5, SameBorrowed
  <2>3. Borrowed(hw') = Borrowed(iq.before) /\ hw'.txpause = (IF HasLc THEN {} ELSE iq.before.txpause)
    BY <1>2, <1>6, <2>2
  <2>4. iq.before.pi => hw'.pi
    BY <1>4, <1>6
  <2> QED BY <2>1, <2>3, <2>4 DEF RegistersRestored
<1>7. CASE hw' = h /\ Finish(iq.temp)
  BY <1>6, <1>7 DEF Finish
<1>8. CASE IqCalib(h, iq.temp, b)
  <2>1. CASE /\ Old92c /\ hw' = IqRunStart(h) /\ pc' = "iq"
             /\ iq' = [n |-> 0, prev |-> <<>>, saved |-> IqSaved(h), pi |-> h.pi, temp |-> iq.temp,
                       both |-> TRUE, before |-> b]
    <3>1. /\ DOMAIN iq' = IqFields /\ iq'.before = b /\ iq'.n = 0 /\ iq'.pi = h.pi /\ iq'.saved = IqSaved(h)
      BY <2>1 DEF IqFields
    <3>2. HasLc
      BY <2>1 DEF HasLc, Old92c
    <3>3. /\ iq'.saved.txpause = {} /\ iq'.saved.bcn = b.bcn /\ iq'.saved.enbt = b.enbt
          /\ iq'.saved.adda = b.adda /\ iq'.saved.afe = b.afe /\ iq'.saved.ant = b.ant
      BY <1>2, <1>4, <3>1, <3>2 DEF IqSaved
    <3>4. /\ DOMAIN hw' = HwFields /\ hw'.pi = TRUE /\ \A f \in HwFields \ Borrowable : hw'[f] = h[f]
      BY <1>2, <2>1, IqStart
    <3>5. /\ \A f \in Same : hw'[f] = b[f]
          /\ hw'.lck = h.lck /\ hw'.iqres = h.iqres
      BY <1>4, <3>4 DEF Same, HwFields, Borrowable
    <3>6. Measured(hw') /\ hw'.lck = FALSE
      BY <1>2, <3>5 DEF Measured, Quiet
    <3>7. hw'.pi /\ (b.pi => iq'.pi)
      BY <1>4, <3>1, <3>4
    <3>8. Kept_CalibInv
      BY <1>1, <2>1, <3>1, <3>3, <3>5, <3>6, <3>7 DEF Kept_CalibInv
    <3> QED BY <2>1, <3>8 DEF RegistersRestored
  <2>2. CASE hw' = h /\ pc' = "fwsend" /\ iq' = [NoIq EXCEPT !.temp = iq.temp]
    <3>1. Kept_CalibInv
      BY <1>1, <1>2, <2>2, Idle, NoIqFields
    <3> QED BY <2>2, <3>1 DEF RegistersRestored
  <2>3. CASE hw' = h /\ Finish(iq.temp)
    BY <1>6, <2>3 DEF Finish
  <2>4. CASE ~Old92c /\ hw' = iq_calib_sw(h) /\ Finish(iq.temp)
    <3> DEFINE s == iq_calib_sw(h)
    <3>1. DOMAIN s = HwFields /\ s.page = "C" /\ \A f \in HwFields \ {"page", "tone"} : s[f] = h[f]
      BY <1>2, SwCalib
    <3>2. pc' = "idle" /\ iq' = NoIq /\ hw' = s
      BY <2>4 DEF Finish
    <3> HIDE DEF s
    <3>3. s.iqres = h.iqres /\ s.lck = h.lck /\ s.rfmode = h.rfmode /\ s.txpause = h.txpause /\ s.pi = h.pi
          /\ s.bcn = h.bcn /\ s.enbt = h.enbt /\ s.adda = h.adda /\ s.afe = h.afe /\ s.ant = h.ant
      BY <3>1 DEF HwFields
    <3>4. s.page = h.page
      BY <1>2, <3>1 DEF Quiet
    <3>5. Quiet(s) /\ Measured(s)
      BY <1>2, <3>1, <3>3 DEF Quiet, Measured
    <3>6. Kept_CalibInv
      BY <1>1, <3>2, <3>5, Idle, NoIqFields
    <3>7. \A f \in Same : s[f] = b[f]
      BY <1>4, <3>1, <3>4 DEF Same, Borrowable
    <3>8. Borrowed(s) = Borrowed(b)
      BY <1>4, <1>5, <3>3, <3>7, SameBorrowed
    <3>9. /\ Borrowed(hw') = Borrowed(iq.before)
          /\ hw'.txpause = (IF HasLc THEN {} ELSE iq.before.txpause)
          /\ iq.before.pi => hw'.pi
      BY <1>2, <1>4, <3>2, <3>3, <3>8
    <3> QED BY <3>6, <3>9 DEF RegistersRestored
  <2> QED BY <1>1, <1>8, <2>1, <2>2, <2>3, <2>4, IqCalibStep
<1> QED BY <1>3, <1>7, <1>8

LEMMA IqNextStep ==
    ASSUME TunedInv, CalibInv, iq_calib_next
    PROVE  Kept_CalibInv /\ RegistersRestored
<1> DEFINE b == iq.before
           ended == IqRunEnd(hw, iq.n, iq.saved, iq.pi)
<1>1. /\ KnownChip /\ pc = "iq" /\ cfg' = cfg /\ DOMAIN b = HwFields /\ Quiet(b) /\ DOMAIN hw = HwFields
      /\ Measured(hw) /\ DOMAIN iq = IqFields
  BY ChipKnown DEF TunedInv, CalibInv, iq_calib_next, Base
<1>2. /\ Old92c /\ iq.n \in 0..2 /\ hw.lck = FALSE
      /\ \A f \in Same : hw[f] = b[f]
      /\ iq.saved.txpause = {} /\ iq.saved.bcn = b.bcn /\ iq.saved.enbt = b.enbt
      /\ iq.saved.adda = b.adda /\ iq.saved.afe = b.afe /\ iq.saved.ant = b.ant
      /\ hw.pi /\ (b.pi => iq.pi)
  BY <1>1 DEF CalibInv
<1>3. PICK res \in Results :
        \/ /\ iq.n # 0 /\ hw' \in {ended, iq_calib_write_results(ended, res)} /\ Finish(iq.temp)
        \/ /\ iq.n # 2 /\ hw' = IqRunStart(ended) /\ pc' = pc
           /\ iq' = [iq EXCEPT !.n = iq.n + 1, !.prev = res, !.pi = ended.pi]
  <2> DEFINE valid(x) == iq.n > 0 /\ iq_calib_compare_results(iq.prev, x)
             Last(x) == /\ hw' = IF valid(x) THEN iq_calib_write_results(ended, x) ELSE ended
                        /\ Finish(iq.temp)
             More(x) == /\ hw' = IqRunStart(ended)
                        /\ iq' = [iq EXCEPT !.n = iq.n + 1, !.prev = x, !.pi = ended.pi]
                        /\ UNCHANGED <<sc, chain, pc>>
  <2>1. PICK res \in Results : IF valid(res) \/ iq.n = 2 THEN Last(res) ELSE More(res)
    BY DEF iq_calib_next
  <2>2. valid(res) => iq.n # 0
    BY <1>2
  <2>3. CASE valid(res) \/ iq.n = 2
    <3>1. iq.n # 0
      BY <2>2, <2>3
    <3>2. Last(res)
      BY <2>1, <2>3
    <3> HIDE DEF valid, ended
    <3>3. hw' \in {ended, iq_calib_write_results(ended, res)} /\ Finish(iq.temp)
      BY <3>2
    <3> QED BY <3>1, <3>3
  <2>4. CASE ~(valid(res) \/ iq.n = 2)
    <3>1. More(res)
      BY <2>1, <2>4
    <3> HIDE DEF ended
    <3> QED BY <2>4, <3>1
  <2> QED BY <2>3, <2>4
<1>4. /\ DOMAIN ended = HwFields /\ \A f \in HwFields \ Borrowable : ended[f] = hw[f]
      /\ ended.afe = b.afe /\ ended.rfmode = "normal"
      /\ ~(cfg.bus = "pci" /\ cfg.family = "r92c") => ended.ant = b.ant
      /\ iq.n = 0 => ended.pi = hw.pi
      /\ iq.n # 0 => /\ ended.pi = (iq.pi /\ hw.pi) /\ ended.adda = b.adda /\ ended.txpause = {}
                     /\ ended.bcn = b.bcn /\ ended.enbt = b.enbt
  <2>1. /\ DOMAIN ended = HwFields /\ \A f \in HwFields \ Borrowable : ended[f] = hw[f]
        /\ ended.afe = iq.saved.afe /\ ended.rfmode = "normal"
        /\ ~(cfg.bus = "pci" /\ cfg.family = "r92c") => ended.ant = iq.saved.ant
    BY <1>1, <1>2, IqEnd
  <2>2. iq.n = 0 => ended.pi = hw.pi
    BY <1>1, <1>2, IqEnd
  <2>3. iq.n # 0 => /\ ended.pi = (iq.pi /\ hw.pi) /\ ended.adda = iq.saved.adda /\ ended.txpause = iq.saved.txpause
                    /\ ended.bcn = iq.saved.bcn /\ ended.enbt = iq.saved.enbt
    BY <1>1, <1>2, IqEnd
  <2> HIDE DEF ended
  <2> QED BY <1>2, <2>1, <2>2, <2>3
<1> HIDE DEF ended
<1>5. /\ \A f \in Same : ended[f] = b[f]
      /\ ended.lck = FALSE /\ ended.iqres = hw.iqres /\ ended.page = b.page
  BY <1>2, <1>4 DEF Same, Borrowable, HwFields
<1>6. Quiet(ended) /\ Measured(ended)
  BY <1>1, <1>4, <1>5 DEF Quiet, Measured
<1>7. ASSUME iq.n # 0, hw' \in {ended, iq_calib_write_results(ended, res)}, Finish(iq.temp)
      PROVE  Kept_CalibInv /\ RegistersRestored
  <2>1. pc' = "idle" /\ iq' = NoIq
    BY <1>7 DEF Finish
  <2>2. /\ Measured(hw') /\ \A f \in HwFields \ {"iqres"} : hw'[f] = ended[f]
    <3>1. CASE hw' = ended
      BY <1>6, <3>1
    <3>2. CASE hw' = iq_calib_write_results(ended, res)
      BY <1>1, <1>4, <1>6, <3>2, WriteResults
    <3> QED BY <1>7, <3>1, <3>2
  <2>3. /\ hw'.lck = ended.lck /\ hw'.rfmode = ended.rfmode /\ hw'.page = ended.page
        /\ hw'.bcn = ended.bcn /\ hw'.enbt = ended.enbt /\ hw'.adda = ended.adda /\ hw'.afe = ended.afe
        /\ hw'.ant = ended.ant /\ hw'.pi = ended.pi /\ hw'.txpause = ended.txpause
    BY <2>2 DEF HwFields
  <2>4. Quiet(hw')
    BY <1>6, <2>3 DEF Quiet
  <2>5. Kept_CalibInv
    BY <1>1, <2>1, <2>2, <2>4, Idle, NoIqFields
  <2>6. Borrowed(hw') = Borrowed(b)
    <3>1. /\ hw'.page = b.page /\ hw'.chnl = b.chnl /\ hw'.gain = b.gain /\ hw'.agc = b.agc /\ hw'.fe = b.fe
          /\ hw'.path = b.path /\ hw'.fc = b.fc /\ hw'.rfband = b.rfband /\ hw'.rfmod40 = b.rfmod40
          /\ hw'.bwop20 = b.bwop20 /\ hw'.cbw20 = b.cbw20
      BY <1>5, <2>2 DEF Same, HwFields, Borrowable
    <3>2. (IF cfg.bus = "pci" /\ cfg.family = "r92c" THEN "" ELSE hw'.ant)
          = (IF cfg.bus = "pci" /\ cfg.family = "r92c" THEN "" ELSE b.ant)
      BY <1>4, <2>3
    <3>3. hw'.lck = b.lck /\ hw'.rfmode = b.rfmode
      BY <1>1, <1>4, <1>5, <2>3 DEF Quiet
    <3>4. hw'.bcn = b.bcn /\ hw'.enbt = b.enbt /\ hw'.adda = b.adda /\ hw'.afe = b.afe
      BY <1>4, <1>7, <2>3
    <3> QED BY <3>1, <3>2, <3>3, <3>4 DEF Borrowed
  <2>7. HasLc /\ hw'.txpause = {}
    BY <1>2, <1>4, <1>7, <2>3 DEF HasLc, Old92c
  <2>8. b.pi => hw'.pi
    BY <1>2, <1>4, <1>7, <2>3
  <2> QED BY <2>5, <2>6, <2>7, <2>8 DEF RegistersRestored
<1>8. ASSUME iq.n # 2, hw' = IqRunStart(ended), pc' = pc,
             iq' = [iq EXCEPT !.n = iq.n + 1, !.prev = res, !.pi = ended.pi]
      PROVE  Kept_CalibInv /\ RegistersRestored
  <2>1. /\ DOMAIN iq' = IqFields /\ iq'.before = b /\ iq'.saved = iq.saved /\ iq'.n = iq.n + 1
        /\ iq'.pi = ended.pi
    BY <1>1, <1>8 DEF IqFields
  <2>2. iq'.n \in 0..2
    BY <1>2, <1>8, <2>1
  <2>3. /\ DOMAIN hw' = HwFields /\ hw'.pi = TRUE /\ \A f \in HwFields \ Borrowable : hw'[f] = ended[f]
    BY <1>4, <1>8, IqStart
  <2>4. \A f \in Same : f \in HwFields \ Borrowable
    BY DEF Same
  <2>5. \A f \in Same : hw'[f] = b[f]
    BY <1>5, <2>3, <2>4
  <2>6. hw'.lck = FALSE /\ hw'.iqres = ended.iqres
    BY <1>5, <2>3 DEF HwFields, Borrowable
  <2>7. Measured(hw')
    BY <1>6, <2>6 DEF Measured
  <2>8. b.pi => iq'.pi
    BY <1>2, <1>4, <2>1
  <2>9. hw'.pi
    BY <2>3
  <2>10. Kept_CalibInv
    BY <1>1, <1>2, <1>8, <2>1, <2>2, <2>5, <2>6, <2>7, <2>8, <2>9 DEF Kept_CalibInv
  <2> QED BY <1>1, <1>8, <2>10 DEF RegistersRestored
<1> QED BY <1>3, <1>7, <1>8

\* One case per action; both invariants and the action property at once.
LEMMA NextCalib == TunedInv /\ CalibInv /\ [Next]_vars => CalibInv' /\ (RegistersRestored \/ UNCHANGED vars)
<1> SUFFICES ASSUME TunedInv, CalibInv, [Next]_vars
             PROVE  Kept_CalibInv /\ (RegistersRestored \/ UNCHANGED vars)
  BY CalibInvKept
<1>1. DOMAIN hw = HwFields /\ KnownChip /\ Base(hw) /\ TunedTo(hw, tuned) /\ Measured(hw) /\ DOMAIN iq = IqFields
  BY ChipKnown DEF TunedInv, Base, CalibInv
<1>2. ASSUME UNCHANGED <<cfg, hw, pc, iq>>
      PROVE  Kept_CalibInv /\ RegistersRestored
  <2>1. Kept_CalibInv
    BY <1>2 DEF Kept_CalibInv, CalibInv, Measured, Quiet
  <2>2. RegistersRestored
    BY <1>2 DEF RegistersRestored
  <2> QED BY <2>1, <2>2
<1>3. ASSUME pc = "idle", pc' = "idle", cfg' = cfg, iq' = iq, Quiet(hw'), Measured(hw')
      PROVE  Kept_CalibInv /\ RegistersRestored
  <2>1. Kept_CalibInv
    BY <1>1, <1>3, Idle
  <2>2. RegistersRestored
    BY <1>3 DEF RegistersRestored
  <2> QED BY <2>1, <2>2
<1>5. ASSUME pc = "idle", pc' = "idle", cfg' = cfg, iq' = iq,
             hw'.lck = hw.lck, hw'.rfmode = hw.rfmode, hw'.page = hw.page, hw'.iqres = hw.iqres
      PROVE  Kept_CalibInv /\ RegistersRestored
  <2>1. Quiet(hw)
    BY <1>5 DEF CalibInv
  <2>2. Quiet(hw') /\ Measured(hw')
    BY <1>1, <1>5, <2>1 DEF Quiet, Measured
  <2> QED BY <1>3, <1>5, <2>2
<1>6. CASE UNCHANGED vars
  BY <1>2, <1>6 DEF vars
<1>7. CASE Restart
  <2>1. PICK held \in Garbage, res \in Results : hw' = Started(hw.cckcheck, curchan, held, res)
    BY <1>7 DEF Restart
  <2>2. pc = "idle" /\ pc' = "idle" /\ cfg' = cfg /\ iq' = iq
    BY <1>7 DEF Restart
  <2>3. Quiet(hw') /\ Measured(hw')
    BY <1>1, <2>1, StartedRadio DEF TunedInv, OnBand
  <2> QED BY <1>3, <2>2, <2>3
<1>8. CASE rtwn_set_channel
  <2>1. PICK held \in Garbage : hw' = set_chan(hw, curchan, FALSE, held)
    BY <1>8 DEF rtwn_set_channel
  <2>2. pc = "idle" /\ pc' = "idle" /\ cfg' = cfg /\ iq' = iq
    BY <1>8 DEF rtwn_set_channel
  <2>3. ASSUME ~Old92c PROVE Banded(hw, hw.cckcheck)
    <3>1. Banded(hw, tuned.band)
      BY <1>1, <2>3 DEF TunedTo
    <3>2. tuned.band = hw.cckcheck
      BY <3>1 DEF Banded
    <3> QED BY <3>1, <3>2
  <2>4. ~Old92c /\ ~FALSE => Banded(hw, hw.cckcheck)
    BY <2>3
  <2>5. \A f \in Kept : hw'[f] = hw[f]
    <3>1. curchan \in Channels
      BY DEF TunedInv, OnBand
    <3>2. ASSUME NEW first, ~Old92c /\ ~first => Banded(hw, hw.cckcheck)
          PROVE  \A f \in Kept : set_chan(hw, curchan, first, held)[f] = hw[f]
      BY <1>1, <3>1, <3>2, SetChan
    <3>3. \A f \in Kept : set_chan(hw, curchan, FALSE, held)[f] = hw[f]
      BY <2>4, <3>2
    <3> QED BY <2>1, <3>3
  <2>6. hw'.lck = hw.lck /\ hw'.rfmode = hw.rfmode /\ hw'.page = hw.page /\ hw'.iqres = hw.iqres
    BY <2>5 DEF Kept
  <2> QED BY <1>5, <2>2, <2>6
<1>9. CASE scan_start
  <2> DEFINE k == IF Old92c THEN set_gain(hw, "scan") ELSE hw
  <2>1. pc = "idle" /\ pc' = "idle" /\ cfg' = cfg /\ iq' = iq
    BY <1>9 DEF scan_start
  <2>2. hw' = [k EXCEPT !.txpause = k.txpause \cup {"bcn"}]
    BY <1>9 DEF scan_start
  <2>3. \A f \in HwFields \ {"gain", "txpause"} : hw'[f] = hw[f]
    BY <1>1, <2>2, ScanSteps
  <2>4. hw'.lck = hw.lck /\ hw'.rfmode = hw.rfmode /\ hw'.page = hw.page /\ hw'.iqres = hw.iqres
    BY <2>3 DEF HwFields
  <2> QED BY <1>5, <2>1, <2>4
<1>10. CASE scan_end
  <2> DEFINE k == IF Old92c THEN set_gain(hw, "link") ELSE hw
  <2>1. pc = "idle" /\ pc' = "idle" /\ cfg' = cfg /\ iq' = iq
    BY <1>10 DEF scan_end
  <2>2. hw' = [k EXCEPT !.txpause = k.txpause \ {"bcn"}]
    BY <1>10 DEF scan_end
  <2>3. \A f \in HwFields \ {"gain", "txpause"} : hw'[f] = hw[f]
    BY <1>1, <2>2, ScanSteps
  <2>4. hw'.lck = hw.lck /\ hw'.rfmode = hw.rfmode /\ hw'.page = hw.page /\ hw'.iqres = hw.iqres
    BY <2>3 DEF HwFields
  <2> QED BY <1>5, <2>1, <2>4
<1>11. CASE run_first \/ stop_last \/ rtwn_calib_to \/ IqFinished \/ handle_iqk_finished
  <2>1. UNCHANGED <<cfg, hw, pc, iq>>
    BY <1>11 DEF run_first, stop_last, rtwn_calib_to, IqFinished, handle_iqk_finished
  <2> QED BY <1>2, <2>1
<1>12. CASE \E c \in Channels : ChooseChannel(c)
  <2>1. UNCHANGED <<cfg, hw, pc, iq>>
    BY <1>12 DEF ChooseChannel
  <2> QED BY <1>2, <2>1
<1>13. CASE rtwn_calib_cb
  BY <1>13, CalibCbStep
<1>14. CASE lc_done
  BY <1>14, LcDoneStep
<1>15. CASE iq_calib_next
  BY <1>15, IqNextStep
<1>16. CASE iq_calib_sent
  <2>1. pc = "fwsend" /\ pc' = "idle" /\ iq' = NoIq /\ UNCHANGED <<cfg, hw>>
    BY <1>16 DEF iq_calib_sent
  <2>2. Quiet(hw') /\ Measured(hw')
    BY <1>1, <2>1 DEF CalibInv, Quiet, Measured
  <2>3. Kept_CalibInv
    BY <2>1, <2>2, Idle, NoIqFields
  <2>4. RegistersRestored
    BY <2>1 DEF RegistersRestored
  <2> QED BY <2>3, <2>4
<1> QED BY <1>6, <1>7, <1>8, <1>9, <1>10, <1>11, <1>12, <1>13, <1>14, <1>15, <1>16 DEF Next, Calibration

\* Between calibrations, once net80211's task has run, the registers tune the
\* radio as a fresh start on the channel would, whatever channels, widths and
\* bands came before (r92c_set_chan(), r12a_set_chan()).
THEOREM TunedAlways == Spec => []TunedAgrees
<1>1. Init => TunedInv /\ CalibInv
  BY InitTuned
<1>2. TunedInv /\ CalibInv /\ [Next]_vars => TunedInv' /\ CalibInv'
  BY NextTuned, NextCalib
<1>3. TunedInv => TunedAgrees
  BY InvTunedAgrees
<1> QED BY <1>1, <1>2, <1>3, PTL DEF Spec

\* Whatever the runs of a calibration measure, its last step leaves every
\* register it borrowed as its first step found it (r92c_lc_calib(),
\* r92c_iq_calib()).
THEOREM RestoresAlways == Spec => CalibRestores
<1>1. Init => TunedInv /\ CalibInv
  BY InitTuned
<1>2. TunedInv /\ CalibInv /\ [Next]_vars => TunedInv' /\ CalibInv'
  BY NextTuned, NextCalib
<1>3. TunedInv /\ CalibInv /\ [Next]_vars => [RegistersRestored]_vars
  BY NextCalib DEF vars
<1> QED BY <1>1, <1>2, <1>3, PTL DEF Spec, CalibRestores

-----------------------------------------------------------------------------
(* When calibrations are started, and what the pauses may hold. *)

SchedInv ==
    /\ sc \in [measured : BOOLEAN, thcal : Temps \cup {0, 255, rt.thermal}, iqk : BOOLEAN, running : BOOLEAN]
    /\ chain \in [callout : BOOLEAN, cmds : 0..MaxCmds, refused : BOOLEAN]
    /\ pc \in {"idle", "lc", "iq", "fwsend"} /\ chipfw \in {"idle", "busy", "done", "early", "lost"}
    /\ task \in BOOLEAN /\ scanning \in BOOLEAN
    /\ iq.n \in 0..2 /\ (pc # "idle" => iq.temp \in Temps)
    /\ sc.running /\ ~chain.refused => chain.callout \/ chain.cmds > 0 \/ pc # "idle"
    /\ chain.callout => sc.running
    /\ sc.iqk \/ pc = "fwsend" => chipfw # "idle"

\* What each step does to the fields of the driver.
LEMMA Finishes ==
    ASSUME SchedInv, NEW temp \in Temps, Finish(temp), UNCHANGED <<rt, task, scanning, chipfw>>
    PROVE  SchedInv'
<1>1. /\ sc' = [sc EXCEPT !.thcal = temp] /\ pc' = "idle" /\ iq' = NoIq
      /\ chain' = [chain EXCEPT !.callout = chain.callout \/ sc.running]
  BY DEF Finish, Rearm
<1>2. /\ sc' \in [measured : BOOLEAN, thcal : Temps \cup {0, 255, rt.thermal}, iqk : BOOLEAN, running : BOOLEAN]
      /\ sc'.running = sc.running /\ sc'.iqk = sc.iqk
  BY <1>1 DEF SchedInv
<1>3. /\ chain' \in [callout : BOOLEAN, cmds : 0..MaxCmds, refused : BOOLEAN]
      /\ chain'.callout = (chain.callout \/ sc.running) /\ chain'.refused = chain.refused
  BY <1>1 DEF SchedInv
<1>4. iq'.n \in 0..2
  BY <1>1 DEF NoIq
<1> QED BY <1>1, <1>2, <1>3, <1>4 DEF SchedInv

LEMMA SchedCalib ==
    ASSUME SchedInv, CalibInv, KnownChip, Calibration
    PROVE  SchedInv'
<1>1. UNCHANGED <<cfg, rt, task, scanning>>
  BY DEF Calibration, rtwn_calib_cb, lc_done, iq_calib_next, iq_calib_sent
<1>2. CASE rtwn_calib_cb
  <2>1. pc = "idle" /\ chain.cmds > 0 /\ chain.cmds - 1 \in 0..MaxCmds
    BY <1>2 DEF rtwn_calib_cb, SchedInv, MaxCmds
  <2>2. ASSUME sc' \in {[sc EXCEPT !.measured = TRUE], [sc EXCEPT !.measured = FALSE]},
               chain' = Rearm([chain EXCEPT !.cmds = chain.cmds - 1]), UNCHANGED <<pc, iq, chipfw>>
        PROVE  SchedInv'
    <3>1. /\ sc' \in [measured : BOOLEAN, thcal : Temps \cup {0, 255, rt.thermal}, iqk : BOOLEAN, running : BOOLEAN]
          /\ sc'.running = sc.running /\ sc'.iqk = sc.iqk
      <4>1. sc \in [measured : BOOLEAN, thcal : Temps \cup {0, 255, rt.thermal}, iqk : BOOLEAN, running : BOOLEAN]
        BY DEF SchedInv
      <4>2. sc' = [sc EXCEPT !.measured = TRUE] \/ sc' = [sc EXCEPT !.measured = FALSE]
        BY <2>2
      <4>3. CASE sc' = [sc EXCEPT !.measured = TRUE]
        BY <4>1, <4>3
      <4>4. CASE sc' = [sc EXCEPT !.measured = FALSE]
        BY <4>1, <4>4
      <4> QED BY <4>2, <4>3, <4>4
    <3>2. /\ chain' \in [callout : BOOLEAN, cmds : 0..MaxCmds, refused : BOOLEAN]
          /\ chain'.callout = (chain.callout \/ sc.running) /\ chain'.refused = chain.refused
      BY <2>1, <2>2 DEF SchedInv, Rearm
    <3> QED BY <1>1, <2>1, <2>2, <3>1, <3>2 DEF SchedInv
  <2>3. CASE Measure
    BY <2>2, <2>3 DEF Measure
  <2>4. CASE \E temp \in Temps : Read(temp)
    <3>1. PICK temp \in Temps : Read(temp)
      BY <2>4
    <3>2. CASE temp = 0 \/ (sc.thcal # 255 /\ ~Drifted(temp))
      BY <2>2, <3>1, <3>2 DEF Read
    <3>3. CASE ~(temp = 0 \/ (sc.thcal # 255 /\ ~Drifted(temp)))
      <4> DEFINE both == sc.thcal # 255
      <4>1. /\ sc' = [sc EXCEPT !.measured = FALSE] /\ chain' = [chain EXCEPT !.cmds = chain.cmds - 1]
            /\ pc' = "lc" /\ iq' = [NoIq EXCEPT !.temp = temp, !.both = both, !.before = hw]
            /\ chipfw' = chipfw
        BY <3>1, <3>3 DEF Read
      <4> HIDE DEF both
      <4>2. iq'.n = 0 /\ iq'.temp = temp
        BY <4>1 DEF NoIq
      <4>3. /\ sc' \in [measured : BOOLEAN, thcal : Temps \cup {0, 255, rt.thermal}, iqk : BOOLEAN, running : BOOLEAN]
            /\ sc'.running = sc.running /\ sc'.iqk = sc.iqk
        BY <4>1 DEF SchedInv
      <4>4. /\ chain' \in [callout : BOOLEAN, cmds : 0..MaxCmds, refused : BOOLEAN]
            /\ chain'.callout = chain.callout
        BY <2>1, <4>1 DEF SchedInv
      <4> QED BY <1>1, <4>1, <4>2, <4>3, <4>4 DEF SchedInv
    <3> QED BY <3>2, <3>3
  <2> QED BY <1>2, <2>3, <2>4 DEF rtwn_calib_cb
<1>3. CASE lc_done
  <2> DEFINE h == IF HasLc THEN LcEnd(hw) ELSE hw
  <2>1. pc = "lc" /\ iq.temp \in Temps
    BY <1>3 DEF lc_done, SchedInv
  <2>2. IqCalib(h, iq.temp, iq.before) \/ (Finish(iq.temp) /\ UNCHANGED chipfw)
    BY <1>3 DEF lc_done
  <2> HIDE DEF h
  <2>3. CASE Finish(iq.temp) /\ UNCHANGED chipfw
    BY <1>1, <2>1, <2>3, Finishes
  <2>4. CASE pc' = "iq" /\ UNCHANGED <<sc, chain, chipfw>> /\ iq'.n = 0 /\ iq'.temp = iq.temp
    BY <1>1, <2>1, <2>4 DEF SchedInv
  <2>5. CASE /\ pc' = "fwsend" /\ iq'.n = 0 /\ iq'.temp = iq.temp
             /\ chipfw' = "busy" /\ UNCHANGED <<sc, chain>>
    BY <1>1, <2>1, <2>5 DEF SchedInv
  <2>6. CASE IqCalib(h, iq.temp, iq.before)
    <3> DEFINE temp == iq.temp
               before == iq.before
               saved == IqSaved(h)
               pi == h.pi
    <3>1. \/ /\ pc' = "iq" /\ UNCHANGED <<sc, chain, chipfw>>
             /\ iq' = [n |-> 0, prev |-> <<>>, saved |-> saved, pi |-> pi, temp |-> temp,
                       both |-> TRUE, before |-> before]
          \/ /\ pc' = "fwsend" /\ iq' = [NoIq EXCEPT !.temp = temp]
             /\ chipfw' = "busy" /\ UNCHANGED <<sc, chain>>
          \/ Finish(temp) /\ UNCHANGED chipfw
      BY <2>6, IqCalibStep
    <3>2. ASSUME iq' = [NoIq EXCEPT !.temp = temp] PROVE iq'.n = 0 /\ iq'.temp = temp
      BY <3>2 DEF NoIq
    <3>3. ASSUME iq' = [n |-> 0, prev |-> <<>>, saved |-> saved, pi |-> pi, temp |-> temp,
                        both |-> TRUE, before |-> before]
          PROVE  iq'.n = 0 /\ iq'.temp = temp
      BY <3>3
    <3> HIDE DEF saved, pi, before
    <3> QED BY <2>3, <2>4, <2>5, <3>1, <3>2, <3>3
  <2> QED BY <2>2, <2>3, <2>6
<1>4. CASE iq_calib_next
  <2>1. pc = "iq" /\ iq.temp \in Temps /\ chipfw' = chipfw /\ DOMAIN iq = IqFields
    BY <1>4 DEF iq_calib_next, SchedInv, CalibInv
  <2>2. \/ Finish(iq.temp)
        \/ /\ iq.n # 2 /\ UNCHANGED <<sc, chain, pc>>
           /\ \E p, r : iq' = [iq EXCEPT !.n = iq.n + 1, !.prev = r, !.pi = p]
    BY <1>4 DEF iq_calib_next
  <2>3. CASE Finish(iq.temp)
    BY <1>1, <2>1, <2>3, Finishes
  <2>4. CASE /\ iq.n # 2 /\ UNCHANGED <<sc, chain, pc>>
             /\ \E p, r : iq' = [iq EXCEPT !.n = iq.n + 1, !.prev = r, !.pi = p]
    <3>1. PICK p, r : iq' = [iq EXCEPT !.n = iq.n + 1, !.prev = r, !.pi = p]
      BY <2>4
    <3>2. iq'.n = iq.n + 1 /\ iq'.temp = iq.temp
      BY <2>1, <3>1 DEF IqFields
    <3>3. iq'.n \in 0..2
      BY <2>4, <3>2 DEF SchedInv
    <3> QED BY <1>1, <2>1, <2>4, <3>2, <3>3 DEF SchedInv
  <2> QED BY <2>2, <2>3, <2>4
<1>5. CASE iq_calib_sent
  <2>1. /\ pc = "fwsend" /\ iq.temp \in Temps /\ pc' = "idle" /\ iq' = NoIq /\ chipfw' = chipfw
        /\ sc' = [sc EXCEPT !.iqk = TRUE, !.thcal = iq.temp]
        /\ chain' = [chain EXCEPT !.callout = chain.callout \/ sc.running]
    BY <1>5 DEF iq_calib_sent, SchedInv, Rearm
  <2>2. /\ sc' \in [measured : BOOLEAN, thcal : Temps \cup {0, 255, rt.thermal}, iqk : BOOLEAN, running : BOOLEAN]
        /\ sc'.running = sc.running
    BY <2>1 DEF SchedInv
  <2>3. /\ chain' \in [callout : BOOLEAN, cmds : 0..MaxCmds, refused : BOOLEAN]
        /\ chain'.callout = (chain.callout \/ sc.running) /\ chain'.refused = chain.refused
    BY <2>1 DEF SchedInv
  <2>4. iq'.n = 0
    BY <2>1 DEF NoIq
  <2> QED BY <1>1, <2>1, <2>2, <2>3, <2>4 DEF SchedInv
<1> QED BY <1>2, <1>3, <1>4, <1>5 DEF Calibration

LEMMA NextSched == TunedInv /\ CalibInv /\ SchedInv /\ [Next]_vars => SchedInv'
<1> SUFFICES ASSUME TunedInv, CalibInv, SchedInv, [Next]_vars PROVE SchedInv'
  OBVIOUS
<1> DEFINE Sc == [measured : BOOLEAN, thcal : Temps \cup {0, 255, rt.thermal}, iqk : BOOLEAN, running : BOOLEAN]
           Ch == [callout : BOOLEAN, cmds : 0..MaxCmds, refused : BOOLEAN]
<1>1. CASE UNCHANGED <<rt, sc, chain, pc, iq, chipfw>> /\ task' \in BOOLEAN /\ scanning' \in BOOLEAN
  BY <1>1 DEF SchedInv
<1>2. CASE UNCHANGED vars
  BY <1>1, <1>2 DEF vars, SchedInv
<1>3. CASE Restart
  <2>1. PICK flag \in {sc.iqk, FALSE} :
           /\ sc' = [measured |-> FALSE, thcal |-> 0, iqk |-> flag, running |-> FALSE]
           /\ chipfw' = IF flag THEN "lost" ELSE "idle"
    BY <1>3 DEF Restart
  <2>2. UNCHANGED <<rt, chain, pc, iq, task, scanning>> /\ pc = "idle" /\ ~sc.running
    BY <1>3 DEF Restart
  <2>3. flag \in BOOLEAN
    BY <2>1 DEF SchedInv
  <2>4. sc' \in Sc /\ sc'.running = FALSE /\ sc'.iqk = flag
    BY <2>1, <2>3
  <2>5. chipfw' \in {"idle", "busy", "done", "early", "lost"} /\ (flag => chipfw' # "idle")
    BY <2>1, <2>3
  <2> QED BY <2>2, <2>4, <2>5 DEF SchedInv
<1>4. CASE rtwn_set_channel \/ scan_start \/ scan_end
  <2>1. UNCHANGED <<rt, sc, chain, pc, iq, chipfw>> /\ task' \in BOOLEAN /\ scanning' \in BOOLEAN
    BY <1>4 DEF rtwn_set_channel, scan_start, scan_end, SchedInv
  <2> QED BY <1>1, <2>1
<1>5. CASE \E c \in Channels : ChooseChannel(c)
  <2>1. UNCHANGED <<rt, sc, chain, pc, iq, chipfw>> /\ task' \in BOOLEAN /\ scanning' \in BOOLEAN
    BY <1>5 DEF ChooseChannel, SchedInv
  <2> QED BY <1>1, <2>1
<1>6. CASE run_first
  <2>1. /\ sc' = [sc EXCEPT !.running = TRUE, !.measured = FALSE, !.thcal = rt.thermal]
        /\ chain' = [chain EXCEPT !.callout = TRUE, !.refused = FALSE]
        /\ UNCHANGED <<rt, task, scanning, pc, iq, chipfw>>
    BY <1>6 DEF run_first
  <2>2. sc' \in Sc /\ sc'.running = TRUE /\ sc'.iqk = sc.iqk
    BY <2>1 DEF SchedInv
  <2>3. chain' \in Ch /\ chain'.callout = TRUE
    BY <2>1 DEF SchedInv
  <2> QED BY <2>1, <2>2, <2>3 DEF SchedInv
<1>7. CASE stop_last
  <2>1. /\ sc' = [sc EXCEPT !.running = FALSE]
        /\ chain' = [chain EXCEPT !.callout = FALSE, !.refused = FALSE]
        /\ UNCHANGED <<rt, task, scanning, pc, iq, chipfw>>
    BY <1>7 DEF stop_last
  <2>2. sc' \in Sc /\ sc'.running = FALSE /\ sc'.iqk = sc.iqk
    BY <2>1 DEF SchedInv
  <2>3. chain' \in Ch /\ chain'.callout = FALSE
    BY <2>1 DEF SchedInv
  <2> QED BY <2>1, <2>2, <2>3 DEF SchedInv
<1>8. CASE rtwn_calib_to
  <2>1. /\ UNCHANGED <<rt, task, scanning, sc, pc, iq, chipfw>>
        /\ \/ chain.cmds < MaxCmds /\ chain' = [chain EXCEPT !.callout = FALSE, !.cmds = chain.cmds + 1]
           \/ chain' = [chain EXCEPT !.callout = FALSE, !.refused = TRUE]
    BY <1>8 DEF rtwn_calib_to
  <2>2. chain' \in Ch /\ chain'.callout = FALSE /\ (chain'.cmds > 0 \/ chain'.refused = TRUE)
    <3>1. CASE chain.cmds < MaxCmds /\ chain' = [chain EXCEPT !.callout = FALSE, !.cmds = chain.cmds + 1]
      <4> DEFINE n == chain.cmds + 1
      <4>1. n \in 0..MaxCmds /\ n > 0
        BY <3>1 DEF SchedInv, MaxCmds
      <4> HIDE DEF n
      <4>2. chain' = [chain EXCEPT !.callout = FALSE, !.cmds = n]
        BY <3>1 DEF n
      <4>3. chain' \in Ch /\ chain'.callout = FALSE /\ chain'.cmds = n
        BY <4>1, <4>2 DEF SchedInv
      <4> QED BY <4>1, <4>3
    <3>2. CASE chain' = [chain EXCEPT !.callout = FALSE, !.refused = TRUE]
      BY <3>2 DEF SchedInv
    <3> QED BY <2>1, <3>1, <3>2
  <2> QED BY <2>1, <2>2 DEF SchedInv
<1>9. CASE IqFinished
  <2>1. UNCHANGED <<rt, task, scanning, sc, chain, pc, iq>> /\ chipfw' = "done"
    BY <1>9 DEF IqFinished
  <2> QED BY <2>1 DEF SchedInv
<1>10. CASE handle_iqk_finished
  <2>1. /\ UNCHANGED <<rt, task, scanning, chain, pc, iq>> /\ sc' = [sc EXCEPT !.iqk = FALSE]
        /\ chipfw' = IF pc = "fwsend" THEN "early" ELSE "idle"
    BY <1>10 DEF handle_iqk_finished
  <2>2. sc' \in Sc /\ sc'.running = sc.running /\ sc'.iqk = FALSE
    BY <2>1 DEF SchedInv
  <2>3. chipfw' \in {"idle", "busy", "done", "early", "lost"}
    BY <2>1
  <2> QED BY <2>1, <2>2, <2>3 DEF SchedInv
<1>11. CASE Calibration
  <2>1. KnownChip
    BY ChipKnown DEF TunedInv
  <2> QED BY <1>11, <2>1, SchedCalib
<1> QED BY <1>2, <1>3, <1>4, <1>5, <1>6, <1>7, <1>8, <1>9, <1>10, <1>11 DEF Next

LEMMA InitSched == Init => SchedInv
<1> SUFFICES ASSUME Init PROVE SchedInv
  OBVIOUS
<1>1. /\ sc = [measured |-> FALSE, thcal |-> 0, iqk |-> FALSE, running |-> FALSE]
      /\ chain = [callout |-> FALSE, cmds |-> 0, refused |-> FALSE]
      /\ pc = "idle" /\ iq = NoIq /\ chipfw = "idle" /\ task = FALSE /\ scanning = FALSE
  BY DEF Init
<1>2. sc \in [measured : BOOLEAN, thcal : Temps \cup {0, 255, rt.thermal}, iqk : BOOLEAN, running : BOOLEAN]
  BY <1>1
<1>3. chain \in [callout : BOOLEAN, cmds : 0..MaxCmds, refused : BOOLEAN]
  BY <1>1 DEF MaxCmds
<1>4. iq.n \in 0..2
  BY <1>1 DEF NoIq
<1> QED BY <1>1, <1>2, <1>3, <1>4 DEF SchedInv

\* The results in the chip are measurements, the firmware's flag belongs to a
\* calibration of the firmware, and the temperature chain does not end before
\* the queue refuses it (rtwn_calib_to(), rtwn_calib_cb(), r92c_iq_calib()).
THEOREM CalibrationAlways == Spec => []CalibrationSound
<1>1. Init => TunedInv /\ CalibInv /\ SchedInv
  BY InitTuned, InitSched
<1>2. TunedInv /\ CalibInv /\ SchedInv /\ [Next]_vars => TunedInv' /\ CalibInv' /\ SchedInv'
  BY NextTuned, NextCalib, NextSched
<1>3. TunedInv /\ CalibInv /\ SchedInv => CalibrationSound
  BY DEF CalibInv, SchedInv, CalibrationSound, Measured
<1> QED BY <1>1, <1>2, <1>3, PTL DEF Spec
-----------------------------------------------------------------------------
(* Transmit power: the group of a channel, the values of the ROM, the sums  *)
(* and the registers they are written to.                                   *)

LEMMA Least ==
    ASSUME NEW S \in SUBSET (1..14), S # {}
    PROVE  \E g \in S : \A h \in S : g <= h
<1> SUFFICES ASSUME \A g \in S : \E h \in S : h < g PROVE FALSE
  OBVIOUS
<1>1. 1 \notin S
  OBVIOUS
<1>2. \A g \in S : g > 3
  BY <1>1
<1>3. \A g \in S : g > 5
  BY <1>2
<1>4. \A g \in S : g > 7
  BY <1>3
<1>5. \A g \in S : g > 9
  BY <1>4
<1>6. \A g \in S : g > 11
  BY <1>5
<1>7. \A g \in S : g > 13
  BY <1>6
<1>8. \A g \in S : FALSE
  <2> SUFFICES ASSUME NEW g \in S PROVE FALSE
    OBVIOUS
  <2>1. PICK h \in S : h < g
    OBVIOUS
  <2>2. g \in 1..14 /\ h \in 1..14 /\ h > 13
    BY <1>7
  <2> QED BY <2>1, <2>2
<1> QED BY <1>8

\* A channel that no limit is above has a group.
LEMMA GroupIn ==
    ASSUME NEW k \in 1..14, NEW limits, DOMAIN limits = 1..k, NEW ieee, ieee <= limits[k]
    PROVE  GroupOf(limits, ieee) \in 0..(k - 1)
<1> DEFINE fits == {g \in DOMAIN limits : ieee <= limits[g]}
           first == CHOOSE g \in fits : \A h \in fits : g <= h
<1>1. fits \in SUBSET (1..14) /\ k \in fits /\ fits \subseteq 1..k
  <2>1. k \in 1..k /\ 1..k \subseteq 1..14
    OBVIOUS
  <2>2. fits \subseteq 1..k
    OBVIOUS
  <2>3. k \in fits
    BY <2>1
  <2> QED BY <2>1, <2>2, <2>3
<1>2. first \in fits
  BY <1>1, Least
<1>3. first \in 1..k
  BY <1>1, <1>2
<1>4. GroupOf(limits, ieee) = first - 1
  BY <1>1 DEF GroupOf
<1> HIDE DEF first
<1> QED BY <1>3, <1>4

LEMMA GroupIsIn ==
    ASSUME NEW c \in Channels
    PROVE  /\ c.band = "2G" => /\ r92c_get_power_group(c) \in 0..2
                               /\ r88e_get_power_group(c) \in 0..5
                               /\ r12a_get_power_group(c) \in 0..4
                               /\ c.ieee # 14 => r88e_get_power_group(c) \in 0..4
           /\ c.band = "5G" => r12a_get_power_group(c) \in 0..13
<1>1. c.band \in Bands /\ c.ieee \in IF c.band = "2G" THEN 1..14 ELSE 36..177
  BY ChannelsAssumption
<1>2. CASE c.band = "2G"
  <2>1. GroupOf(<<3, 9, 14>>, c.ieee) \in 0..2
    <3> DEFINE l == <<3, 9, 14>>
    <3>1. DOMAIN l = 1..3 /\ c.ieee <= l[3] /\ 3 \in 1..14
      BY <1>1, <1>2
    <3> HIDE DEF l
    <3>2. GroupOf(l, c.ieee) \in 0..(3 - 1)
      BY <3>1, GroupIn
    <3> QED BY <3>2 DEF l
  <2>2. GroupOf(<<2, 5, 8, 11, 13, 14>>, c.ieee) \in 0..5
        /\ (c.ieee # 14 => GroupOf(<<2, 5, 8, 11, 13, 14>>, c.ieee) \in 0..4)
    <3> DEFINE l == <<2, 5, 8, 11, 13, 14>>
               fits == {g \in DOMAIN l : c.ieee <= l[g]}
               first == CHOOSE g \in fits : \A h \in fits : g <= h
    <3>1. DOMAIN l = 1..6 /\ c.ieee <= l[6] /\ 6 \in 1..14 /\ l[5] = 13
      BY <1>1, <1>2
    <3>2. ASSUME c.ieee # 14 PROVE c.ieee <= l[5] /\ 5 \in DOMAIN l
      BY <1>1, <1>2, <3>2
    <3> HIDE DEF l
    <3>3. GroupOf(l, c.ieee) \in 0..(6 - 1)
      BY <3>1, GroupIn
    <3>4. ASSUME c.ieee # 14 PROVE GroupOf(l, c.ieee) \in 0..4
      <4>1. fits \in SUBSET (1..14) /\ 5 \in fits /\ fits \subseteq 1..6
        BY <3>1, <3>2, <3>4
      <4>2. first \in fits /\ first <= 5
        BY <4>1, Least
      <4>3. GroupOf(l, c.ieee) = first - 1
        BY <4>1 DEF GroupOf
      <4> HIDE DEF first
      <4> QED BY <4>1, <4>2, <4>3
    <3> QED BY <3>3, <3>4 DEF l
  <2>3. GroupOf(<<2, 5, 8, 11, 14>>, c.ieee) \in 0..4
    <3> DEFINE l == <<2, 5, 8, 11, 14>>
    <3>1. DOMAIN l = 1..5 /\ c.ieee <= l[5] /\ 5 \in 1..14
      BY <1>1, <1>2
    <3> HIDE DEF l
    <3>2. GroupOf(l, c.ieee) \in 0..(5 - 1)
      BY <3>1, GroupIn
    <3> QED BY <3>2 DEF l
  <2> QED BY <1>2, <2>1, <2>2, <2>3 DEF r92c_get_power_group, r88e_get_power_group, r12a_get_power_group
<1>3. CASE c.band = "5G"
  <2> DEFINE l == <<42, 48, 58, 64, 106, 114, 122, 130, 138, 144, 155, 161, 171, 177>>
  <2>1. DOMAIN l = 1..14 /\ c.ieee <= l[14] /\ 14 \in 1..14 /\ ~(c.ieee < 36)
    BY <1>1, <1>3
  <2>2. r12a_get_power_group(c) = GroupOf(l, c.ieee)
    BY <1>3, <2>1 DEF r12a_get_power_group
  <2> HIDE DEF l
  <2>3. GroupOf(l, c.ieee) \in 0..(14 - 1)
    BY <2>1, GroupIn
  <2> QED BY <1>3, <2>2, <2>3
<1> QED BY <1>1, <1>2, <1>3 DEF Bands

Signed == (-8)..7
Limited == 0..R92C_MAX_TX_PWR

LEMMA AtMostIs == \A x \in Nat : AtMost(x) \in Limited /\ (x \in 0..255 => AtMost(x % 256) = AtMost(x))
BY DEF AtMost, Limited, R92C_MAX_TX_PWR

LEMMA SignedIs == \A n \in Nibble : Sign4to8(n) \in Signed
BY DEF Nibble, Sign4to8, Signed

\* What parse_rom() makes of a ROM: the bytes, and the nibbles with a sign.
Parsed92c(t) ==
    /\ t.cck \in [Chains -> [0..2 -> Byte]] /\ t.ht40 \in [Chains -> [0..2 -> Byte]]
    /\ t.diff2s \in [Chains -> [0..2 -> Nibble]] /\ t.ofdm \in [Chains -> [0..2 -> Nibble]]
    /\ t.max40 \in [Chains -> [0..2 -> Nibble]] /\ t.max20 \in [Chains -> [0..2 -> Nibble]]
    /\ t.diff20 \in [Chains -> [0..2 -> Signed]]
Parsed88e(t) ==
    /\ t.cck \in [Chains -> [0..5 -> Byte]] /\ t.ht40 \in [Chains -> [0..4 -> Byte]]
    /\ t.ofdm \in Signed /\ t.diff20 \in Signed
Parsed12a(t) ==
    /\ t.cck \in [Chains -> [0..5 -> Byte]] /\ t.ht40_2g \in [Chains -> [0..4 -> Byte]]
    /\ t.ht40_5g \in [Chains -> [0..13 -> Byte]]
    /\ t.ofdm \in [Bands -> [Chains -> Signed]]
    /\ t.bw20 \in [Bands -> [Chains -> [Chains -> Signed]]]
    /\ t.bw40 \in [Bands -> [Chains -> [Chains -> Signed]]]
RomKnown ==
    /\ cfg.family = "r92c" => Parsed92c(rt)
    /\ cfg.family = "r88e" => cfg.ntx = 1 /\ Parsed88e(rt)
    /\ ~Old92c => Parsed12a(rt)

LEMMA Parse92c ==
    ASSUME NEW rom, NEW ntx, IsRom("r92c", rom)
    PROVE  Parsed92c(r92c_parse_rom(rom, ntx))
<1> DEFINE t == r92c_parse_rom(rom, ntx)
<1>1. /\ t.cck = rom.cck /\ t.ht40 = rom.ht40 /\ t.diff2s = rom.nibble["diff2s"] /\ t.ofdm = rom.nibble["ofdm"]
      /\ t.max40 = rom.nibble["max40"] /\ t.max20 = rom.nibble["max20"]
      /\ t.diff20 = [i \in Chains |-> [g \in DOMAIN rom.nibble["diff20"][i] |->
                                                         Sign4to8(rom.nibble["diff20"][i][g])]]
  BY DEF r92c_parse_rom
<1> HIDE DEF t
<1>2. /\ rom.cck \in [Chains -> [0..2 -> Byte]] /\ rom.ht40 \in [Chains -> [0..2 -> Byte]]
      /\ \A array \in {"diff2s", "diff20", "ofdm", "max40", "max20"} :
            rom.nibble[array] \in [Chains -> [0..2 -> Nibble]]
  BY DEF IsRom
<1>3. t.diff20 \in [Chains -> [0..2 -> Signed]]
  <2>1. PICK d \in [Chains -> [0..2 -> Nibble]] : d = rom.nibble["diff20"]
    BY <1>2
  <2>2. t.diff20 = [i \in Chains |-> [g \in 0..2 |-> Sign4to8(d[i][g])]]
    BY <1>1, <2>1
  <2> QED BY <2>2, SignedIs
<1>4. Parsed92c(t)
  BY <1>1, <1>2, <1>3 DEF Parsed92c
<1> QED BY <1>4 DEF t

LEMMA Parse88e ==
    ASSUME NEW rom, IsRom("r88e", rom)
    PROVE  Parsed88e(r88e_parse_rom(rom))
<1> DEFINE t == r88e_parse_rom(rom)
<1>1. /\ t.cck = rom.cck /\ t.ht40 = rom.ht40 /\ t.diff20 = Sign4to8(rom.nibble["diff20"])
      /\ t.ofdm = Sign4to8(rom.nibble["ofdm"])
  BY DEF r88e_parse_rom
<1> HIDE DEF t
<1>2. /\ rom.cck \in [Chains -> [0..5 -> Byte]] /\ rom.ht40 \in [Chains -> [0..4 -> Byte]]
      /\ rom.nibble["diff20"] \in Nibble /\ rom.nibble["ofdm"] \in Nibble
  BY DEF IsRom
<1>3. t.diff20 \in Signed /\ t.ofdm \in Signed
  BY <1>1, <1>2, SignedIs
<1>4. Parsed88e(t)
  BY <1>1, <1>2, <1>3 DEF Parsed88e
<1> QED BY <1>4 DEF t

LEMMA ParseCommon ==
    ASSUME NEW rom, NEW family, family \notin {"r92c", "r88e"}, IsRom(family, rom)
    PROVE  Parsed12a(r12a_parse_rom_common(rom))
<1> DEFINE t == r12a_parse_rom_common(rom)
<1>1. /\ t.cck = [c \in Chains |-> [g \in DOMAIN rom.cck[c] |-> RomVar(rom.cck[c][g], R12A_DEF_TX_PWR_2G)]]
      /\ t.ht40_2g = [c \in Chains |-> [g \in DOMAIN rom.ht40[c] |-> RomVar(rom.ht40[c][g], R12A_DEF_TX_PWR_2G)]]
      /\ t.ht40_5g = [c \in Chains |-> [g \in DOMAIN rom.ht40_5g[c] |->
                                                      RomVar(rom.ht40_5g[c][g], R12A_DEF_TX_PWR_5G)]]
      /\ t.ofdm = [b \in Bands |-> [c \in Chains |-> Sign4to8(rom.diff[b][c].ofdm)]]
      /\ t.bw20 = [b \in Bands |-> [c \in Chains |-> [i \in Chains |-> Sign4to8(rom.diff[b][c].ht20[i])]]]
      /\ t.bw40 = [b \in Bands |-> [c \in Chains |-> [i \in Chains |->
                                    IF i = 0 THEN 0 ELSE Sign4to8(rom.diff[b][c].ht40)]]]
  BY DEF r12a_parse_rom_common
<1> HIDE DEF t
<1>2. /\ rom.cck \in [Chains -> [0..5 -> Byte]] /\ rom.ht40 \in [Chains -> [0..4 -> Byte]]
      /\ rom.ht40_5g \in [Chains -> [0..13 -> Byte]]
      /\ rom.diff \in [Bands -> [Chains -> [ofdm : Nibble, ht20 : [Chains -> Nibble], ht40 : Nibble]]]
  BY DEF IsRom
<1>3. \A n \in Byte : RomVar(n, R12A_DEF_TX_PWR_2G) \in Byte /\ RomVar(n, R12A_DEF_TX_PWR_5G) \in Byte
  BY DEF RomVar, Byte, R12A_DEF_TX_PWR_2G, R12A_DEF_TX_PWR_5G
<1>4. t.cck \in [Chains -> [0..5 -> Byte]]
  BY <1>1, <1>2, <1>3
<1>5. t.ht40_2g \in [Chains -> [0..4 -> Byte]]
  BY <1>1, <1>2, <1>3
<1>6. t.ht40_5g \in [Chains -> [0..13 -> Byte]]
  BY <1>1, <1>2, <1>3
<1>7. \A b \in Bands, c \in Chains :
         /\ Sign4to8(rom.diff[b][c].ofdm) \in Signed /\ Sign4to8(rom.diff[b][c].ht40) \in Signed
         /\ \A i \in Chains : Sign4to8(rom.diff[b][c].ht20[i]) \in Signed
  BY <1>2, SignedIs
<1>8. t.ofdm \in [Bands -> [Chains -> Signed]]
  BY <1>1, <1>7
<1>9. t.bw20 \in [Bands -> [Chains -> [Chains -> Signed]]]
  BY <1>1, <1>7
<1>10. t.bw40 \in [Bands -> [Chains -> [Chains -> Signed]]]
  <2>1. \A b \in Bands, c \in Chains, i \in Chains :
           (IF i = 0 THEN 0 ELSE Sign4to8(rom.diff[b][c].ht40)) \in Signed
    BY <1>7 DEF Signed
  <2> QED BY <1>1, <2>1
<1>11. Parsed12a(t)
  BY <1>4, <1>5, <1>6, <1>8, <1>9, <1>10 DEF Parsed12a
<1> QED BY <1>11 DEF t

LEMMA ParseRom ==
    ASSUME cfg \in Configs, rt = parse_rom(cfg.family, cfg.rom, cfg.ntx)
    PROVE  RomKnown
<1>1. cfg.family \in {"r92c", "r88e", "r12a", "r21a"} /\ IsRom(cfg.family, cfg.rom)
  BY ConfigsAssumption, RomsAssumption
<1>2. CASE cfg.family = "r92c"
  <2>1. rt = r92c_parse_rom(cfg.rom, cfg.ntx)
    BY <1>2 DEF parse_rom
  <2> QED BY <1>1, <1>2, <2>1, Parse92c DEF RomKnown, Old92c
<1>3. CASE cfg.family = "r88e"
  <2>1. rt = r88e_parse_rom(cfg.rom) /\ cfg.ntx = 1
    BY <1>3, ConfigsAssumption DEF parse_rom
  <2> QED BY <1>1, <1>3, <2>1, Parse88e DEF RomKnown, Old92c
<1>4. CASE cfg.family \in {"r12a", "r21a"}
  <2> DEFINE common == r12a_parse_rom_common(cfg.rom)
  <2>1. rt = IF cfg.family = "r12a" THEN r12a_parse_rom(cfg.rom) ELSE r21a_parse_rom(cfg.rom)
    BY <1>4 DEF parse_rom
  <2>2. DOMAIN common = {"cck", "ht40_2g", "ht40_5g", "ofdm", "bw20", "bw40", "regulatory", "board", "crystalcap",
                         "swing", "thermal"}
    BY DEF r12a_parse_rom_common
  <2>3. Parsed12a(common)
    BY <1>1, <1>4, ParseCommon
  <2> HIDE DEF common
  <2>4. \A n \in DOMAIN common : r12a_parse_rom(cfg.rom)[n] = common[n] /\ r21a_parse_rom(cfg.rom)[n] = common[n]
    BY <2>2 DEF r12a_parse_rom, r21a_parse_rom, common
  <2>5. \A n \in DOMAIN common : rt[n] = common[n]
    BY <2>1, <2>4
  <2>6. Parsed12a(rt)
    BY <2>2, <2>3, <2>5 DEF Parsed12a
  <2> QED BY <1>4, <2>6 DEF RomKnown, Old92c
<1> QED BY <1>1, <1>2, <1>3, <1>4

\* The tables of the driver add a few steps at most.
LEMMA TableIs ==
    ASSUME NEW i, NEW group, NEW r \in Rates
    PROVE  txagc(cfg, rt, i, group, r) \in 0..15
<1>1. rtl8192cu_txagc(i, group, r) \in 0..15
  <2> DEFINE low == [cck |-> 0, ofdm |-> 12, mcs0 |-> 14, mcs7 |-> 2, mcs8 |-> 14, mcs15 |-> 2]
  <2>1. low[r] \in 0..15
    BY DEF Rates
  <2> HIDE DEF low
  <2>2. CASE group = 0 /\ i = 0
    <3>1. rtl8192cu_txagc(i, group, r) = low[r]
      BY <2>2 DEF rtl8192cu_txagc, low
    <3> QED BY <2>1, <3>1
  <2>3. CASE ~(group = 0 /\ i = 0) /\ group = 2 /\ r = "ofdm"
    BY <2>3 DEF rtl8192cu_txagc
  <2>4. CASE ~(group = 0 /\ i = 0) /\ ~(group = 2 /\ r = "ofdm")
    BY <2>4 DEF rtl8192cu_txagc
  <2> QED BY <2>2, <2>3, <2>4
<1>2. rtl8188ru_txagc(i, group, r) \in 0..15 /\ r88e_txagc(i, group, r) \in 0..15
  BY DEF rtl8188ru_txagc, r88e_txagc
<1> QED BY <1>1, <1>2 DEF txagc

\* What the stack held is in the part of the driver's tables at most where
\* the last rate is left out.
LEMMA Regulatory ==
    ASSUME NEW i \in Chains, NEW group, cfg.family = "r92c" => group \in 0..2,
           NEW c, NEW held \in Nat, NEW r \in Rates, Old92c, RomKnown
    PROVE  /\ RegulatoryPart(cfg, rt, i, group, c, held, r) \in Nat
           /\ ~NeverSet(c, r) =>
                 /\ RegulatoryPart(cfg, rt, i, group, c, held, r) \in 0..15
                 /\ RegulatoryPart(cfg, rt, i, group, c, held, r) = RegulatoryPart(cfg, rt, i, group, c, 0, r)
<1> DEFINE Part(h) == RegulatoryPart(cfg, rt, i, group, c, h, r)
           Unassigned(h) == IF r = LastRate(cfg.ntx) THEN h ELSE 0
           base0 == txagc(cfg, rt, i, 0, r)
           base == txagc(cfg, rt, i, group, r)
           max == (IF Ht40(c) THEN rt.max40 ELSE rt.max20)[i][group]
<1>1. base0 \in 0..15 /\ base \in 0..15
  BY TableIs
<1>2. cfg.family = "r92c" => max \in 0..15
  BY DEF RomKnown, Parsed92c, Nibble
<1>3. \A h : Part(h) = IF r = "cck" THEN IF rt.regulatory = 0 THEN base0 ELSE 0
                       ELSE IF rt.regulatory = 3 /\ cfg.family = "r92c" THEN IF base0 > max THEN max ELSE base0
                       ELSE IF rt.regulatory = 1 THEN IF Ht40(c) THEN Unassigned(h) ELSE base
                       ELSE IF rt.regulatory = 2 THEN Unassigned(h)
                       ELSE base0
  BY DEF RegulatoryPart
<1> HIDE DEF Part, base0, base, max
<1>4. Part(held) \in Nat
  BY <1>1, <1>2, <1>3
<1>5. ASSUME ~NeverSet(c, r) PROVE Part(held) \in 0..15 /\ Part(held) = Part(0)
  <2>1. CASE r # LastRate(cfg.ntx)
    <3>1. Unassigned(held) = 0 /\ Unassigned(0) = 0
      BY <2>1
    <3> HIDE DEF Unassigned
    <3> QED BY <1>1, <1>2, <1>3, <3>1
  <2>2. CASE r = LastRate(cfg.ntx)
    <3>1. rt.regulatory # 2 /\ ~(rt.regulatory = 1 /\ Ht40(c))
      BY <1>5, <2>2 DEF NeverSet
    <3> HIDE DEF Unassigned
    <3> QED BY <1>1, <1>2, <1>3, <3>1
  <2> QED BY <2>1, <2>2
<1> QED BY <1>4, <1>5 DEF Part

\* The value a register is to have, if the ROM means one.
Meant(c, r) == (r = "cck" => c.band = "2G") /\ ~NeverSet(c, r) /\ ~PastTheEnd(c, r)
Right(i, c, r, x) ==
    Meant(c, r) /\ RomSum(i, c, r) \in 0..255 => x = AtMost(RomSum(i, c, r) + TableSum(i, c, r))

LEMMA RatesUsed == UsedRates(cfg.ntx) \subseteq Rates /\ (cfg.ntx = 2 => UsedRates(cfg.ntx) = Rates)
BY DEF UsedRates

LEMMA MaxOfZero == \A x \in Int : Max({0, x}) = IF x > 0 THEN x ELSE 0
<1> SUFFICES ASSUME NEW x \in Int PROVE Max({0, x}) = IF x > 0 THEN x ELSE 0
  OBVIOUS
<1>1. \E m \in {0, x} : \A n \in {0, x} : m >= n
  OBVIOUS
<1>2. Max({0, x}) \in {0, x} /\ \A n \in {0, x} : Max({0, x}) >= n
  BY <1>1 DEF Max
<1> QED BY <1>2

\* The sums of the ROM and the tables fit their variables.
LEMMA SumFits ==
    ASSUME NEW part \in 0..15, NEW rom \in 0..255
    PROVE  (part + rom) % 65536 = part + rom
OBVIOUS

LEMMA SumBounded ==
    ASSUME NEW part \in Nat, NEW x \in Int
    PROVE  AtMost((part + x) % 65536) \in Limited
<1>1. (part + x) % 65536 \in Nat
  OBVIOUS
<1> QED BY <1>1, AtMostIs

LEMMA ByteOf == \A x \in Int : x % 256 \in 0..255 /\ (x \in 0..255 => x % 256 = x)
OBVIOUS

LEMMA LessTwo ==
    ASSUME NEW x \in 0..255, NEW d \in 0..15
    PROVE  /\ (IF x > d THEN x - d ELSE 0) \in 0..255
           /\ Max({0, x - d}) = IF x > d THEN x - d ELSE 0
BY MaxOfZero

LEMMA Power92c ==
    ASSUME NEW i \in 0..(cfg.ntx - 1), NEW c \in Channels, NEW held \in Nat, cfg.family = "r92c", c.band = "2G",
           KnownChip, RomKnown
    PROVE  LET p == r92c_get_txpower(cfg, rt, i, c, held)
           IN  p \in [UsedRates(cfg.ntx) -> Limited] /\ \A r \in UsedRates(cfg.ntx) : Right(i, c, r, p[r])
<1> DEFINE group == r92c_get_power_group(c)
           ht1 == rt.ht40[i][group]
           ht == IF cfg.ntx = 1 THEN ht1 ELSE IF ht1 > rt.diff2s[i][group] THEN ht1 - rt.diff2s[i][group] ELSE 0
           ofdmpow == (ht + rt.ofdm[i][group]) % 256
           htpow == IF Ht40(c) THEN ht ELSE (ht + rt.diff20[i][group]) % 256
           Of(r) == CASE r = "cck" -> rt.cck[i][group] [] r = "ofdm" -> ofdmpow [] OTHER -> htpow
           Part(h, r) == RegulatoryPart(cfg, rt, i, group, c, h, r)
           p == r92c_get_txpower(cfg, rt, i, c, held)
<1>1. i \in Chains /\ group \in 0..2 /\ Old92c /\ Parsed92c(rt)
  BY GroupIsIn DEF Chains, KnownChip, Old92c, RomKnown
<1>2. ht1 \in 0..255 /\ rt.diff2s[i][group] \in 0..15 /\ rt.ofdm[i][group] \in 0..15 /\ rt.diff20[i][group] \in (-8)..7
      /\ rt.cck[i][group] \in 0..255
  <2> HIDE DEF group
  <2>1. /\ rt.ht40[i] \in [0..2 -> Byte] /\ rt.cck[i] \in [0..2 -> Byte]
        /\ rt.diff2s[i] \in [0..2 -> Nibble] /\ rt.ofdm[i] \in [0..2 -> Nibble]
        /\ rt.diff20[i] \in [0..2 -> Signed]
    BY <1>1 DEF Parsed92c
  <2> QED BY <1>1, <2>1 DEF Nibble, Byte, Signed
<1>3. ht \in 0..255 /\ ht = IF cfg.ntx = 1 THEN ht1 ELSE Max({0, ht1 - rt.diff2s[i][group]})
  <2> DEFINE less == IF ht1 > rt.diff2s[i][group] THEN ht1 - rt.diff2s[i][group] ELSE 0
             max == Max({0, ht1 - rt.diff2s[i][group]})
  <2>1. less \in 0..255 /\ max = less
    BY <1>2, LessTwo
  <2> HIDE DEF ht1, less, max
  <2>2. ht = IF cfg.ntx = 1 THEN ht1 ELSE less
    BY DEF less
  <2>3. ht = IF cfg.ntx = 1 THEN ht1 ELSE max
    BY <2>1, <2>2
  <2> HIDE DEF ht
  <2>4. ht \in 0..255
    BY <1>2, <2>1, <2>2
  <2> QED BY <2>3, <2>4 DEF max
<1>4. p = [r \in UsedRates(cfg.ntx) |-> AtMost((Part(held, r) + Of(r)) % 65536)]
  BY DEF r92c_get_txpower
<1>5. \A r \in UsedRates(cfg.ntx) :
         RomSum(i, c, r) = CASE r = "cck" -> rt.cck[i][group] [] r = "ofdm" -> ht + rt.ofdm[i][group]
                             [] OTHER -> ht + (IF Ht40(c) THEN 0 ELSE rt.diff20[i][group])
  <2> HIDE DEF ht, ht1, group
  <2> QED BY <1>1, <1>3 DEF RomSum, ht1, group
<1>6. \A r \in UsedRates(cfg.ntx) : TableSum(i, c, r) = Part(0, r)
  BY DEF TableSum
<1> HIDE DEF group, ht1, p
<1>7. \A r \in UsedRates(cfg.ntx) : Of(r) \in 0..255 /\ (RomSum(i, c, r) \in 0..255 => Of(r) = RomSum(i, c, r))
  <2> HIDE DEF ht
  <2>1. ht \in Int /\ ht + rt.ofdm[i][group] \in Int /\ ht + rt.diff20[i][group] \in Int /\ ht + 0 = ht
    BY <1>2, <1>3
  <2>2. ofdmpow \in 0..255 /\ (ht + rt.ofdm[i][group] \in 0..255 => ofdmpow = ht + rt.ofdm[i][group])
    BY <2>1, ByteOf
  <2>3. /\ htpow \in 0..255
        /\ ht + (IF Ht40(c) THEN 0 ELSE rt.diff20[i][group]) \in 0..255 =>
              htpow = ht + (IF Ht40(c) THEN 0 ELSE rt.diff20[i][group])
    <3>1. CASE Ht40(c)
      BY <1>3, <2>1, <3>1
    <3>2. CASE ~Ht40(c)
      <4>1. htpow = (ht + rt.diff20[i][group]) % 256 /\ (IF Ht40(c) THEN 0 ELSE rt.diff20[i][group]) = rt.diff20[i][group]
        BY <3>2
      <4> HIDE DEF htpow
      <4>2. PICK x \in Int : x = ht + rt.diff20[i][group]
        BY <2>1
      <4>3. htpow = x % 256 /\ ht + (IF Ht40(c) THEN 0 ELSE rt.diff20[i][group]) = x
        BY <4>1, <4>2
      <4> QED BY <4>3, ByteOf
    <3> QED BY <3>1, <3>2
  <2> HIDE DEF ofdmpow, htpow
  <2> QED BY <1>2, <1>5, <2>2, <2>3
<1> HIDE DEF ht, ofdmpow, htpow, Of
<1>8. \A r \in UsedRates(cfg.ntx) :
         /\ Part(held, r) \in Nat
         /\ ~NeverSet(c, r) => Part(held, r) \in 0..15 /\ Part(held, r) = Part(0, r)
  BY <1>1, Regulatory, RatesUsed
<1> HIDE DEF Part
<1>9. p \in [UsedRates(cfg.ntx) -> Limited]
  <2>1. \A r \in UsedRates(cfg.ntx) : Of(r) \in Int
    BY <1>7
  <2>2. \A r \in UsedRates(cfg.ntx) : AtMost((Part(held, r) + Of(r)) % 65536) \in Limited
    BY <1>8, <2>1, SumBounded
  <2> QED BY <1>4, <2>2
<1>10. ASSUME NEW r \in UsedRates(cfg.ntx), Meant(c, r), RomSum(i, c, r) \in 0..255
       PROVE  p[r] = AtMost(RomSum(i, c, r) + TableSum(i, c, r))
  <2>1. Part(held, r) = Part(0, r) /\ Part(held, r) \in 0..15 /\ Of(r) = RomSum(i, c, r)
    BY <1>7, <1>8, <1>10 DEF Meant
  <2>2. p[r] = AtMost((Part(0, r) + RomSum(i, c, r)) % 65536)
    BY <1>4, <2>1
  <2>3. (Part(0, r) + RomSum(i, c, r)) % 65536 = Part(0, r) + RomSum(i, c, r)
    BY <1>10, <2>1, SumFits
  <2>4. Part(0, r) + RomSum(i, c, r) = RomSum(i, c, r) + Part(0, r)
    BY <1>10, <2>1
  <2> QED BY <1>6, <2>2, <2>3, <2>4
<1> QED BY <1>9, <1>10 DEF p, Right

LEMMA Power88e ==
    ASSUME NEW c \in Channels, NEW held \in Nat, cfg.family = "r88e", c.band = "2G", KnownChip, RomKnown
    PROVE  LET p == r88e_get_txpower(cfg, rt, 0, c, held)
           IN  p \in [UsedRates(cfg.ntx) -> Limited] /\ \A r \in UsedRates(cfg.ntx) : Right(0, c, r, p[r])
<1> DEFINE group == r88e_get_power_group(c)
           ht == IF group \in DOMAIN rt.ht40[0] THEN rt.ht40[0][group] ELSE rt.ofdm % 256
           Of(r) == CASE r = "cck" -> rt.cck[0][group] [] r = "ofdm" -> ht + rt.ofdm [] OTHER -> ht + rt.diff20
           Part(h, r) == RegulatoryPart(cfg, rt, 0, group, c, h, r)
           p == r88e_get_txpower(cfg, rt, 0, c, held)
<1>1. 0 \in Chains /\ group \in 0..5 /\ (c.ieee # 14 => group \in 0..4) /\ Old92c /\ Parsed88e(rt) /\ cfg.ntx = 1
  BY GroupIsIn DEF Chains, KnownChip, Old92c, RomKnown
<1>2. DOMAIN rt.ht40[0] = 0..4 /\ rt.ofdm \in (-8)..7 /\ rt.diff20 \in (-8)..7 /\ rt.cck[0][group] \in 0..255
  BY <1>1 DEF Parsed88e, Byte, Signed
<1>3. ht \in 0..255 /\ (c.ieee # 14 => ht = rt.ht40[0][group])
  BY <1>1, <1>2 DEF Parsed88e, Byte
<1>4. p = [r \in UsedRates(cfg.ntx) |-> AtMost((Part(held, r) + Of(r)) % 65536)]
  BY DEF r88e_get_txpower
<1>5. \A r \in UsedRates(cfg.ntx) : r = "cck" \/ c.ieee # 14 => RomSum(0, c, r) = Of(r)
  <2>1. ASSUME NEW r \in UsedRates(cfg.ntx) 
        PROVE  RomSum(0, c, r) = CASE r = "cck" -> rt.cck[0][group] [] r = "ofdm" -> rt.ht40[0][group] + rt.ofdm
                                   [] OTHER -> rt.ht40[0][group] + rt.diff20
    BY <1>1 DEF RomSum
  <2> HIDE DEF ht, group
  <2> QED BY <1>3, <2>1
<1>6. \A r \in UsedRates(cfg.ntx) : TableSum(0, c, r) = Part(0, r)
  BY DEF TableSum
<1>7. \A r \in UsedRates(cfg.ntx) : Of(r) \in Int
  <2> HIDE DEF ht, group
  <2>1. rt.ofdm \in Int /\ rt.diff20 \in Int /\ rt.cck[0][group] \in Int
    BY <1>2
  <2>2. ht \in Int
    BY <1>3
  <2>3. ht + rt.ofdm \in Int /\ ht + rt.diff20 \in Int
    BY <2>1, <2>2
  <2> QED BY <2>1, <2>3
<1> HIDE DEF group, ht, p, Of
<1>8. \A r \in UsedRates(cfg.ntx) :
         /\ Part(held, r) \in Nat
         /\ ~NeverSet(c, r) => Part(held, r) \in 0..15 /\ Part(held, r) = Part(0, r)
  BY <1>1, Regulatory, RatesUsed
<1> HIDE DEF Part
<1>9. p \in [UsedRates(cfg.ntx) -> Limited]
  BY <1>4, <1>7, <1>8, SumBounded
<1>10. ASSUME NEW r \in UsedRates(cfg.ntx), Meant(c, r), RomSum(0, c, r) \in 0..255
       PROVE  p[r] = AtMost(RomSum(0, c, r) + TableSum(0, c, r))
  <2>0. r = "cck" \/ c.ieee # 14
    BY <1>10 DEF Meant, PastTheEnd
  <2>1. Part(held, r) = Part(0, r) /\ Part(held, r) \in 0..15 /\ Of(r) = RomSum(0, c, r)
    BY <1>5, <1>8, <1>10, <2>0 DEF Meant
  <2>2. p[r] = AtMost((Part(0, r) + RomSum(0, c, r)) % 65536)
    BY <1>4, <2>1
  <2>3. (Part(0, r) + RomSum(0, c, r)) % 65536 = Part(0, r) + RomSum(0, c, r)
    BY <1>10, <2>1, SumFits
  <2>4. Part(0, r) + RomSum(0, c, r) = RomSum(0, c, r) + Part(0, r)
    BY <1>10, <2>1
  <2> QED BY <1>6, <2>2, <2>3, <2>4
<1> QED BY <1>9, <1>10 DEF p, Right

LEMMA Power12a ==
    ASSUME NEW i \in 0..(cfg.ntx - 1), NEW c \in Channels, cfg.family \in {"r12a", "r21a"}, KnownChip, RomKnown
    PROVE  LET p == r12a_get_txpower(cfg, rt, i, c)
           IN  p \in [UsedRates(cfg.ntx) -> Limited] /\ \A r \in UsedRates(cfg.ntx) : Right(i, c, r, p[r])
<1> DEFINE group == r12a_get_power_group(c)
           ht == IF c.band = "2G" THEN rt.ht40_2g[i][group] ELSE rt.ht40_5g[i][group]
           diff == (IF Ht40(c) THEN rt.bw40 ELSE rt.bw20)[c.band][i]
           ofdm == rt.ofdm[c.band][i]
           Of(r) == CASE r = "cck" -> IF c.band = "2G" THEN rt.cck[i][group] ELSE 0
                      [] r = "ofdm" -> ht + ofdm
                      [] r \in SecondStream -> ht + diff[0] + diff[1]
                      [] OTHER -> ht + diff[0]
           p == r12a_get_txpower(cfg, rt, i, c)
<1>1. i \in Chains /\ c.band \in Bands /\ (c.band = "2G" => group \in 0..4) /\ (c.band = "5G" => group \in 0..13)
      /\ ~Old92c /\ Parsed12a(rt)
  BY GroupIsIn, ChannelsAssumption DEF Chains, KnownChip, Old92c, RomKnown
<1>2. group # NoGroup
  BY <1>1 DEF NoGroup, Bands
<1>3. p = [r \in UsedRates(cfg.ntx) |-> AtMost(Of(r) % 256)]
  <2>1. p = [r \in UsedRates(cfg.ntx) |-> IF group = NoGroup THEN 0 ELSE AtMost(Of(r) % 256)]
    BY DEF r12a_get_txpower
  <2> QED BY <1>2, <2>1
<1>4. ASSUME c.band = "2G" PROVE ht \in 0..255 /\ rt.cck[i][group] \in 0..255
  <2>1. ht = rt.ht40_2g[i][group] /\ group \in 0..4 /\ group \in 0..5
    BY <1>1, <1>4
  <2> HIDE DEF ht, group
  <2>2. rt.ht40_2g[i] \in [0..4 -> Byte] /\ rt.cck[i] \in [0..5 -> Byte]
    BY <1>1 DEF Parsed12a
  <2> QED BY <2>1, <2>2 DEF Byte
<1>5. ASSUME c.band = "5G" PROVE ht \in 0..255
  <2>1. ht = rt.ht40_5g[i][group] /\ group \in 0..13
    BY <1>1, <1>5
  <2> HIDE DEF ht, group
  <2>2. rt.ht40_5g[i] \in [0..13 -> Byte]
    BY <1>1 DEF Parsed12a
  <2> QED BY <2>1, <2>2 DEF Byte
<1>6. ofdm \in (-8)..7 /\ diff[0] \in (-8)..7 /\ diff[1] \in (-8)..7
  <2>1. (IF Ht40(c) THEN rt.bw40 ELSE rt.bw20) \in [Bands -> [Chains -> [Chains -> Signed]]]
    BY <1>1 DEF Parsed12a
  <2> QED BY <1>1, <2>1 DEF Parsed12a, Signed, Chains
<1>7. \A r \in UsedRates(cfg.ntx) : r = "cck" /\ c.band = "2G" => RomSum(i, c, r) = rt.cck[i][group]
  BY <1>1 DEF RomSum
<1>8. \A r \in UsedRates(cfg.ntx) :
        r # "cck" => RomSum(i, c, r) = IF r = "ofdm" THEN ht + ofdm
                                       ELSE ht + diff[0] + (IF r \in SecondStream THEN diff[1] ELSE 0)
  <2> SUFFICES ASSUME NEW r \in UsedRates(cfg.ntx), r # "cck"
               PROVE  RomSum(i, c, r) = IF r = "ofdm" THEN ht + ofdm
                                        ELSE ht + diff[0] + (IF r \in SecondStream THEN diff[1] ELSE 0)
    OBVIOUS
  <2> QED BY <1>1 DEF RomSum
<1>9. \A r \in UsedRates(cfg.ntx) : TableSum(i, c, r) = 0
  BY DEF TableSum
<1> HIDE DEF group, ht, diff, ofdm, p
<1>10. ht \in 0..255
  BY <1>1, <1>4, <1>5 DEF Bands
<1>11. \A r \in UsedRates(cfg.ntx) : Of(r) \in Int /\ (Meant(c, r) => Of(r) = RomSum(i, c, r))
  <2> SUFFICES ASSUME NEW r \in UsedRates(cfg.ntx)
               PROVE  Of(r) \in Int /\ (Meant(c, r) => Of(r) = RomSum(i, c, r))
    OBVIOUS
  <2> DEFINE one == ht + diff[0]
             two == ht + diff[0] + diff[1]
             cck == IF c.band = "2G" THEN rt.cck[i][group] ELSE 0
  <2>0. one \in Int /\ two \in Int /\ one + 0 = one /\ two = one + diff[1] /\ ht + ofdm \in Int
    BY <1>6, <1>10
  <2>1. CASE r = "cck"
    <3>1. Of(r) = cck
      BY <2>1 DEF SecondStream
    <3>2. cck \in Int
      BY <1>4
    <3> QED BY <1>7, <2>1, <3>1, <3>2 DEF Meant
  <2>2. CASE r = "ofdm"
    <3>1. Of(r) = ht + ofdm
      BY <2>2 DEF SecondStream
    <3>2. RomSum(i, c, r) = ht + ofdm
      BY <1>8, <2>2
    <3> QED BY <2>0, <3>1, <3>2
  <2>3. CASE r # "cck" /\ r # "ofdm" /\ r \in SecondStream
    <3>1. Of(r) = two
      BY <2>3
    <3>2. RomSum(i, c, r) = one + diff[1]
      BY <1>8, <2>3
    <3> HIDE DEF one, two
    <3> QED BY <2>0, <3>1, <3>2
  <2>4. CASE r # "cck" /\ r # "ofdm" /\ r \notin SecondStream
    <3>1. Of(r) = one
      BY <2>4
    <3>2. RomSum(i, c, r) = one + 0
      BY <1>8, <2>4
    <3> HIDE DEF one, two
    <3> QED BY <2>0, <3>1, <3>2
  <2> QED BY <2>1, <2>2, <2>3, <2>4
<1> HIDE DEF Of
<1>12. p \in [UsedRates(cfg.ntx) -> Limited]
  <2>1. \A r \in UsedRates(cfg.ntx) : Of(r) % 256 \in Nat
    BY <1>11
  <2> QED BY <1>3, <2>1, AtMostIs
<1>13. ASSUME NEW r \in UsedRates(cfg.ntx), Meant(c, r), RomSum(i, c, r) \in 0..255
       PROVE  p[r] = AtMost(RomSum(i, c, r) + TableSum(i, c, r))
  <2>1. p[r] = AtMost(RomSum(i, c, r) % 256)
    BY <1>3, <1>11, <1>13
  <2>2. RomSum(i, c, r) + TableSum(i, c, r) = RomSum(i, c, r)
    BY <1>9, <1>13
  <2>3. RomSum(i, c, r) % 256 = RomSum(i, c, r)
    BY <1>13
  <2> QED BY <2>1, <2>2, <2>3
<1> QED BY <1>12, <1>13 DEF p, Right

Gains == [Chains \X Rates -> Limited]
PowerRight(agc, c) ==
    agc \in Gains /\ \A i \in 0..(cfg.ntx - 1), r \in UsedRates(cfg.ntx) : Right(i, c, r, agc[<<i, r>>])

LEMMA Written ==
    ASSUME NEW agc \in Gains, NEW i \in Chains, NEW c, NEW power \in [UsedRates(cfg.ntx) -> Limited]
    PROVE  /\ r92c_write_txpower(agc, i, power) \in Gains
           /\ r12a_write_txpower(agc, i, c, power) \in Gains
           /\ \A j \in Chains, r \in UsedRates(cfg.ntx) :
                 /\ r92c_write_txpower(agc, i, power)[<<j, r>>] = IF j = i THEN power[r] ELSE agc[<<j, r>>]
                 /\ (r = "cck" => c.band = "2G") =>
                    r12a_write_txpower(agc, i, c, power)[<<j, r>>] = IF j = i THEN power[r] ELSE agc[<<j, r>>]
<1>1. DOMAIN agc = Chains \X Rates /\ DOMAIN power = UsedRates(cfg.ntx)
      /\ (\A f \in Chains \X Rates : agc[f] \in Limited) /\ \A r \in UsedRates(cfg.ntx) : power[r] \in Limited
  BY DEF Gains
<1>2. r92c_write_txpower(agc, i, power) \in Gains
  BY <1>1 DEF r92c_write_txpower, Gains
<1>3. r12a_write_txpower(agc, i, c, power) \in Gains
  BY <1>1 DEF r12a_write_txpower, Gains
<1>4. ASSUME NEW j \in Chains, NEW r \in UsedRates(cfg.ntx)
      PROVE  /\ r92c_write_txpower(agc, i, power)[<<j, r>>] = IF j = i THEN power[r] ELSE agc[<<j, r>>]
             /\ (r = "cck" => c.band = "2G") =>
                r12a_write_txpower(agc, i, c, power)[<<j, r>>] = IF j = i THEN power[r] ELSE agc[<<j, r>>]
  <2> DEFINE f == <<j, r>>
  <2>1. f \in Chains \X Rates /\ f[1] = j /\ f[2] = r
    BY RatesUsed
  <2> HIDE DEF f
  <2>2. r92c_write_txpower(agc, i, power)[f] = IF j = i THEN power[r] ELSE agc[f]
    BY <1>1, <2>1 DEF r92c_write_txpower
  <2>3. (r = "cck" => c.band = "2G") => r12a_write_txpower(agc, i, c, power)[f] = IF j = i THEN power[r] ELSE agc[f]
    BY <1>1, <2>1 DEF r12a_write_txpower
  <2> QED BY <2>2, <2>3 DEF f
<1> QED BY <1>2, <1>3, <1>4

LEMMA SetPower92c ==
    ASSUME NEW c \in Channels, NEW held \in Nat, NEW agc \in Gains, OnBand(c), KnownChip, RomKnown, Old92c
    PROVE  PowerRight(r92c_set_txpower(cfg, rt, agc, c, held), c)
<1> DEFINE Get(i, h) == IF cfg.family = "r88e" THEN r88e_get_txpower(cfg, rt, i, c, h)
                        ELSE r92c_get_txpower(cfg, rt, i, c, h)
           power0 == Get(0, held)
           agc0 == r92c_write_txpower(agc, 0, power0)
           held1 == power0[LastRate(2)]
           power1 == Get(1, held1)
           agc1 == r92c_write_txpower(agc0, 1, power1)
<1>1. c.band = "2G" /\ cfg.ntx \in 1..2 /\ 0 \in Chains /\ 1 \in Chains
  BY ChannelsAssumption DEF OnBand, Bands, KnownChip, Chains
<1>2. ASSUME NEW i \in 0..(cfg.ntx - 1), NEW h \in Nat
      PROVE  Get(i, h) \in [UsedRates(cfg.ntx) -> Limited] /\ \A r \in UsedRates(cfg.ntx) : Right(i, c, r, Get(i, h)[r])
  <2>1. CASE cfg.family = "r92c"
    BY <1>1, <2>1, Power92c
  <2>2. CASE cfg.family = "r88e"
    <3>1. cfg.ntx = 1 /\ i = 0
      BY <1>1, <2>2 DEF RomKnown
    <3> QED BY <1>1, <2>2, <3>1, Power88e
  <2> QED BY <2>1, <2>2 DEF Old92c
<1>3. r92c_set_txpower(cfg, rt, agc, c, held) = IF cfg.ntx = 1 THEN agc0 ELSE agc1
  BY DEF r92c_set_txpower
<1> HIDE DEF Get
<1>4. power0 \in [UsedRates(cfg.ntx) -> Limited] /\ \A r \in UsedRates(cfg.ntx) : Right(0, c, r, power0[r])
  BY <1>1, <1>2
<1> HIDE DEF power0
<1>5. agc0 \in Gains /\ \A j \in Chains, r \in UsedRates(cfg.ntx) :
                           agc0[<<j, r>>] = IF j = 0 THEN power0[r] ELSE agc[<<j, r>>]
  BY <1>1, <1>4, Written
<1> HIDE DEF agc0
<1>6. CASE cfg.ntx = 1
  <2>1. \A i \in 0..(cfg.ntx - 1) : i = 0
    BY <1>6
  <2>2. \A r \in UsedRates(cfg.ntx) : Right(0, c, r, agc0[<<0, r>>])
    BY <1>1, <1>4, <1>5
  <2>3. \A i \in 0..(cfg.ntx - 1), r \in UsedRates(cfg.ntx) : Right(i, c, r, agc0[<<i, r>>])
    <3> SUFFICES ASSUME NEW i \in 0..(cfg.ntx - 1), NEW r \in UsedRates(cfg.ntx)
                 PROVE  Right(i, c, r, agc0[<<i, r>>])
      OBVIOUS
    <3>1. i = 0
      BY <2>1
    <3> QED BY <2>2, <3>1, Zenon
  <2>4. PowerRight(agc0, c)
    BY <1>5, <2>3 DEF PowerRight
  <2> QED BY <1>3, <1>6, <2>4
<1>7. CASE cfg.ntx = 2
  <2>1. held1 \in Nat
    <3>1. LastRate(2) \in UsedRates(cfg.ntx)
      BY <1>7 DEF LastRate, UsedRates, Rates
    <3>2. power0[LastRate(2)] \in Limited
      BY <1>4, <3>1
    <3> QED BY <3>2 DEF Limited, R92C_MAX_TX_PWR
  <2> HIDE DEF held1
  <2>2. power1 \in [UsedRates(cfg.ntx) -> Limited] /\ \A r \in UsedRates(cfg.ntx) : Right(1, c, r, power1[r])
    BY <1>2, <1>7, <2>1
  <2> HIDE DEF power1
  <2>3. agc1 \in Gains /\ \A j \in Chains, r \in UsedRates(cfg.ntx) :
                           agc1[<<j, r>>] = IF j = 1 THEN power1[r] ELSE agc0[<<j, r>>]
    BY <1>1, <1>5, <2>2, Written
  <2> HIDE DEF agc1
  <2>4. \A r \in UsedRates(cfg.ntx) : Right(0, c, r, agc1[<<0, r>>]) /\ Right(1, c, r, agc1[<<1, r>>])
    BY <1>1, <1>4, <1>5, <2>2, <2>3
  <2>5. \A i \in 0..(cfg.ntx - 1) : i = 0 \/ i = 1
    BY <1>7
  <2>6. \A i \in 0..(cfg.ntx - 1), r \in UsedRates(cfg.ntx) : Right(i, c, r, agc1[<<i, r>>])
    <3> SUFFICES ASSUME NEW i \in 0..(cfg.ntx - 1), NEW r \in UsedRates(cfg.ntx)
                 PROVE  Right(i, c, r, agc1[<<i, r>>])
      OBVIOUS
    <3>1. i = 0 \/ i = 1
      BY <2>5
    <3> QED BY <2>4, <3>1, Zenon
  <2>7. PowerRight(agc1, c)
    BY <2>3, <2>6 DEF PowerRight
  <2> QED BY <1>3, <1>7, <2>7
<1> QED BY <1>1, <1>6, <1>7

LEMMA SetPower12a ==
    ASSUME NEW c \in Channels, NEW agc \in Gains, KnownChip, RomKnown, ~Old92c
    PROVE  PowerRight(r12a_set_txpower(cfg, rt, agc, c), c)
<1> DEFINE power0 == r12a_get_txpower(cfg, rt, 0, c)
           agc0 == r12a_write_txpower(agc, 0, c, power0)
           power1 == r12a_get_txpower(cfg, rt, 1, c)
           agc1 == r12a_write_txpower(agc0, 1, c, power1)
<1>1. cfg.ntx \in 1..2 /\ 0 \in Chains /\ 1 \in Chains /\ cfg.family \in {"r12a", "r21a"}
  BY DEF KnownChip, Chains, Old92c
<1>2. r12a_set_txpower(cfg, rt, agc, c) = IF cfg.ntx = 1 THEN agc0 ELSE agc1
  BY DEF r12a_set_txpower
<1>3. power0 \in [UsedRates(cfg.ntx) -> Limited] /\ \A r \in UsedRates(cfg.ntx) : Right(0, c, r, power0[r])
  BY <1>1, Power12a
<1> HIDE DEF power0
<1>4. agc0 \in Gains /\ \A j \in Chains, r \in UsedRates(cfg.ntx) : (r = "cck" => c.band = "2G") =>
                           agc0[<<j, r>>] = IF j = 0 THEN power0[r] ELSE agc[<<j, r>>]
  BY <1>1, <1>3, Written
<1> HIDE DEF agc0
<1>5. \A i, r, x : ~(r = "cck" => c.band = "2G") => Right(i, c, r, x)
  BY DEF Right, Meant
<1>6. CASE cfg.ntx = 1
  <2>1. \A i \in 0..(cfg.ntx - 1) : i = 0
    BY <1>6
  <2>2. \A r \in UsedRates(cfg.ntx) : Right(0, c, r, agc0[<<0, r>>])
    BY <1>1, <1>3, <1>4, <1>5
  <2>3. \A i \in 0..(cfg.ntx - 1), r \in UsedRates(cfg.ntx) : Right(i, c, r, agc0[<<i, r>>])
    <3> SUFFICES ASSUME NEW i \in 0..(cfg.ntx - 1), NEW r \in UsedRates(cfg.ntx)
                 PROVE  Right(i, c, r, agc0[<<i, r>>])
      OBVIOUS
    <3>1. i = 0
      BY <2>1
    <3> QED BY <2>2, <3>1, Zenon
  <2>4. PowerRight(agc0, c)
    BY <1>4, <2>3 DEF PowerRight
  <2> QED BY <1>2, <1>6, <2>4
<1>7. CASE cfg.ntx = 2
  <2>1. power1 \in [UsedRates(cfg.ntx) -> Limited] /\ \A r \in UsedRates(cfg.ntx) : Right(1, c, r, power1[r])
    BY <1>1, <1>7, Power12a
  <2> HIDE DEF power1
  <2>2. agc1 \in Gains /\ \A j \in Chains, r \in UsedRates(cfg.ntx) : (r = "cck" => c.band = "2G") =>
                           agc1[<<j, r>>] = IF j = 1 THEN power1[r] ELSE agc0[<<j, r>>]
    BY <1>1, <1>4, <2>1, Written
  <2> HIDE DEF agc1
  <2>3. \A r \in UsedRates(cfg.ntx) : Right(0, c, r, agc1[<<0, r>>]) /\ Right(1, c, r, agc1[<<1, r>>])
    BY <1>1, <1>3, <1>4, <1>5, <2>1, <2>2
  <2>4. \A i \in 0..(cfg.ntx - 1) : i = 0 \/ i = 1
    BY <1>7
  <2>5. \A i \in 0..(cfg.ntx - 1), r \in UsedRates(cfg.ntx) : Right(i, c, r, agc1[<<i, r>>])
    <3> SUFFICES ASSUME NEW i \in 0..(cfg.ntx - 1), NEW r \in UsedRates(cfg.ntx)
                 PROVE  Right(i, c, r, agc1[<<i, r>>])
      OBVIOUS
    <3>1. i = 0 \/ i = 1
      BY <2>4
    <3> QED BY <2>3, <3>1, Zenon
  <2>6. PowerRight(agc1, c)
    BY <2>2, <2>5 DEF PowerRight
  <2> QED BY <1>2, <1>7, <2>6
<1> QED BY <1>1, <1>6, <1>7

\* The steps after the power is set leave it as it is.
LEMMA ChanPower ==
    ASSUME NEW h, NEW c, NEW initialising, NEW held, DOMAIN h = HwFields
    PROVE  set_chan(h, c, initialising, held).agc =
              IF Old92c THEN r92c_set_txpower(cfg, rt, h.agc, c, held) ELSE r12a_set_txpower(cfg, rt, h.agc, c)
<1>1. CASE Old92c
  <2> DEFINE agc == r92c_set_txpower(cfg, rt, h.agc, c, held)
             powered == [h EXCEPT !.agc = agc]
             chnl == [i \in Chains |-> IF i < cfg.nrx THEN [ieee |-> c.ieee, bw |-> "reset"] ELSE powered.chnl[i]]
             moved == [powered EXCEPT !.chnl = chnl, !.lcstart = FALSE]
  <2>1. set_chan(h, c, initialising, held) =
           IF Ht40(c) THEN r92c_set_bw40(moved, c)
           ELSE IF cfg.family = "r88e" THEN r88e_set_bw20(moved, c) ELSE r92c_set_bw20(moved, c)
    BY <1>1 DEF set_chan, r92c_set_chan
  <2> HIDE DEF agc
  <2>2. DOMAIN powered = HwFields /\ powered.agc = agc
    BY DEF HwFields
  <2> HIDE DEF powered, chnl
  <2>3. DOMAIN moved = HwFields /\ moved.agc = agc
    BY <2>2 DEF HwFields
  <2> HIDE DEF moved
  <2>4. r92c_set_bw40(moved, c).agc = agc
    BY <2>3 DEF r92c_set_bw40, HwFields
  <2>5. r88e_set_bw20(moved, c).agc = agc /\ r92c_set_bw20(moved, c).agc = agc
    BY <2>3 DEF r88e_set_bw20, r92c_set_bw20, HwFields
  <2> QED BY <1>1, <2>1, <2>4, <2>5 DEF agc
<1>2. CASE ~Old92c
  <2> DEFINE banded == [r12a_set_band(h, c, initialising) EXCEPT !.fc = FcArea(c.ieee), !.rfband = RfBand(c.ieee)]
             width == r12a_fix_spur(SetWidth12a(r12a_fix_spur(banded, c), c), c)
             chnl == [i \in Chains |-> IF i < cfg.nrx THEN [ieee |-> c.ieee, bw |-> c.width] ELSE h.chnl[i]]
             agc == r12a_set_txpower(cfg, rt, h.agc, c)
             b == r12a_set_band(h, c, initialising)
  <2>1. set_chan(h, c, initialising, held) = [width EXCEPT !.chnl = chnl, !.agc = agc]
    BY <1>2 DEF set_chan, r12a_set_chan
  <2>2. DOMAIN width = HwFields
    <3>1. DOMAIN b = HwFields
      BY DEF r12a_set_band, r12a_set_band_ghz, r21a_set_band_ghz
    <3> HIDE DEF b
    <3>2. DOMAIN banded = HwFields
      BY <3>1 DEF b
    <3> HIDE DEF banded
    <3> QED BY <3>2, FixSpur, SetWidth
  <2> HIDE DEF width, chnl, agc
  <2>3. set_chan(h, c, initialising, held).agc = agc
    BY <2>1, <2>2 DEF HwFields
  <2> QED BY <1>2, <2>3 DEF agc
<1> QED BY <1>1, <1>2

LEMMA SetChanPower ==
    ASSUME NEW h, NEW c, NEW initialising, NEW held \in Nat, DOMAIN h = HwFields, h.agc \in Gains,
           OnBand(c), KnownChip, RomKnown
    PROVE  PowerRight(set_chan(h, c, initialising, held).agc, c)
<1>1. c \in Channels
  BY DEF OnBand
<1>2. CASE Old92c
  BY <1>1, <1>2, ChanPower, SetPower92c
<1>3. CASE ~Old92c
  BY <1>1, <1>3, ChanPower, SetPower12a
<1> QED BY <1>2, <1>3

LEMMA StartedPower ==
    ASSUME NEW band, NEW c, NEW held \in Nat, NEW res, OnBand(c), KnownChip, RomKnown
    PROVE  PowerRight(Started(band, c, held, res).agc, c) /\ Started(band, c, held, res).txpause = {}
<1> DEFINE fresh == Fresh(band, 0, cfg.pi)
           yes == TRUE
           on == set_chan(fresh, c, yes, held)
           g == Started(band, c, held, res)
<1>1. Base(fresh) /\ fresh.txpause = {} /\ Quiet(fresh) /\ Measured(fresh)
  BY FreshRadio
<1>2. fresh.agc \in Gains
  <2>1. fresh.agc = [f \in Chains \X Rates |-> 0] /\ 0 \in Limited
    BY DEF Fresh, Limited, R92C_MAX_TX_PWR
  <2> HIDE DEF fresh
  <2> QED BY <2>1 DEF Gains
<1>3. c \in Channels /\ g = PostInit(on, res) /\ (~Old92c /\ ~yes => Banded(fresh, fresh.cckcheck))
  BY DEF OnBand, Started
<1> HIDE DEF fresh, yes, g
<1>4. PowerRight(on.agc, c)
  BY <1>1, <1>2, SetChanPower DEF Base
<1>5. Base(on) /\ \A f \in Kept : on[f] = fresh[f]
  BY <1>1, <1>3, SetChan
<1> HIDE DEF on
<1>6. Quiet(on) /\ on.txpause = {} /\ Measured(on) /\ DOMAIN on = HwFields
  <2>1. on.lck = fresh.lck /\ on.rfmode = fresh.rfmode /\ on.page = fresh.page /\ on.txpause = fresh.txpause
        /\ on.iqres = fresh.iqres
    BY <1>5 DEF Kept
  <2> QED BY <1>1, <1>5, <2>1 DEF Quiet, Measured, Base
<1>7. SameTuning(g, on) /\ g.txpause = {}
  BY <1>3, <1>6, PostInitRadio
<1>8. g.agc = on.agc
  BY <1>7 DEF SameTuning, Tuned, HwFields, Kept
<1> QED BY <1>4, <1>7, <1>8 DEF g

PowerInv ==
    /\ rt = parse_rom(cfg.family, cfg.rom, cfg.ntx)
    /\ PowerRight(hw.agc, tuned) /\ hw.txpause \subseteq ALL

\* A calibration pauses queues, and nothing else.
LEMMA CalibPauses ==
    ASSUME TunedInv, CalibInv, Calibration, hw.txpause \subseteq ALL
    PROVE  hw'.txpause \subseteq ALL
<1>1. DOMAIN hw = HwFields /\ KnownChip
  BY ChipKnown DEF TunedInv, Base
<1>2. {"ac", "mgt", "high"} \subseteq ALL /\ {} \subseteq ALL
  BY DEF ALL
<1>3. CASE rtwn_calib_cb
  <2>1. hw' \in {hw, LcStart(hw)}
    <3>1. CASE Measure
      BY <3>1 DEF Measure
    <3>2. CASE \E temp \in Temps : Read(temp)
      BY <3>2 DEF Read
    <3> QED BY <1>3, <3>1, <3>2 DEF rtwn_calib_cb
  <2> QED BY <1>1, <2>1, LcSteps
<1>4. CASE lc_done
  <2> DEFINE h == IF HasLc THEN LcEnd(hw) ELSE hw
  <2>1. DOMAIN h = HwFields /\ h.txpause \subseteq ALL
    BY <1>1, <1>2, LcSteps
  <2>2. IqCalib(h, iq.temp, iq.before) \/ hw' = h
    BY <1>4 DEF lc_done
  <2> HIDE DEF h
  <2>3. hw' \in {h, IqRunStart(h), iq_calib_sw(h)}
    BY <1>1, <2>2, IqCalibStep
  <2>4. IqRunStart(h).txpause \subseteq ALL
    BY <1>2, <2>1, IqStart
  <2>5. iq_calib_sw(h).txpause = h.txpause
    BY <2>1, SwCalib DEF HwFields
  <2> QED BY <2>1, <2>3, <2>4, <2>5
<1>5. CASE iq_calib_next
  <2>1. Old92c /\ iq.saved.txpause = {}
    BY <1>5 DEF iq_calib_next, CalibInv
  <2> DEFINE ended == IqRunEnd(hw, iq.n, iq.saved, iq.pi)
  <2>2. \E res : hw' \in {ended, iq_calib_write_results(ended, res), IqRunStart(ended)}
    BY <1>5 DEF iq_calib_next
  <2>3. PICK res : hw' \in {ended, iq_calib_write_results(ended, res), IqRunStart(ended)}
    BY <2>2
  <2>4. DOMAIN ended = HwFields /\ ended.txpause \subseteq ALL
    <3>1. /\ DOMAIN ended = HwFields /\ (iq.n = 0 => ended.txpause = hw.txpause)
          /\ iq.n # 0 => ended.txpause = iq.saved.txpause
      BY <1>1, <2>1, IqEnd
    <3> HIDE DEF ended
    <3> QED BY <1>2, <2>1, <3>1
  <2> HIDE DEF ended
  <2>5. iq_calib_write_results(ended, res).txpause = ended.txpause
    BY <1>1, <2>4, WriteResults DEF HwFields
  <2>6. IqRunStart(ended).txpause \subseteq ALL
    BY <1>2, <2>4, IqStart
  <2> QED BY <2>3, <2>4, <2>5, <2>6
<1>6. CASE iq_calib_sent
  BY <1>6 DEF iq_calib_sent
<1> QED BY <1>3, <1>4, <1>5, <1>6 DEF Calibration

LEMMA NextPower == TunedInv /\ CalibInv /\ PowerInv /\ [Next]_vars => PowerInv'
<1> SUFFICES ASSUME TunedInv, CalibInv, PowerInv, [Next]_vars PROVE PowerInv'
  OBVIOUS
<1>1. DOMAIN hw = HwFields /\ KnownChip /\ RomKnown /\ Base(hw) /\ OnBand(curchan) /\ hw.agc \in Gains
  BY ChipKnown, ParseRom DEF TunedInv, Base, PowerInv, PowerRight
<1> DEFINE Goal == cfg' = cfg /\ rt' = rt /\ PowerRight(hw'.agc, tuned') /\ hw'.txpause \subseteq ALL
<1> SUFFICES Goal
  <2> SUFFICES ASSUME Goal PROVE PowerInv'
    OBVIOUS
  <2>1. PowerRight(hw'.agc, tuned') = PowerRight(hw.agc, tuned)'
    <3>1. ASSUME NEW i, NEW r PROVE RomSum(i, tuned', r) = RomSum(i, tuned, r)'
      BY DEF RomSum, Old92c
    <3>2. ASSUME NEW i, NEW r PROVE TableSum(i, tuned', r) = TableSum(i, tuned, r)'
      BY DEF TableSum
    <3>3. ASSUME NEW r PROVE Meant(tuned', r) = Meant(tuned, r)'
      BY DEF Meant, NeverSet, PastTheEnd, Old92c
    <3>4. ASSUME NEW i, NEW r PROVE Right(i, tuned', r, hw'.agc[<<i, r>>]) = Right(i, tuned, r, hw.agc[<<i, r>>])'
      BY <3>1, <3>2, <3>3 DEF Right
    <3> QED BY <3>4 DEF PowerRight
  <2> QED BY <2>1 DEF PowerInv
<1>2. ASSUME cfg' = cfg, rt' = rt, tuned' = tuned, hw'.agc = hw.agc, hw'.txpause \subseteq ALL
      PROVE  Goal
  BY <1>2 DEF PowerInv
<1>3. CASE UNCHANGED <<cfg, rt, tuned, hw>>
  BY <1>2, <1>3 DEF PowerInv
<1>4. CASE UNCHANGED vars
  BY <1>3, <1>4 DEF vars
<1>5. CASE Restart
  <2>1. PICK held \in Garbage, res \in Results : hw' = Started(hw.cckcheck, curchan, held, res)
    BY <1>5 DEF Restart
  <2>2. UNCHANGED <<cfg, rt>> /\ tuned' = curchan /\ held \in Nat
    BY <1>5, GarbageAssumption DEF Restart
  <2>3. PowerRight(hw'.agc, curchan) /\ hw'.txpause = {}
    BY <1>1, <2>1, <2>2, StartedPower
  <2> QED BY <2>2, <2>3
<1>6. CASE rtwn_set_channel
  <2>1. PICK held \in Garbage : hw' = set_chan(hw, curchan, FALSE, held)
    BY <1>6 DEF rtwn_set_channel
  <2>2. UNCHANGED <<cfg, rt>> /\ tuned' = curchan /\ held \in Nat
    BY <1>6, GarbageAssumption DEF rtwn_set_channel
  <2> DEFINE no == FALSE
  <2>3. hw' = set_chan(hw, curchan, no, held)
    BY <2>1
  <2>4. ASSUME ~Old92c PROVE Banded(hw, hw.cckcheck)
    <3>1. Banded(hw, tuned.band)
      BY <2>4 DEF TunedInv, TunedTo
    <3>2. tuned.band = hw.cckcheck
      BY <3>1 DEF Banded
    <3> QED BY <3>1, <3>2
  <2> HIDE DEF no
  <2>5. PowerRight(hw'.agc, curchan)
    BY <1>1, <2>2, <2>3, SetChanPower
  <2>6. hw'.txpause = hw.txpause
    <3>1. curchan \in Channels
      BY <1>1 DEF OnBand
    <3>2. \A f \in Kept : hw'[f] = hw[f]
      BY <1>1, <2>3, <2>4, <3>1, SetChan
    <3> QED BY <3>2 DEF Kept
  <2> QED BY <2>2, <2>5, <2>6 DEF PowerInv
<1>7. CASE scan_start
  <2> DEFINE gain == "scan"
             k == IF Old92c THEN set_gain(hw, gain) ELSE hw
             pause == k.txpause \cup {"bcn"}
  <2>1. UNCHANGED <<cfg, rt, tuned>> /\ hw' = [k EXCEPT !.txpause = pause]
    BY <1>7 DEF scan_start
  <2>2. k.txpause = hw.txpause
    BY <1>1 DEF set_gain, HwFields
  <2> HIDE DEF pause, gain
  <2>3. /\ hw'.txpause = pause
        /\ \A f \in HwFields \ {"gain", "txpause"} : hw'[f] = hw[f]
    BY <1>1, <2>1, ScanSteps
  <2> HIDE DEF k
  <2>4. hw'.agc = hw.agc /\ hw'.txpause \subseteq ALL
    BY <2>2, <2>3 DEF PowerInv, HwFields, ALL, pause
  <2> QED BY <1>2, <2>1, <2>4
<1>8. CASE scan_end
  <2> DEFINE gain == "link"
             k == IF Old92c THEN set_gain(hw, gain) ELSE hw
             pause == k.txpause \ {"bcn"}
  <2>1. UNCHANGED <<cfg, rt, tuned>> /\ hw' = [k EXCEPT !.txpause = pause]
    BY <1>8 DEF scan_end
  <2>2. k.txpause = hw.txpause
    BY <1>1 DEF set_gain, HwFields
  <2> HIDE DEF pause, gain
  <2>3. /\ hw'.txpause = pause
        /\ \A f \in HwFields \ {"gain", "txpause"} : hw'[f] = hw[f]
    BY <1>1, <2>1, ScanSteps
  <2> HIDE DEF k
  <2>4. hw'.agc = hw.agc /\ hw'.txpause \subseteq ALL
    BY <2>2, <2>3 DEF PowerInv, HwFields, ALL, pause
  <2> QED BY <1>2, <2>1, <2>4
<1>9. CASE run_first \/ stop_last \/ rtwn_calib_to \/ IqFinished \/ handle_iqk_finished
           \/ \E c \in Channels : ChooseChannel(c)
  <2>1. UNCHANGED <<cfg, rt, tuned, hw>>
    BY <1>9 DEF run_first, stop_last, rtwn_calib_to, IqFinished, handle_iqk_finished, ChooseChannel
  <2> QED BY <1>3, <2>1
<1>10. CASE Calibration
  <2>1. SameTuning(hw', hw) /\ UNCHANGED <<cfg, rt, tuned>>
    BY <1>10, CalibStaysTuned
  <2>2. hw'.agc = hw.agc
    BY <2>1 DEF SameTuning, Tuned, HwFields, Kept
  <2>3. hw'.txpause \subseteq ALL
    BY <1>10, CalibPauses DEF PowerInv
  <2> QED BY <1>2, <2>1, <2>2, <2>3
<1> QED BY <1>4, <1>5, <1>6, <1>7, <1>8, <1>9, <1>10 DEF Next

LEMMA InitPower == Init => PowerInv
<1> SUFFICES ASSUME Init PROVE PowerInv
  OBVIOUS
<1>1. cfg \in Configs /\ KnownChip /\ OnBand(curchan) /\ tuned = curchan
      /\ rt = parse_rom(cfg.family, cfg.rom, cfg.ntx)
  BY ChipKnown DEF Init, OnBand
<1>2. PICK held \in Garbage, res \in Results : hw = Started("2G", curchan, held, res)
  BY DEF Init
<1>3. PowerRight(hw.agc, tuned) /\ hw.txpause = {}
  BY <1>1, <1>2, ParseRom, StartedPower, GarbageAssumption
<1> QED BY <1>1, <1>3 DEF PowerInv

LEMMA InvPower == TunedInv /\ SchedInv /\ PowerInv => PowerSound
<1> SUFFICES ASSUME TunedInv, SchedInv, PowerInv PROVE PowerSound
  OBVIOUS
<1>1. hw.agc \in Gains /\ DOMAIN hw.agc = Chains \X Rates
  BY DEF PowerInv, PowerRight, Gains
<1>2. \A f \in DOMAIN hw.agc : hw.agc[f] \in 0..R92C_MAX_TX_PWR
  BY <1>1 DEF Gains, Limited
<1>3. TypeOK
  BY <1>1, <1>2 DEF TypeOK, TunedInv, SchedInv, PowerInv, OnBand
<1>4. PowerAgrees
  <2> SUFFICES ASSUME NEW i \in 0..(cfg.ntx - 1), NEW r \in UsedRates(cfg.ntx),
                      (r = "cck" => tuned.band = "2G") /\ ~NeverSet(tuned, r) /\ ~PastTheEnd(tuned, r),
                      RomSum(i, tuned, r) \in 0..255
               PROVE  hw.agc[<<i, r>>] = AtMost(RomSum(i, tuned, r) + TableSum(i, tuned, r))
    BY DEF PowerAgrees
  <2>1. Right(i, tuned, r, hw.agc[<<i, r>>])
    BY DEF PowerInv, PowerRight
  <2> QED BY <2>1 DEF Right, Meant
<1> QED BY <1>3, <1>4 DEF PowerSound

\* Whatever the ROM holds and whatever was on the stack, the gain registers
\* hold powers, and on the channel the radio is tuned to those the ROM means
\* (r92c_get_txpower(), r88e_get_txpower(), r12a_get_txpower()).
THEOREM PowerAlways == Spec => []PowerSound
<1>1. Init => TunedInv /\ CalibInv /\ SchedInv /\ PowerInv
  BY InitTuned, InitSched, InitPower
<1>2. TunedInv /\ CalibInv /\ SchedInv /\ PowerInv /\ [Next]_vars =>
         TunedInv' /\ CalibInv' /\ SchedInv' /\ PowerInv'
  BY NextTuned, NextCalib, NextSched, NextPower
<1>3. TunedInv /\ SchedInv /\ PowerInv => PowerSound
  BY InvPower
<1> QED BY <1>1, <1>2, <1>3, PTL DEF Spec
=============================================================================
