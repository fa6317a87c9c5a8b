----------------------------- MODULE NodeTable -----------------------------
(***************************************************************************)
(* Stations and their hardware ids ("macid"): rtwn_newassoc() and          *)
(* rtwn_node_free() in if_rtwn.c, the media-status command they queue      *)
(* (r88e_set_media_status(), r12a_set_media_status()), and the handlers of *)
(* the transmit reports, which find a station by its id.                   *)
(*                                                                         *)
(* net80211 calls from any thread, the reports arrive on the receive path. *)
(* RTWN_NT_LOCK guards the table and is held while a handler uses the node *)
(* it found: r92c_ratectl_tx_complete() takes it, for the handlers of the  *)
(* later chips rtwn_report_intr() (USB) or rtwn_pci_tx_report() does.      *)
(* The commands go through the queue of CmdQueue, here as CmdFifo.         *)
(***************************************************************************)
EXTENDS Naturals, Sequences

CONSTANTS
    Nodes,              \* structures of net80211: struct rtwn_node
    macid_limit,        \* the largest id the driver gives out
    RTWN_MACID_BC,      \* the id of group-addressed frames
    Undefined,          \* RTWN_MACID_UNDEFINED
    WordBits,           \* ids per word of R88E_MACID_NO_LINK (32)
    RTWN_CMDQ_SIZE,
    NoNode, NoCmd

Macids == 0 .. macid_limit

ASSUME LimitAssumption == macid_limit \in Nat /\ RTWN_MACID_BC \in Macids
ASSUME WidthAssumption == WordBits \in Nat \ {0}
ASSUME NoneAssumption == NoNode \notin Nodes /\ Undefined \notin Macids

VARIABLES
    life,           \* net80211: "unused", "used", or "freeing" a node
    id,             \* un->id
    announcing,     \* rtwn_newassoc() calls between the unlock and the command: <<node, id>>
    node_list,      \* id -> node
    rpt,            \* <<id, node>> a report handler is using
    fw,             \* sc_flags & RTWN_FW_LOADED
    media,          \* firmware: ids it was told are associated
    no_link,        \* bits set in the two words of R88E_MACID_NO_LINK
    device,         \* "stopped" or "running"
    fifo, executing,\* the queue, and the command being executed
    unsure,         \* history: ids whose last change the chip was not told
    stale           \* history: ids a node had when it was announced again

vars == <<life, id, announcing, node_list, rpt, fw, media, no_link, device, fifo,
          executing, unsure, stale>>
table == <<life, id, announcing, node_list, stale>>
chip == <<fw, media, no_link>>

\* The macid with or without RTWN_MACID_VALID.
Cmds == [macid : Macids, valid : BOOLEAN]
ASSUME CmdsAssumption == NoCmd \notin Cmds
Attached == device \in {"stopped", "running"}
Queue == INSTANCE CmdFifo WITH
    Capacity <- RTWN_CMDQ_SIZE, Nothing <- NoCmd,
    open <- Attached, powered <- device = "running"

\* The bit of an id: a bit of the first or of the second word.
Bit(i) == <<IF i > WordBits THEN 1 ELSE 0, i % WordBits>>
BitsAtReset == {0, 1} \X (0 .. WordBits - 1) \ {Bit(RTWN_MACID_BC)}

Init ==
    /\ life = [n \in Nodes |-> "unused"]
    /\ id = [n \in Nodes |-> Undefined]
    /\ announcing = {}
    /\ node_list = [i \in Macids |-> NoNode]
    /\ rpt = NoNode
    /\ fw = FALSE
    /\ media = {}
    /\ no_link = BitsAtReset
    /\ device = "stopped"
    /\ Queue!Init
    /\ unsure = {}
    /\ stale = {}

\* Only a handler holds RTWN_NT_LOCK from one action to a later one.
NtFree == rpt = NoNode
Free == {i \in Macids \ {RTWN_MACID_BC} : node_list[i] = NoNode}

\* rtwn_cmd_sleepable(), whose EAGAIN nobody looks at.
Notify(i, valid) ==
    \/ /\ Queue!Enqueue([macid |-> i, valid |-> valid])
       /\ unsure' = unsure \ {i}
    \/ /\ Queue!Load >= RTWN_CMDQ_SIZE
       /\ unsure' = unsure \union {i}
       /\ UNCHANGED <<fifo, executing>>

-----------------------------------------------------------------------------
(* Stations *)

\* rtwn_node_alloc()
NodeAlloc(n) ==
    /\ life[n] = "unused"
    /\ life' = [life EXCEPT ![n] = "used"]
    /\ id' = [id EXCEPT ![n] = Undefined]
    /\ UNCHANGED <<announcing, node_list, rpt, chip, device, fifo, executing, unsure, stale>>

\* rtwn_newassoc() up to the unlock; "node table is full" changes nothing.
\* Nothing looks at the id the node has: net80211 announces a node again when
\* a station goes from CSA back to RUN, and its old entry stays for ever.
TakeId(n, i) ==
    /\ id' = [id EXCEPT ![n] = i]
    /\ node_list' = [node_list EXCEPT ![i] = n]
    /\ announcing' = announcing \union {<<n, i>>}
    /\ stale' = stale \union ({id[n]} \ {Undefined})
AssignAny(n) ==                                     \* mutant: used ids too
    /\ life[n] = "used"
    /\ NtFree
    /\ \E i \in Macids \ {RTWN_MACID_BC} : TakeId(n, i)
    /\ UNCHANGED <<life, rpt, chip, device, fifo, executing, unsure>>
Assign(n) ==
    /\ life[n] = "used"
    /\ NtFree
    /\ \E i \in Free : (\A j \in Free : i <= j) /\ TakeId(n, i)
    /\ UNCHANGED <<life, rpt, chip, device, fifo, executing, unsure>>

\* The rest of rtwn_newassoc().
Announce(n, i) ==
    /\ <<n, i>> \in announcing
    /\ announcing' = announcing \ {<<n, i>>}
    /\ UNCHANGED <<life, id, node_list, rpt, chip, device, stale>>
    /\ Notify(i, TRUE)

\* rtwn_node_free() under the lock, and the command it queues there.
\* rtwn_newassoc() has its own reference to the node.
Unreferenced(n) == life[n] = "used" /\ \A i \in Macids : <<n, i>> \notin announcing
GiveUp(n) ==
    /\ life' = [life EXCEPT ![n] = "freeing"]
    /\ node_list' = [i \in Macids |-> IF i = id[n] THEN NoNode ELSE node_list[i]]
    /\ UNCHANGED <<id, announcing, rpt, chip, device, stale>>
FreeSilently(n) ==                                  \* mutant: no command
    /\ Unreferenced(n) /\ NtFree
    /\ GiveUp(n)
    /\ UNCHANGED <<fifo, executing, unsure>>
FreeUnlocked(n) ==                                  \* mutant: no lock
    /\ Unreferenced(n)
    /\ GiveUp(n)
    /\ IF id[n] = Undefined THEN UNCHANGED <<fifo, executing, unsure>>
                            ELSE Notify(id[n], FALSE)
NodeFree(n) ==
    /\ Unreferenced(n) /\ NtFree
    /\ GiveUp(n)
    /\ IF id[n] = Undefined THEN UNCHANGED <<fifo, executing, unsure>>
                            ELSE Notify(id[n], FALSE)

\* sc->sc_node_free()
MemoryFree(n) ==
    /\ life[n] = "freeing"
    /\ life' = [life EXCEPT ![n] = "unused"]
    /\ UNCHANGED <<id, announcing, node_list, rpt, chip, device, fifo, executing, unsure, stale>>

-----------------------------------------------------------------------------
(* Reports of transmitted frames *)

\* The handler looks the id up, and uses the node it finds.
Report(i) ==
    /\ rpt = NoNode
    /\ node_list[i] # NoNode
    /\ rpt' = <<i, node_list[i]>>
    /\ UNCHANGED <<table, chip, device, fifo, executing, unsure>>

ReportEnd ==
    /\ rpt # NoNode
    /\ rpt' = NoNode
    /\ UNCHANGED <<table, chip, device, fifo, executing, unsure>>

-----------------------------------------------------------------------------
(* The command *)

Begin ==
    /\ UNCHANGED <<table, rpt, chip, device, unsure>>
    /\ Queue!Begin

\* r88e_set_media_status(): first the link bit, then the firmware command.  On
\* USB the register is written back with every bit set when its read fails, and
\* stays as it is when the write fails.
LinkSet(set, i, enable) ==
    no_link' = IF enable THEN set \ {Bit(i)} ELSE set \union {Bit(i)}
Word(i) == {Bit(i)[1]} \X (0 .. WordBits - 1)
SameWord(i) == {j \in Macids : Bit(j)[1] = Bit(i)[1]}

\* r88e_macid_enable_link(), with the ids that may have a wrong bit now.
EnableLink(i, enable, wrong) ==
    \/ LinkSet(no_link, i, enable) /\ wrong = {}
    \/ LinkSet(no_link \union Word(i), i, enable) /\ wrong = SameWord(i) \ {i}
    \/ UNCHANGED no_link /\ wrong = {i}

\* r88e_fw_cmd(): discarded without firmware; it fails when a write does, which
\* nobody hears of, and another caller may take its box (FwMailbox).
Tell(i, valid, wrong) ==
    \/ fw /\ media' = (IF valid THEN media \union {i} ELSE media \ {i}) /\ wrong = {}
    \/ fw /\ UNCHANGED media /\ wrong = {i}
    \/ ~fw /\ UNCHANGED media /\ wrong = {}

Pending == {fifo[k].macid : k \in 1 .. Len(fifo)}

SetMediaStatus ==
    /\ executing # NoCmd
    /\ LET i == executing.macid
       IN  \E wrong \in {{}, {i}, SameWord(i) \ {i}}, untold \in {{}, {i}} :
              /\ EnableLink(i, executing.valid, wrong)
              /\ Tell(i, executing.valid, untold)
              /\ unsure' = unsure \union ((wrong \union untold) \ Pending)
    /\ UNCHANGED <<table, rpt, fw, device>>
    /\ Queue!End

-----------------------------------------------------------------------------
(* rtwn_init() and rtwn_stop(), on the thread that runs the commands *)

InTable == {i \in Macids : node_list[i] # NoNode}

\* Without the firmware image the device runs all the same.
Start ==
    /\ device = "stopped"
    /\ device' = "running"
    /\ fw' \in BOOLEAN
    /\ media' = {}
    /\ no_link' = BitsAtReset
    /\ unsure' = (InTable \ Pending) \union (unsure \intersect Pending)
    /\ UNCHANGED <<table, rpt, fifo, executing>>

Stop ==
    /\ device = "running"
    /\ executing = NoCmd
    /\ device' = "stopped"
    /\ fw' = FALSE
    /\ UNCHANGED <<table, rpt, media, no_link, fifo, executing, unsure>>

-----------------------------------------------------------------------------
Next ==
    \/ \E n \in Nodes : NodeAlloc(n) \/ Assign(n) \/ NodeFree(n) \/ MemoryFree(n)
    \/ \E n \in Nodes, i \in Macids : Announce(n, i)
    \/ \E i \in Macids : Report(i)
    \/ ReportEnd
    \/ Begin \/ SetMediaStatus
    \/ Start \/ Stop

Spec == Init /\ [][Next]_vars

-----------------------------------------------------------------------------
\* Types of the variables; rtwn_newassoc() gives out ids of the table only.
TypeOK ==
    /\ life \in [Nodes -> {"unused", "used", "freeing"}]
    /\ id \in [Nodes -> Macids \union {Undefined}]
    /\ announcing \subseteq Nodes \X Macids
    /\ node_list \in [Macids -> Nodes \union {NoNode}]
    /\ rpt \in (Macids \X Nodes) \union {NoNode}
    /\ fw \in BOOLEAN
    /\ media \subseteq Macids
    /\ no_link \subseteq {0, 1} \X (0 .. WordBits - 1)
    /\ device \in {"stopped", "running"}
    /\ fifo \in Seq(Cmds)
    /\ executing \in Cmds \union {NoCmd}
    /\ unsure \subseteq Macids
    /\ stale \subseteq Macids

\* A node is in the table exactly while it is in use, and where its id says, so
\* no two nodes have one id and no entry outlives its node; but for the ids of
\* nodes that were announced again, whose entries are never given out again.  A
\* node in use never has such an id, and the id of group-addressed frames is
\* never given out.
TableAgrees ==
    /\ \A n \in Nodes, i \in Macids \ stale :
          node_list[i] = n <=> life[n] = "used" /\ id[n] = i
    /\ \A i \in stale : node_list[i] # NoNode
    /\ \A n \in Nodes : life[n] = "used" => id[n] \notin stale
    /\ node_list[RTWN_MACID_BC] = NoNode

\* The handler of a report never works on a node that net80211 is freeing, if
\* the report is not for the old id of a node announced again.
ReportedInUse == rpt # NoNode => rpt[1] \in stale \/ life[rpt[2]] = "used"

\* (Not so: see the README.)
EveryReportInUse == rpt # NoNode => life[rpt[2]] = "used"

\* No change is under way, and every command has been executed.
Quiet ==
    /\ device = "running"
    /\ announcing = {}
    /\ fifo = <<>> /\ executing = NoCmd

\* Once the commands have run, the firmware, if it is loaded, takes those ids
\* for associated that are in the table, although an id may be given to the next
\* station before its predecessor's command has run, and although registers may
\* fail; but for ids whose last command was lost or failed.
MediaAgrees ==
    Quiet /\ fw => \A i \in Macids \ unsure : i \in media <=> node_list[i] # NoNode

\* The no-link bit of a station in the table is then clear, whatever happened
\* to other stations, if it is the bit of no other id.
OwnBit(i) == \A j \in Macids : Bit(j) = Bit(i) => j = i
LinkAgrees ==
    Quiet => \A i \in InTable \ unsure : OwnBit(i) => Bit(i) \notin no_link

\* r88e_macid_enable_link(): "id > 32" selects the second word.  (So ids 0 and 32
\* share a bit, and this is not so: see the README.)
EveryLinkAgrees ==
    Quiet => \A i \in InTable \ unsure : Bit(i) \notin no_link

\* What the chip knows of the stations is what the driver has in its table.
FirmwareAgrees == TypeOK /\ MediaAgrees /\ LinkAgrees
=============================================================================
