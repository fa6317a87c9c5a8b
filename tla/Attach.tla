------------------------------- MODULE Attach -------------------------------
(***************************************************************************)
(* Attaching and detaching a device: rtwn_usb_attach(), rtwn_pci_attach()  *)
(* and the rtwn_attach() they share, each acquisition of which may fail,   *)
(* and the unwinding that follows; the endpoints and buffer pages that the *)
(* device is given; the chip's ROM (module Efuse).                         *)
(*                                                                         *)
(* An attach routine is a list of steps.  "held" is what the kernel has    *)
(* handed out, "ptr" the pointer fields of the softc that are not NULL:    *)
(* the unwinding looks at the fields, and a fault is recorded when what    *)
(* it then releases, or releases with, is not held.                        *)
(***************************************************************************)
EXTENDS Efuse, FiniteSetsExt

CONSTANTS
    Chips,          \* the chips of this instance
    Entries,        \* bound: descriptors of a ring, buffers of a list (1..)
    Queues          \* bound: PCI transmit rings (0..)

ASSUME ChipsAssumption == Chips \subseteq ChipNames
ASSUME SizesAssumption == Entries \in Nat \ {0} /\ Queues \in Nat \ {0}

RTWN_MAX_EPOUT == 4
Slots == 1 .. Entries
Rings == 1 .. Queues

VARIABLES
    chip, endpoints,    \* the device: its chip, its bulk-out endpoints
    phase,              \* "absent", "attaching", "unwinding", "attached", "detaching", "gone"
    todo,               \* the steps left
    held, ptr, faults,
    failed,             \* the resource whose acquisition failed
    pages               \* the reserved pages per priority queue

attachVars == <<chip, endpoints, phase, todo, held, ptr, faults, failed, pages>>
vars == <<attachVars, efuseVars>>

params == ParamsOf[chip]

---------------------------------------------------------------------------
(* Steps. *)

\* A resource: its kind, its ring, its place in the ring.
One(kind) == <<kind, 0, 0>>

\* Acquire; on failure run the unwinding OnFail(fail).
Get(res, fail) == <<[do |-> "get", res |-> res, fail |-> fail]>>
\* Acquire something that always succeeds (M_WAITOK, a lock).
Have(res) == <<[do |-> "have", res |-> res]>>
\* A step that may fail and holds nothing.
Try(res, fail) == <<[do |-> "try", res |-> res, fail |-> fail]>>
\* Release res if the fields "if" are not NULL, by means of "with"; "null"
\* says whether the field is cleared, "strict" whether releasing what is not
\* held is a fault (it is an error return otherwise).
Put(res, if, with, null) ==
    <<[do |-> "put", res |-> res, if |-> if, with |-> with, null |-> null, strict |-> TRUE]>>
PutQuietly(res, if) ==
    <<[do |-> "put", res |-> res, if |-> if, with |-> {}, null |-> FALSE, strict |-> FALSE]>>

Each(S, Op(_)) == FlattenSeq([i \in 1 .. Cardinality(S) |-> Op(i)])

rxTag == One("rx data_dmat")
rxDescTag == One("rx desc_dmat")
rxDesc == One("rx desc")
txTag(q) == <<"tx data_dmat", q, 0>>
txDescTag(q) == <<"tx desc_dmat", q, 0>>
txDesc(q) == <<"tx desc", q, 0>>
txMap(q, i) == <<"tx map", q, i>>

\* Maps that keep a DMA tag busy: bus_dma_tag_destroy() then does nothing.
MapsOf(tag) == IF tag = rxTag THEN {<<"rx map", 0, i>> : i \in Slots}
               ELSE {txMap(q, i) : q \in {r \in Rings : txTag(r) = tag}, i \in Slots}

---------------------------------------------------------------------------
(* PCI: rings of DMA descriptors. *)

rtwn_pci_alloc_rx_list ==
    Get(rxDescTag, "rx") \o Get(rxDesc, "rx") \o Try(One("rx desc load"), "rx") \o Get(rxTag, "rx")
    \o Each(Slots, LAMBDA i : Get(<<"rx map", 0, i>>, "rx") \o Get(<<"rx mbuf", 0, i>>, "rx")
                              \o Try(One("rx buf load"), "rx"))

rtwn_pci_free_rx_list ==
    Put(rxDesc, {rxDescTag, rxDesc}, {rxDescTag}, TRUE)
    \o Put(rxDescTag, {rxDescTag}, {}, TRUE)
    \o Each(Slots, LAMBDA i : Put(<<"rx mbuf", 0, i>>, {<<"rx mbuf", 0, i>>}, {rxTag}, TRUE)
                              \o Put(<<"rx map", 0, i>>, {}, {rxTag}, TRUE))
    \o Put(rxTag, {rxTag}, {}, TRUE)

\* A map that cannot be created is returned without freeing the list.
rtwn_pci_alloc_tx_list(q) ==
    Get(txDescTag(q), "tx") \o Get(txDesc(q), "tx") \o Try(<<"tx desc load", q, 0>>, "tx")
    \o Get(txTag(q), "tx") \o Each(Slots, LAMBDA i : Get(txMap(q, i), "detach"))

rtwn_pci_free_tx_list(q) ==
    Put(txDesc(q), {txDescTag(q), txDesc(q)}, {txDescTag(q)}, FALSE)
    \o Put(txDescTag(q), {txDescTag(q)}, {}, FALSE)
    \o Put(txTag(q), {txTag(q)}, {}, TRUE)

rtwn_cmdq_destroy == Put(One("cmdq_mtx"), {One("cmdq_mtx")}, {}, TRUE)

rtwn_detach ==
    Put(One("ieee80211"), {One("ieee80211")}, {One("cmdq_mtx"), One("nt_mtx"), One("sc_mtx")}, FALSE)
    \o rtwn_cmdq_destroy \o Put(One("nt_mtx"), {One("nt_mtx")}, {}, TRUE)

\* sc_detach_private is a NULL pointer until the private part is attached.
rtwn_detach_private == Put(One("private"), {}, {}, FALSE)

rtwn_pci_detach ==
    rtwn_detach \o PutQuietly(One("intr"), {One("irq")}) \o Put(One("irq"), {One("irq")}, {}, FALSE)
    \o PutQuietly(One("msi"), {One("irq")})
    \o Each(Rings, LAMBDA q : rtwn_pci_free_tx_list(q)) \o rtwn_pci_free_rx_list
    \o Put(One("mem"), {One("mem")}, {}, FALSE)
    \o rtwn_detach_private \o Put(One("sc_mtx"), {}, {}, FALSE)

\* The part that both buses share.
rtwn_attach ==
    Have(One("nt_mtx")) \o Have(One("cmdq_mtx")) \o Try(One("chipid"), "detach") \o Try(One("rom"), "detach")
    \o Try(One("txdesc_len"), "detach") \o Have(One("ieee80211"))

rtwn_pci_attach ==
    Try(One("PCIe capability"), "return") \o Get(One("mem"), "return") \o Get(One("msi"), "continue")
    \o Get(One("irq"), "detach") \o Have(One("sc_mtx")) \o Have(One("private"))
    \o rtwn_pci_alloc_rx_list \o Each(Rings, rtwn_pci_alloc_tx_list)
    \o rtwn_attach \o Get(One("intr"), "detach")

---------------------------------------------------------------------------
(* USB: lists of buffers. *)

rtwn_usb_alloc_list(name) == Each(Slots, LAMBDA i : Get(<<name, 0, i>>, name))
\* Mutant: the buffers of a list released without clearing the fields.
rtwn_usb_free_list_Dangling(name) ==
    Each(Slots, LAMBDA i : Put(<<name, 0, i>>, {<<name, 0, i>>}, {}, FALSE))

rtwn_usb_free_list(name) == Each(Slots, LAMBDA i : Put(<<name, 0, i>>, {<<name, 0, i>>}, {}, TRUE))

rtwn_usb_detach ==
    rtwn_detach \o rtwn_usb_free_list("tx buf") \o rtwn_usb_free_list("rx buf")
    \o Put(One("xfers"), {One("xfers")}, {}, TRUE)
    \o rtwn_detach_private \o Put(One("sc_mtx"), {}, {}, FALSE)

rtwn_usb_attach ==
    Have(One("sc_mtx")) \o Have(One("private")) \o Try(One("endpoints"), "detach") \o Get(One("xfers"), "detach")
    \o rtwn_usb_alloc_list("rx buf") \o rtwn_usb_alloc_list("tx buf") \o rtwn_attach

---------------------------------------------------------------------------
isPci == chip \in PciChips
Detaching == IF isPci THEN rtwn_pci_detach ELSE rtwn_usb_detach

\* q: the ring that could not be built.
OnFail(where, q) ==
    CASE where = "return" -> <<>>
      [] where = "detach" -> Detaching
      [] where = "rx" -> rtwn_pci_free_rx_list \o Detaching
      [] where \in {"rx buf", "tx buf"} -> rtwn_usb_free_list(where) \o Detaching
      [] where = "tx" -> rtwn_pci_free_tx_list(q) \o Detaching

\* Mutant: the remaining pages forgotten.
rtwn_usb_setup_queues_NoRest(n) ==
    LET nqueues == Min({n, 3})
        each == (params.page_count - params.npubqpages) \div nqueues
    IN [hq |-> each, nq |-> IF n >= 2 THEN each ELSE 0, lq |-> IF n >= 3 THEN each ELSE 0]

\* rtwn_usb_setup_queues(): what is not public is shared out, the rest is high.
rtwn_usb_setup_queues(n) ==
    LET nqueues == Min({n, 3})
        rest == params.page_count - params.npubqpages
        each == rest \div nqueues
    IN [hq |-> each + (rest % nqueues),
        nq |-> IF n >= 2 THEN each ELSE 0,
        lq |-> IF n >= 3 THEN each ELSE 0]

\* rtwn_usb_setup_endpoints() counts at most RTWN_MAX_EPOUT of them.
ntx == Min({endpoints, RTWN_MAX_EPOUT})

\* The endpoint (by its position) of the transfers of an access category.
Endpoint == [ac \in {"BE", "BK", "VI", "VO"} |->
    CASE ac = "VO" -> 0
      [] ac = "VI" -> IF ntx >= 3 THEN 1 ELSE 0
      [] OTHER -> IF ntx >= 3 THEN 2 ELSE IF ntx = 2 THEN 1 ELSE 0]

\* sc_get_qmap: two bits for each queue.
rtwn_usb_get_qmap == CASE ntx = 1 -> 65520 [] ntx = 2 -> 64240 [] OTHER -> 62896
Qmap == IF isPci THEN params.qmap ELSE rtwn_usb_get_qmap

---------------------------------------------------------------------------
(* The page table of the packet buffer, as rtwn_llt_init() writes it. *)

EndOfList == 255
rtwn_llt_init == [page \in 0 .. params.pktbuf_count - 1 |->
    CASE page < params.page_count -> page + 1
      [] page = params.page_count -> EndOfList
      [] page > params.page_count /\ page < params.pktbuf_count - 1 -> page + 1
      [] page = params.pktbuf_count - 1 -> params.page_count + 1]

tx_boundary == params.page_count + 1
R21A_BCNQ0_PAGE_COUNT == 8
r21a_init_bcnq1_boundary == params.page_count + R21A_BCNQ0_PAGE_COUNT + 1

---------------------------------------------------------------------------
Init ==
    /\ chip \in Chips
    /\ endpoints \in IF chip \in PciChips THEN {0} ELSE 0 .. RTWN_MAX_EPOUT + 1
    /\ phase = "absent" /\ todo = <<>>
    /\ held = {} /\ ptr = {} /\ faults = {} /\ failed = One("none")
    /\ pages = NoPages
    /\ image = <<>> /\ rd = Idle

\* The softc of a new device is zeroed.
AttachDevice ==
    /\ phase = "absent"
    /\ phase' = "attaching"
    /\ todo' = IF isPci THEN rtwn_pci_attach ELSE rtwn_usb_attach
    /\ pages' = params.pages
    /\ UNCHANGED <<chip, endpoints, held, ptr, faults, failed, efuseVars>>

step == Head(todo)
Next1 == todo' = Tail(todo)
Doing(do) == todo # <<>> /\ step.do = do

\* When the transfers are set up, the pages are shared out (if not done).
Acquire ==
    /\ phase = "attaching" /\ (Doing("get") \/ Doing("have"))
    /\ held' = held \union {step.res} /\ ptr' = ptr \union {step.res}
    /\ pages' = IF step.res = One("xfers") /\ pages = NoPages
                THEN rtwn_usb_setup_queues(ntx) ELSE pages
    /\ Next1
    /\ UNCHANGED <<chip, endpoints, phase, faults, failed, efuseVars>>

\* "goto detach" and "return (error)".
Unwind(where) ==
    /\ failed' = step.res
    /\ IF where = "continue" THEN Next1 /\ UNCHANGED phase
       ELSE todo' = OnFail(where, step.res[2]) /\ phase' = "unwinding"
    /\ UNCHANGED <<chip, endpoints, held, ptr, faults, pages>>

AcquireFails == phase = "attaching" /\ Doing("get") /\ Unwind(step.fail) /\ UNCHANGED efuseVars

\* What makes a step without a resource succeed or fail.
MayPass == CASE step.res = One("endpoints") -> ntx # 0
             [] step.res = One("txdesc_len") -> params.txdesc_len <= RTWN_TX_DESC_SIZE
             [] OTHER -> TRUE
MayFail == step.res \in {One("endpoints"), One("txdesc_len")} => ~MayPass

Passes ==
    /\ phase = "attaching" /\ Doing("try") /\ step.res # One("rom") /\ MayPass
    /\ Next1
    /\ UNCHANGED <<chip, endpoints, phase, held, ptr, faults, failed, pages, efuseVars>>

Fails ==
    /\ phase = "attaching" /\ Doing("try") /\ step.res # One("rom") /\ MayFail
    /\ Unwind(step.fail) /\ UNCHANGED efuseVars

\* rtwn_read_rom()
RomImages == {im \in Images : params.ext_hdr \/ \A k \in DOMAIN im : im[k].off <= 15}
ReadRom ==
    /\ phase = "attaching" /\ Doing("try") /\ step.res = One("rom") /\ rd.at = "idle"
    /\ image' \in RomImages
    /\ \/ rd' = [Idle EXCEPT !.at = "header"]
       \/ rd' = [Idle EXCEPT !.at = "error"]   \* rtwn_efuse_switch_power()
    /\ UNCHANGED attachVars

RomStep ==
    /\ phase = "attaching" /\ rd.at \notin {"idle", "done", "error"}
    /\ Read(params) \/ ReadFails
    /\ UNCHANGED attachVars

RomDone ==
    /\ phase = "attaching" /\ Doing("try") /\ step.res = One("rom") /\ rd.at \in {"done", "error"}
    /\ IF rd.at = "error" THEN Unwind(step.fail)
       ELSE Next1 /\ UNCHANGED <<chip, endpoints, phase, held, ptr, faults, failed, pages>>
    /\ UNCHANGED efuseVars

Attached ==
    /\ phase = "attaching" /\ todo = <<>>
    /\ phase' = "attached"
    /\ UNCHANGED <<chip, endpoints, todo, held, ptr, faults, failed, pages, efuseVars>>

Detach ==
    /\ phase = "attached"
    /\ phase' = "detaching" /\ todo' = Detaching
    /\ UNCHANGED <<chip, endpoints, held, ptr, faults, failed, pages, efuseVars>>

\* One step of an unwinding.
Release ==
    /\ phase \in {"unwinding", "detaching"} /\ Doing("put")
    /\ IF step.if \subseteq ptr
       THEN /\ held' = IF MapsOf(step.res) \intersect held # {} THEN held ELSE held \ {step.res}
            /\ faults' = faults \union
                  (IF step.strict THEN ({step.res} \union step.with) \ held ELSE {})
            /\ ptr' = IF step.null THEN ptr \ {step.res} ELSE ptr
       ELSE UNCHANGED <<held, faults, ptr>>
    /\ Next1
    /\ UNCHANGED <<chip, endpoints, phase, failed, pages, efuseVars>>

\* The bus drops the softc.
Released ==
    /\ phase \in {"unwinding", "detaching"} /\ todo = <<>>
    /\ phase' = "gone" /\ ptr' = {}
    /\ UNCHANGED <<chip, endpoints, todo, held, faults, failed, pages, efuseVars>>

Next == AttachDevice \/ Acquire \/ AcquireFails \/ Passes \/ Fails \/ ReadRom \/ RomStep
        \/ RomDone \/ Attached \/ Detach \/ Release \/ Released

Spec == Init /\ [][Next]_vars
---------------------------------------------------------------------------
(* Properties. *)

\* The acquisitions after whose failure the PCI routine releases what it does
\* not hold: the interrupt, before the lock and the private part exist; the
\* receive list, whose maps rtwn_pci_free_rx_list() always destroys; and the
\* descriptors of a transmit ring, whose pointers stay set after the first
\* rtwn_pci_free_tx_list().
UnsafeToFail ==
    {One(name) : name \in {"irq", "rx desc load", "rx buf load"}}
    \union {rxDescTag, rxDesc, rxTag}
    \union {<<kind, 0, i>> : kind \in {"rx map", "rx mbuf"}, i \in Slots}
    \union {<<"tx desc load", q, 0>> : q \in Rings} \union {txDesc(q) : q \in Rings} \union {txTag(q) : q \in Rings}

\* The maps of the transmit rings are never destroyed, which keeps their tags.
NeverReleased == {txTag(q) : q \in Rings} \union {txMap(q, i) : q \in Rings, i \in Slots}

\* However far an attach got, and after every detach, each thing that was
\* acquired is released once, by means of things still held, and nothing is
\* left: always on USB, and on PCI but for the cases named above.
\* (rtwn_usb_attach, rtwn_pci_attach: "goto detach".)
UnwindsClean ==
    /\ faults # {} => isPci /\ failed \in UnsafeToFail
    /\ phase = "gone" /\ faults = {} => held \subseteq NeverReleased

\* Two bits of the queue map: 3, 2, 1 are the high, normal and low queue.
FifoOf(queue) == (Qmap \div (CASE queue = "VO" -> 16 [] queue = "VI" -> 64
                               [] queue = "BE" -> 256 [] queue = "BK" -> 1024
                               [] queue = "MG" -> 4096 [] queue = "HI" -> 16384)) % 4
Reserved(fifo) == CASE fifo = 3 -> pages.hq [] fifo = 2 -> pages.nq [] fifo = 1 -> pages.lq
                    [] OTHER -> 0

\* Every page that can be transmitted from is given to exactly one queue or to
\* all; every queue is mapped to one that has pages of its own; and on USB to
\* the one that its endpoint feeds (rtwn_usb_setup_endpoints: "keep in sync
\* with rtwn_dma_init()").
PagesShared ==
    /\ pages.hq + pages.nq + pages.lq + params.npubqpages = params.page_count
    /\ \A queue \in {"VO", "VI", "BE", "BK", "MG", "HI"} : Reserved(FifoOf(queue)) > 0
    /\ ~isPci => \A ac \in DOMAIN Endpoint : FifoOf(ac) = 3 - Endpoint[ac]

\* Following the page table from page 0 visits every transmit page once and
\* ends; from the boundary it visits all other pages and returns, and the
\* second beacon queue starts inside that ring.
PageTableSound ==
    LET llt == rtwn_llt_init
        n == params.pktbuf_count - tx_boundary
        walk(from, len) ==
            LET at[i \in 0 .. len] == IF i = 0 THEN from ELSE llt[at[i - 1]] IN at
        list == walk(0, params.page_count)
        ring == walk(tx_boundary, n)
    IN /\ ToSet(list) = 0 .. params.page_count
       /\ llt[list[params.page_count]] = EndOfList
       /\ {ring[i] : i \in 0 .. n - 1} = tx_boundary .. params.pktbuf_count - 1
       /\ ring[n] = tx_boundary
       /\ params.bcnq1 => r21a_init_bcnq1_boundary \in tx_boundary + 1 .. params.pktbuf_count - 1

\* A device that attached has a consistent plan of its packet buffer.
BufferPlanned == phase = "attached" => PagesShared /\ PageTableSound

\* A ROM that was read without an error holds what was programmed; but for an
\* extended header without words, whose second byte is taken for a header.
\* (rtwn_efuse_read.)
NoEmptyExtended == \A k \in DOMAIN image : image[k].off >= 15 => image[k].words # <<>>
RomAgrees == rd.at = "done" /\ NoEmptyExtended => rd.rom = Meaning

=============================================================================
