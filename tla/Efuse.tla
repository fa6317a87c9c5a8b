-------------------------------- MODULE Efuse --------------------------------
(***************************************************************************)
(* rtwn_efuse_read(): the ROM image of the device is stored in a write-    *)
(* once memory as packets, each a header (which 8-byte block, which of its *)
(* four words follow) and the words; a later packet overrides an earlier   *)
(* one, and a byte 0xff ends the list.  The driver reads it byte by byte   *)
(* through a register that may never answer.                               *)
(*                                                                         *)
(* A word of data differs in its low byte only; its two bytes are read in  *)
(* one step.                                                               *)
(***************************************************************************)
EXTENDS ChipParams, Sequences, SequencesExt, FiniteSets

CONSTANTS
    Images,         \* set of sequences of packets [off, words]
    Words,          \* the values of a word
    EFUSE_MAX_LEN   \* bound: cells of the memory (512 on the chips)

Erased == 255
BlockWords == 0 .. 3

\* words: from the words that follow the header to their values.
Packet == [off : 0 .. 127, words : UNION {[S -> Words] : S \in SUBSET BlockWords}]

ASSUME ImagesAssumption == Images \subseteq Seq(Packet)
ASSUME EfuseAssumption == EFUSE_MAX_LEN \in Nat \ {0}

VARIABLES
    image,          \* what the memory of this device holds
    rd              \* the state of the read

efuseVars == <<image, rd>>

---------------------------------------------------------------------------
(* How an image is stored. *)

\* In msk a 1 stands for a word that is absent.
Mask(p) == LET bit == [i \in BlockWords |-> IF i \in DOMAIN p.words THEN 0 ELSE 2 ^ i]
           IN bit[0] + bit[1] + bit[2] + bit[3]

Header(ext, p) ==
    IF ext /\ p.off >= 15 THEN <<(p.off % 8) * 32 + 15, (p.off \div 8) * 16 + Mask(p)>>
    ELSE <<p.off * 16 + Mask(p)>>

WordCells(p) ==
    LET present == SelectSeq(<<0, 1, 2, 3>>, LAMBDA i : i \in DOMAIN p.words)
    IN FlattenSeq([k \in DOMAIN present |-> <<p.words[present[k]], 0>>])

Stored(ext) ==
    FlattenSeq([k \in DOMAIN image |-> Header(ext, image[k]) \o WordCells(image[k])])

\* What the image says: the last packet that has a word gives its value.
Meaning ==
    LET has(k, w) == image[k].off = w \div 4 /\ (w % 4) \in DOMAIN image[k].words
        written == {w \in 0 .. 511 : \E k \in DOMAIN image : has(k, w)}
        last(w) == CHOOSE k \in DOMAIN image :
                       has(k, w) /\ \A j \in k + 1 .. Len(image) : ~has(j, w)
    IN [w \in written |-> image[last(w)].words[w % 4]]

---------------------------------------------------------------------------
(* Reading. *)

Idle == [at |-> "idle", next_rom_addr |-> 0, off |-> 0, todo |-> <<>>, rom |-> <<>>]

\* rtwn_efuse_read_next(): error unless the cell exists and the register answers.
Readable(n) == rd.next_rom_addr + n <= EFUSE_MAX_LEN
Cell(p) == LET mem == Stored(p.ext_hdr)
           IN IF rd.next_rom_addr < Len(mem) THEN mem[rd.next_rom_addr + 1] ELSE Erased

\* A read that fails ends the whole; the device's postread step still happens
\* (r92c_efuse_postread moves the address, and its own error is ignored).
ReadFails ==
    /\ rd.at \in {"header", "ext", "data"}
    /\ rd' = [rd EXCEPT !.at = "error"]
    /\ UNCHANGED image

\* The words that a mask announces, in order.
Announced(msk) == SelectSeq(<<0, 1, 2, 3>>, LAMBDA i : (msk \div (2 ^ i)) % 2 = 0)

\* A header that names a block: its words follow, if any.
Block(off, msk) ==
    [rd EXCEPT !.next_rom_addr = @ + 1, !.off = off, !.todo = Announced(msk),
               !.at = IF Announced(msk) = <<>> THEN "header" ELSE "data"]

\* The body of the loop for a header byte that has just been read.
Interpret(p, reg) ==
    IF reg = Erased THEN [rd EXCEPT !.at = "done", !.next_rom_addr = @ + 1]
    ELSE IF p.ext_hdr /\ reg % 32 = 15
    THEN [rd EXCEPT !.at = "ext", !.off = reg \div 32, !.next_rom_addr = @ + 1]
    ELSE Block(reg \div 16, reg % 16)

ReadHeader(p) ==
    /\ rd.at = "header"
    /\ Readable(1)
    /\ rd' = Interpret(p, Cell(p))
    /\ UNCHANGED image

\* Mutant: the extended header's block number assembled without the shift.
ReadExtended_NoShift(p) ==
    /\ rd.at = "ext"
    /\ Readable(1)
    /\ rd' = IF Cell(p) % 16 # 15 THEN Block((Cell(p) \div 16) * 16 + rd.off, Cell(p) % 16)
             ELSE Interpret(p, Cell(p))
    /\ UNCHANGED image

\* The second byte of an extended header.  Without any word ("continue") the
\* loop takes this byte for the next header.
ReadExtended(p) ==
    /\ rd.at = "ext"
    /\ Readable(1)
    /\ rd' = IF Cell(p) % 16 # 15 THEN Block((Cell(p) \div 16) * 8 + rd.off, Cell(p) % 16)
             ELSE Interpret(p, Cell(p))
    /\ UNCHANGED image

\* rtwn_efuse_read_data(): EFAULT for a word outside the image.
ReadData(p) ==
    /\ rd.at = "data"
    /\ Readable(2)
    /\ LET addr == rd.off * 8 + Head(rd.todo) * 2
       IN IF addr + 1 >= p.efuse_maplen THEN rd' = [rd EXCEPT !.at = "error"]
          ELSE rd' = [rd EXCEPT
                        !.rom = (addr \div 2 :> Cell(p)) @@ @,
                        !.next_rom_addr = @ + 2,
                        !.todo = Tail(@),
                        !.at = IF Len(rd.todo) = 1 THEN "header" ELSE "data"]
    /\ UNCHANGED image

Read(p) == ReadHeader(p) \/ ReadExtended(p) \/ ReadData(p)
=============================================================================
