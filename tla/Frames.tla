------------------------------- MODULE Frames -------------------------------
(***************************************************************************)
(* Frames as the hardware sees them: the transmit descriptor that the      *)
(* driver fills, and what it reads from a receive descriptor.              *)
(*                                                                         *)
(* A descriptor is the set of its bits that are 1, as pairs of a word and  *)
(* a bit.  A field is a word, a shift and a width; the two families of     *)
(* chips give the same names to fields in different places, so that one    *)
(* operator per kind of frame stands for the routine of both.              *)
(***************************************************************************)
EXTENDS ChipParams, Integers, Sequences, FiniteSetsExt

---------------------------------------------------------------------------
(* Rates: if_rtwn_ridx.h. *)

RTWN_RIDX_UNKNOWN == 255
ridx2rate == <<2, 4, 11, 22, 12, 18, 24, 36, 48, 72, 96, 108>>
IsCck(ridx) == ridx <= 3
IsMcs(ridx) == ridx >= 12 /\ ridx # RTWN_RIDX_UNKNOWN
\* MCS rates have bit 7 set.
rate2ridx(rate) ==
    IF rate >= 128 THEN (rate % 16) + 12
    ELSE IF \E i \in 1 .. 12 : ridx2rate[i] = rate
    THEN (CHOOSE i \in 1 .. 12 : ridx2rate[i] = rate) - 1
    ELSE RTWN_RIDX_UNKNOWN

---------------------------------------------------------------------------
(* Fields: SM() and MS() of if_rtwnreg.h. *)

BitsOf(v, n) == {i \in 0 .. n - 1 : (v \div 2 ^ i) % 2 = 1}
SM(field, v) == {<<field[1], field[2] + i>> : i \in BitsOf(v, field[3])}
MS(desc, field) ==
    SumSet({2 ^ i : i \in {j \in 0 .. field[3] - 1 : <<field[1], field[2] + j>> \in desc}})

r92c_tx_desc == [
    BMCAST |-> <<0, 24, 1>>, LSG |-> <<0, 26, 1>>, FSG |-> <<0, 27, 1>>, OWN |-> <<0, 31, 1>>,
    MACID |-> <<1, 0, 5>>, AGGEN |-> <<1, 5, 1>>, AGGBK |-> <<1, 6, 1>>, QSEL |-> <<1, 8, 5>>,
    RAID |-> <<1, 16, 4>>, CIPHER |-> <<1, 22, 2>>, RPT |-> <<2, 19, 1>>,
    AMPDU_DEN |-> <<2, 20, 3>>, SEQ |-> <<3, 16, 16>>,
    RTSRATE |-> <<4, 0, 6>>, SEQ_SEL |-> <<4, 6, 1>>, HWSEQ_EN |-> <<4, 7, 1>>,
    DRVRATE |-> <<4, 8, 1>>, CTS2SELF |-> <<4, 11, 1>>, RTSEN |-> <<4, 12, 1>>,
    PORT_ID |-> <<4, 14, 1>>, SUBCHAN |-> <<4, 20, 2>>, SHPRE |-> <<4, 24, 1>>,
    BW40 |-> <<4, 25, 1>>, RTS_SHORT |-> <<4, 26, 1>>,
    DATARATE |-> <<5, 0, 6>>, SGI |-> <<5, 6, 1>>, RATE_FB |-> <<5, 8, 5>>,
    RTS_FB |-> <<5, 13, 4>>, RTY_ENA |-> <<5, 17, 1>>, RTY_LMT |-> <<5, 18, 6>>,
    MAX_AGG |-> <<6, 11, 5>>]

r88e_tx_desc == [r92c_tx_desc EXCEPT
    !.MACID = <<1, 0, 6>>, !.AGGEN = <<2, 12, 1>>, !.AGGBK = <<2, 16, 1>>,
    !.HWSEQ_EN = <<3, 31, 1>>]

\* One bit is both the short preamble and the short guard interval.
r12a_tx_desc == [
    BMCAST |-> <<0, 24, 1>>, LSG |-> <<0, 26, 1>>, FSG |-> <<0, 27, 1>>, OWN |-> <<0, 31, 1>>,
    MACID |-> <<1, 0, 6>>, QSEL |-> <<1, 8, 5>>, RAID |-> <<1, 16, 5>>, CIPHER |-> <<1, 22, 2>>,
    AGGEN |-> <<2, 12, 1>>, AGGBK |-> <<2, 16, 1>>, RPT |-> <<2, 19, 1>>,
    AMPDU_DEN |-> <<2, 20, 3>>,
    SEQ_SEL |-> <<3, 6, 2>>, DRVRATE |-> <<3, 8, 1>>, CTS2SELF |-> <<3, 11, 1>>,
    RTSEN |-> <<3, 12, 1>>, MAX_AGG |-> <<3, 17, 5>>,
    DATARATE |-> <<4, 0, 7>>, RATE_FB |-> <<4, 8, 5>>, RTS_FB |-> <<4, 13, 4>>,
    RTY_ENA |-> <<4, 17, 1>>, RTY_LMT |-> <<4, 18, 6>>, RTSRATE |-> <<4, 24, 5>>,
    SUBCHAN |-> <<5, 0, 4>>, SHPRE |-> <<5, 4, 1>>, SGI |-> <<5, 4, 1>>,
    BW40 |-> <<5, 5, 2>>, RTS_SHORT |-> <<5, 12, 1>>, PORT_ID |-> <<6, 12, 4>>,
    HWSEQ_EN |-> <<8, 15, 1>>, SEQ |-> <<9, 12, 12>>]

Layout(chip) == CASE chip \in {"r92ce", "r92cu"} -> r92c_tx_desc
                  [] chip \in {"r88ee", "r88eu"} -> r88e_tx_desc
                  [] chip \in {"r12au", "r21au"} -> r12a_tx_desc

---------------------------------------------------------------------------
(* Transmission.  A request rq is a frame with its destination:            *)
(*   type "data" or "mgt", mcast, qos, noack, tid, ampdu, long (above the  *)
(*   RTS threshold), raw, tmpl (a template of the firmware), eapol, cipher, seq (given by net80211)                *)
(*   id, ht, mode, ht40 ("no", "up", "down"), sgi (set of 20, 40), vap     *)
(* ic is what holds for all: ratectl ("none", "fw", "net80211"), ucast     *)
(* (fixed rate or 0), shpre, prot, htprot, useprot, pure.                  *)

QSEL_MGNT == 18
RTWN_MACID_BC == 1
RTWN_MAX_TID == 8

rtwn_get_cipher(cipher) == CASE cipher = "none" -> 0 [] cipher \in {"wep", "tkip"} -> 1
                             [] cipher = "ccmp" -> 3

\* The choice of a rate in rtwn_tx_data(); 2 stands for the rates that net80211
\* gives for management and multicast frames.
tx_rate(rq, ic) ==
    IF rq.type = "mgt" \/ rq.mcast THEN 2
    ELSE IF ic.ucast # 0 THEN ic.ucast
    ELSE IF rq.eapol THEN 2
    ELSE IF ic.ratectl = "net80211" THEN rq.txrate
    ELSE IF rq.ht THEN 128 + 4
    ELSE IF rq.mode # "11b" THEN 72
    ELSE 11

\* The rate of a control frame, from net80211's rate table: the highest
\* mandatory rate of the kind that is not above the frame's.
ctl_ridx(ridx) == IF IsMcs(ridx) THEN 8 ELSE IF IsCck(ridx) THEN ridx
                  ELSE Max({r \in {4, 6, 8} : r <= ridx})

r92c_tx_set_ht40(L, rq) ==
    IF rq.ht40 = "no" THEN {}
    ELSE SM(L.BW40, 1) \union SM(L.SUBCHAN, IF rq.ht40 = "up" THEN 1 ELSE 2)
r12a_tx_set_ht40(L, rq) ==
    IF rq.ht40 = "no" THEN {}
    ELSE SM(L.BW40, 1) \union SM(L.SUBCHAN, IF rq.ht40 = "up" THEN 2 ELSE 1)

tx_set_sgi(L, rq) ==
    IF 20 \in rq.sgi \/ (40 \in rq.sgi /\ rq.ht40 # "no") THEN SM(L.SGI, 1) ELSE {}

r92c_tx_protection(L, prot, ridx, ic) ==
    LET ctl == ctl_ridx(ridx)
    IN IF prot = "none" THEN {}
       ELSE SM(IF prot = "cts" THEN L.CTS2SELF ELSE L.RTSEN, 1)
            \union SM(L.RTSRATE, ctl) \union SM(L.RTS_FB, 15)
            \union (IF IsCck(ctl) /\ ctl # 0 /\ ic.shpre THEN SM(L.RTS_SHORT, 1) ELSE {})
r12a_tx_protection(L, prot, ridx, ic) == r92c_tx_protection(L, prot, ridx, ic)

\* Group addressed and non-HT frames of an HT channel go at 11bg (11a) rates.
Mode(rq) == IF rq.mcast \/ ~rq.ht
            THEN CASE rq.mode = "11ng" -> "11g" [] rq.mode = "11na" -> "11a" [] OTHER -> rq.mode
            ELSE rq.mode
\* Without a match the field stays 0.
r92c_tx_raid(rq, ic, chains) ==
    CASE Mode(rq) = "11b" -> 6
      [] Mode(rq) = "11g" -> IF ic.pure THEN 5 ELSE 4
      [] Mode(rq) = "11ng" -> IF ic.pure THEN 3 ELSE 0
      [] OTHER -> 0
r12a_tx_raid(rq, ic, chains) ==
    CASE Mode(rq) = "11a" -> 7
      [] Mode(rq) = "11b" -> 8
      [] Mode(rq) = "11g" -> IF ic.pure THEN 7 ELSE 6
      [] Mode(rq) = "11na" -> IF chains = 1 THEN 5 ELSE 4
      [] Mode(rq) = "11ng" -> (IF rq.ht40 = "no" THEN 2 ELSE 0) + (IF chains = 1 THEN 1 ELSE 0)
      [] OTHER -> 0

\* The sequence number: the hardware's for frames without one.  "seq" of an
\* aggregated frame is the node's own counter, of 16 bits.
tx_sequence(L, rq, seq) ==
    IF ~rq.qos THEN SM(L.HWSEQ_EN, 1) \union SM(L.SEQ_SEL, rq.vap)
    ELSE SM(L.SEQ, IF rq.ampdu THEN seq ELSE rq.seq % 4096)

\* How the frame is to be protected.
protection(rq, ridx, ic) ==
    CASE rq.long -> "rts"
      [] ~rq.long /\ IsMcs(ridx) -> ic.htprot
      [] OTHER -> IF ic.useprot THEN ic.prot ELSE "none"

aggregation(L, rq) ==
    IF rq.ampdu THEN SM(L.AGGEN, 1) \union SM(L.AMPDU_DEN, 5) \union SM(L.MAX_AGG, 31)
    ELSE SM(L.AGGBK, 1)

ReportWanted(rq, ic) == ~rq.mcast /\ rq.type = "data" /\ ic.ratectl = "net80211"

\* The part for unicast data frames.
data_bits(L, rq, ridx, ic, SetHt40(_, _), Protect(_, _, _, _)) ==
    aggregation(L, rq)
    \union (IF ReportWanted(rq, ic) THEN SM(L.RPT, 1) ELSE {})
    \union (IF IsCck(ridx) /\ ridx # 0 /\ ic.shpre THEN SM(L.SHPRE, 1) ELSE {})
    \union (IF IsMcs(ridx) THEN SetHt40(L, rq) \union tx_set_sgi(L, rq) ELSE {})
    \union Protect(L, protection(rq, ridx, ic), ridx, ic)

\* Mutant: the traffic identifier taken for the queue as it is.
fill_tx_desc_RawTid(L, rq, ridx, maxretry, seq, ic, raid, data) ==
    SM(L.LSG, 1) \union SM(L.FSG, 1) \union (IF rq.mcast THEN SM(L.BMCAST, 1) ELSE {})
    \union SM(L.QSEL, IF ~rq.mcast /\ rq.type = "data" THEN rq.tid ELSE QSEL_MGNT)
    \union SM(L.MACID, IF rq.mcast THEN RTWN_MACID_BC ELSE rq.id)
    \union (IF ~rq.mcast /\ rq.type = "data" THEN data ELSE {})
    \union SM(L.DATARATE, ridx) \union SM(L.PORT_ID, rq.vap) \union tx_sequence(L, rq, seq)

\* The two routines have this shape.
fill_tx_desc(L, rq, ridx, maxretry, seq, ic, raid, data) ==
    SM(L.LSG, 1) \union SM(L.FSG, 1) \union (IF rq.mcast THEN SM(L.BMCAST, 1) ELSE {})
    \union (IF ~rq.mcast /\ ~rq.noack THEN SM(L.RTY_ENA, 1) \union SM(L.RTY_LMT, maxretry) ELSE {})
    \union SM(L.QSEL, IF ~rq.mcast /\ rq.type = "data" THEN rq.tid % RTWN_MAX_TID ELSE QSEL_MGNT)
    \union SM(L.MACID, IF rq.mcast THEN RTWN_MACID_BC ELSE rq.id)
    \union (IF ~rq.mcast /\ rq.type = "data" THEN data ELSE {})
    \union SM(L.DATARATE, ridx) \union SM(L.RATE_FB, 31) \union SM(L.PORT_ID, rq.vap)
    \union SM(L.RAID, raid)
    \union (IF ic.ratectl # "fw" THEN SM(L.DRVRATE, 1) ELSE {})
    \union tx_sequence(L, rq, seq)

r92c_fill_tx_desc(L, rq, ridx, seq, ic, chains) ==
    fill_tx_desc(L, rq, ridx, 6, seq, ic, r92c_tx_raid(rq, ic, chains),
                 data_bits(L, rq, ridx, ic, r92c_tx_set_ht40, r92c_tx_protection))
r12a_fill_tx_desc(L, rq, ridx, seq, ic, chains) ==
    fill_tx_desc(L, rq, ridx, 6, seq, ic, r12a_tx_raid(rq, ic, chains),
                 data_bits(L, rq, ridx, ic, r12a_tx_set_ht40, r12a_tx_protection))

\* With parameters given: rate, prot ("none", "rts", "cts"), noack.
fill_tx_desc_raw(L, rq, ridx, raid, protect) ==
    SM(L.LSG, 1) \union SM(L.FSG, 1) \union (IF rq.mcast THEN SM(L.BMCAST, 1) ELSE {})
    \union (IF rq.noack THEN {} ELSE SM(L.RTY_ENA, 1) \union SM(L.RTY_LMT, 1))
    \union protect \union SM(L.MACID, RTWN_MACID_BC) \union SM(L.QSEL, QSEL_MGNT)
    \union SM(L.DATARATE, ridx) \union SM(L.RATE_FB, 31) \union SM(L.PORT_ID, rq.vap)
    \union SM(L.DRVRATE, 1) \union SM(L.RAID, raid)
    \union tx_sequence(L, [rq EXCEPT !.ampdu = FALSE], 0)
r92c_fill_tx_desc_raw(L, rq, ridx, ic, chains) ==
    fill_tx_desc_raw(L, rq, ridx, r92c_tx_raid(rq, ic, chains),
                     r92c_tx_protection(L, rq.rawprot, ridx, ic))
r12a_fill_tx_desc_raw(L, rq, ridx, ic, chains) ==
    fill_tx_desc_raw(L, rq, ridx, r12a_tx_raid(rq, ic, chains),
                     r12a_tx_protection(L, rq.rawprot, ridx, ic))

\* The template frames of the reserved pages.
r92c_fill_tx_desc_null(L, is11b, qos, id) ==
    SM(L.FSG, 1) \union SM(L.LSG, 1) \union SM(L.OWN, 1) \union SM(L.QSEL, QSEL_MGNT)
    \union SM(L.DRVRATE, 1) \union SM(L.PORT_ID, id) \union SM(L.DATARATE, IF is11b THEN 0 ELSE 4)
    \union (IF qos THEN {} ELSE SM(L.HWSEQ_EN, 1) \union SM(L.SEQ_SEL, id))
r12a_fill_tx_desc_null(L, is11b, qos, id) == r92c_fill_tx_desc_null(L, is11b, qos, id)
fill_tx_desc_null(chip, is11b, qos, id) ==
    IF chip \in {"r12au", "r21au"} THEN r12a_fill_tx_desc_null(Layout(chip), is11b, qos, id)
    ELSE r92c_fill_tx_desc_null(Layout(chip), is11b, qos, id)

\* rtwn_tx_data(), rtwn_tx_raw(): the descriptor is cleared, the cipher set,
\* and the chip's routine fills in the rest.
rtwn_tx_data(chip, rq, seq, ic) ==
    LET L == Layout(chip)
        ridx == rate2ridx(tx_rate(rq, ic))
        chains == ParamsOf[chip].txchains
    IN SM(L.CIPHER, rtwn_get_cipher(rq.cipher)) \union
       (IF chip \in {"r12au", "r21au"} THEN r12a_fill_tx_desc(L, rq, ridx, seq, ic, chains)
        ELSE r92c_fill_tx_desc(L, rq, ridx, seq, ic, chains))
rtwn_tx_raw(chip, rq, ic) ==
    LET L == Layout(chip)
        ridx == rate2ridx(rq.txrate)
        chains == ParamsOf[chip].txchains
    IN SM(L.CIPHER, rtwn_get_cipher(rq.cipher)) \union
       (IF chip \in {"r12au", "r21au"} THEN r12a_fill_tx_desc_raw(L, rq, ridx, ic, chains)
        ELSE r92c_fill_tx_desc_raw(L, rq, ridx, ic, chains))

\* What is shown to a monitor: "pre" short preamble, "gi" short guard interval.
r92c_tx_radiotap_flags(L, d) == (IF MS(d, L.SHPRE) = 1 THEN {"pre"} ELSE {})
                                \union (IF MS(d, L.SGI) = 1 THEN {"gi"} ELSE {})
r12a_tx_radiotap_flags(L, d) == IF MS(d, L.SHPRE) = 0 THEN {}
                                ELSE IF IsCck(MS(d, L.DATARATE)) THEN {"pre"} ELSE {"gi"}

---------------------------------------------------------------------------
(* Reception.  A packet rp: kind ("data", "report", "c2h"), len (of the    *)
(* frame), infosz, physt, err (CRC or ICV), cksum ("none", "good", "bad"), *)
(* rate, agc (the byte that the signal is computed from), macid.           *)

DataKind == "data"
\* The kind that the handler sees; a report is at least two bytes long.
r92c_classify_intr(rp) == DataKind
r88e_classify_intr(rp) == rp.kind
r12au_classify_intr(rp) == IF rp.len < 2 THEN DataKind ELSE rp.kind
classify_intr(chip, rp) == CASE chip \in {"r92ce", "r92cu"} -> r92c_classify_intr(rp)
                             [] chip \in {"r88ee", "r88eu"} -> r88e_classify_intr(rp)
                             [] OTHER -> r12au_classify_intr(rp)

roundup2(x, n) == ((x + n - 1) \div n) * n
r92cu_align_rx(totlen, len) == roundup2(totlen, 128)
r12au_align_rx(totlen, len) == IF totlen < len THEN roundup2(totlen, 8) ELSE totlen
align_rx(chip, totlen, len) == IF chip \in {"r92cu", "r88eu"} THEN r92cu_align_rx(totlen, len)
                               ELSE r12au_align_rx(totlen, len)

\* A byte kept in a signed variable.
Int8(x) == ((x + 128) % 256) - 128

r92c_get_rssi_cck(agc, hipwr) ==
    LET cckoff == <<16, -12, -26, -46>>
        rpt == IF hipwr THEN (agc \div 32) % 4 ELSE agc \div 64
        gain == IF hipwr THEN (agc % 32) * 2 ELSE 2 * ((agc \div 2) % 32)
    IN Int8(cckoff[rpt + 1] - gain)

r88e_get_rssi_cck(agc, hipwr) ==
    LET lna == agc \div 32
        vga == agc % 32
        rssi == 6 - 2 * vga
    IN Int8(CASE lna = 7 -> IF vga > 27 THEN -94 ELSE rssi - 46
              [] lna = 6 -> rssi - 44 [] lna = 5 -> rssi - 28 [] lna = 4 -> rssi - 22
              [] lna = 3 -> rssi - 10 [] lna = 2 -> rssi + (IF hipwr THEN -2 ELSE 4)
              [] lna = 1 -> rssi + 8 [] lna = 0 -> rssi + 14)

r92c_get_rssi_ofdm(agc) == ((agc \div 2) % 128) - 110
r88e_get_rssi_ofdm(agc) == ((agc \div 2) % 128) - 110

r21a_get_rssi_cck(agc) ==
    LET lna == agc \div 32
    IN Int8(-6 - 2 * (agc % 32) + (CASE lna = 5 -> -32 [] lna = 4 -> -24 [] lna = 2 -> -11
                                     [] lna = 1 -> 5 [] lna = 0 -> 21 [] OTHER -> 0))

rtwn_get_rssi(chip, rate, agc, hipwr) ==
    CASE IsCck(rate) /\ chip \in {"r92ce", "r92cu"} -> r92c_get_rssi_cck(agc, hipwr)
      [] IsCck(rate) /\ chip \in {"r88ee", "r88eu", "r12au"} -> r88e_get_rssi_cck(agc, hipwr)
      [] IsCck(rate) /\ chip = "r21au" -> r21a_get_rssi_cck(agc)
      [] ~IsCck(rate) /\ chip \in {"r92ce", "r92cu"} -> r92c_get_rssi_ofdm(agc)
      [] OTHER -> r88e_get_rssi_ofdm(agc)

\* Mutant: the gain of CCK added after the limit.
pwdb_of_LateGain(rssi, rate) ==
    LET pwdb == IF rssi <= -100 \/ rssi >= 20 THEN 0 ELSE IF rssi >= 0 THEN 100 ELSE 100 + rssi
    IN IF IsCck(rate) THEN pwdb + 6 ELSE pwdb

\* rtwn_update_avgrssi(): the signal in percent ...
pwdb_of(rssi, rate) ==
    LET pwdb == IF rssi <= -100 \/ rssi >= 20 THEN 0 ELSE IF rssi >= 0 THEN 100 ELSE 100 + rssi
        cck == Min({pwdb + 6, 100})
    IN IF ~IsCck(rate) THEN pwdb
       ELSE cck - (CASE cck <= 14 -> 4 [] cck > 14 /\ cck <= 26 -> 8
                     [] cck > 26 /\ cck <= 34 -> 6 [] cck > 34 /\ cck <= 42 -> 2 [] OTHER -> 0)
\* ... and its average; -1 is none yet.
rtwn_update_avgrssi(avg, pwdb) ==
    IF avg = -1 THEN pwdb
    ELSE ((avg * 19 + pwdb) \div 20) + (IF avg < pwdb THEN 1 ELSE 0)

\* The node's and the device's last signal after a frame (rtwn_rx_common).
rtwn_rx_common(chip, rp, node, hipwr) ==
    IF rp.infosz # 0 /\ rp.physt
    THEN LET rssi == rtwn_get_rssi(chip, rp.rate, rp.agc, hipwr)
         IN [last_rssi |-> rssi,
             avg_pwdb |-> rtwn_update_avgrssi(node.avg_pwdb, pwdb_of(rssi, rp.rate))]
    ELSE node

\* sc_check_frame: frames whose checksum the hardware found to be wrong.
r12a_check_frame_checksum(chip, rp) == chip \in {"r12au", "r21au"} => rp.cksum # "bad"
=============================================================================
