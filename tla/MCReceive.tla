----------------------------- MODULE MCReceive -----------------------------
(* Receive on all six chips, with a ring of two descriptors. *)
EXTENDS Receive

Frame(len, infosz, err, cksum, rate, agc) ==
    [kind |-> "data", len |-> len, infosz |-> infosz, physt |-> infosz > 0, err |-> err,
     cksum |-> cksum, rate |-> rate, agc |-> agc, macid |-> 0]
MCPackets == {Frame(100, 32, FALSE, "none", 0, 1), Frame(100, 32, TRUE, "none", 12, 8),
              [Frame(12, 0, FALSE, "none", 0, 0) EXCEPT !.kind = "c2h"]}

WrongSum == Frame(64, 32, FALSE, "bad", 11, 3)
Weak == Frame(60, 32, FALSE, "none", 2, 62)
MCTransfers ==
    {[pkts |-> p, tail |-> t] :
        p \in {<<Weak, Frame(45, 32, FALSE, "good", 11, 0)>>, <<Weak, WrongSum, Weak>>,
               <<Frame(8, 0, FALSE, "none", 0, 0), Weak>>, <<Frame(100, 32, TRUE, "none", 12, 8), Weak, Weak>>},
        t \in {"padded", "bare", "cut"}}

B == [type |-> "data", mcast |-> FALSE, qos |-> FALSE, noack |-> FALSE, tid |-> 0,
      ampdu |-> FALSE, long |-> FALSE, eapol |-> FALSE, cipher |-> "none", seq |-> 77,
      id |-> 2, ht |-> FALSE, mode |-> "11b", ht40 |-> "no", sgi |-> {}, vap |-> 0,
      txrate |-> 22, raw |-> FALSE, rawprot |-> "none",
      tmpl |-> FALSE]
G == [B EXCEPT !.mode = "11g", !.txrate = 72, !.vap = 1, !.cipher = "ccmp"]
H == [B EXCEPT !.mode = "11ng", !.ht = TRUE, !.qos = TRUE, !.tid = 5, !.txrate = 135, !.sgi = {20}]
H40 == [H EXCEPT !.ht40 = "up", !.sgi = {40}, !.ampdu = TRUE, !.tid = 12, !.cipher = "tkip"]
Bases == {B, G, H, H40}
Frames ==
    Bases \union {[b EXCEPT !.type = "mgt"] : b \in {B, G}}
          \union {[b EXCEPT !.mcast = TRUE] : b \in {B, G}}
          \union {[b EXCEPT !.noack = TRUE] : b \in {H}}
          \union {[b EXCEPT !.long = TRUE] : b \in {B, H40}}
          \union {[b EXCEPT !.eapol = TRUE] : b \in {G, H}}
          \union {[b EXCEPT !.id = i] : b \in {H40}, i \in {31, 32, 64, 127}}
          \union {[b EXCEPT !.raw = TRUE, !.tmpl = TRUE] : b \in {B, G, H}}
          \union {[b EXCEPT !.raw = TRUE, !.rawprot = "rts"] : b \in {G, H}}
Settings ==
    {[ratectl |-> r, ucast |-> 0, shpre |-> s, prot |-> "cts", htprot |-> "rts",
      useprot |-> s, pure |-> ~s] : r \in {"none", "net80211"}, s \in BOOLEAN}
MCRequests == [c \in ChipNames |->
    IF c \in PciChips
    THEN {[rq |-> H, ic |-> i, seq |-> 1] : i \in {j \in Settings : j.ratectl = "net80211" /\ j.shpre}}
    ELSE {r \in [rq : Frames, ic : Settings, seq : {1, 4096, 33000}] : r.rq.ampdu \/ r.seq = 1}]
MCFrameLimit == [c \in ChipNames |->
    CASE c = "r88ee" -> 4 [] c = "r92cu" -> 2 [] OTHER -> 3]
=============================================================================
