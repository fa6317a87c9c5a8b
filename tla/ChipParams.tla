----------------------------- MODULE ChipParams -----------------------------
(***************************************************************************)
(* What the attach routine of each chip tells the rest of the driver: the  *)
(* sizes of its packet buffer, tables and ROM, and which of the optional   *)
(* mechanisms it has.  The method table that the same routine fills is     *)
(* modelled where the methods are: a definition <chip>_<method> of another *)
(* module is what sc_<method> points to on that chip.                      *)
(***************************************************************************)
EXTENDS Naturals

ChipNames == {"r92ce", "r92cu", "r88ee", "r88eu", "r12au", "r21au"}
PciChips == {"r92ce", "r88ee"}

RTWN_MACID_LIMIT == 128
RTWN_CAM_ENTRY_LIMIT == 64
RTWN_TX_DESC_SIZE == 64

\* The reserved pages of the high, normal and low queue; a USB device has
\* none until its endpoints are counted.
NoPages == [hq |-> 0, nq |-> 0, lq |-> 0]

r92ce == [page_count |-> 245, pktbuf_count |-> 256, npubqpages |-> 176,
          pages |-> [hq |-> 41, nq |-> 0, lq |-> 28], page_size |-> 128,
          txdesc_len |-> 64, efuse_maxlen |-> 512, efuse_maplen |-> 128,
          rx_dma_size |-> 10240, macid_limit |-> 32, cam_entry_limit |-> 32,
          fwsize_limit |-> 16384, temp_delta |-> 2, qmap |-> 63345,
          ext_hdr |-> FALSE, postread |-> TRUE, bcnq1 |-> FALSE,
          c2h_callout |-> TRUE, txchains |-> 2]

r92cu == [r92ce EXCEPT !.page_count = 248, !.npubqpages = 231, !.pages = NoPages,
          !.txdesc_len = 32, !.qmap = 0]

r88eu == [r92cu EXCEPT !.page_count = 169, !.pktbuf_count = 177, !.npubqpages = 142,
          !.efuse_maplen = 512, !.rx_dma_size = 9216, !.macid_limit = 64,
          !.temp_delta = 4, !.ext_hdr = TRUE, !.postread = FALSE,
          !.c2h_callout = FALSE, !.txchains = 1]

r88ee == [r88eu EXCEPT !.page_count = 170, !.npubqpages = 115,
          !.pages = [hq |-> 41, nq |-> 1, lq |-> 13], !.txdesc_len = 64,
          !.qmap = 59249]

r12au == [r88eu EXCEPT !.page_count = 248, !.pktbuf_count = 255, !.npubqpages = 219,
          !.page_size = 512, !.txdesc_len = 40, !.rx_dma_size = 16000,
          !.macid_limit = 128, !.cam_entry_limit = 64, !.fwsize_limit = 32768,
          !.txchains = 2]

\* Two beacon queues: the second has its own control register and boundary.
r21au == [r12au EXCEPT !.page_count = 243, !.page_size = 256, !.bcnq1 = TRUE,
          !.txchains = 1]

ParamsOf == [chip \in ChipNames |->
    CASE chip = "r92ce" -> r92ce [] chip = "r92cu" -> r92cu
      [] chip = "r88ee" -> r88ee [] chip = "r88eu" -> r88eu
      [] chip = "r12au" -> r12au [] chip = "r21au" -> r21au]

\* The tables of if_rtwnvar.h have room for what each chip claims.
ASSUME LimitsFit ==
    \A chip \in ChipNames :
        /\ ParamsOf[chip].macid_limit <= RTWN_MACID_LIMIT
        /\ ParamsOf[chip].cam_entry_limit <= RTWN_CAM_ENTRY_LIMIT
=============================================================================
