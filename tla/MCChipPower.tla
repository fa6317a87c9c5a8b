---------------------------- MODULE MCChipPower ----------------------------
(* ChipPower on each of the six chips, as a dongle or a card, with crypto in  *)
(* hardware or not, started at most twice.                                     *)
EXTENDS ChipPower

MCConfigs == [chip : Chips, dongle : {FALSE}, crypto : {TRUE}]
             \union [chip : {"r92ce", "r21au"}, dongle : {TRUE}, crypto : {FALSE}]
=============================================================================
