------------------------------ MODULE TxPower ------------------------------
(***************************************************************************)
(* Transmit power: what the ROM of each chip family says of it, the values *)
(* computed from that for a channel, and the gain registers they end in.   *)
(* The 28 rates are represented by the first and last of each block whose  *)
(* treatment differs: CCK, OFDM, MCS 0 and 7, MCS 8 and 15.  The widths of *)
(* the C variables are kept, because sums and corrections may leave them.  *)
(***************************************************************************)
EXTENDS Integers, FiniteSets

Rates == {"cck", "ofdm", "mcs0", "mcs7", "mcs8", "mcs15"}
SecondStream == {"mcs8", "mcs15"}

\* RTWN_RIDX_MCS(ntxchains * 8 - 1): the last rate the code gives a power.
LastRate(ntx) == IF ntx = 1 THEN "mcs7" ELSE "mcs15"
UsedRates(ntx) == IF ntx = 1 THEN Rates \ SecondStream ELSE Rates

R92C_MAX_TX_PWR == 63
AtMost(x) == IF x > R92C_MAX_TX_PWR THEN R92C_MAX_TX_PWR ELSE x
Sign4to8(nibble) == IF nibble >= 8 THEN nibble - 16 ELSE nibble
RomVar(byte, default) == IF byte # 255 THEN byte ELSE default

--------------------------------------------------------------------------
(* Reading the ROM image. *)

\* The nibbles of one byte serve two chains: low for chain 0, high for 1.
Chains == 0..1
Bands == {"2G", "5G"}
Byte == 0..255
Nibble == 0..15

\* The arrays of struct r92c_rom, r88e_rom, r12a_rom and r21a_rom: powers for
\* each group of channels; differences for each group, one, or for each chain.
IsRom(family, rom) ==
    CASE family = "r92c" ->
            /\ rom.cck \in [Chains -> [0..2 -> Byte]] /\ rom.ht40 \in [Chains -> [0..2 -> Byte]]
            /\ \A array \in {"diff2s", "diff20", "ofdm", "max40", "max20"} :
                  rom.nibble[array] \in [Chains -> [0..2 -> Nibble]]
      [] family = "r88e" ->
            /\ rom.cck \in [Chains -> [0..5 -> Byte]] /\ rom.ht40 \in [Chains -> [0..4 -> Byte]]
            /\ rom.nibble["diff20"] \in Nibble /\ rom.nibble["ofdm"] \in Nibble
      [] OTHER ->
            /\ rom.cck \in [Chains -> [0..5 -> Byte]] /\ rom.ht40 \in [Chains -> [0..4 -> Byte]]
            /\ rom.ht40_5g \in [Chains -> [0..13 -> Byte]]
            /\ rom.diff \in [Bands -> [Chains -> [ofdm : Nibble, ht20 : [Chains -> Nibble], ht40 : Nibble]]]

r92c_parse_rom(rom, ntx) ==
    [cck |-> rom.cck, ht40 |-> rom.ht40,
     diff2s |-> rom.nibble.diff2s,
     diff20 |-> [i \in Chains |-> [g \in DOMAIN rom.nibble.diff20[i] |-> Sign4to8(rom.nibble.diff20[i][g])]],
     ofdm |-> rom.nibble.ofdm, max40 |-> rom.nibble.max40, max20 |-> rom.nibble.max20,
     regulatory |-> rom.opt % 8, board |-> rom.opt \div 32,
     thermal |-> LET t == rom.thermal % 32 IN IF t = 31 THEN 255 ELSE t,
     rfe |-> 0]

r88e_parse_rom(rom) ==
    [cck |-> rom.cck, ht40 |-> rom.ht40,
     diff20 |-> Sign4to8(rom.nibble.diff20), ofdm |-> Sign4to8(rom.nibble.ofdm),
     regulatory |-> rom.opt % 8, board |-> RomVar(rom.opt, 0) \div 32,
     thermal |-> rom.thermal, rfe |-> 0]

R12A_DEF_TX_PWR_2G == 45
R12A_DEF_TX_PWR_5G == 254
R12A_ROM_CRYSTALCAP_DEF == 32

\* bw20[band][c][i], bw40[band][c][i]: what stream i adds on chain c; nothing
\* at 40 MHz for the first stream.
r12a_parse_rom_common(rom) ==
    [cck |-> [c \in Chains |-> [g \in DOMAIN rom.cck[c] |->
                                RomVar(rom.cck[c][g], R12A_DEF_TX_PWR_2G)]],
     ht40_2g |-> [c \in Chains |-> [g \in DOMAIN rom.ht40[c] |->
                                    RomVar(rom.ht40[c][g], R12A_DEF_TX_PWR_2G)]],
     ht40_5g |-> [c \in Chains |-> [g \in DOMAIN rom.ht40_5g[c] |->
                                    RomVar(rom.ht40_5g[c][g], R12A_DEF_TX_PWR_5G)]],
     ofdm |-> [b \in Bands |-> [c \in Chains |-> Sign4to8(rom.diff[b][c].ofdm)]],
     bw20 |-> [b \in Bands |-> [c \in Chains |-> [i \in Chains |-> Sign4to8(rom.diff[b][c].ht20[i])]]],
     bw40 |-> [b \in Bands |-> [c \in Chains |-> [i \in Chains |->
                                    IF i = 0 THEN 0 ELSE Sign4to8(rom.diff[b][c].ht40)]]],
     regulatory |-> rom.opt % 8, board |-> RomVar(rom.opt, 0) \div 32,
     crystalcap |-> RomVar(rom.crystalcap, R12A_ROM_CRYSTALCAP_DEF),
     swing |-> [b \in Bands |-> RomVar(rom.swing[b], 0)],
     thermal |-> rom.thermal]

\* The kind of antenna front end; an option byte with the top bit set leaves
\* it to be told from the amplifiers outside the chip.
RfeType(option, lna, pa) ==
    IF option >= 128
    THEN IF "5G" \notin lna THEN 4
         ELSE IF "5G" \notin pa THEN 2
         ELSE IF "2G" \in pa /\ "2G" \in lna THEN 3 ELSE 0
    ELSE IF option % 64 = 4 /\ lna = {"2G", "5G"} /\ pa = {"2G", "5G"}
    THEN 0
    ELSE option % 64

External(rom, paBits) ==
    [pa |-> {b \in Bands : (RomVar(rom.pa_type, 0) \div (IF b = "2G" THEN 16 ELSE 1)) % 4
                                     \in paBits},
     lna |-> {b \in Bands : (RomVar(rom.lna_type[b], 0) \div 8) % 2 = 1}]

\* RTL8812AU takes an amplifier as present when both of its bits are set,
\* RTL8821AU when the low one is; both test one bit for the LNA.
r12a_parse_rom(rom) ==
    LET ext == External(rom, {3})
        common == r12a_parse_rom_common(rom)
    IN  [n \in DOMAIN common \cup {"rfe", "ext_lna_2g"} |->
            CASE n = "rfe" -> RfeType(rom.rfe_option, ext.lna, ext.pa)
              [] n = "ext_lna_2g" -> "2G" \in ext.lna
              [] OTHER -> common[n]]

r21a_parse_rom(rom) ==
    LET ext == External(rom, {1, 3})
        common == r12a_parse_rom_common(rom)
    IN  [n \in DOMAIN common \cup {"rfe", "ext_lna_2g"} |->
            CASE n = "rfe" -> 0
              [] n = "ext_lna_2g" -> "2G" \in ext.lna
              [] OTHER -> common[n]]

parse_rom(family, rom, ntx) ==
    CASE family = "r92c" -> r92c_parse_rom(rom, ntx)
      [] family = "r88e" -> r88e_parse_rom(rom)
      [] family = "r12a" -> r12a_parse_rom(rom)
      [] family = "r21a" -> r21a_parse_rom(rom)

\* How many chains an RTL8192C has is told from its identification.
r92c_set_chains(chip) ==
    CASE chip = "92C" -> [ntx |-> 2, nrx |-> 2]
      [] chip = "92C_1T2R" -> [ntx |-> 1, nrx |-> 2]
      [] OTHER -> [ntx |-> 1, nrx |-> 1]

--------------------------------------------------------------------------
(* The group of channels a power value belongs to.  A channel is a record  *)
(* [ieee, band, width, upper] with the number of its centre.               *)

NoGroup == -1
\* The first group whose highest channel is not below the channel.
GroupOf(limits, ieee) ==
    LET fits == {g \in DOMAIN limits : ieee <= limits[g]}
    IN  IF fits = {} THEN NoGroup ELSE (CHOOSE g \in fits : \A h \in fits : g <= h) - 1

r92c_get_power_group(c) == IF c.band = "2G" THEN GroupOf(<<3, 9, 14>>, c.ieee) ELSE NoGroup
r88e_get_power_group(c) ==
    IF c.band = "2G" THEN GroupOf(<<2, 5, 8, 11, 13, 14>>, c.ieee) ELSE NoGroup
r12a_get_power_group(c) ==
    IF c.band = "2G" THEN GroupOf(<<2, 5, 8, 11, 14>>, c.ieee)
    ELSE IF c.ieee < 36 THEN NoGroup
    ELSE GroupOf(<<42, 48, 58, 64, 106, 114, 122, 130, 138, 144, 155, 161, 171, 177>>,
                 c.ieee)

Ht40(c) == c.width = 40

--------------------------------------------------------------------------
(* The values for one chain.                                               *)

\* The gain tables of the driver: only these entries are not zero.
rtl8192cu_txagc(chain, group, r) ==
    CASE group = 0 /\ chain = 0 -> [cck |-> 0, ofdm |-> 12, mcs0 |-> 14, mcs7 |-> 2,
                                    mcs8 |-> 14, mcs15 |-> 2][r]
      [] group = 2 /\ r = "ofdm" -> 4
      [] OTHER -> 0
rtl8188ru_txagc(chain, group, r) ==
    IF group = 0 /\ r \in {"ofdm", "mcs0", "mcs8"} THEN 8 ELSE 0
r88e_txagc(chain, group, r) == 0

R92C_BOARD_TYPE_HIGHPA == 1
\* The table the attach routine settles on after it has read the ROM.
txagc(cfg, rt, chain, group, r) ==
    IF cfg.family = "r88e" THEN r88e_txagc(chain, group, r)
    ELSE IF cfg.chip # "92C" /\ rt.board = R92C_BOARD_TYPE_HIGHPA
    THEN rtl8188ru_txagc(chain, group, r)
    ELSE rtl8192cu_txagc(chain, group, r)

\* What the loops over the rates leave before the ROM's values are added.
\* memset() clears the entries below the last rate, so that the last one
\* keeps what the array held when no case of the loop assigns it.
RegulatoryPart(cfg, rt, chain, group, c, held, r) ==
    LET unassigned == IF r = LastRate(cfg.ntx) THEN held ELSE 0
        base0 == txagc(cfg, rt, chain, 0, r)
        max == (IF Ht40(c) THEN rt.max40 ELSE rt.max20)[chain][group]
    IN  IF r = "cck" THEN IF rt.regulatory = 0 THEN base0 ELSE 0
        ELSE IF rt.regulatory = 3 /\ cfg.family = "r92c" THEN IF base0 > max THEN max ELSE base0
        ELSE IF rt.regulatory = 1
        THEN IF Ht40(c) THEN unassigned ELSE txagc(cfg, rt, chain, group, r)
        ELSE IF rt.regulatory = 2 THEN unassigned
        ELSE base0

\* htpow and ofdmpow are bytes: a negative difference is added modulo 256.
r92c_get_txpower(cfg, rt, chain, c, held) ==
    LET group == r92c_get_power_group(c)
        ht1 == rt.ht40[chain][group]
        ht == IF cfg.ntx = 1 THEN ht1
              ELSE IF ht1 > rt.diff2s[chain][group] THEN ht1 - rt.diff2s[chain][group] ELSE 0
        ofdmpow == (ht + rt.ofdm[chain][group]) % 256
        htpow == IF Ht40(c) THEN ht ELSE (ht + rt.diff20[chain][group]) % 256
    IN  [r \in UsedRates(cfg.ntx) |->
            AtMost((RegulatoryPart(cfg, rt, chain, group, c, held, r)
                    + (CASE r = "cck" -> rt.cck[chain][group]
                         [] r = "ofdm" -> ofdmpow
                         [] OTHER -> htpow)) % 65536)]

\* The sixth group, channel 14, has no 40 MHz value: the array is read one
\* past its end, where the structure holds the OFDM difference.  The
\* difference for 20 MHz is added at 40 MHz too.
r88e_get_txpower(cfg, rt, chain, c, held) ==
    LET group == r88e_get_power_group(c)
        ht == IF group \in DOMAIN rt.ht40[0] THEN rt.ht40[0][group] ELSE rt.ofdm % 256
    IN  [r \in UsedRates(cfg.ntx) |->
            AtMost((RegulatoryPart(cfg, rt, chain, group, c, held, r)
                    + (CASE r = "cck" -> rt.cck[0][group]
                         [] r = "ofdm" -> ht + rt.ofdm
                         [] OTHER -> ht + rt.diff20)) % 65536)]

\* Bytes throughout.  A second stream adds to what the first one added.
r12a_get_txpower(cfg, rt, chain, c) ==
    LET group == r12a_get_power_group(c)
        ht == IF c.band = "2G" THEN rt.ht40_2g[chain][group] ELSE rt.ht40_5g[chain][group]
        diff == (IF Ht40(c) THEN rt.bw40 ELSE rt.bw20)[c.band][chain]
        Of(r) == CASE r = "cck" -> IF c.band = "2G" THEN rt.cck[chain][group] ELSE 0
                   [] r = "ofdm" -> ht + rt.ofdm[c.band][chain]
                   [] r \in SecondStream -> ht + diff[0] + diff[1]
                   [] OTHER -> ht + diff[0]
    IN  [r \in UsedRates(cfg.ntx) |->
            IF group = NoGroup THEN 0 ELSE AtMost(Of(r) % 256)]

--------------------------------------------------------------------------
(* The gain registers.  A field is named by its chain and rate: registers  *)
(* that two chains share are changed by reading and writing them back.     *)

r92c_write_txpower(agc, chain, power) ==
    [f \in DOMAIN agc |-> IF f[1] = chain /\ f[2] \in DOMAIN power THEN power[f[2]] ELSE agc[f]]
\* CCK registers are written on 2 GHz only.
r12a_write_txpower(agc, chain, c, power) ==
    [f \in DOMAIN agc |->
        IF f[1] = chain /\ f[2] \in DOMAIN power /\ (f[2] = "cck" => c.band = "2G")
        THEN power[f[2]] ELSE agc[f]]

\* One array serves the chains in turn: what chain 0 left in the last rate is
\* what chain 1 finds there.  "held" is what the stack held before.
r92c_set_txpower(cfg, rt, agc, c, held) ==
    LET Get(chain, h) == IF cfg.family = "r88e" THEN r88e_get_txpower(cfg, rt, chain, c, h)
                         ELSE r92c_get_txpower(cfg, rt, chain, c, h)
        power0 == Get(0, held)
        agc0 == r92c_write_txpower(agc, 0, power0)
    IN  IF cfg.ntx = 1 THEN agc0
        ELSE r92c_write_txpower(agc0, 1, Get(1, power0[LastRate(2)]))

\* Mutant: the second chain gets the values of the first.
r12a_set_txpower_OneChain(cfg, rt, agc, c) ==
    LET power == r12a_get_txpower(cfg, rt, 0, c)
    IN  r12a_write_txpower(r12a_write_txpower(agc, 0, c, power), 1, c, power)
r12a_set_txpower(cfg, rt, agc, c) ==
    LET agc0 == r12a_write_txpower(agc, 0, c, r12a_get_txpower(cfg, rt, 0, c))
    IN  IF cfg.ntx = 1 THEN agc0
        ELSE r12a_write_txpower(agc0, 1, c, r12a_get_txpower(cfg, rt, 1, c))
=============================================================================
