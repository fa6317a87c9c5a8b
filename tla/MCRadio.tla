------------------------------ MODULE MCRadio ------------------------------
(* One device of each kind of radio, with ROMs whose values reach the edges *)
(* of the sums, and channels on both sides of each edge of the code.        *)
EXTENDS Radio

Group(n, base) == [g \in 0..(n - 1) |-> base + g]
Both(x) == [i \in Chains |-> x]

\* ROMs of the first two families; d20 is the nibble of the middle group.
Powers(groups, cck, ht, opt, nibble) ==
    [cck |-> Both(Group(groups, cck)), ht40 |-> [i \in Chains |-> Group(groups - (IF groups = 6 THEN 1 ELSE 0), ht + i)],
     nibble |-> nibble, opt |-> opt, thermal |-> 20]
Diffs(x) == [i \in Chains |-> [g \in 0..2 |-> (x + 2 * i + g) % 16]]
Rom92c(cck, ht, d20, opt) ==
    Powers(3, cck, ht, opt, [diff2s |-> Diffs(1), diff20 |-> Diffs(d20), ofdm |-> Diffs(3),
                             max40 |-> Diffs(9), max20 |-> Diffs(10)])
Rom88e(cck, ht, d20, opt) == Powers(6, cck, ht, opt, [diff20 |-> d20, ofdm |-> 3])

Rom12a(cck, ht2, ht5, d20, rfe) ==
    [cck |-> Both(Group(6, cck)), ht40 |-> [i \in Chains |-> Group(5, ht2 - 5 - i)],
     ht40_5g |-> [i \in Chains |-> Group(14, ht5 - 14 - i)],
     diff |-> [b \in Bands |-> [c \in Chains |->
                 [ofdm |-> IF b = "2G" THEN 2 + c ELSE 15,
                  ht20 |-> [i \in Chains |-> IF i = 0 THEN d20 ELSE 1 + c], ht40 |-> 14 - c]]],
     opt |-> 255, crystalcap |-> 255, swing |-> [b \in Bands |-> IF b = "2G" THEN 255 ELSE 1],
     thermal |-> 255, rfe_option |-> rfe, pa_type |-> 51, lna_type |-> [b \in Bands |-> 136]]

Config(family, chip, bus, ntx, nrx, ccut, fwiq, pi, rom) ==
    [family |-> family, chip |-> chip, bus |-> bus, ntx |-> ntx, nrx |-> nrx, ccut |-> ccut,
     r837 |-> FALSE, fwiq |-> fwiq, pi |-> pi, rom |-> rom]

Config92c(chip, bus, pi, rom) ==
    Config("r92c", chip, bus, r92c_set_chains(chip).ntx, r92c_set_chains(chip).nrx, FALSE, FALSE, pi, rom)

MCConfigs ==
    {Config92c("92C", "usb", TRUE, Rom92c(30, 34, 13, 0)),
     Config92c("92C", "pci", FALSE, Rom92c(30, 2, 8, 1)),
     Config92c("92C_1T2R", "usb", TRUE, Rom92c(62, 60, 2, 35)),
     Config("r88e", "88E", "usb", 1, 1, FALSE, FALSE, TRUE, Rom88e(30, 34, 13, 2)),
     Config("r12a", "12A", "usb", 2, 2, TRUE, FALSE, TRUE, Rom12a(40, 47, 255, 15, 133)),
     Config("r12a", "12A", "usb", 2, 2, FALSE, TRUE, TRUE, Rom12a(40, 256, 44, 7, 3)),
     Config("r21a", "21A", "usb", 1, 1, FALSE, FALSE, TRUE, Rom12a(250, 47, 34, 2, 1))}

Chan(ieee, band, width, upper) == [ieee |-> ieee, band |-> band, width |-> width, upper |-> upper]
MCChannels ==
    {Chan(3, "2G", 20, FALSE), Chan(11, "2G", 40, TRUE), Chan(14, "2G", 20, FALSE),
     Chan(38, "5G", 40, FALSE), Chan(149, "5G", 20, FALSE)}

\* Per chain.  The third disagrees with the others in one component of chain
\* 0, the fourth holds measured values that look like the mark of a failure.
R(t1, t2, r) == [tx |-> <<t1, t2>>, rx |-> <<r, r>>]
MCResults ==
    {Both(R(10, 20, 30)), Both(R(14, 20, 30)),
     [i \in Chains |-> IF i = 0 THEN R(90, 20, 30) ELSE R(FAILED, FAILED, FAILED)],
     [i \in Chains |-> IF i = 0 THEN R(FAILED, 20, 30) ELSE [tx |-> <<10, 20>>, rx |-> <<FAILED, 30>>]]}
=============================================================================
