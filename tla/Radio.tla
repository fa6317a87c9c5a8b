------------------------------- MODULE Radio -------------------------------
(***************************************************************************)
(* The radio of the chip once it is initialised: tuning to a channel, the  *)
(* gain during scans, and the periodic temperature calibration with the LC *)
(* and IQ calibrations it starts.  net80211's task queue serves the channel*)
(* changes, scans and calibrations one at a time, but rtwn_delay() drops   *)
(* the driver's lock, so that the callout, ioctls and received events take *)
(* steps in the middle of a calibration.  Registers are grouped as the     *)
(* code writes them.  What the pauses mean to the vaps is in Vaps.         *)
(***************************************************************************)
EXTENDS TxPower, FiniteSetsExt

CONSTANTS
    Configs,      \* records [family, chip, bus, ntx, nrx, ccut, r837, fwiq, pi, rom]
    Channels,     \* records [ieee, band, width, upper]
    Temps,        \* what the thermal meter may read; 0 is a failed reading
    Results,      \* what one IQ calibration of every chain may yield
    Garbage       \* what the stack may hold where an array is not set

\* The four families, with one or two chains; the arrays of a ROM have the
\* sizes the code gives them; channels have the numbers of their band; what
\* is left on the stack is read as an unsigned number.
ASSUME ConfigsAssumption ==
    \A c \in Configs :
       /\ c.family \in {"r92c", "r88e", "r12a", "r21a"}
       /\ c.ntx \in 1..2 /\ c.nrx \in 1..2 /\ c.pi \in BOOLEAN
       /\ c.family \in {"r88e", "r21a"} => c.ntx = 1
ASSUME RomsAssumption == \A c \in Configs : IsRom(c.family, c.rom)
ASSUME GarbageAssumption == Garbage \subseteq Nat
ASSUME ChannelsAssumption ==
    \A c \in Channels :
       /\ c.band \in Bands /\ c.width \in {20, 40}
       /\ c.ieee \in IF c.band = "2G" THEN 1..14 ELSE 36..177

VARIABLES
    cfg,          \* the chip, and what its ROM holds
    rt,           \* what parse_rom() made of the ROM
    hw,           \* the registers of the radio
    curchan,      \* ic_curchan
    tuned,        \* the channel set_chan() was last called with
    task,         \* net80211 has a channel change queued
    scanning,     \* between ic_scan_start and ic_scan_end
    sc,           \* the driver's fields: measured, thcal, iqk (the flags), running
    chain,        \* the periodic calibration: where it is, and if refused
    pc,           \* what the task of the calibration is doing
    iq,           \* the IQ calibration under way: run, results, saved registers
    chipfw        \* the firmware's own IQ calibration

vars == <<cfg, rt, hw, curchan, tuned, task, scanning, sc, chain, pc, iq, chipfw>>

FullDelta == IF cfg.family = "r92c" THEN 2 ELSE 4
Old92c == cfg.family \in {"r92c", "r88e"}
FAILED == 255

--------------------------------------------------------------------------
(* The registers after rtwn_init_bb() and rtwn_init_rf().                  *)

Fresh(band, agc, pi) ==
    [agc |-> [f \in Chains \X Rates |-> agc],
     chnl |-> [i \in Chains |-> [ieee |-> 0, bw |-> "reset"]],
     gain |-> [i \in Chains |-> "init"],
     bwop20 |-> TRUE, rfmod40 |-> FALSE, cbw20 |-> TRUE, side |-> "none",
     cckcheck |-> band, blocks |-> {"cck", "ofdm"}, fe |-> [f \in {"mux", "inv", "lna", "pa", "bypass"} |-> "table"], path |-> band, swing |-> 0,
     fc |-> "none", rfband |-> "none",
     dsec |-> "none", rfmod |-> 0, ext |-> "none", spur |-> 0, adcclk |-> 0, peak |-> "none",
     txpause |-> {}, bcn |-> TRUE, enbt |-> FALSE,
     adda |-> "normal", afe |-> "normal", ant |-> "normal", pi |-> pi, tone |-> "normal",
     rfmode |-> "normal", lcstart |-> FALSE, lck |-> FALSE, page |-> "C",
     iqres |-> [i \in Chains |-> [tx |-> <<FAILED, FAILED>>, rx |-> <<FAILED, FAILED>>]]]

--------------------------------------------------------------------------
(* Tuning the chips of the first two families.                             *)

\* The bandwidth bits go to chain 0 only: chain 1 keeps those its register
\* was cached with.
r92c_set_bw40(h, c) ==
    [h EXCEPT !.bwop20 = FALSE, !.rfmod40 = TRUE, !.cbw20 = FALSE,
              !.side = IF c.upper THEN "upper" ELSE "lower",
              !.chnl[0] = [ieee |-> c.ieee, bw |-> 40]]
r92c_set_bw20_KeepMode(h, c) ==     \* mutant: RFMOD stays as it was
    [h EXCEPT !.bwop20 = TRUE, !.cbw20 = TRUE, !.chnl[0] = [ieee |-> c.ieee, bw |-> 20]]
r92c_set_bw20(h, c) ==
    [h EXCEPT !.bwop20 = TRUE, !.rfmod40 = FALSE, !.cbw20 = TRUE,
              !.chnl[0] = [ieee |-> c.ieee, bw |-> 20]]
r88e_set_bw20(h, c) ==
    [h EXCEPT !.bwop20 = TRUE, !.rfmod40 = FALSE, !.chnl[0] = [ieee |-> c.ieee, bw |-> 20]]

r92c_set_chan(h, c, held) ==
    LET powered == [h EXCEPT !.agc = r92c_set_txpower(cfg, rt, h.agc, c, held)]
        moved == [powered EXCEPT !.chnl = [i \in Chains |->
                     IF i < cfg.nrx THEN [ieee |-> c.ieee, bw |-> "reset"] ELSE powered.chnl[i]],
                  !.lcstart = FALSE]
    IN  IF Ht40(c) THEN r92c_set_bw40(moved, c)
        ELSE IF cfg.family = "r88e" THEN r88e_set_bw20(moved, c)
        ELSE r92c_set_bw20(moved, c)

\* r92c_set_gain() writes both chains, r88e_set_gain() the only one.
set_gain(h, gain) ==
    IF cfg.family = "r88e" THEN [h EXCEPT !.gain[0] = gain]
    ELSE [h EXCEPT !.gain = [i \in Chains |-> gain]]

--------------------------------------------------------------------------
(* Tuning the chips of the last two families: the band first.              *)

\* The multiplexer and inverter of the front end, by its kind; a kind the
\* code does not know leaves them as they are.
FrontEnd12a(rfe, band) ==
    IF band = "2G"
    THEN CASE rfe \in {0, 1, 2} -> <<"77777777", "000">> [] rfe = 3 -> <<"54337770", "010">>
           [] rfe = 4 -> <<"77777777", "001">> [] rfe = 5 -> <<"77 77777777", "000">>
    ELSE CASE rfe = 0 -> <<"77337717", "010">> [] rfe = 1 -> <<"77337717", "000">>
           [] rfe \in {2, 4} -> <<"77337777", "010">> [] rfe = 3 -> <<"54337717", "010">>
           [] rfe = 5 -> <<"33 77337777", "010">>
KnownRfe == 0..5

r12a_set_band_ghz(h, band) ==
    [h EXCEPT !.blocks = IF band = "2G" THEN @ \cup {"cck", "ofdm"} ELSE (@ \ {"cck"}) \cup {"ofdm"},
              !.fe = IF rt.rfe \in KnownRfe
                     THEN [@ EXCEPT !.mux = FrontEnd12a(rt.rfe, band)[1],
                                    !.inv = FrontEnd12a(rt.rfe, band)[2]] ELSE @,
              !.path = band, !.cckcheck = band]

\* The 2 GHz amplifier before the receiver is bypassed on 5 GHz; where there
\* is none, 5 GHz leaves the bypass as it is.
FrontEnd21a(fe, band) ==
    [fe EXCEPT !.lna = IF band = "2G" THEN "7" ELSE "5", !.pa = IF band = "2G" THEN "7" ELSE "4",
               !.bypass = CASE band = "5G" /\ ~rt.ext_lna_2g -> @
                            [] band = "2G" /\ rt.ext_lna_2g -> "amplified"
                            [] OTHER -> "bypassed"]
r21a_set_band_ghz(h, band) ==
    [h EXCEPT !.blocks = IF band = "2G" THEN @ \cup {"cck", "ofdm"} ELSE (@ \ {"cck"}) \cup {"ofdm"},
              !.fe = FrontEnd21a(@, band), !.path = band, !.cckcheck = band]

\* A channel of the same band leaves the band alone, but for the first one
\* after the device is started.
r12a_set_band(h, c, initialising) ==
    IF ~initialising /\ h.cckcheck = c.band THEN h
    ELSE [(IF cfg.family = "r21a" THEN r21a_set_band_ghz(h, c.band)
           ELSE r12a_set_band_ghz(h, c.band)) EXCEPT !.swing = rt.swing[c.band]]

\* Two groups of bits keep the spur of some channels away.
r12a_fix_spur(h, c) ==
    LET narrow13 == ~Ht40(c) /\ c.ieee \in {13, 14}
    IN  IF cfg.family = "r21a" THEN h
        ELSE IF cfg.ccut /\ Ht40(c) /\ c.ieee = 11 THEN [h EXCEPT !.spur = 3, !.adcclk = 1]
        ELSE IF cfg.ccut THEN [h EXCEPT !.spur = 2, !.rfmod = IF narrow13 THEN 3 ELSE 2,
                                        !.adcclk = IF narrow13 THEN 1 ELSE 0]
        ELSE IF narrow13 THEN [h EXCEPT !.rfmod = 3]
        ELSE IF c.band = "2G" THEN [h EXCEPT !.rfmod = 2]
        ELSE h

FcArea(ieee) == CASE 36 <= ieee /\ ieee <= 48 -> "09280000" [] 50 <= ieee /\ ieee <= 64 -> "08a60000"
                  [] 100 <= ieee /\ ieee <= 116 -> "08a40000" [] 118 <= ieee -> "08240000"
                  [] OTHER -> "12d40000"
RfBand(ieee) == CASE 36 <= ieee /\ ieee <= 64 -> "10100" [] 100 <= ieee /\ ieee <= 140 -> "30100"
                  [] 140 < ieee -> "50100" [] OTHER -> "0"

SetWidth12a(h, c) ==
    LET peak == IF cfg.nrx = 2 /\ cfg.ntx = 2 THEN "01c" ELSE "020"
        wide == [h EXCEPT !.rfmod = 2, !.adcclk = 0, !.peak = IF cfg.r837 THEN "018" ELSE peak,
                          !.dsec = IF c.upper THEN "down20" ELSE "up20",
                          !.ext = IF c.upper THEN "down20" ELSE "up20",
                          !.side = IF c.upper THEN "upper" ELSE "lower", !.rfmod40 = TRUE]
    IN  IF Ht40(c) THEN wide
        ELSE [h EXCEPT !.rfmod = 2, !.adcclk = 0, !.peak = peak, !.dsec = "no_ext",
                       !.rfmod40 = FALSE]

r12a_set_chan(h, c, initialising) ==
    LET banded == [r12a_set_band(h, c, initialising) EXCEPT !.fc = FcArea(c.ieee),
                                                            !.rfband = RfBand(c.ieee)]
        width == r12a_fix_spur(SetWidth12a(r12a_fix_spur(banded, c), c), c)
    IN  [width EXCEPT !.chnl = [i \in Chains |-> IF i < cfg.nrx
                                    THEN [ieee |-> c.ieee, bw |-> c.width] ELSE h.chnl[i]],
                      !.agc = r12a_set_txpower(cfg, rt, h.agc, c)]

\* What sc_set_chan() points to.
set_chan(h, c, initialising, held) ==
    IF Old92c THEN r92c_set_chan(h, c, held) ELSE r12a_set_chan(h, c, initialising)

--------------------------------------------------------------------------
(* The LC calibration.  r12a_lc_calib() restores the channel register;     *)
(* RTL8821AU has none.  The code spares a transmitter that sends           *)
(* continuously; no chip's does: the tables of the baseband clear the bits *)
(* of R92C_OFDM1_LSTF that say so, and nothing sets them.                  *)

HasLc == cfg.family # "r21a"
ALL == {"ac", "mgt", "high", "bcn"}
LcStart(h) ==
    [h EXCEPT !.txpause = ALL, !.lcstart = TRUE, !.lck = (cfg.family = "r12a")]
LcEnd(h) ==
    [h EXCEPT !.txpause = {}, !.lck = FALSE,
              !.lcstart = IF cfg.family = "r12a" THEN FALSE ELSE @]

--------------------------------------------------------------------------
(* The IQ calibration of the first two families.                           *)

\* What the first run saves, and every run overwrites.  r92ce_iq_calib_run()
\* saves fewer registers than the others, and not the antenna configuration.
IqSaved(h) == [txpause |-> h.txpause, bcn |-> h.bcn, enbt |-> h.enbt, adda |-> h.adda,
               afe |-> h.afe, ant |-> h.ant, pi |-> h.pi]
IqRunStart(h) ==
    [h EXCEPT !.adda = "iq", !.pi = TRUE, !.afe = "iq", !.ant = "iq", !.enbt = FALSE,
              !.rfmode = IF cfg.ntx > 1 THEN "standby" ELSE @,
              !.txpause = {"ac", "mgt", "high"}, !.bcn = FALSE, !.tone = "iq"]

AfeRestored(h, v) == [h EXCEPT !.afe = v.afe, !.rfmode = "normal"]
\* The mode of the serial interface is read again by each run: a run other
\* than the first finds it set, and does not clear it.
MacRestored(h, v, piBefore) ==
    [h EXCEPT !.pi = piBefore /\ @, !.adda = v.adda, !.txpause = v.txpause, !.bcn = v.bcn,
              !.enbt = v.enbt]

\* The second and third run end with the registers of the MAC restored.
\* RTL8192CE leaves the antenna configuration and the tones as they are,
\* RTL8188E the tones.
r92c_iq_calib_run(h, n, v, piBefore) ==
    LET each == [AfeRestored(h, v) EXCEPT !.ant = v.ant]
    IN  IF n = 0 THEN each ELSE [MacRestored(each, v, piBefore) EXCEPT !.tone = "normal"]
r92ce_iq_calib_run(h, n, v, piBefore) ==
    IF n = 0 THEN AfeRestored(h, v) ELSE MacRestored(AfeRestored(h, v), v, piBefore)
r88e_iq_calib_run(h, n, v, piBefore) ==
    LET each == [AfeRestored(h, v) EXCEPT !.ant = v.ant]
    IN  IF n = 0 THEN each ELSE MacRestored(each, v, piBefore)

\* Mutant: the registers of the baseband are restored, those of the MAC not.
IqRunEnd_KeepMac(h, n, v, piBefore) ==
    [AfeRestored(h, v) EXCEPT !.ant = v.ant, !.adda = IF n = 0 THEN @ ELSE v.adda]
IqRunEnd(h, n, v, piBefore) ==
    IF cfg.family = "r88e" THEN r88e_iq_calib_run(h, n, v, piBefore)
    ELSE IF cfg.bus = "pci" THEN r92ce_iq_calib_run(h, n, v, piBefore)
    ELSE r92c_iq_calib_run(h, n, v, piBefore)

\* iq_calib_run() calibrates each chain twice and keeps the second outcome: a
\* failure is 255 throughout, a failure of the receiver 255 there.
Within(x, y) == x - y \in -5..5
Ok(a, b, i) == \A v \in {a.tx[i], b.tx[i], a.rx[i], b.rx[i]} : v # FAILED

\* The comparison of the second component replaces that of the first.
iq_calib_compare_results(one, two) ==
    \A i \in 0..(cfg.ntx - 1) :
        LET a == one[i]  b == two[i]
            last == IF Ok(a, b, 2) THEN 2 ELSE 1
        IN  Ok(a, b, last) /\ Within(a.tx[last], b.tx[last]) /\ Within(a.rx[last], b.rx[last])

iq_calib_write_results(h, res) ==
    LET Writes(i) == i < cfg.ntx /\ FAILED \notin {res[i].tx[1], res[i].tx[2]}
    IN  [h EXCEPT !.iqres = [i \in Chains |->
            IF ~Writes(i) THEN h.iqres[i]
            ELSE [tx |-> res[i].tx, rx |-> IF FAILED \in {res[i].rx[1], res[i].rx[2]}
                                           THEN h.iqres[i].rx ELSE res[i].rx]]]

--------------------------------------------------------------------------
(* The IQ calibration of the last two: by the firmware, if its version can,*)
(* and else a frame of saved and restored registers around work that is    *)
(* still to be written.                                                    *)

\* Both restore the baseband and select page C again; RTL8821AU leaves the
\* front end of page C1 cleared.
iq_calib_sw(h) ==
    [h EXCEPT !.page = "C", !.tone = IF cfg.family = "r21a" THEN "cleared" ELSE @]

--------------------------------------------------------------------------
(* Starting the device.                                                    *)

NoIq == [n |-> 0, prev |-> <<>>, saved |-> <<>>, pi |-> TRUE, temp |-> 0, both |-> FALSE,
         before |-> <<>>]

\* One calibration without a pause, as rtwn_post_init() of the first two
\* families runs it; the last two calibrate for the first time later.
PostInit(h, res) ==
    LET v == IqSaved(h)
        run0 == IqRunEnd(IqRunStart(h), 0, v, h.pi)
        run1 == IqRunEnd(IqRunStart(run0), 1, v, TRUE)
    IN  IF ~Old92c THEN h
        ELSE LcEnd(LcStart(IF iq_calib_compare_results(res, res)
                           THEN iq_calib_write_results(run1, res) ELSE run1))

Started(band, c, held, res) == PostInit(set_chan(Fresh(band, 0, cfg.pi), c, TRUE, held), res)

Init ==
    /\ cfg \in Configs
    /\ rt = parse_rom(cfg.family, cfg.rom, cfg.ntx)
    /\ curchan \in {c \in Channels : c.band = "5G" => ~Old92c} /\ tuned = curchan
    /\ \E held \in Garbage, res \in Results : hw = Started("2G", curchan, held, res)
    /\ task = FALSE /\ scanning = FALSE
    /\ sc = [measured |-> FALSE, thcal |-> 0, iqk |-> FALSE, running |-> FALSE]
    /\ chain = [callout |-> FALSE, cmds |-> 0, refused |-> FALSE]
    /\ pc = "idle" /\ iq = NoIq /\ chipfw = "idle"

\* rtwn_stop() and rtwn_init(), when the last interface goes down and one
\* comes up again.  r12a_power_off() drops the flag of the firmware's
\* calibration in its last line, and may return before: then the flag stays,
\* and the event that would clear it is lost.
Restart ==
    /\ pc = "idle" /\ ~sc.running /\ ~scanning
    /\ \E held \in Garbage, res \in Results :
          hw' = Started(hw.cckcheck, curchan, held, res)
    /\ tuned' = curchan
    /\ \E flag \in {sc.iqk, FALSE} :
          /\ sc' = [measured |-> FALSE, thcal |-> 0, iqk |-> flag, running |-> FALSE]
          /\ chipfw' = IF flag THEN "lost" ELSE "idle"
    /\ UNCHANGED <<cfg, rt, curchan, task, scanning, chain, pc, iq>>

--------------------------------------------------------------------------
(* net80211: the channel, scans, the first and the last running vap.       *)

\* net80211 chooses a channel; the driver is told by a task.
ChooseChannel(c) ==
    /\ ~task /\ c # curchan /\ (c.band = "5G" => ~Old92c)
    /\ curchan' = c /\ task' = TRUE
    /\ UNCHANGED <<cfg, rt, hw, tuned, scanning, sc, chain, pc, iq, chipfw>>

rtwn_set_channel ==
    /\ task /\ pc = "idle"
    /\ \E held \in Garbage : hw' = set_chan(hw, curchan, FALSE, held)
    /\ tuned' = curchan /\ task' = FALSE
    /\ UNCHANGED <<cfg, rt, curchan, scanning, sc, chain, pc, iq, chipfw>>

\* r92c_scan_start() lowers the gain, then calls rtwn_scan_start().
scan_start ==
    /\ pc = "idle" /\ ~scanning /\ scanning' = TRUE
    /\ hw' = LET h == IF Old92c THEN set_gain(hw, "scan") ELSE hw
             IN  [h EXCEPT !.txpause = @ \cup {"bcn"}]
    /\ UNCHANGED <<cfg, rt, curchan, tuned, task, sc, chain, pc, iq, chipfw>>

scan_end ==
    /\ pc = "idle" /\ scanning /\ scanning' = FALSE
    /\ hw' = LET h == IF Old92c THEN set_gain(hw, "link") ELSE hw
             IN  [h EXCEPT !.txpause = @ \ {"bcn"}]
    /\ UNCHANGED <<cfg, rt, curchan, tuned, task, sc, chain, pc, iq, chipfw>>

\* The parts of rtwn_run() and rtwn_newstate() for the first and the last
\* vap that is not a monitor: the temperature chain starts and stops.
run_first ==
    /\ pc = "idle" /\ ~sc.running
    /\ sc' = [sc EXCEPT !.running = TRUE, !.measured = FALSE, !.thcal = rt.thermal]
    /\ chain' = [chain EXCEPT !.callout = TRUE, !.refused = FALSE]
    /\ UNCHANGED <<cfg, rt, hw, curchan, tuned, task, scanning, pc, iq, chipfw>>

stop_last ==
    /\ pc = "idle" /\ sc.running
    /\ sc' = [sc EXCEPT !.running = FALSE]
    /\ chain' = [chain EXCEPT !.callout = FALSE, !.refused = FALSE]
    /\ UNCHANGED <<cfg, rt, hw, curchan, tuned, task, scanning, pc, iq, chipfw>>

--------------------------------------------------------------------------
(* The temperature chain.                                                  *)

\* The callout asks for a command; the queue may refuse it.
MaxCmds == 2
rtwn_calib_to ==
    /\ chain.callout
    /\ \/ /\ chain.cmds < MaxCmds
          /\ chain' = [chain EXCEPT !.callout = FALSE, !.cmds = @ + 1]
       \/ chain' = [chain EXCEPT !.callout = FALSE, !.refused = TRUE]
    /\ UNCHANGED <<cfg, rt, hw, curchan, tuned, task, scanning, sc, pc, iq, chipfw>>

Rearm_Never(ch) == ch       \* mutant: the callout is not set again
\* The end of rtwn_calib_cb().
Rearm(ch) == [ch EXCEPT !.callout = @ \/ sc.running]
Finish(temp) ==
    /\ sc' = [sc EXCEPT !.thcal = temp] /\ chain' = Rearm(chain)
    /\ pc' = "idle" /\ iq' = NoIq

\* r12a_iq_calib_fw(): the mailbox may refuse the command; the flag is set
\* when the command has been written.
IqByFirmware(h, temp) ==
    /\ hw' = h
    /\ \/ /\ chipfw = "idle" /\ ~sc.iqk
          /\ chipfw' = "busy" /\ pc' = "fwsend" /\ iq' = [NoIq EXCEPT !.temp = temp]
          /\ UNCHANGED <<sc, chain>>
       \/ Finish(temp) /\ UNCHANGED chipfw

\* What sc_iq_calib() points to, from its first step.
IqCalib(h, temp, before) ==
    CASE Old92c ->
            /\ hw' = IqRunStart(h) /\ pc' = "iq"
            /\ iq' = [n |-> 0, prev |-> <<>>, saved |-> IqSaved(h), pi |-> h.pi, temp |-> temp,
                      both |-> TRUE, before |-> before]
            /\ UNCHANGED <<sc, chain, chipfw>>
      [] ~Old92c /\ cfg.fwiq -> IqByFirmware(h, temp)
      [] OTHER -> hw' = iq_calib_sw(h) /\ Finish(temp) /\ UNCHANGED chipfw

\* rtwn_temp_calib(): measure and read in turn.  Without a reference from
\* the ROM the first reading calibrates the LC circuit only.
Measure ==
    /\ ~sc.measured
    /\ sc' = [sc EXCEPT !.measured = TRUE]
    /\ chain' = Rearm([chain EXCEPT !.cmds = @ - 1])
    /\ UNCHANGED <<hw, pc, iq, chipfw>>

Drifted(temp) == temp - sc.thcal \notin (-FullDelta)..FullDelta
Read(temp) ==
    /\ sc.measured
    /\ IF temp = 0 \/ (sc.thcal # 255 /\ ~Drifted(temp))
       THEN /\ sc' = [sc EXCEPT !.measured = FALSE]
            /\ chain' = Rearm([chain EXCEPT !.cmds = @ - 1])
            /\ UNCHANGED <<hw, pc, iq, chipfw>>
       ELSE /\ sc' = [sc EXCEPT !.measured = FALSE]
            /\ chain' = [chain EXCEPT !.cmds = @ - 1]
            /\ hw' = IF HasLc THEN LcStart(hw) ELSE hw
            /\ pc' = "lc"
            /\ iq' = [NoIq EXCEPT !.temp = temp, !.both = (sc.thcal # 255), !.before = hw]
            /\ UNCHANGED chipfw

rtwn_calib_cb ==
    /\ pc = "idle" /\ chain.cmds > 0
    /\ Measure \/ \E temp \in Temps : Read(temp)
    /\ UNCHANGED <<cfg, rt, curchan, tuned, task, scanning>>

\* rtwn_delay() has returned.
lc_done ==
    /\ pc = "lc"
    /\ LET h == IF HasLc THEN LcEnd(hw) ELSE hw
       IN  IF iq.both THEN IqCalib(h, iq.temp, iq.before)
           ELSE hw' = h /\ Finish(iq.temp) /\ UNCHANGED chipfw
    /\ UNCHANGED <<cfg, rt, curchan, tuned, task, scanning>>

\* A run of the IQ calibration is over: the next one, or the end.
iq_calib_next ==
    /\ pc = "iq"
    /\ \E res \in Results :
          LET ended == IqRunEnd(hw, iq.n, iq.saved, iq.pi)
              valid == iq.n > 0 /\ iq_calib_compare_results(iq.prev, res)
          IN  IF valid \/ iq.n = 2
              THEN /\ hw' = IF valid THEN iq_calib_write_results(ended, res) ELSE ended
                   /\ Finish(iq.temp)
              ELSE /\ hw' = IqRunStart(ended)
                   /\ iq' = [iq EXCEPT !.n = @ + 1, !.prev = res, !.pi = ended.pi]
                   /\ UNCHANGED <<sc, chain, pc>>
    /\ UNCHANGED <<cfg, rt, curchan, tuned, task, scanning, chipfw>>

iq_calib_sent ==
    /\ pc = "fwsend"
    /\ sc' = [sc EXCEPT !.iqk = TRUE, !.thcal = iq.temp]
    /\ chain' = Rearm(chain) /\ pc' = "idle" /\ iq' = NoIq
    /\ UNCHANGED <<cfg, rt, hw, curchan, tuned, task, scanning, chipfw>>

\* The firmware finishes, and its event is handled -- "early" when that was
\* before the flag was set.
IqFinished == chipfw = "busy" /\ chipfw' = "done"
              /\ UNCHANGED <<cfg, rt, hw, curchan, tuned, task, scanning, sc, chain, pc, iq>>
handle_iqk_finished ==
    /\ chipfw = "done" /\ chipfw' = IF pc = "fwsend" THEN "early" ELSE "idle"
    /\ sc' = [sc EXCEPT !.iqk = FALSE]
    /\ UNCHANGED <<cfg, rt, hw, curchan, tuned, task, scanning, chain, pc, iq>>

Calibration == rtwn_calib_cb \/ lc_done \/ iq_calib_next \/ iq_calib_sent
Next ==
    \/ Restart \/ rtwn_set_channel \/ scan_start \/ scan_end \/ run_first \/ stop_last
    \/ \E c \in Channels : ChooseChannel(c)
    \/ rtwn_calib_to \/ Calibration \/ IqFinished \/ handle_iqk_finished

Spec == Init /\ [][Next]_vars

--------------------------------------------------------------------------
(* Properties                                                              *)

\* Every variable has its type.
TypeOK ==
    /\ cfg \in Configs /\ curchan \in Channels /\ tuned \in Channels
    /\ task \in BOOLEAN /\ scanning \in BOOLEAN
    /\ DOMAIN hw.agc = Chains \X Rates
    /\ \A f \in DOMAIN hw.agc : hw.agc[f] \in 0..R92C_MAX_TX_PWR
    /\ hw.txpause \subseteq ALL
    /\ sc \in [measured : BOOLEAN, thcal : Temps \cup {0, 255, rt.thermal}, iqk : BOOLEAN,
               running : BOOLEAN]
    /\ chain \in [callout : BOOLEAN, cmds : 0..MaxCmds, refused : BOOLEAN]
    /\ pc \in {"idle", "lc", "iq", "fwsend"} /\ iq.n \in 0..2
    /\ chipfw \in {"idle", "busy", "done", "early", "lost"}

\* What of the registers says which channel the radio is on.  Fields that
\* only matter at 40 MHz are compared there.  Two things do depend on the
\* channels before: r88e_set_bw20() never sets the filter bit back that
\* r92c_set_bw40() cleared, and the bypass of an RTL8821AU without an
\* amplifier is first written on 2 GHz.
Tuning(h, c) ==
    IF Old92c
    THEN [h |-> <<h.chnl, h.bwop20, h.rfmod40>>,
          side |-> IF Ht40(c) THEN h.side ELSE "none",
          filter |-> IF cfg.family = "r88e" THEN FALSE ELSE h.cbw20]
    ELSE [h |-> <<h.chnl, h.cckcheck, h.blocks, h.path, h.swing, h.fc, h.rfband, h.dsec,
                  h.rfmod, h.spur, h.adcclk, h.peak, h.rfmod40>>,
          side |-> IF Ht40(c) THEN <<h.side, h.ext>> ELSE <<>>,
          filter |-> IF c.band = "5G" THEN [h.fe EXCEPT !.bypass = ""] ELSE h.fe]

\* Once the task has run, the radio is where a freshly started one would be
\* on the channel net80211 chose: bands that were skipped as unchanged, the
\* widths before and the calibrations in between leave nothing behind.  The
\* band of the chip, its enabled blocks and the number on every chain are
\* those of the channel.
TunedAgrees ==
    pc = "idle" /\ ~task =>
        /\ tuned = curchan
        /\ Tuning(hw, tuned) = Tuning(set_chan(Fresh("2G", 0, cfg.pi), tuned, TRUE, 0), tuned)
        /\ \A i \in 0..(cfg.nrx - 1) : hw.chnl[i].ieee = tuned.ieee
        /\ ~Old92c => hw.cckcheck = tuned.band /\ ("cck" \in hw.blocks <=> tuned.band = "2G")

\* The exact value that the ROM gives a rate, without the table of the driver.
RomSum(i, c, r) ==
    IF Old92c
    THEN LET group == IF cfg.family = "r88e" THEN r88e_get_power_group(c)
                      ELSE r92c_get_power_group(c)
             ht == IF cfg.ntx = 1 THEN rt.ht40[i][group]
                   ELSE Max({0, rt.ht40[i][group] - rt.diff2s[i][group]})
             ofdm == IF cfg.family = "r88e" THEN rt.ofdm ELSE rt.ofdm[i][group]
             narrow == IF cfg.family = "r88e" THEN rt.diff20
                       ELSE IF Ht40(c) THEN 0 ELSE rt.diff20[i][group]
         IN  CASE r = "cck" -> rt.cck[i][group]
               [] r = "ofdm" -> ht + ofdm
               [] OTHER -> ht + narrow
    ELSE LET group == r12a_get_power_group(c)
             ht == IF c.band = "2G" THEN rt.ht40_2g[i][group] ELSE rt.ht40_5g[i][group]
             diff == (IF Ht40(c) THEN rt.bw40 ELSE rt.bw20)[c.band][i]
         IN  CASE r = "cck" -> rt.cck[i][group]
               [] r = "ofdm" -> ht + rt.ofdm[c.band][i]
               [] OTHER -> ht + diff[0] + (IF r \in SecondStream THEN diff[1] ELSE 0)
TableSum(i, c, r) ==
    CASE cfg.family = "r92c" -> RegulatoryPart(cfg, rt, i, r92c_get_power_group(c), c, 0, r)
      [] cfg.family = "r88e" -> RegulatoryPart(cfg, rt, i, r88e_get_power_group(c), c, 0, r)
      [] OTHER -> 0

\* The rates whose power is not what the ROM means.  The last rate is added
\* to an entry that was never set when the regulatory byte leaves it out;
\* channel 14 reads past the end of a table of RTL8188E.
NeverSet(c, r) == /\ Old92c /\ r = LastRate(cfg.ntx)
                  /\ rt.regulatory = 2 \/ (rt.regulatory = 1 /\ Ht40(c))
PastTheEnd(c, r) == cfg.family = "r88e" /\ c.ieee = 14 /\ r # "cck"

\* The gain registers of every chain hold, for each rate it sends on the
\* current channel, the sum of the ROM's values and the driver's table, within
\* the limit of the register -- as long as what the ROM gives is that of a
\* byte: below 0 it wraps round and is sent with full power, above 255 with
\* too little.
PowerAgrees ==
    pc = "idle" /\ ~task =>
        \A i \in 0..(cfg.ntx - 1), r \in UsedRates(cfg.ntx) :
            (r = "cck" => tuned.band = "2G") /\ ~NeverSet(tuned, r) /\ ~PastTheEnd(tuned, r) =>
                LET rom == RomSum(i, tuned, r)
                IN  rom \in 0..255 => hw.agc[<<i, r>>] = AtMost(rom + TableSum(i, tuned, r))

\* The power registers hold powers, and those the ROM means.
PowerSound == TypeOK /\ PowerAgrees

\* When a calibration is over, every register it borrowed holds what it held
\* before.  Not so the pauses, which the LC calibration clears whoever set
\* them; the serial mode of the radio, if it was not set; the tones; and the
\* antenna configuration of RTL8192CE, which was not saved.
Borrowed(h) ==
    [mac |-> <<h.bcn, h.enbt>>, bb |-> <<h.adda, h.afe, h.page, h.lck>>,
     ant |-> IF cfg.bus = "pci" /\ cfg.family = "r92c" THEN "" ELSE h.ant,
     rf |-> <<h.rfmode, h.chnl, h.gain>>, agc |-> h.agc,
     tuning |-> <<h.fe, h.path, h.fc, h.rfband, h.rfmod40, h.bwop20, h.cbw20>>]
RegistersRestored ==
    pc \in {"lc", "iq"} /\ pc' = "idle" =>
        /\ Borrowed(hw') = Borrowed(iq.before)
        /\ hw'.txpause = IF HasLc THEN {} ELSE iq.before.txpause
        /\ iq.before.pi => hw'.pi
CalibRestores == [][RegistersRestored]_vars

\* The results in the chip were measured: none is the mark of a failure, and
\* a transmitter is never corrected by a failed run.  The flag of a
\* calibration by the firmware is up only while one is under way -- or its
\* event came before the flag, or the device was stopped before its event and
\* its power-off gave up; the flag then refuses every later calibration.
\* While a vap that is not a monitor runs, the temperature chain goes on --
\* until the queue refuses its command, and then never again -- and no
\* calibration starts without one but what was already queued.
CalibrationSound ==
    /\ \A i \in 0..(cfg.ntx - 1) : (hw.iqres[i].tx[1] = FAILED) = (hw.iqres[i].tx[2] = FAILED)
    /\ \A i \in 0..(cfg.ntx - 1) : hw.iqres[i].rx[1] # FAILED => hw.iqres[i].tx[1] # FAILED
    /\ sc.running /\ ~chain.refused => chain.callout \/ chain.cmds > 0 \/ pc # "idle"
    /\ chain.callout => sc.running
    /\ sc.iqk => chipfw # "idle"
=============================================================================
