----------------------------- MODULE ChipPower -----------------------------
(***************************************************************************)
(* Starting and stopping the chip: rtwn_init() and rtwn_stop() with the    *)
(* power sequences, the firmware download and the block initialisations    *)
(* of the six chip and bus variants.                                       *)
(*                                                                         *)
(* A routine of the driver is a sequence of register operations; the chip  *)
(* is the set of register bits that are 1.  Bits are named as in the       *)
(* headers, Layout groups them in bytes, so that a write of a byte clears  *)
(* its other bits.  Pins and LEDs, the values of tables (MAC, BB, RF) and  *)
(* of timing registers are one bit each: programmed or not.  A step takes  *)
(* one operation; a routine ends early where the code does: at a checked   *)
(* write that fails, at a poll that runs out, when the hardware is gone.   *)
(***************************************************************************)
EXTENDS Naturals, Sequences, SequencesExt

CONSTANTS
    Configs,    \* set of [chip, dongle, crypto]
    MaxErrors,  \* bound: writes that fail
    MaxStarts   \* bound: calls of rtwn_init

Chips == {"r92ce", "r92cu", "r88ee", "r88eu", "r12au", "r21au"}
Pci == {"r92ce", "r88ee"}

ASSUME ConfigsAssumption ==
    Configs \subseteq [chip : Chips, dongle : BOOLEAN, crypto : BOOLEAN]
ASSUME BoundsAssumption == MaxErrors \in Nat /\ MaxStarts \in Nat

---------------------------------------------------------------------------
(* The registers. *)

\* System configuration: kept while the MAC is off.
SystemLayout == [
    SYS_ISO_CTRL |-> {"MD2PP", "PA2PCIE", "PD2CORE", "IP2MAC", "DIOP", "DIOE"},
    SYS_ISO_CTRL1 |-> {"DIOR", "PWC_EV12V"},
    SYS_FUNC_EN |-> {"BBRSTB", "BB_GLB_RST", "USBA", "USBD", "DIO_PCIE", "PCIEA", "PPLL"},
    SYS_FUNC_EN1 |-> {"CPUEN", "DCORE", "ELDR", "DIO_RF", "HWPDN"},
    APS_FSMCO |-> {"PFM_ALDN", "PDN_EN"},
    APS_FSMCO1 |-> {"APFM_ONMAC", "APFM_OFF", "APFM_RSM", "AFSM_HSUS", "AFSM_PCIE",
                    "APDM_HOST", "APDM_HPDN"},
    APS_FSMCO2 |-> {"RDY_MACON"},
    APS_FSMCO3 |-> {"SOP_ABG", "SOP_AMB", "SOP_RCK", "XOP_BTCK"},
    SYS_CLKR |-> {"ANAD16V_EN", "ANA8M", "CLKR_08", "LOADER_EN", "SSC_DIS"},
    SYS_CLKR1 |-> {"MAC_EN", "SYS_EN", "RING_EN", "CLKR1_40"},
    RSV_CTRL |-> {"RSV_02", "RSV_0C", "RSV_60"},
    RSV_CTRL1 |-> {"RSV1_01", "RSV1_08"},
    RF_CTRL |-> {"RF_EN", "RF_RSTB", "RF_SDMRSTB"},
    RF_B_CTRL |-> {"RFB_EN", "RFB_RSTB", "RFB_SDMRSTB"},
    LDOA15_CTRL |-> {"LDA15_EN", "LDA15_OBUF"},
    LDOV12D_CTRL |-> {"LDV12_EN"}, LDOHCI12_CTRL |-> {"LDH12_0F"},
    LPLDO_CTRL |-> {"LPLDO_SLEEP"},
    SPS0_CTRL |-> {"SPS_23", "SPS_08"}, SPS0_CTRL1 |-> {"SPS1_01"},
    AFE_XTAL_CTRL |-> {"XTAL_0E", "XTAL_01"},
    AFE_XTAL_CTRL1 |-> {"XTAL1_40", "XTAL1_08", "XTAL1_80"},
    AFE_XTAL_CTRL2 |-> {"XTAL2_02", "XTAL2_80"}, XTAL_EXT1 |-> {"XTALX_02"},
    AFE_PLL_CTRL |-> {"PLL_80", "PLL_03"}, AFE_PLL_CTRL1 |-> {"PLL1_DB"},
    ZCD |-> {"ZCD_0180"}, XCK_OUT |-> {"XCK_EN"}, PINS |-> {"BALANCED"},
    MCUFWDL |-> {"MCUFWDL_EN", "RDY", "WINTINI_RDY", "RAM_DL_SEL"},
    MCUFWDL2 |-> {"ROM_DLEN"}]

\* The MAC's own registers: lost with its power or its core's reset.
MacLayout == [
    CR |-> {"HCI_TXDMA_EN", "HCI_RXDMA_EN", "TXDMA_EN", "RXDMA_EN", "PROTOCOL_EN",
            "SCHEDULE_EN", "MACTXEN", "MACRXEN"},
    CR1 |-> {"ENSEC", "CALTMR_EN"},
    APSD_CTRL |-> {"APSD_OFF"}, TXPAUSE |-> {"TX_QUEUE_ALL"},
    TX_RPT_CTRL |-> {"TX_RPT1_ENA", "TX_RPT2_ENA"}, PCIE_CTRL1 |-> {"DMA_STOP"},
    TABLES |-> {"MAC_PROG", "LLT", "RQPN", "BDNY", "BCNQ1", "QMAP", "RX_BDNY"},
    BLOCKS |-> {"DESC_ADDR", "INTR", "MSR", "MACADDR", "KEYS", "RCR", "EDCA", "AGG", "BCN", "AMPDU", "BB", "RF",
                "CHAN", "CAM", "SECCFG", "HSSI", "NO_LINK", "CALIB"}]

BitsOf(reg) == IF reg \in DOMAIN SystemLayout THEN SystemLayout[reg] ELSE MacLayout[reg]
SystemBits == UNION {SystemLayout[r] : r \in DOMAIN SystemLayout}
MacBits == UNION {MacLayout[r] : r \in DOMAIN MacLayout}
Bits == SystemBits \union MacBits

---------------------------------------------------------------------------
(* Operations.  "chk": whether a failed write ends the routine. *)

Op(do, chk, clr, set) == [do |-> do, chk |-> chk, clr |-> clr, set |-> set, skip |-> 0]
Mod(clr, set) == <<Op("write", "no", clr, set)>>
Set(bits) == Mod({}, bits)
Clr(bits) == Mod(bits, {})
Wr(regs, bits) == Mod(UNION {BitsOf(r) : r \in regs}, bits)
\* Poll until the hardware sets (a status bit outside the model) ...
Ready == <<Op("ready", "no", {}, {})>>
\* ... or clears these bits.
Cleared(bits) == <<Op("cleared", "no", bits, {})>>
\* The writes of prog if the bits read as 1.
If(bits, prog) ==
    <<[Op("if", "no", {}, bits) EXCEPT !.skip = Len(prog)]>> \o prog
IfNot(bits, prog) ==
    <<[Op("ifnot", "no", {}, bits) EXCEPT !.skip = Len(prog)]>> \o prog
\* #define RTWN_CHK
Chk(prog) == [i \in DOMAIN prog |-> IF prog[i].do = "write" THEN [prog[i] EXCEPT !.chk = "yes"]
                               ELSE prog[i]]
\* A first write that fails because the hardware is gone ends the routine.
IfPresent(prog) == [prog EXCEPT ![1].chk = "present"]

DmaBits == {"HCI_TXDMA_EN", "HCI_RXDMA_EN", "TXDMA_EN", "RXDMA_EN", "PROTOCOL_EN",
            "SCHEDULE_EN"}
Ensec(cfg) == IF cfg.crypto THEN {"ENSEC"} ELSE {}
EnableBlocks(cfg) == DmaBits \union {"CALTMR_EN"} \union Ensec(cfg)
OnMac == Set({"APFM_ONMAC"}) \o Cleared({"APFM_ONMAC"})
OffMac == Set({"APFM_OFF"}) \o Cleared({"APFM_OFF"})
BtCoex(cfg, prog) == IF cfg.dongle THEN <<>> ELSE prog
\* sc_fw_reset
r92c_fw_reset(reason) == IF reason = "CHECKSUM" THEN <<>> ELSE Clr({"CPUEN"})
r88e_fw_reset(reason) ==
    Clr({"CPUEN"}) \o (IF reason = "SHUTDOWN" THEN <<>> ELSE Set({"CPUEN"}))
IoWrapperReset(wrapper) ==
    Clr({"RSV_02"}) \o Clr({wrapper}) \o Clr({"CPUEN"}) \o Clr({"RSV_02"}) \o Set({wrapper})
    \o Set({"CPUEN"})
r12a_fw_reset == IoWrapperReset("RSV1_08")
r21a_fw_reset == IoWrapperReset("RSV1_01")
FwReset(cfg, reason) ==
    CASE cfg.chip \in {"r92ce", "r92cu"} -> r92c_fw_reset(reason)
      [] cfg.chip \in {"r88ee", "r88eu"} -> r88e_fw_reset(reason)
      [] cfg.chip = "r12au" -> r12a_fw_reset
      [] cfg.chip = "r21au" -> r21a_fw_reset

\* sc_fw_download_enable
DownloadEnable(cfg) ==
    (IF cfg.chip \in {"r92ce", "r92cu"} THEN Set({"CPUEN"}) ELSE <<>>)
    \o Set({"MCUFWDL_EN"}) \o Clr({"ROM_DLEN"})
DownloadDisable == Clr({"MCUFWDL_EN"})

---------------------------------------------------------------------------
(* Power on. *)

r92ce_power_on(cfg) ==
    Ready \o Wr({"RSV_CTRL"}, {})
    \o BtCoex(cfg, Set({"SOP_ABG", "SOP_AMB", "XOP_BTCK"}))
    \o Wr({"SPS0_CTRL"}, {"SPS_23", "SPS_08"}) \o Wr({"AFE_XTAL_CTRL"}, {"XTAL_0E", "XTAL_01"})
    \o BtCoex(cfg, Clr({"XTAL1_40", "XTAL1_08", "XTAL2_02"}))
    \o Wr({"SYS_ISO_CTRL1"}, {"PWC_EV12V", "DIOR"})
    \o OnMac
    \o Wr({"APS_FSMCO", "APS_FSMCO1"}, {"AFSM_PCIE", "PDN_EN", "PFM_ALDN"})
    \o Clr({"DIOR"}) \o BtCoex(cfg, Clr({"XTAL2_02"}))
    \o Ready                        \* the radio switch
    \o Clr({"APSD_OFF"}) \o Ready
    \o Set(DmaBits \union {"MACTXEN", "MACRXEN"} \union Ensec(cfg))

r92cu_power_on(cfg) == Chk(
    Ready \o Wr({"RSV_CTRL"}, {}) \o Wr({"SPS0_CTRL"}, {"SPS_23", "SPS_08"})
    \o IfNot({"LDV12_EN"}, Set({"LDV12_EN"}) \o Clr({"MD2PP"}))
    \o OnMac
    \o Wr({"APS_FSMCO", "APS_FSMCO1"}, {"AFSM_HSUS", "PDN_EN", "PFM_ALDN"})
    \o Clr({"DIOR"}) \o Clr({"APSD_OFF"}) \o Ready
    \o Set(EnableBlocks(cfg)))

r88eu_power_on(cfg) == Chk(
    Ready \o Clr({"BBRSTB", "BB_GLB_RST"}) \o Set({"XTAL2_80"}) \o Clr({"APDM_HPDN"})
    \o Clr({"AFSM_HSUS", "AFSM_PCIE"})
    \o OnMac \o Clr({"LPLDO_SLEEP"})
    \o Wr({"CR", "CR1"}, {}) \o Set(EnableBlocks(cfg)))

r88ee_power_on(cfg) ==
    Clr({"XCK_EN"}) \o Clr({"APDM_HPDN"}) \o Wr({"RSV_CTRL"}, {})
    \o Ready \o Clr({"BBRSTB", "BB_GLB_RST"}) \o Set({"XTAL2_80"}) \o Clr({"APDM_HPDN"})
    \o Clr({"AFSM_HSUS", "AFSM_PCIE"})
    \o OnMac \o Clr({"LPLDO_SLEEP"})
    \o Set({"PDN_EN"}) \o Set({"XTALX_02"}) \o Set({"CLKR_08"})
    \o Wr({"CR", "CR1"}, {}) \o Set(EnableBlocks(cfg))

r12a_power_on(cfg) ==
    Wr({"RF_CTRL"}, {"RF_EN", "RF_SDMRSTB"})
    \o Wr({"RF_CTRL"}, {"RF_EN", "RF_RSTB", "RF_SDMRSTB"})
    \o Wr({"RF_B_CTRL"}, {"RFB_EN", "RFB_SDMRSTB"})
    \o Wr({"RF_B_CTRL"}, {"RFB_EN", "RFB_RSTB", "RFB_SDMRSTB"})
    \o Chk(Set({"SPS1_01"}) \o Clr({"ZCD_0180"}) \o Clr({"LPLDO_SLEEP"}) \o Wr({"PINS"}, {})
           \o Clr({"AFSM_HSUS"}) \o Set({"CPUEN"}) \o Clr({"APFM_RSM"})
           \o Ready \o Clr({"AFSM_HSUS"}) \o OnMac
           \o Wr({"CR", "CR1"}, {}) \o Set(EnableBlocks(cfg)))

r21a_power_on(cfg) == Chk(
    Clr({"AFSM_HSUS", "APDM_HPDN"}) \o Clr({"AFSM_HSUS", "AFSM_PCIE"}) \o Set({"LDA15_EN"})
    \o Clr({"IP2MAC"}) \o Clr({"APFM_RSM", "AFSM_HSUS", "AFSM_PCIE"})
    \o Ready \o Set({"RDY_MACON"}) \o Clr({"APDM_HPDN"}) \o Clr({"AFSM_HSUS", "AFSM_PCIE"})
    \o OnMac \o Wr({"PINS"}, {})
    \o Wr({"CR", "CR1"}, {}) \o Set(EnableBlocks(cfg)))

PowerOn(cfg) ==
    CASE cfg.chip = "r92ce" -> r92ce_power_on(cfg) [] cfg.chip = "r92cu" -> r92cu_power_on(cfg)
      [] cfg.chip = "r88ee" -> r88ee_power_on(cfg) [] cfg.chip = "r88eu" -> r88eu_power_on(cfg)
      [] cfg.chip = "r12au" -> r12a_power_on(cfg)  [] cfg.chip = "r21au" -> r21a_power_on(cfg)

---------------------------------------------------------------------------
(* Power off. *)

r92ce_power_off(cfg) ==
    Wr({"TXPAUSE"}, {"TX_QUEUE_ALL"}) \o Wr({"RF_CTRL"}, {})
    \o Set({"BB_GLB_RST"}) \o Clr({"BB_GLB_RST"})
    \o Clr(DmaBits \union {"MACTXEN", "MACRXEN", "ENSEC"})
    \o If({"RAM_DL_SEL"}, FwReset(cfg, "SHUTDOWN"))
    \o Wr({"AFE_PLL_CTRL", "AFE_PLL_CTRL1"}, {"PLL_80"}) \o Wr({"SPS0_CTRL"}, {"SPS_23"})
    \o Wr({"AFE_XTAL_CTRL"}, {"XTAL_0E"}) \o Wr({"RSV_CTRL"}, {"RSV_02", "RSV_0C"})
    \o Wr({"APS_FSMCO"}, {"PDN_EN"})

ClockOff == Wr({"SYS_CLKR", "SYS_CLKR1"}, {"ANAD16V_EN", "ANA8M", "LOADER_EN", "SSC_DIS",
                                           "SYS_EN", "RING_EN", "CLKR1_40"})
r92cu_power_off(cfg) == IfPresent(
    Wr({"TXPAUSE"}, {"TX_QUEUE_ALL"}) \o Wr({"APSD_CTRL"}, {"APSD_OFF"})
    \o Wr({"SYS_FUNC_EN"}, {"USBD", "USBA", "BB_GLB_RST"}) \o Wr({"SYS_FUNC_EN"}, {"USBD", "USBA"})
    \o If({"RDY"}, Wr({"MCUFWDL"}, {}) \o FwReset(cfg, "SHUTDOWN"))
    \o Wr({"SYS_FUNC_EN1"}, {"CPUEN", "ELDR", "HWPDN"})
    \o Wr({"MCUFWDL"}, {}) \o ClockOff \o Wr({"AFE_PLL_CTRL"}, {"PLL_80"})
    \o Wr({"AFE_XTAL_CTRL", "AFE_XTAL_CTRL1"}, {"XTAL_0E", "XTAL_01", "XTAL1_80", "XTAL1_08"})
    \o Wr({"SYS_ISO_CTRL"}, {"MD2PP", "PA2PCIE", "PD2CORE", "IP2MAC", "DIOP", "DIOE"})
    \o Wr({"PINS"}, {"BALANCED"}) \o ClockOff
    \o Wr({"SYS_ISO_CTRL1"}, {"DIOR", "PWC_EV12V"}) \o Wr({"LDOA15_CTRL"}, {"LDA15_OBUF"})
    \o Clr({"LDV12_EN"}) \o Wr({"SPS0_CTRL"}, {"SPS_23"})
    \o Wr({"APS_FSMCO", "APS_FSMCO1"}, {"APDM_HOST", "AFSM_HSUS", "PFM_ALDN"})
    \o Wr({"RSV_CTRL"}, {"RSV_02", "RSV_0C"}))

\* From blocking the queues to the disabled state, common to r88eu and r88ee.
r88e_power_off(cfg) ==
    Wr({"TXPAUSE"}, {"TX_QUEUE_ALL"}) \o Ready \o Clr({"BBRSTB"}) \o Wr({"CR"}, DmaBits)
    \o Clr({"ENSEC"}) \o If({"RDY"}, FwReset(cfg, "SHUTDOWN")) \o Wr({"MCUFWDL"}, {})
    \o Wr({"RF_CTRL"}, {}) \o Set({"LPLDO_SLEEP"}) \o OffMac \o Set({"XTAL2_80"})
r88e_pins == Clr({"RSV1_08"}) \o Set({"RSV1_08"}) \o Wr({"PINS"}, {"BALANCED"})
r88eu_power_off(cfg) == IfPresent(
    Clr({"TX_RPT1_ENA", "TX_RPT2_ENA"}) \o Wr({"CR"}, {}) \o r88e_power_off(cfg)
    \o Mod({"AFSM_PCIE"}, {"AFSM_HSUS"}) \o Wr({"APS_FSMCO3"}, {}) \o r88e_pins)
r88ee_power_off_RxDmaLeft(cfg) ==       \* mutant
    Clr({"TX_RPT1_ENA", "TX_RPT2_ENA"}) \o r88e_power_off(cfg) \o r88e_pins
r88ee_power_off(cfg) ==
    Clr({"TX_RPT1_ENA", "TX_RPT2_ENA"}) \o Set({"DMA_STOP"}) \o r88e_power_off(cfg) \o r88e_pins

\* setbits_1_shift(..., 0xff, set, 3) shifts the mask of the bits to clear away as well.
ClrNone == {}
r12a_power_off(cfg) == IfPresent(
    Wr({"CR"}, {}) \o Wr({"TXPAUSE"}, {"TX_QUEUE_ALL"}) \o Ready
    \o Clr({"HSSI"}) \o Clr({"BBRSTB"}) \o Clr({"BB_GLB_RST"})
    \o Wr({"CR"}, {"HCI_TXDMA_EN", "HCI_RXDMA_EN"}) \o Clr({"ENSEC"})
    \o If({"RAM_DL_SEL"}, FwReset(cfg, "SHUTDOWN"))
    \o Clr({"CPUEN"}) \o Wr({"MCUFWDL"}, {}) \o Clr({"HSSI"}) \o Clr({"BB_GLB_RST"})
    \o Mod(ClrNone, {"SOP_RCK", "SOP_ABG"}) \o Clr({"ANA8M"}) \o OffMac
    \o Clr({"CPUEN"}) \o Wr({"MCUFWDL"}, {"MCUFWDL_EN"}) \o Wr({"PINS"}, {"BALANCED"})
    \o Set({"ZCD_0180"}) \o Clr({"SPS1_01"}) \o Set({"LPLDO_SLEEP"}) \o Clr({"ANA8M"})
    \o Mod(ClrNone, {"SOP_RCK"}) \o Clr({"RF_RSTB"}) \o Clr({"RFB_RSTB"}) \o Set({"AFSM_HSUS"}))

r21a_power_off(cfg) == IfPresent(
    Wr({"CR"}, {}) \o Wr({"TXPAUSE"}, {"TX_QUEUE_ALL"}) \o Ready
    \o Clr({"BBRSTB"}) \o Clr({"BB_GLB_RST"}) \o Wr({"CR"}, {"HCI_TXDMA_EN", "HCI_RXDMA_EN"})
    \o Clr({"ENSEC"}) \o If({"RAM_DL_SEL"}, FwReset(cfg, "SHUTDOWN"))
    \o Clr({"CPUEN"}) \o Wr({"MCUFWDL"}, {}) \o Wr({"RF_CTRL"}, {}) \o Wr({"PINS"}, {"BALANCED"})
    \o Set({"RDY_MACON"}) \o OffMac \o Set({"IP2MAC"}) \o Clr({"LDA15_EN"})
    \o Mod({"AFSM_PCIE"}, {"AFSM_HSUS"}))

PowerOff(cfg) ==
    CASE cfg.chip = "r92ce" -> r92ce_power_off(cfg) [] cfg.chip = "r92cu" -> r92cu_power_off(cfg)
      [] cfg.chip = "r88ee" -> r88ee_power_off(cfg) [] cfg.chip = "r88eu" -> r88eu_power_off(cfg)
      [] cfg.chip = "r12au" -> r12a_power_off(cfg)  [] cfg.chip = "r21au" -> r21a_power_off(cfg)

---------------------------------------------------------------------------
(* The routines of rtwn_init(). *)

\* "file", "upload", "boot": get the image, one upload, the firmware's own start.
Fw(what) == <<Op(what, "no", {}, {})>>
load_firmware(cfg) ==
    Fw("file")
    \o If({"RAM_DL_SEL"}, Wr({"MCUFWDL"}, {}) \o FwReset(cfg, "DOWNLOAD"))
    \o DownloadEnable(cfg) \o Fw("upload") \o DownloadDisable
    \o Mod({"WINTINI_RDY"}, {"RDY"}) \o FwReset(cfg, "CHECKSUM") \o Fw("boot")

dma_init_Unchecked(cfg) ==              \* mutant
    Set({"LLT"}) \o Ready \o Set({"RQPN"}) \o Set({"BDNY"}) \o Set({"QMAP"}) \o Set({"RX_BDNY"})
llt_init == Set({"LLT"}) \o Ready
dma_init(cfg) == Chk(
    llt_init \o Set({"RQPN"}) \o Set({"BDNY"})
    \o (IF cfg.chip = "r21au" THEN Set({"BCNQ1"}) ELSE <<>>) \o Set({"QMAP"}))
    \o (IF cfg.chip \in Pci THEN Set({"DESC_ADDR"}) ELSE <<>>) \o Chk(Set({"RX_BDNY"}))

BusBits(cfg) == IF cfg.chip \in Pci THEN {"DIO_PCIE", "PCIEA", "PPLL"} ELSE {"USBA", "USBD"}
RfOn == Wr({"RF_CTRL"}, {"RF_EN", "RF_RSTB", "RF_SDMRSTB"})
r92c_init_bb(cfg) ==
    Set({"BBRSTB", "BB_GLB_RST", "DIO_RF"}) \o Wr({"AFE_PLL_CTRL", "AFE_PLL_CTRL1"},
        {"PLL_80", "PLL_03", "PLL1_DB"}) \o RfOn
    \o Wr({"SYS_FUNC_EN"}, BusBits(cfg) \union {"BB_GLB_RST", "BBRSTB"})
    \o (IF cfg.chip = "r92cu" THEN Wr({"LDOHCI12_CTRL"}, {"LDH12_0F"}) ELSE <<>>)
    \o Wr({"AFE_XTAL_CTRL1"}, {"XTAL1_80"}) \o Set({"BB"})
r88e_init_bb(cfg) ==
    Set({"BBRSTB", "BB_GLB_RST", "DIO_RF"}) \o RfOn
    \o Wr({"SYS_FUNC_EN"}, BusBits(cfg) \union {"BB_GLB_RST", "BBRSTB"}) \o Set({"BB"})
r12a_init_bb ==
    Set({"USBA"}) \o Set({"BBRSTB", "BB_GLB_RST"}) \o RfOn
    \o Wr({"RF_B_CTRL"}, {"RFB_EN", "RFB_RSTB", "RFB_SDMRSTB"}) \o Set({"BB"})
init_bb(cfg) ==
    CASE cfg.chip \in {"r92ce", "r92cu"} -> r92c_init_bb(cfg)
      [] cfg.chip \in {"r88ee", "r88eu"} -> r88e_init_bb(cfg)
      [] OTHER -> r12a_init_bb

lc_calib == Wr({"TXPAUSE"}, {"TX_QUEUE_ALL"}) \o Wr({"TXPAUSE"}, {})
r92c_post_init == Set({"CALIB"}) \o lc_calib
r88eu_post_init == Set({"TX_RPT1_ENA"}) \o Set({"NO_LINK"}) \o Set({"CALIB"}) \o lc_calib
r88ee_post_init_RxDmaStopped == r88eu_post_init      \* mutant
r88ee_post_init == r88eu_post_init \o Wr({"PCIE_CTRL1"}, {})
post_init(cfg) ==
    CASE cfg.chip \in {"r92ce", "r92cu"} -> r92c_post_init
      [] cfg.chip = "r88eu" -> r88eu_post_init
      [] cfg.chip = "r88ee" -> r88ee_post_init
      [] OTHER -> <<>>
init_ampdu(cfg) ==
    IF cfg.chip \in {"r12au", "r21au"} THEN Set({"AMPDU"}) \o Set({"RSV_60"}) ELSE Set({"AMPDU"})

\* From rtwn_init_intr() to rtwn_start_xfers(); the MAC address and the static keys are checked.
init_blocks(cfg) ==
    Set({"INTR"}) \o Set({"MSR"}) \o Chk(Set({"MACADDR"})) \o Set({"RCR", "EDCA"}) \o Set({"AGG"}) \o Set({"BCN"})
    \o init_ampdu(cfg) \o Set({"MACTXEN", "MACRXEN"}) \o init_bb(cfg) \o Set({"RF"})
    \o Set({"CHAN"}) \o Set({"CAM"}) \o Set({"SECCFG"}) \o Chk(Set({"KEYS"})) \o post_init(cfg)

rtwn_init(cfg) == <<PowerOn(cfg), load_firmware(cfg), Chk(Set({"MAC_PROG"})),
                    dma_init(cfg), init_blocks(cfg)>>
LoadFirmware == 2       \* the routine whose failure is ignored
LastRoutine == 5

---------------------------------------------------------------------------
(* The driver. *)

VARIABLES
    cfg,
    phase,      \* "off", "starting", "running", "failed", "stopping", "gone"
    routine,    \* of rtwn_init
    pc,         \* next operation of the routine
    on,         \* the register bits that are 1
    sc_flags,
    ntries,     \* uploads that failed
    errors, starts,
    lost,       \* history: a write was lost since the last start or stop
    left,       \* history: the last rtwn_power_off() did not do all of it
    again       \* history: rtwn_init() after a failed one

vars == <<cfg, phase, routine, pc, on, sc_flags, ntries, errors, starts, lost, left, again>>

Program ==
    (IF phase = "stopping" THEN PowerOff(cfg) ELSE rtwn_init(cfg)[routine])
    \o <<Op("return", "no", {}, {})>>
Busy == phase \in {"starting", "stopping"}
\* The operation to do next, if any.
Current == IF Busy THEN {Program[pc]} ELSE {}

Init ==
    /\ cfg \in Configs
    /\ phase = "off" /\ routine = 1 /\ pc = 1
    /\ on = {} /\ sc_flags = {} /\ ntries = 0
    /\ errors = 0 /\ starts = 0 /\ lost = FALSE /\ left = FALSE /\ again = FALSE

\* The MAC's registers do not survive a reset of its core (a write that leaves DCORE off).
Settle(bits) == IF "DCORE" \in bits THEN bits ELSE bits \ MacBits
Advance(n) == pc' = pc + n

\* A routine returns an error.
RoutineFails ==
    IF phase = "stopping" THEN
        /\ phase' = "off" /\ left' = TRUE
        /\ UNCHANGED <<routine, pc>>
    ELSE IF routine = LoadFirmware THEN
        /\ routine' = routine + 1 /\ pc' = 1
        /\ UNCHANGED <<phase, left>>
    ELSE
        /\ phase' = "failed"
        /\ UNCHANGED <<routine, pc, left>>

\* rtwn_init(), from rtwn_parent(); "failed": a vap is brought up before the vaps are stopped.
Start ==
    /\ phase \in {"off", "failed"} /\ starts < MaxStarts
    /\ phase' = "starting" /\ routine' = 1 /\ pc' = 1 /\ ntries' = 0
    /\ sc_flags' = sc_flags \union {"STARTED"}
    /\ starts' = starts + 1 /\ again' = (phase = "failed") /\ lost' = (lost /\ phase = "failed")
    /\ UNCHANGED <<cfg, on, errors, left>>

Stop_KeepsFirmware ==                   \* mutant
    /\ phase \in {"running", "failed"} /\ "STARTED" \in sc_flags
    /\ phase' = "stopping" /\ pc' = 1 /\ left' = FALSE /\ lost' = FALSE
    /\ sc_flags' = sc_flags \ {"STARTED", "RUNNING", "TEMP_MEASURED"}
    /\ UNCHANGED <<cfg, routine, on, ntries, errors, starts, again>>
\* rtwn_stop()
Stop ==
    /\ phase \in {"running", "failed"} /\ "STARTED" \in sc_flags
    /\ phase' = "stopping" /\ pc' = 1 /\ left' = FALSE /\ lost' = FALSE
    /\ sc_flags' = sc_flags \ {"STARTED", "RUNNING", "FW_LOADED", "TEMP_MEASURED"}
    /\ UNCHANGED <<cfg, routine, on, ntries, errors, starts, again>>

Write(op) ==
    /\ op.do = "write" /\ Advance(1)
    /\ on' = Settle((on \ op.clr) \union op.set)
    /\ UNCHANGED <<cfg, phase, routine, sc_flags, ntries, errors, starts, lost, left, again>>

WriteFails(op) ==
    /\ op.do = "write" /\ errors < MaxErrors /\ cfg.chip \notin Pci
    /\ errors' = errors + 1
    /\ \/ op.chk = "yes" /\ RoutineFails /\ UNCHANGED lost
       \/ op.chk # "yes" /\ Advance(1) /\ lost' = TRUE /\ UNCHANGED <<phase, routine, left>>
       \/ /\ op.chk = "present"             \* ENXIO: unplugged
          /\ phase' = "gone" /\ UNCHANGED <<routine, pc, left, lost>>
    /\ UNCHANGED <<cfg, on, sc_flags, ntries, starts, again>>

Branch(op) ==
    /\ \/ op.do = "if" /\ Advance(IF op.set \subseteq on THEN 1 ELSE 1 + op.skip)
       \/ op.do = "ifnot" /\ Advance(IF op.set \subseteq on THEN 1 + op.skip ELSE 1)
    /\ UNCHANGED <<cfg, phase, routine, on, sc_flags, ntries, errors, starts, lost, left, again>>

\* The hardware's answer: ONMAC brings the MAC up (with or without its registers), OFF takes
\* it down.
PollEnds(op) ==
    /\ op.do = "ready" \/ (op.do = "cleared" /\ op.clr \subseteq on)
    /\ Advance(1)
    /\ CASE "APFM_ONMAC" \in op.clr ->
              \E kept \in {on, on \ MacBits} :
                  on' = (kept \ {"APFM_ONMAC"}) \union {"DCORE"}
         [] "APFM_OFF" \in op.clr -> on' = on \ (MacBits \union {"APFM_OFF"})
         [] OTHER -> on' = on
    /\ UNCHANGED <<cfg, phase, routine, sc_flags, ntries, errors, starts, lost, left, again>>

\* A flag the request for which was lost reads as 0 at once.
PollIdle(op) ==
    /\ op.do = "cleared" /\ ~(op.clr \subseteq on)
    /\ Advance(1)
    /\ UNCHANGED <<cfg, phase, routine, on, sc_flags, ntries, errors, starts, lost, left, again>>

PollRunsOut(op) ==
    /\ op.do = "ready" \/ op.do = "cleared"
    /\ RoutineFails
    /\ UNCHANGED <<cfg, on, sc_flags, ntries, errors, starts, lost, again>>

\* rtwn_load_firmware(): no file, three failed uploads, or no sign of life.
NoFile(op) ==
    /\ op.do = "file" /\ RoutineFails
    /\ UNCHANGED <<cfg, on, sc_flags, ntries, errors, starts, lost, again>>
FileFound(op) ==
    /\ op.do = "file" /\ Advance(1)
    /\ UNCHANGED <<cfg, phase, routine, on, sc_flags, ntries, errors, starts, lost, left, again>>
Uploaded(op) ==
    /\ op.do = "upload" /\ Advance(1)
    /\ UNCHANGED <<cfg, phase, routine, on, sc_flags, ntries, errors, starts, lost, left, again>>
UploadFails(op) ==
    /\ op.do = "upload" /\ ntries' = ntries + 1
    /\ IF ntries' = 3 THEN RoutineFails ELSE UNCHANGED <<phase, routine, pc, left>>
    /\ UNCHANGED <<cfg, on, sc_flags, errors, starts, lost, again>>
Boots(op) ==
    /\ op.do = "boot" /\ {"CPUEN", "RDY"} \subseteq on /\ "MCUFWDL_EN" \notin on
    /\ on' = on \union {"WINTINI_RDY", "RAM_DL_SEL"}
    /\ sc_flags' = sc_flags \union {"FW_LOADED"} /\ Advance(1)
    /\ UNCHANGED <<cfg, phase, routine, ntries, errors, starts, lost, left, again>>
NoBoot(op) ==
    /\ op.do = "boot" /\ RoutineFails
    /\ UNCHANGED <<cfg, on, sc_flags, ntries, errors, starts, lost, again>>

RoutineReturns(op) ==
    /\ op.do = "return"
    /\ IF phase = "stopping" THEN
            /\ phase' = "off" /\ left' = lost /\ UNCHANGED <<routine, pc, sc_flags>>
       ELSE IF routine = LastRoutine THEN
            /\ phase' = "running" /\ sc_flags' = sc_flags \union {"RUNNING"}
            /\ UNCHANGED <<routine, pc, left>>
       ELSE /\ routine' = routine + 1 /\ pc' = 1
            /\ UNCHANGED <<phase, sc_flags, left>>
    /\ UNCHANGED <<cfg, on, ntries, errors, starts, lost, again>>

Next ==
    \/ Start \/ Stop
    \/ \E op \in Current :
          \/ Write(op) \/ WriteFails(op) \/ Branch(op) \/ PollEnds(op) \/ PollIdle(op)
          \/ PollRunsOut(op) \/ NoFile(op) \/ FileFound(op) \/ Uploaded(op) \/ UploadFails(op)
          \/ Boots(op) \/ NoBoot(op) \/ RoutineReturns(op)

Spec == Init /\ [][Next]_vars

---------------------------------------------------------------------------
(* Properties. *)

TypeOK ==
    /\ cfg \in Configs /\ on \subseteq Bits
    /\ phase \in {"off", "starting", "running", "failed", "stopping", "gone"}
    /\ routine \in 1..LastRoutine /\ pc \in Nat \ {0}
    /\ Busy => pc <= Len(Program)
    /\ sc_flags \subseteq {"STARTED", "RUNNING", "FW_LOADED"}
    /\ (phase = "running") = ("RUNNING" \in sc_flags)

\* However rtwn_power_off() is left, the chip receives no more: the receiver is off or, on
\* r88ee, its DMA into host memory is stopped (rtwn_abort_xfers() gives the buffers away).
NoReceptionWhenOff ==
    phase = "off" /\ ~lost => "MACRXEN" \notin on \/ "DMA_STOP" \in on

\* "Init MACTXEN / MACRXEN after setting RxFF boundary": through failed starts, lost writes
\* and registers that survive, the receiver never runs over an unprogrammed packet buffer.
\* r92ce_power_on() sets the two bits itself, before.
BoundariesFirst ==
    cfg.chip # "r92ce" /\ "MACRXEN" \in on =>
        {"LLT", "RQPN", "BDNY", "QMAP", "RX_BDNY"} \subseteq on

\* The driver talks to the firmware (RTWN_FW_LOADED) only while it runs: its CPU is enabled,
\* it said it is ready and the download mode is off.  A start that follows a failed one
\* keeps the flag of the failed one.
FirmwareRuns ==
    phase = "running" /\ "FW_LOADED" \in sc_flags /\ ~again /\ ~lost =>
        {"CPUEN", "RDY", "WINTINI_RDY"} \subseteq on /\ "MCUFWDL_EN" \notin on

\* What the driver takes for running runs.
FlagsAgree == TypeOK /\ FirmwareRuns

\* The checked writes are the ones a running chip cannot do without: no lost write of the
\* others leaves it running with its DMA engines or its packet buffer not set up.
ChecksSuffice ==
    phase = "running" => DmaBits \union {"RQPN", "BDNY", "RX_BDNY", "MAC_PROG"} \subseteq on

\* Whatever state the last stop left the chip in, a start that succeeds wakes all of it.
WokenUp ==
    phase = "running" /\ ~lost =>
        /\ DmaBits \union {"MACTXEN", "MACRXEN", "DCORE"} \subseteq on
        /\ {"BBRSTB", "BB_GLB_RST", "RF_EN", "RF_RSTB", "RF_SDMRSTB"} \subseteq on
        /\ on \intersect {"DMA_STOP", "RSV_0C", "IP2MAC", "LPLDO_SLEEP", "APSD_OFF"} \subseteq
               (IF cfg.chip = "r92cu" THEN {"IP2MAC"} ELSE {})
        /\ cfg.chip \in {"r88eu", "r12au", "r21au"} => "AFSM_HSUS" \notin on
        /\ cfg.chip = "r12au" => {"RFB_EN", "RFB_RSTB"} \subseteq on
        /\ cfg.chip = "r21au" => "LDA15_EN" \in on
        /\ cfg.chip \notin {"r12au", "r21au"} \/ ~left => "TX_QUEUE_ALL" \notin on
        /\ cfg.crypto => "ENSEC" \in on

\* A start that succeeds wakes the chip, and its checked writes are enough for that.
RunningIsAwake == WokenUp /\ ChecksSuffice
=============================================================================
