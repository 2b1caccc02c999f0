------------------------------ MODULE GethPhy ------------------------------
(***************************************************************************)
(* mii_phy_init of net/emac/sunxi_geth.c: what geth_init does to the PHY,    *)
(* without the PHY library, and the speed it gives the MAC for it; and      *)
(* geth_sys_init, which gives the PHY its clock and power.  The two ways to  *)
(* drive the PHY share the one PHY of PhyChip and one thread.               *)
(*                                                                         *)
(* The driver is built with PHY_RTL8211F and DISABLE_AUTONEG, and with        *)
(* CONFIG_SUNXI_EXT_PHY, which net/phy.h defines.                           *)
(***************************************************************************)
EXTENDS Phy

CONSTANT UsedType     \* the PHY on the chip or one outside it
ASSUME UsedTypeAssumption == UsedType \in {"INT_PHY", "EXT_PHY"}

VARIABLES
  syscon,       \* PHY_CLK_REG: fields that are not zero
  clocks,       \* clocks of the CCMU that run
  phy_addr,     \* the address found, 0x1f before
  mac           \* the speed and duplex in GETH_BASIC_CTL0

vars == <<chipVars, phyVars, syscon, clocks, phy_addr, mac>>
board == <<syscon, clocks>>

GethPlaces == {"greset", "gpower", "gadvertise", "gspeed", "gwait", "gmac"}

SysconFields == {"SELECT", "SHUTDOWN", "CLK_SEL", "RGMII", "CLK_SRC", "TX_DELAY", "RX_DELAY"}
Clocks == {"gmac reset", "gmac gating", "ccmu 0x70", "ccmu 0x2c8", "ephy 25m"}

\* The state of the PHY, the library and the driver together.
TypeOK ==
  /\ ChipType /\ PhyType
  /\ pc \in {"idle", "trap"} \cup LibPlaces \cup GethPlaces
  /\ syscon \subseteq SysconFields /\ clocks \subseteq Clocks
  /\ phy_addr \in 0 .. 31
  /\ mac \in Modes \cup {NoMode}

\* The registers as after power-on, or left by a boot loader for the other PHY.
Init ==
  /\ PhyInit
  /\ syscon \in {{}, {"SELECT", "RX_DELAY"}} /\ clocks = {}
  /\ phy_addr = 31 /\ mac = NoMode

\* geth_sys_init with phy_interface MII for the PHY on the chip and RGMII outside.
SysconSet ==
  IF UsedType = "INT_PHY" THEN {"SELECT", "CLK_SEL"}
  ELSE {"SHUTDOWN", "RGMII", "CLK_SRC", "TX_DELAY"}
SysconCleared ==
  {"RGMII", "CLK_SRC", "TX_DELAY", "RX_DELAY"}
    \cup (IF UsedType = "INT_PHY" THEN {"SHUTDOWN"} ELSE {"SELECT"})
ClocksEnabled ==
  {"gmac reset", "gmac gating"}
    \cup (IF UsedType = "INT_PHY" THEN {"ccmu 0x70", "ccmu 0x2c8"} ELSE {"ephy 25m"})

\* What gives the PHY clock and power.
PhyRuns ==
  IF UsedType = "INT_PHY"
  THEN "SELECT" \in syscon' /\ "SHUTDOWN" \notin syscon' /\ {"ccmu 0x70", "ccmu 0x2c8"} \subseteq clocks'
  ELSE "SELECT" \notin syscon' /\ {"RGMII", "CLK_SRC"} \subseteq syscon' /\ "ephy 25m" \in clocks'

GethSysInit ==
  /\ pc = "idle" /\ clocks = {}
  /\ syscon' = (syscon \ SysconCleared) \cup SysconSet
  /\ clocks' = ClocksEnabled
  /\ chip' = IF PhyRuns THEN PowerOn(chip) ELSE chip
  /\ UNCHANGED <<partner, phyVars, phy_addr, mac>>

Access(from, to, c) ==
  /\ pc = from /\ Goto(to)
  /\ chip' = c
  /\ UNCHANGED <<partner, phymap, addr, edev, i, changed, ret, setup, seen, steady, board>>

\* The scan of the 32 addresses, the vendor registers of the internal PHY and the
\* write that begins the reset.  Where no PHY answers phy_addr stays as it was, and
\* all that follows reads ones: the reset never ends.
MiiPhyInit ==
  /\ pc = "idle" /\ clocks # {}
  /\ phy_addr' = IF CreatePhyByMask(Addrs) = {} THEN phy_addr ELSE Min(CreatePhyByMask(Addrs))
  /\ chip' = IF Answers(phy_addr') THEN BmcrWritten(chip, chip.bmcr \cup {"RESET"}) ELSE chip
  /\ Goto("greset") /\ setup' = "geth"
  /\ UNCHANGED <<partner, phymap, addr, edev, i, changed, ret, seen, steady, board, mac>>

\* The end of the reset is waited for with no limit, and so is the end of power-down.
GethResetDone ==
  /\ Answers(phy_addr) /\ "RESET" \notin chip.bmcr
  /\ Access("greset", "gpower", BmcrWritten(chip, chip.bmcr \ {"PDOWN"}))
  /\ UNCHANGED <<phy_addr, mac>>

GethPoweredUp ==
  /\ "PDOWN" \notin chip.bmcr
  /\ Access("gpower", "gadvertise", chip)
  /\ UNCHANGED <<phy_addr, mac>>

\* 1000BASE-T full duplex is no longer advertised; the negotiation that has begun
\* with the end of the reset goes on.
GethAdvertise ==
  /\ Access("gadvertise", "gspeed", AdvWritten(chip, chip.adv \ {Mode(1000, "FULL")}))
  /\ UNCHANGED <<phy_addr, mac>>

GethSpeed ==
  /\ Access("gspeed", "gwait",
            BmcrWritten(chip, (chip.bmcr \ {"SPEED1000"}) \cup {"SPEED100", "FULLDPLX"}))
  /\ UNCHANGED <<phy_addr, mac>>

\* The wait for the negotiation has no limit either: at its "timeout" it prints.
GethNegotiated ==
  /\ "ANEGCOMPLETE" \in BmsrOf(chip)
  /\ Access("gwait", "gmac", BmsrRead(chip))
  /\ UNCHANGED <<phy_addr, mac>>

\* The MAC gets the mode that BMCR says, SPEED100 before SPEED1000.
GethMac ==
  /\ Access("gmac", "idle", chip)
  /\ mac' = Mode(CASE "SPEED100" \in chip.bmcr -> 100
                   [] {"SPEED100", "SPEED1000"} \cap chip.bmcr = {"SPEED1000"} -> 1000
                   [] OTHER -> 10,
                 IF "FULLDPLX" \in chip.bmcr THEN "FULL" ELSE "HALF")
  /\ UNCHANGED phy_addr

GethSteps ==
  \/ GethResetDone \/ GethPoweredUp \/ GethAdvertise \/ GethSpeed
  \/ GethNegotiated \/ GethMac

Code == (LibSteps /\ UNCHANGED <<board, phy_addr, mac>>) \/ GethSteps
Chip == ChipActs /\ Observed /\ UNCHANGED <<board, phy_addr, mac>>
CableMoves == Cable /\ Observed /\ UNCHANGED <<board, phy_addr, mac>>

Next ==
  \/ GethSysInit \/ MiiPhyInit
  \/ (LibCalls /\ UNCHANGED <<board, phy_addr, mac>>)
  \/ Code \/ Chip \/ CableMoves

\* A call goes on to its end, and so do the reset of a PHY and a negotiation with a
\* partner: but the cable moves or not.
Spec == Init /\ [][Next]_vars /\ WF_vars(Code) /\ WF_vars(Chip)

-----------------------------------------------------------------------------
\* phy_startup tells the truth about the link.  When it says the link is up (down),
\* the link was up (down) at some moment of the call, although BMSR latches a loss
\* and an earlier call may have left another answer; and when it says up, and the
\* link has been as it is since, the speed and duplex it gives after phy_config are
\* those in use, and miiphy_speed agrees below gigabit.  Not so after geth_init, which
\* changes CTRL1000 under a negotiation: phy_config then sees nothing to restart for.
StartupEnds == pc \in StartupPlaces /\ pc' = "idle" /\ ret' = 0
LinkSeen(a) == (phymap'[a].link = 1) \in seen
ModeInUse(a) ==
  phymap'[a].link = 1 /\ steady /\ chip.up /\ setup = "config" /\ Ercap =>
    /\ phymap'[a].mode = chip.mode
    /\ chip.mode.speed < 1000 =>
         /\ MiiphySpeed = chip.mode.speed
         /\ chip.mode.duplex = "FULL" => MiiphyDuplex = "FULL"
StartupTrue == [][StartupEnds => LinkSeen(addr) /\ ModeInUse(addr)]_vars

\* Every call of the library returns, whatever the PHY does and however often the
\* cable is moved; geth_init returns if the cable stays in a partner that can do
\* something else than 1000BASE-T full duplex.
Capable == partner \cap (Abilities \ {Mode(1000, "FULL")}) # {}
CallsReturn ==
  /\ pc \in LibPlaces ~> pc = "idle"
  /\ <>[]Capable => (pc \in GethPlaces ~> pc = "idle")

\* Violated.  The comment above the change to CTRL1000 says that the link will then
\* negotiate to 100 Mb/s: so it does not end at another speed with a partner that can
\* do 100 Mb/s full duplex.
LinkAt100 ==
  [][pc = "gmac" /\ pc' = "idle" /\ chip.up /\ Mode(100, "FULL") \in partner
       => chip.mode = Mode(100, "FULL")]_vars
=============================================================================
