-------------------------------- MODULE Phy --------------------------------
(***************************************************************************)
(* The PHY library, net/phy/phy.c, on the PHY of PhyChip: finding a PHY and  *)
(* making a phy_device of it, its reset, its configuration and the start   *)
(* that waits for the negotiation and reads off the result.                *)
(*                                                                         *)
(* pc is the place in the call under way: each place begins with an access  *)
(* whose answer depends on when it is made, and the PHY, the partner and   *)
(* the cable act in between.  Accesses do not fail: the only bus of the     *)
(* program is geth_miiphy_read, which has no error to return.               *)
(***************************************************************************)
EXTENDS PhyChip, FiniteSetsExt

CONSTANTS
  Addrs,        \* addresses on the bus (0..31)
  PhyAddr,      \* the one the PHY answers at
  EthDevs,      \* Ethernet devices to connect PHYs to
  NULL,
  ResetPolls,   \* polls of phy_reset (500)
  AnegTimeout,  \* PHY_ANEG_TIMEOUT (4000)
  Limits,       \* the speeds a MAC driver limits its PHY to
  Forced        \* the modes it may force

ASSUME PhyAssumption ==
  /\ Addrs \subseteq 0 .. 31 /\ PhyAddr \in Addrs
  /\ NULL \notin EthDevs
  /\ ResetPolls \in Nat /\ AnegTimeout \in Nat
  /\ Limits \subseteq Speeds /\ Forced \subseteq Modes

VARIABLES
  phymap,       \* the bus: address -> its phy_device, or NULL
  pc,
  addr,         \* the address of the PHY of the call under way
  edev,         \* and the Ethernet device it is to be connected to
  i,            \* polls so far
  changed,      \* genphy_config_advert: what it returns
  ret,          \* what the last call returned
  setup,        \* history: who has set the PHY up since its last reset
  seen,         \* history: states of the link during the phy_startup under way
  steady        \* history: the link is still what that call has seen

phyVars == <<phymap, pc, addr, edev, i, changed, ret, setup, seen, steady>>
history == <<setup, seen, steady>>

PhyDevice ==
  [dev : EthDevs \cup {NULL}, link : {0, 1}, mode : Modes \cup {NoMode},
   supported : SUBSET Modes, advertising : SUBSET Modes, autoneg : BOOLEAN]

\* A pointer to a phy_device is not null.
ASSUME DeviceAssumption == NULL \notin PhyDevice

StartupPlaces == {"wait", "second", "parse", "parse2"}
LibPlaces == {"reset", "gigabit", "aneg"} \cup StartupPlaces

PhyType ==
  /\ \A a \in Addrs : phymap[a] \in PhyDevice \cup {NULL}
  /\ addr \in Addrs /\ edev \in EthDevs \cup {NULL}
  /\ i \in 0 .. Max({ResetPolls, AnegTimeout + 1})
  /\ changed \in BOOLEAN
  /\ ret \in {-110, -1, 0}
  /\ setup \in {"nobody", "config", "geth"} /\ seen \subseteq BOOLEAN /\ steady \in BOOLEAN

PhyInit ==
  /\ ChipInit
  /\ phymap = [a \in Addrs |-> NULL]
  /\ pc = "idle" /\ addr = PhyAddr /\ edev = NULL
  /\ i = 0 /\ changed = FALSE /\ ret = 0
  /\ setup = "nobody" /\ seen = {} /\ steady = FALSE

Goto(place) == pc' = place
Return(r) == Goto("idle") /\ ret' = r

-----------------------------------------------------------------------------
(* Finding a PHY, with masks as sets of addresses.  Reads where nothing      *)
(* answers give all ones.                                                  *)

Answers(a) == a = PhyAddr /\ chip.powered

SearchForExistingPhy(mask) == {a \in mask : phymap[a] # NULL}

\* Clause 45 reads come after clause 22 ones and, on this bus, are the same reads.
CreatePhyByMask(mask) == {a \in mask : Answers(a)}

GetPhyDeviceByMask(mask) ==
  LET existing  == SearchForExistingPhy(mask)
      answering == CreatePhyByMask(mask)
  IN  IF existing # {} THEN Min(existing)
      ELSE IF answering # {} THEN Min(answering) ELSE NULL

\* phy_device_create with the generic driver, whose features are all modes, and
\* phy_probe.  No other driver is registered in this configuration.
PhyDeviceCreate ==
  [dev |-> NULL, link |-> 0, mode |-> NoMode,
   supported |-> Modes, advertising |-> Modes, autoneg |-> TRUE]

\* The device found at a, for dev, and the write that begins phy_reset.
ResetBegins(a, dev) ==
  /\ phymap' = [phymap EXCEPT ![a] = IF @ = NULL THEN PhyDeviceCreate ELSE @]
  /\ addr' = a /\ edev' = dev
  /\ chip' = BmcrWritten(chip, {"RESET"})
  /\ i' = 0 /\ setup' = "nobody"
  /\ Goto("reset")
  /\ UNCHANGED <<partner, changed, ret, seen, steady>>

\* phy_connect; nothing sets bus->reset.
PhyConnect(mask, dev) ==
  /\ pc = "idle" /\ GetPhyDeviceByMask(mask) # NULL
  /\ ResetBegins(GetPhyDeviceByMask(mask), dev)

\* miiphy_reset.  It does not look at what it has found: with no PHY at the address
\* phy_reset reads through a null pointer.
MiiphyReset(a) ==
  /\ pc = "idle"
  /\ IF GetPhyDeviceByMask({a}) # NULL
     THEN ResetBegins(a, NULL)
     ELSE Goto("trap") /\ UNCHANGED <<chipVars, phymap, addr, edev, i, changed, ret, history>>

\* A read of BMCR in phy_reset.  phy_connect_dev ignores what phy_reset returns.
PhyResetPoll ==
  /\ pc = "reset"
  /\ IF "RESET" \in chip.bmcr /\ i < ResetPolls
     THEN i' = i + 1 /\ UNCHANGED <<phymap, pc, ret>>
     ELSE /\ phymap' = IF edev = NULL THEN phymap
                       ELSE [phymap EXCEPT ![addr].dev = edev]
          /\ Return(IF edev = NULL /\ "RESET" \in chip.bmcr THEN -1 ELSE 0)
          /\ i' = 0
  /\ UNCHANGED <<chipVars, addr, edev, changed, history>>

-----------------------------------------------------------------------------
(* Configuration.                                                          *)

Known(a) == pc = "idle" /\ phymap[a] # NULL

\* What a MAC driver does between phy_connect and phy_config: limit the speed, or
\* switch negotiation off and give a mode.
Prepare(a, dev) ==
  /\ phymap' = [phymap EXCEPT ![a] = dev]
  /\ setup' = IF setup = "config" THEN "nobody" ELSE setup
  /\ UNCHANGED <<chipVars, pc, addr, edev, i, changed, ret, seen, steady>>

PhySetSupported(a, max_speed) ==
  /\ Known(a)
  /\ Prepare(a, [phymap[a] EXCEPT !.supported = {m \in Modes : m.speed <= max_speed}])

ForceMode(a, mode) ==
  /\ Known(a)
  /\ Prepare(a, [phymap[a] EXCEPT !.autoneg = FALSE, !.mode = mode])

\* What genphy_setup_forced writes.  ANRESTART without ANENABLE restarts nothing.
ForcedBmcr(mode) ==
  {"ANRESTART"} \cup {b \in {"SPEED1000", "SPEED100", "FULLDPLX"} :
                        CASE b = "SPEED1000" -> mode.speed = 1000
                          [] b = "SPEED100" -> mode.speed = 100
                          [] b = "FULLDPLX" -> mode.duplex = "FULL"}

\* The negotiated half of genphy_config_advert: ADVERTISE.
WriteAdvertise(modes) ==
  LET adv == (chip.adv \cap Gigabit) \cup (modes \ Gigabit)
  IN  /\ chip' = AdvWritten(BmsrRead(chip), adv)
      /\ changed' = (adv # chip.adv)
      /\ Goto("gigabit") /\ UNCHANGED ret

SetupForced(mode) ==
  /\ chip' = BmcrWritten(BmsrRead(chip), ForcedBmcr(mode))
  /\ Return(0) /\ UNCHANGED changed

\* genphy_config: the features the PHY has, then genphy_config_aneg up to its second
\* look at BMSR.  1000BASE-X is not among the modes.
PhyConfig(a) ==
  LET dev       == phymap[a]
      supported == dev.supported \cap Abilities
      modes     == dev.advertising \cap supported
  IN  /\ Known(a)
      /\ phymap' = [phymap EXCEPT
                      ![a].supported = supported,
                      ![a].advertising = IF dev.autoneg THEN modes ELSE @ \cap Abilities]
      /\ IF dev.autoneg THEN WriteAdvertise(modes) ELSE SetupForced(dev.mode)
      /\ addr' = a
      /\ setup' = IF setup = "geth" \/ "RESET" \in chip.bmcr THEN setup ELSE "config"
      /\ UNCHANGED <<partner, edev, i, seen, steady>>

\* CTRL1000, for a PHY that says it has it.
ConfigGigabit ==
  /\ pc = "gigabit"
  /\ LET adv == IF "ESTATEN" \notin BmsrOf(chip) THEN chip.adv
                ELSE (chip.adv \ Gigabit) \cup (phymap[addr].advertising \cap Gigabit)
     IN  /\ chip' = AdvWritten(BmsrRead(chip), adv)
         /\ changed' = (changed \/ adv # chip.adv)
  /\ Goto("aneg")
  /\ UNCHANGED <<partner, phymap, addr, edev, i, ret, history>>

\* New advertisements do not reach the partner.
RestartOnlyIfOff == "ANENABLE" \notin chip.bmcr \/ "ISOLATE" \in chip.bmcr

\* The negotiation is restarted when the PHY is to offer something else than before,
\* or when it was not negotiating.
MustRestart == changed \/ "ANENABLE" \notin chip.bmcr \/ "ISOLATE" \in chip.bmcr

ConfigAneg ==
  /\ pc = "aneg"
  /\ chip' = IF MustRestart
             THEN BmcrWritten(chip, (chip.bmcr \ {"ISOLATE"}) \cup {"ANENABLE", "ANRESTART"})
             ELSE chip
  /\ changed' = FALSE
  /\ Return(0)
  /\ UNCHANGED <<partner, phymap, addr, edev, i, history>>

-----------------------------------------------------------------------------
(* phy_startup: genphy_update_link, then genphy_parse_link.                 *)

SetLink(a, link) == phymap' = [phymap EXCEPT ![a].link = link]

\* A read of BMSR by phy_startup.  What it has seen of the link is what the mode is
\* to be read off for.
ReadBmsr == chip' = BmsrRead(chip) /\ seen' = seen \cup {chip.up} /\ steady' = TRUE

StartupReturns(r) == Return(r) /\ seen' = {} /\ steady' = FALSE

PhyStartup(a) ==
  /\ Known(a)
  /\ ReadBmsr
  /\ addr' = a /\ i' = 0
  /\ \/ phymap[a].link = 1 /\ "LSTATUS" \in BmsrOf(chip) /\ Goto("parse")
     \/ /\ ~(phymap[a].link = 1 /\ "LSTATUS" \in BmsrOf(chip))
        /\ Goto(IF phymap[a].autoneg /\ "ANEGCOMPLETE" \notin BmsrOf(chip)
                THEN "wait" ELSE "second")
  /\ UNCHANGED <<partner, phymap, edev, changed, ret, setup>>

\* One poll too many.
AnegWaitsLonger == i > AnegTimeout + 1

AnegTimedOut == i > AnegTimeout

\* The poll is not counted.
PollForgotten == i

Polled == i + 1

\* One turn of the wait for the negotiation.
AnegPoll ==
  /\ pc = "wait"
  /\ IF AnegTimedOut
     THEN /\ SetLink(addr, 0) /\ i' = 0
          /\ StartupReturns(-110) /\ UNCHANGED chip
     ELSE /\ ReadBmsr /\ UNCHANGED ret
          /\ IF "ANEGCOMPLETE" \in BmsrOf(chip)
             THEN SetLink(addr, 1) /\ i' = 0 /\ Goto("parse")
             ELSE i' = Polled /\ UNCHANGED <<phymap, pc>>
  /\ UNCHANGED <<partner, addr, edev, changed, setup>>

\* The second reading, which the latch does not falsify.
SecondRead ==
  /\ pc = "second"
  /\ ReadBmsr
  /\ SetLink(addr, IF "LSTATUS" \in BmsrOf(chip) THEN 1 ELSE 0)
  /\ Goto("parse")
  /\ UNCHANGED <<partner, addr, edev, i, changed, ret, setup>>

\* The fastest of the modes in common, in the order of the if statements.
Parsed(common) ==
  LET at(s) == {m \in common : m.speed = s}
  IN  CASE at(1000) # {} -> Mode(1000, IF Mode(1000, "FULL") \in common THEN "FULL" ELSE "HALF")
        [] at(1000) = {} /\ at(100) # {} ->
             Mode(100, IF Mode(100, "FULL") \in common THEN "FULL" ELSE "HALF")
        [] OTHER -> Mode(10, IF Mode(10, "FULL") \in common THEN "FULL" ELSE "HALF")

SetMode(mode) == phymap' = [phymap EXCEPT ![addr].mode = mode]

\* BMSR is read once more, then STAT1000 and CTRL1000 if gigabit is supported, or
\* BMCR if the mode is forced.
ParseLink ==
  /\ pc = "parse"
  /\ chip' = BmsrRead(chip)
  /\ LET gblpa == IF phymap[addr].supported \cap Gigabit = {} THEN {}
                  ELSE chip.lpa \cap chip.adv \cap Gigabit
     IN  \/ /\ phymap[addr].autoneg /\ gblpa = {}
            /\ Goto("parse2") /\ UNCHANGED <<phymap, ret, seen, steady>>
         \/ /\ ~phymap[addr].autoneg \/ gblpa # {}
            /\ SetMode(IF phymap[addr].autoneg THEN Parsed(gblpa) ELSE ForcedMode(chip))
            /\ StartupReturns(0)
  /\ UNCHANGED <<partner, addr, edev, i, changed, setup>>

\* ADVERTISE and LPA.  A PHY with gigabit and without the extended registers is taken
\* to run at 1000 whatever the partner has.
ParseLow ==
  /\ pc = "parse2"
  /\ LET lpa     == (chip.adv \cap chip.lpa) \ Gigabit
         estatus == IF "ESTATEN" \in BmsrOf(chip) /\ ~Ercap THEN Abilities \cap Gigabit ELSE {}
         full    == Mode(1000, "FULL") \in estatus \/ Parsed(lpa).duplex = "FULL"
     IN  SetMode(IF estatus = {} THEN Parsed(lpa)
                 ELSE Mode(1000, IF full THEN "FULL" ELSE "HALF"))
  /\ StartupReturns(0)
  /\ UNCHANGED <<chipVars, addr, edev, i, changed, setup>>

-----------------------------------------------------------------------------
(* miiphy_speed and miiphy_duplex of net/miiphyutil.c: the older way to ask  *)
(* the same, without CONFIG_PHY_GIGE.                                       *)

MiiphySpeed ==
  IF "ANENABLE" \in chip.bmcr
  THEN IF \E m \in chip.lpa \cap chip.adv : m.speed = 100 THEN 100 ELSE 10
  ELSE IF "SPEED100" \in chip.bmcr THEN 100 ELSE 10

MiiphyDuplex ==
  IF "ANENABLE" \in chip.bmcr
  THEN IF \E m \in (chip.lpa \cap chip.adv) \ Gigabit : m.duplex = "FULL" THEN "FULL" ELSE "HALF"
  ELSE IF "FULLDPLX" \in chip.bmcr THEN "FULL" ELSE "HALF"

-----------------------------------------------------------------------------
\* The PHY and the cable act on their own; the history remembers what the call under
\* way could have seen of it.
Observed ==
  /\ seen' = IF pc \in StartupPlaces THEN seen \cup {chip'.up} ELSE {}
  /\ steady' = (steady /\ chip'.mode = chip.mode)
  /\ UNCHANGED <<phymap, pc, addr, edev, i, changed, ret, setup>>

LibCalls ==
  \/ \E mask \in SUBSET Addrs \ {{}}, dev \in EthDevs : PhyConnect(mask, dev)
  \/ \E a \in Addrs : MiiphyReset(a)
  \/ \E a \in Addrs, s \in Limits : PhySetSupported(a, s)
  \/ \E a \in Addrs, m \in Forced : ForceMode(a, m)
  \/ \E a \in Addrs : PhyConfig(a)
  \/ \E a \in Addrs : PhyStartup(a)

LibSteps ==
  \/ PhyResetPoll \/ ConfigGigabit \/ ConfigAneg
  \/ AnegPoll \/ SecondRead \/ ParseLink \/ ParseLow
=============================================================================
