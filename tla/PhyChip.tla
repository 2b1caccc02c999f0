------------------------------ MODULE PhyChip ------------------------------
(***************************************************************************)
(* The PHY the driver talks to over MDIO, and what is at the other end of   *)
(* the cable: what net/phy/phy.c, net/miiphyutil.c and mii_phy_init use of  *)
(* the registers of IEEE 802.3 clauses 22 and 28.  None of it is in the     *)
(* repository.                                                              *)
(*                                                                         *)
(* A register is the set of the names of its bits that are set; ADVERTISE   *)
(* and CTRL1000 together are the set of modes advertised.  The PHY takes    *)
(* what it offers from them at a moment of its own after a negotiation has  *)
(* begun.  The link bit of BMSR is latched low: after a loss of the link    *)
(* the first read shows it down, whatever it has become since.              *)
(***************************************************************************)
EXTENDS Integers, FiniteSets

CONSTANTS
  Abilities,    \* the modes the PHY implements
  Partners,     \* the sets of modes that link partners may have

  Ercap         \* whether the PHY has the registers beyond BMSR

Speeds == {10, 100, 1000}
Duplexes == {"HALF", "FULL"}
Mode(speed, duplex) == [speed |-> speed, duplex |-> duplex]
Modes == [speed : Speeds, duplex : Duplexes]
NoMode == Mode(0, "HALF")
Gigabit == {m \in Modes : m.speed = 1000}

ASSUME ChipAssumption ==
  /\ Abilities \subseteq Modes
  /\ Partners \subseteq SUBSET Modes /\ {} \notin Partners
  /\ Ercap \in BOOLEAN

VARIABLES
  chip,         \* the PHY
  partner       \* the modes of the link partner, {} with the cable out

chipVars == <<chip, partner>>

BmcrBits == {"RESET", "ANENABLE", "ANRESTART", "PDOWN", "ISOLATE", "SPEED100",
             "SPEED1000", "FULLDPLX"}

ChipType ==
  /\ chip \in [powered : BOOLEAN, bmcr : SUBSET BmcrBits, adv : SUBSET Modes,
               neg : {"none", "running", "offered", "complete"},
               offer : SUBSET Modes, lpa : SUBSET Modes,
               up : BOOLEAN, mode : Modes \cup {NoMode}, latch : BOOLEAN]
  /\ partner \in Partners \cup {{}}

\* The mode that two sides with the modes S in common agree on: the fastest, full
\* duplex before half.
Resolved(S) ==
  CHOOSE m \in S : \A n \in S \ {m} :
    n.speed < m.speed \/ (n.speed = m.speed /\ m.duplex = "FULL")

\* The registers after power has come and after a reset.
DefaultBmcr ==
  {"ANENABLE", "FULLDPLX",
   IF Abilities \cap Gigabit # {} THEN "SPEED1000" ELSE "SPEED100"}

Negotiates(c) == "ANENABLE" \in c.bmcr /\ c.bmcr \cap {"RESET", "PDOWN"} = {}

\* The link goes down, and a negotiation begins if it is enabled.
StartOver(c) ==
  [c EXCEPT !.up = FALSE, !.mode = NoMode, !.latch = @ \/ c.up,
            !.neg = IF Negotiates(c) THEN "running" ELSE "none",
            !.offer = {}, !.lpa = {}]

ForcedMode(c) ==
  Mode(CASE "SPEED1000" \in c.bmcr -> 1000
         [] {"SPEED1000", "SPEED100"} \cap c.bmcr = {"SPEED100"} -> 100
         [] OTHER -> 10,
       IF "FULLDPLX" \in c.bmcr THEN "FULL" ELSE "HALF")

ChipInit ==
  /\ chip = [powered |-> FALSE, bmcr |-> DefaultBmcr, adv |-> Abilities,
             neg |-> "none", offer |-> {}, lpa |-> {}, up |-> FALSE,
             mode |-> NoMode, latch |-> FALSE]
  /\ partner \in Partners \cup {{}}

PowerOn(c) == StartOver([c EXCEPT !.powered = TRUE])

-----------------------------------------------------------------------------
(* Accesses over MDIO.                                                     *)

\* The bits of BMSR; reading them releases the latch.
BmsrOf(c) ==
  {b \in {"LSTATUS", "ANEGCOMPLETE", "ESTATEN", "ERCAP"} :
     CASE b = "LSTATUS" -> c.up /\ ~c.latch
       [] b = "ANEGCOMPLETE" -> c.neg = "complete"
       [] b = "ESTATEN" -> Abilities \cap Gigabit # {}
       [] b = "ERCAP" -> Ercap}

BmsrRead(c) == [c EXCEPT !.latch = FALSE]

\* A write of BMCR: a reset breaks the link, as do a restart of the negotiation, a
\* change of power or of ANENABLE, and another speed or duplex while the mode is
\* forced.  Otherwise speed and duplex have no effect as long as ANENABLE is set.
\* A write does not end a reset.
BmcrWritten(c, bits) ==
  LET new     == [c EXCEPT !.bmcr = (bits \ {"ANRESTART"}) \cup (@ \cap {"RESET"})]
      changed == (c.bmcr \ new.bmcr) \cup (new.bmcr \ c.bmcr)
  IN  IF \/ "RESET" \in bits
         \/ {"ANENABLE", "ANRESTART"} \subseteq bits
         \/ changed \cap {"ANENABLE", "PDOWN"} # {}
         \/ "ANENABLE" \notin bits /\ changed # {}
      THEN StartOver(new) ELSE new

AdvWritten(c, modes) == [c EXCEPT !.adv = modes]

-----------------------------------------------------------------------------
(* What the PHY and the partner do by themselves.                          *)

ResetDone ==
  /\ "RESET" \in chip.bmcr
  /\ chip' = StartOver([chip EXCEPT !.bmcr = DefaultBmcr, !.adv = Abilities])
  /\ UNCHANGED partner

Offer ==
  /\ chip.neg = "running" /\ partner # {}
  /\ chip' = [chip EXCEPT !.neg = "offered", !.offer = chip.adv]
  /\ UNCHANGED partner

\* Sides with nothing in common begin again.
Agree ==
  /\ chip.neg = "offered"
  /\ LET common == chip.offer \cap partner
     IN  chip' = IF common = {} THEN StartOver(chip)
                 ELSE [chip EXCEPT !.neg = "complete", !.lpa = partner,
                                   !.up = TRUE, !.mode = Resolved(common)]
  /\ UNCHANGED partner

LinkForced ==
  /\ chip.powered /\ ~chip.up
  /\ chip.bmcr \cap {"ANENABLE", "RESET", "PDOWN"} = {}
  /\ \E m \in partner : m.speed = ForcedMode(chip).speed
  /\ chip' = [chip EXCEPT !.up = TRUE, !.mode = ForcedMode(chip)]
  /\ UNCHANGED partner

Unplug ==
  /\ partner # {}
  /\ partner' = {}
  /\ chip' = StartOver(chip)

Plug ==
  /\ partner = {}
  /\ partner' \in Partners
  /\ UNCHANGED chip

ChipActs == ResetDone \/ Offer \/ Agree \/ LinkForced
Cable == Plug \/ Unplug
=============================================================================
