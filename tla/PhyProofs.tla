----------------------------- MODULE PhyProofs -----------------------------
(***************************************************************************)
(* Theorems about the PHY library and mii_phy_init for any PHY, any link   *)
(* partners and any number of polls: the types, and that phy_startup tells *)
(* the truth about the link.                                              *)
(***************************************************************************)
EXTENDS GethPhy, TLAPS

-----------------------------------------------------------------------------
(* The mode two sides agree on.                                            *)

LEMMA SpeedsOf ==
  ASSUME NEW m \in Modes
  PROVE  /\ m.speed = 10 \/ m.speed = 100 \/ m.speed = 1000
         /\ m.duplex = "HALF" \/ m.duplex = "FULL"
         /\ m = Mode(m.speed, m.duplex) /\ m # NoMode
BY DEF Modes, Mode, Speeds, Duplexes, NoMode

LEMMA ModeFields ==
  ASSUME NEW s, NEW d
  PROVE  Mode(s, d).speed = s /\ Mode(s, d).duplex = d
BY DEF Mode

LEMMA ModeIn ==
  ASSUME NEW s \in Speeds, NEW d \in Duplexes
  PROVE  Mode(s, d) \in Modes
BY DEF Mode, Modes

\* m beats every other mode of S.
Beats(m, S) ==
  \A n \in S \ {m} : n.speed < m.speed \/ (n.speed = m.speed /\ m.duplex = "FULL")

\* The order of the if statements of genphy_parse_link finds the mode that beats the
\* others.
LEMMA ParsedBeats ==
  ASSUME NEW S \in SUBSET Modes, S # {}
  PROVE  Parsed(S) \in S /\ Beats(Parsed(S), S)
<1> DEFINE at(s) == {m \in S : m.speed = s}
           best(s) == Mode(s, IF Mode(s, "FULL") \in S THEN "FULL" ELSE "HALF")
<1>1. ASSUME NEW s \in Speeds, at(s) # {}, \A m \in S : m.speed <= s
      PROVE  best(s) \in S /\ Beats(best(s), S)
  <2>1. PICK m \in S : m.speed = s
    BY <1>1
  <2>2. CASE Mode(s, "FULL") \in S
    <3>1. best(s) = Mode(s, "FULL")
      BY <2>2
    <3>2. best(s).speed = s /\ best(s).duplex = "FULL"
      BY <3>1, ModeFields
    <3> HIDE DEF best
    <3>3. \A n \in S : n.speed \in Int /\ s \in Int
      BY SpeedsOf DEF Speeds
    <3> QED
      BY <1>1, <2>2, <3>1, <3>2, <3>3 DEF Beats
  <2>3. CASE Mode(s, "FULL") \notin S
    <3>1. best(s) = Mode(s, "HALF")
      BY <2>3
    <3>2. best(s).speed = s
      BY <3>1, ModeFields
    <3>3. m = best(s)
      BY <2>1, <2>3, <3>1, SpeedsOf
    <3>4. \A n \in S : n.speed = s => n = best(s)
      BY <2>3, <3>1, SpeedsOf
    <3> HIDE DEF best
    <3>5. \A n \in S : n.speed \in Int /\ s \in Int
      BY SpeedsOf DEF Speeds
    <3>6. \A n \in S \ {best(s)} : n.speed < s
      BY <1>1, <3>4, <3>5
    <3> QED
      BY <2>1, <3>2, <3>3, <3>6 DEF Beats
  <2> QED
    BY <2>2, <2>3
<1>2. CASE at(1000) # {}
  <2>1. Parsed(S) = best(1000)
    BY <1>2 DEF Parsed
  <2>2. \A m \in S : m.speed <= 1000
    BY SpeedsOf
  <2> QED
    BY <1>1, <1>2, <2>1, <2>2 DEF Speeds
<1>3. CASE at(1000) = {} /\ at(100) # {}
  <2>1. Parsed(S) = best(100)
    BY <1>3 DEF Parsed
  <2>2. \A m \in S : m.speed <= 100
    BY <1>3, SpeedsOf
  <2> QED
    BY <1>1, <1>3, <2>1, <2>2 DEF Speeds
<1>4. CASE at(1000) = {} /\ at(100) = {}
  <2>1. Parsed(S) = best(10)
    BY <1>4 DEF Parsed
  <2>2. \A m \in S : m.speed <= 10
    BY <1>4, SpeedsOf
  <2>3. at(10) # {}
    BY <1>4, SpeedsOf
  <2> QED
    BY <1>1, <2>1, <2>2, <2>3 DEF Speeds
<1> QED
  BY <1>2, <1>3, <1>4

LEMMA ResolvedIsParsed ==
  ASSUME NEW S \in SUBSET Modes, S # {}
  PROVE  Resolved(S) = Parsed(S) /\ Parsed(S) \in S
<1> DEFINE p == Parsed(S)
           r == Resolved(S)
<1>1. p \in S /\ Beats(p, S)
  BY ParsedBeats
<1>2. r = CHOOSE m \in S : Beats(m, S)
  BY DEF Resolved, Beats
<1>3. r \in S /\ Beats(r, S)
  BY <1>1, <1>2
<1>4. /\ p.speed \in Int /\ r.speed \in Int
      /\ p = Mode(p.speed, p.duplex) /\ r = Mode(r.speed, r.duplex)
  BY <1>1, <1>3, SpeedsOf
<1> HIDE DEF p, r
<1>5. r = p
  BY <1>1, <1>3, <1>4 DEF Beats
<1> QED
  BY <1>1, <1>5 DEF p, r

\* The gigabit modes decide if there are any, and otherwise they are not there.
LEMMA ParsedGigabit ==
  ASSUME NEW S \in SUBSET Modes
  PROVE  /\ S \cap Gigabit # {} => Parsed(S \cap Gigabit) = Parsed(S)
         /\ S \cap Gigabit = {} => S \ Gigabit = S
<1>1. \A m \in S : m \in Gigabit <=> m.speed = 1000
  BY DEF Gigabit
<1>2. ASSUME S \cap Gigabit # {}
      PROVE  Parsed(S \cap Gigabit) = Parsed(S)
  <2> DEFINE G == S \cap Gigabit
  <2>1. {m \in S : m.speed = 1000} # {} /\ {m \in G : m.speed = 1000} # {}
    BY <1>1, <1>2
  <2>2. Mode(1000, "FULL") \in G <=> Mode(1000, "FULL") \in S
    BY <1>1, ModeFields
  <2> HIDE DEF G
  <2>3. Parsed(G) = Mode(1000, IF Mode(1000, "FULL") \in G THEN "FULL" ELSE "HALF")
    BY <2>1 DEF Parsed
  <2>4. Parsed(S) = Mode(1000, IF Mode(1000, "FULL") \in S THEN "FULL" ELSE "HALF")
    BY <2>1 DEF Parsed
  <2> QED
    BY <2>2, <2>3, <2>4 DEF G
<1> QED
  BY <1>2

-----------------------------------------------------------------------------
(* The PHY.                                                                *)

Chips == [powered : BOOLEAN, bmcr : SUBSET BmcrBits, adv : SUBSET Modes,
          neg : {"none", "running", "offered", "complete"},
          offer : SUBSET Modes, lpa : SUBSET Modes,
          up : BOOLEAN, mode : Modes \cup {NoMode}, latch : BOOLEAN]

\* What is true of the PHY whatever is done to it: the link is up with a mode, the
\* best one in common when it negotiates and the forced one otherwise.
Agreed(c) ==
  c.neg = "complete" =>
    /\ c.up /\ c.offer \cap c.lpa # {}
    /\ c.mode = Parsed(c.offer \cap c.lpa)

Sound(c) ==
  /\ c \in Chips /\ c.adv \subseteq Abilities
  /\ c.neg # "none" => "ANENABLE" \in c.bmcr
  /\ IF c.up THEN c.mode # NoMode ELSE c.mode = NoMode
  /\ c.up => IF "ANENABLE" \in c.bmcr THEN c.neg = "complete" ELSE c.mode = ForcedMode(c)
  /\ Agreed(c)

LEMMA ForcedModeIs ==
  ASSUME NEW c
  PROVE  ForcedMode(c) \in Modes
<1>1. \E s \in Speeds, d \in Duplexes : ForcedMode(c) = Mode(s, d)
  BY DEF ForcedMode, Speeds, Duplexes
<1> QED
  BY <1>1, ModeIn

LEMMA StartOverSound ==
  ASSUME NEW c \in Chips, c.adv \subseteq Abilities
  PROVE  LET d == StartOver(c) IN
         /\ Sound(d) /\ d.bmcr = c.bmcr /\ d.adv = c.adv /\ ~ d.up
         /\ d.neg = "none" \/ d.neg = "running"
         /\ (~ c.latch /\ ~ c.up) => ~ d.latch
         /\ d.mode = NoMode
<1> DEFINE d == StartOver(c)
<1>1. d \in Chips
  BY DEF Chips, StartOver, Negotiates, NoMode
<1>2. /\ d.bmcr = c.bmcr /\ d.adv = c.adv /\ ~ d.up /\ d.mode = NoMode
      /\ d.latch = (c.latch \/ c.up)
      /\ d.neg = IF Negotiates(c) THEN "running" ELSE "none"
  BY DEF Chips, StartOver
<1> HIDE DEF d
<1>3. Sound(d)
  BY <1>1, <1>2 DEF Sound, Agreed, Negotiates
<1> QED
  BY <1>2, <1>3 DEF d

\* What a write of BMCR does: it begins again, or it leaves all but the bits alone.
LEMMA BmcrSound ==
  ASSUME NEW c, Sound(c), NEW bits \in SUBSET BmcrBits
  PROVE  LET d == BmcrWritten(c, bits) IN
         /\ Sound(d) /\ d.adv = c.adv
         /\ d.bmcr = (bits \ {"ANRESTART"}) \cup (c.bmcr \cap {"RESET"})
         /\ \/ d.neg = "none" \/ d.neg = "running"
            \/ /\ d.neg = c.neg /\ d.offer = c.offer
               /\ "RESET" \notin bits /\ ~ {"ANENABLE", "ANRESTART"} \subseteq bits
<1> DEFINE new == [c EXCEPT !.bmcr = (bits \ {"ANRESTART"}) \cup (@ \cap {"RESET"})]
           chg == (c.bmcr \ new.bmcr) \cup (new.bmcr \ c.bmcr)
           d == BmcrWritten(c, bits)
<1>1. new \in Chips
  BY DEF Sound, Chips, BmcrBits
<1>2. /\ new.adv = c.adv /\ new.neg = c.neg /\ new.offer = c.offer /\ new.lpa = c.lpa
      /\ new.up = c.up /\ new.mode = c.mode
      /\ new.bmcr = (bits \ {"ANRESTART"}) \cup (c.bmcr \cap {"RESET"})
      /\ c.adv \subseteq Abilities
  BY DEF Sound, Chips
<1>3. d = IF \/ "RESET" \in bits
             \/ {"ANENABLE", "ANRESTART"} \subseteq bits
             \/ chg \cap {"ANENABLE", "PDOWN"} # {}
             \/ "ANENABLE" \notin bits /\ chg # {}
          THEN StartOver(new) ELSE new
  BY DEF BmcrWritten
<1>4. CASE d = StartOver(new)
  <2> HIDE DEF d, new
  <2> QED
    BY <1>1, <1>2, <1>4, StartOverSound DEF d
<1>5. CASE d = new /\ "RESET" \notin bits /\ ~ {"ANENABLE", "ANRESTART"} \subseteq bits
           /\ chg \cap {"ANENABLE", "PDOWN"} = {} /\ ("ANENABLE" \in bits \/ chg = {})
  <2> HIDE DEF d, new
  <2>1. "ANENABLE" \in c.bmcr <=> "ANENABLE" \in new.bmcr
    BY <1>5
  <2>2. "ANENABLE" \notin new.bmcr => new.bmcr = c.bmcr
    BY <1>2, <1>5
  <2>3. "ANENABLE" \notin new.bmcr => ForcedMode(new) = ForcedMode(c)
    BY <2>2 DEF ForcedMode
  <2>4. Sound(new)
    BY <1>1, <1>2, <2>1, <2>3 DEF Sound, Agreed
  <2> QED
    BY <1>2, <1>5, <2>4 DEF d
<1> QED
  BY <1>3, <1>4, <1>5

LEMMA AdvSound ==
  ASSUME NEW c, Sound(c), NEW modes \in SUBSET Abilities
  PROVE  LET d == AdvWritten(c, modes) IN
         /\ Sound(d) /\ d.adv = modes /\ d.bmcr = c.bmcr /\ d.neg = c.neg
         /\ d.offer = c.offer
<1> DEFINE d == AdvWritten(c, modes)
<1>1. d \in Chips
  BY ChipAssumption DEF Sound, Chips, AdvWritten
<1>2. /\ d.adv = modes /\ d.neg = c.neg /\ d.offer = c.offer /\ d.lpa = c.lpa
      /\ d.up = c.up /\ d.mode = c.mode /\ d.bmcr = c.bmcr
  BY DEF Sound, Chips, AdvWritten
<1> HIDE DEF d
<1>3. ForcedMode(d) = ForcedMode(c)
  BY <1>2 DEF ForcedMode
<1> QED
  BY <1>1, <1>2, <1>3 DEF Sound, Agreed, d

LEMMA ReadSound ==
  ASSUME NEW c, Sound(c)
  PROVE  LET d == BmsrRead(c) IN
         /\ Sound(d) /\ ~ d.latch
         /\ d.adv = c.adv /\ d.neg = c.neg /\ d.offer = c.offer /\ d.lpa = c.lpa
         /\ d.up = c.up /\ d.mode = c.mode /\ d.bmcr = c.bmcr
<1> DEFINE d == BmsrRead(c)
<1>1. d \in Chips
  BY DEF Sound, Chips, BmsrRead
<1>2. /\ d.adv = c.adv /\ d.neg = c.neg /\ d.offer = c.offer /\ d.lpa = c.lpa
      /\ d.up = c.up /\ d.mode = c.mode /\ d.bmcr = c.bmcr /\ d.latch = FALSE
  BY DEF Sound, Chips, BmsrRead
<1> HIDE DEF d
<1>3. ForcedMode(d) = ForcedMode(c)
  BY <1>2 DEF ForcedMode
<1> QED
  BY <1>1, <1>2, <1>3 DEF Sound, Agreed, d

\* What the PHY and the cable do by themselves.
LEMMA ChipSound ==
  ASSUME Sound(chip), partner \in Partners \cup {{}}, ChipActs \/ Cable
  PROVE  /\ Sound(chip') /\ partner' \in Partners \cup {{}}
         /\ chip'.adv = chip.adv \/ "RESET" \in chip.bmcr
         /\ chip'.bmcr = chip.bmcr \/ "RESET" \in chip.bmcr
         /\ \/ chip'.neg = "none" \/ chip'.neg = "running"
            \/ chip'.neg = "offered" /\ chip'.offer = chip'.adv
            \/ /\ chip'.neg = chip.neg \/ chip.neg = "offered"
               /\ chip'.offer = chip.offer /\ chip'.adv = chip.adv
         /\ chip'.latch => chip.latch \/ ~ chip'.up
         /\ chip'.up => \/ chip' = chip
                        \/ chip'.mode # NoMode /\ chip.mode = NoMode
<1>1. chip \in Chips /\ chip.adv \subseteq Abilities /\ Abilities \subseteq Modes
  BY ChipAssumption DEF Sound
<1>2. CASE ResetDone
  <2> DEFINE c == [chip EXCEPT !.bmcr = DefaultBmcr, !.adv = Abilities]
  <2>1. c \in Chips /\ c.adv = Abilities
    BY <1>1 DEF Chips, DefaultBmcr, BmcrBits
  <2>2. chip' = StartOver(c) /\ "RESET" \in chip.bmcr /\ partner' = partner
    BY <1>2 DEF ResetDone
  <2> HIDE DEF c
  <2> QED
    BY <2>1, <2>2, StartOverSound
<1>3. CASE Offer
  <2>1. /\ chip' = [chip EXCEPT !.neg = "offered", !.offer = chip.adv]
        /\ chip.neg = "running" /\ partner' = partner
    BY <1>3 DEF Offer
  <2>2. chip' \in Chips
    BY <1>1, <2>1 DEF Chips
  <2>3. /\ chip'.neg = "offered" /\ chip'.offer = chip.adv /\ chip'.adv = chip.adv
        /\ chip'.bmcr = chip.bmcr /\ chip'.up = chip.up /\ chip'.mode = chip.mode
        /\ chip'.latch = chip.latch
    BY <1>1, <2>1 DEF Chips
  <2>4. ~ chip.up /\ "ANENABLE" \in chip.bmcr
    BY <2>1 DEF Sound
  <2>5. Sound(chip')
    BY <1>1, <2>2, <2>3, <2>4 DEF Sound, Agreed
  <2> QED
    BY <2>1, <2>3, <2>4, <2>5
<1>4. CASE Agree
  <2> DEFINE common == chip.offer \cap partner
  <2>1. common \in SUBSET Modes /\ partner \in SUBSET Modes
    BY <1>1, ChipAssumption DEF Chips
  <2>2. CASE common = {}
    <3>1. chip' = StartOver(chip) /\ partner' = partner
      BY <1>4, <2>2 DEF Agree
    <3> QED
      BY <1>1, <3>1, StartOverSound
  <2>3. CASE common # {}
    <3>1. /\ chip' = [chip EXCEPT !.neg = "complete", !.lpa = partner, !.up = TRUE,
                                  !.mode = Resolved(common)]
          /\ chip.neg = "offered" /\ partner' = partner
      BY <1>4, <2>3 DEF Agree
    <3>2. Resolved(common) = Parsed(common) /\ Resolved(common) \in Modes
          /\ Resolved(common) # NoMode
      BY <2>1, <2>3, ResolvedIsParsed, SpeedsOf
    <3>3. chip' \in Chips
      BY <1>1, <2>1, <3>1, <3>2 DEF Chips
    <3>4. /\ chip'.neg = "complete" /\ chip'.offer = chip.offer /\ chip'.adv = chip.adv
          /\ chip'.lpa = partner /\ chip'.bmcr = chip.bmcr /\ chip'.up = TRUE
          /\ chip'.mode = Resolved(common) /\ chip'.latch = chip.latch
      BY <1>1, <3>1 DEF Chips
    <3>5. ~ chip.up /\ "ANENABLE" \in chip.bmcr /\ chip.mode = NoMode
      BY <3>1 DEF Sound
    <3>6. Sound(chip')
      BY <1>1, <2>3, <3>2, <3>3, <3>4, <3>5 DEF Sound, Agreed
    <3> QED
      BY <3>1, <3>2, <3>4, <3>5, <3>6
  <2> QED
    BY <2>2, <2>3
<1>5. CASE LinkForced
  <2>1. /\ chip' = [chip EXCEPT !.up = TRUE, !.mode = ForcedMode(chip)]
        /\ ~ chip.up /\ "ANENABLE" \notin chip.bmcr /\ partner' = partner
    BY <1>5 DEF LinkForced
  <2>2. ForcedMode(chip) \in Modes /\ ForcedMode(chip) # NoMode
    BY ForcedModeIs, SpeedsOf
  <2>3. chip' \in Chips
    BY <1>1, <2>1, <2>2 DEF Chips
  <2>4. /\ chip'.neg = chip.neg /\ chip'.offer = chip.offer /\ chip'.adv = chip.adv
        /\ chip'.bmcr = chip.bmcr /\ chip'.up = TRUE
        /\ chip'.mode = ForcedMode(chip) /\ chip'.latch = chip.latch
    BY <1>1, <2>1 DEF Chips
  <2>5. ForcedMode(chip') = ForcedMode(chip)
    BY <2>4 DEF ForcedMode
  <2>6. chip.neg = "none" /\ chip.mode = NoMode
    BY <2>1 DEF Sound
  <2>7. Sound(chip')
    BY <1>1, <2>1, <2>2, <2>3, <2>4, <2>5, <2>6 DEF Sound, Agreed
  <2> QED
    BY <2>1, <2>2, <2>4, <2>6, <2>7
<1>6. CASE Unplug
  BY <1>1, <1>6, StartOverSound DEF Unplug
<1>7. CASE Plug
  <2>1. chip' = chip /\ partner' \in Partners
    BY <1>7 DEF Plug
  <2> QED
    BY <2>1
<1> QED
  BY <1>2, <1>3, <1>4, <1>5, <1>6, <1>7 DEF ChipActs, Cable

-----------------------------------------------------------------------------
(* The inductive invariant.                                                *)

Places == {"idle", "trap"} \cup LibPlaces \cup GethPlaces

Rest ==
  /\ partner \in Partners \cup {{}}
  /\ phymap \in [Addrs -> PhyDevice \cup {NULL}]
  /\ addr \in Addrs /\ edev \in EthDevs \cup {NULL}
  /\ i \in Nat /\ (i <= ResetPolls \/ i <= AnegTimeout + 1)
  /\ changed \in BOOLEAN /\ ret \in {-110, -1, 0}
  /\ setup \in {"nobody", "config", "geth"} /\ seen \subseteq BOOLEAN /\ steady \in BOOLEAN
  /\ pc \in Places
  /\ syscon \subseteq SysconFields /\ clocks \subseteq Clocks
  /\ phy_addr \in 0 .. 31 /\ mac \in Modes \cup {NoMode}

Dev == phymap[PhyAddr]

\* Who has what in hand.
Lib ==
  /\ \A a \in Addrs : phymap[a] # NULL => a = PhyAddr
  /\ pc \in LibPlaces => addr = PhyAddr /\ Dev # NULL
  /\ changed => pc \in {"gigabit", "aneg"}
  /\ pc \in {"gigabit", "aneg"} => Dev.autoneg
  /\ pc \in GethPlaces => setup = "geth"
  /\ setup = "config" => Dev # NULL /\ "RESET" \notin chip.bmcr

\* A configured PHY offers what its device advertises, and what it has offered is what
\* it advertises, as long as no restart is due.
Configured ==
  /\ setup # "geth" /\ ~ changed /\ chip.neg \in {"offered", "complete"} =>
       chip.offer = chip.adv
  /\ pc \in {"gigabit", "aneg"} \/ (setup = "config" /\ Dev.autoneg) =>
       Dev.advertising \subseteq Dev.supported /\ Dev.supported \subseteq Abilities
  /\ setup = "config" /\ pc = "gigabit" =>
       chip.adv \ Gigabit = Dev.advertising \ Gigabit
  /\ setup = "config" /\ pc # "gigabit" /\ Dev.autoneg => chip.adv = Dev.advertising
  /\ setup = "config" /\ pc \notin {"gigabit", "aneg"} /\ Dev.autoneg =>
       "ANENABLE" \in chip.bmcr
  /\ setup = "config" /\ ~ Dev.autoneg => "ANENABLE" \notin chip.bmcr

\* The answer about the link that phy_startup has so far has been true in its time; the
\* latch holds only a loss since.
Startup ==
  /\ pc \in StartupPlaces /\ chip.latch => FALSE \in seen
  /\ pc \in {"parse", "parse2"} => IF Dev.link = 1 THEN TRUE \in seen ELSE FALSE \in seen
  /\ pc = "parse2" => Dev.autoneg
  /\ pc = "parse2" /\ setup = "config" /\ chip.up /\ steady =>
       chip.lpa \cap chip.adv \cap Gigabit = {}

IInv == Sound(chip) /\ Rest /\ Lib /\ Configured /\ Startup

-----------------------------------------------------------------------------
(* The steps.                                                              *)

LEMMA Constants ==
  /\ Addrs \subseteq 0 .. 31 /\ PhyAddr \in Addrs /\ ResetPolls \in Nat /\ AnegTimeout \in Nat
  /\ Abilities \subseteq Modes /\ NULL \notin PhyDevice /\ Limits \subseteq Speeds /\ Forced \subseteq Modes
BY PhyAssumption, ChipAssumption, DeviceAssumption

\* A phy_device is known by its fields.
LEMMA DeviceFields ==
  ASSUME NEW d \in PhyDevice
  PROVE  /\ d.dev \in EthDevs \cup {NULL} /\ d.link \in {0, 1} /\ d.mode \in Modes \cup {NoMode}
         /\ d.supported \in SUBSET Modes /\ d.advertising \in SUBSET Modes
         /\ d.autoneg \in BOOLEAN
BY DEF PhyDevice

LEMMA Observing ==
  ASSUME IInv, ChipActs \/ Cable, Observed, UNCHANGED <<board, phy_addr, mac>>
  PROVE  IInv'
<1>1. /\ Sound(chip') /\ partner' \in Partners \cup {{}}
      /\ chip'.adv = chip.adv \/ "RESET" \in chip.bmcr
      /\ chip'.bmcr = chip.bmcr \/ "RESET" \in chip.bmcr
      /\ \/ chip'.neg = "none" \/ chip'.neg = "running"
         \/ chip'.neg = "offered" /\ chip'.offer = chip'.adv
         \/ /\ chip'.neg = chip.neg \/ chip.neg = "offered"
            /\ chip'.offer = chip.offer /\ chip'.adv = chip.adv
      /\ chip'.latch => chip.latch \/ ~ chip'.up
      /\ chip'.up => \/ chip' = chip
                     \/ chip'.mode # NoMode /\ chip.mode = NoMode
  BY ChipSound DEF IInv, Rest
<1>2. /\ UNCHANGED <<phymap, pc, addr, edev, i, changed, ret, setup, syscon, clocks, phy_addr, mac>>
      /\ seen' = (IF pc \in StartupPlaces THEN seen \cup {chip'.up} ELSE {})
      /\ steady' = (steady /\ chip'.mode = chip.mode)
  BY DEF Observed, board
<1>3. chip'.up \in BOOLEAN
  BY <1>1 DEF Sound, Chips
<1>4. Rest'
  <2>1. seen' \subseteq BOOLEAN /\ steady' \in BOOLEAN
    BY <1>2, <1>3 DEF IInv, Rest
  <2> QED
    BY <1>1, <1>2, <2>1 DEF IInv, Rest
<1>5. Lib'
  BY <1>1, <1>2 DEF IInv, Lib, Dev
<1>6. Configured'
  BY <1>1, <1>2 DEF IInv, Lib, Configured, Dev
<1>7. Startup'
  <2>1. pc' \in StartupPlaces /\ chip'.latch => FALSE \in seen'
    BY <1>1, <1>2, <1>3 DEF IInv, Startup
  <2>2. /\ pc' \in {"parse", "parse2"} => IF Dev'.link = 1 THEN TRUE \in seen' ELSE FALSE \in seen'
        /\ pc' = "parse2" => Dev'.autoneg
    BY <1>2 DEF IInv, Startup, Dev, StartupPlaces
  <2>3. pc' = "parse2" /\ setup' = "config" /\ chip'.up /\ steady' =>
          chip'.lpa \cap chip'.adv \cap Gigabit = {}
    BY <1>1, <1>2 DEF IInv, Startup
  <2> QED
    BY <2>1, <2>2, <2>3 DEF Startup
<1> QED
  BY <1>1, <1>4, <1>5, <1>6, <1>7 DEF IInv

\* What a step of the library or of mii_phy_init has left to show, when phy_startup is
\* not under way at its end.
LEMMA Outside ==
  ASSUME pc' \notin StartupPlaces
  PROVE  Startup'
BY DEF Startup, StartupPlaces

\* The PHY a search finds is the one there is.
LEMMA Found ==
  ASSUME IInv, NEW mask \in SUBSET Addrs, GetPhyDeviceByMask(mask) # NULL
  PROVE  GetPhyDeviceByMask(mask) = PhyAddr /\ PhyAddr \in mask
<1> DEFINE existing == {a \in mask : phymap[a] # NULL}
           answering == {a \in mask : Answers(a)}
<1>1. existing \subseteq {PhyAddr} \cap mask /\ answering \subseteq {PhyAddr} \cap mask
  BY DEF IInv, Lib, Answers
<1>2. GetPhyDeviceByMask(mask) =
        IF existing # {} THEN Min(existing)
        ELSE IF answering # {} THEN Min(answering) ELSE NULL
  BY DEF GetPhyDeviceByMask, SearchForExistingPhy, CreatePhyByMask
<1>3. Min({PhyAddr}) = PhyAddr
  <2>1. PhyAddr \in Int
    BY Constants
  <2> QED
    BY <2>1 DEF Min
<1> HIDE DEF existing, answering
<1> QED
  BY <1>1, <1>2, <1>3

LEMMA Created ==
  PhyDeviceCreate \in PhyDevice /\ PhyDeviceCreate # NULL
<1>1. PhyDeviceCreate \in PhyDevice
  BY DEF PhyDeviceCreate, PhyDevice
<1> QED
  BY <1>1, Constants

LEMMA ResetStep ==
  ASSUME IInv, NEW dev \in EthDevs \cup {NULL}, pc = "idle", ResetBegins(PhyAddr, dev),
         UNCHANGED <<board, phy_addr, mac>>
  PROVE  IInv'
<1> DEFINE d == IF phymap[PhyAddr] = NULL THEN PhyDeviceCreate ELSE phymap[PhyAddr]
<1>1. phymap[PhyAddr] \in PhyDevice \cup {NULL} /\ PhyAddr \in Addrs
  BY Constants DEF IInv, Rest
<1>2. d \in PhyDevice /\ d # NULL
  BY <1>1, Created
<1>3. phymap' = [phymap EXCEPT ![PhyAddr] = d]
  BY DEF ResetBegins
<1> HIDE DEF d
<1>4. /\ phymap' \in [Addrs -> PhyDevice \cup {NULL}] /\ phymap'[PhyAddr] = d
      /\ \A a \in Addrs : phymap'[a] # NULL => a = PhyAddr
  BY <1>1, <1>2, <1>3 DEF IInv, Rest, Lib
<1>5. /\ addr' = PhyAddr /\ edev' = dev /\ i' = 0 /\ setup' = "nobody" /\ pc' = "reset"
      /\ UNCHANGED <<partner, changed, ret, seen, steady, syscon, clocks, phy_addr, mac>>
      /\ chip' = BmcrWritten(chip, {"RESET"})
  BY DEF ResetBegins, Goto, board
<1>6. Sound(chip') /\ (chip'.neg = "none" \/ chip'.neg = "running")
  <2>1. {"RESET"} \in SUBSET BmcrBits
    BY DEF BmcrBits
  <2> QED
    BY <1>5, <2>1, BmcrSound DEF IInv
<1>7. Rest'
  BY <1>1, <1>4, <1>5, Constants DEF IInv, Rest, Places, LibPlaces
<1>8. Lib'
  BY <1>2, <1>4, <1>5 DEF IInv, Lib, Dev, LibPlaces, GethPlaces
<1>9. Configured'
  BY <1>5, <1>6 DEF Configured
<1> QED
  BY <1>5, <1>6, <1>7, <1>8, <1>9, Outside DEF IInv, StartupPlaces

LEMMA PhyConnectStep ==
  ASSUME IInv, NEW mask \in SUBSET Addrs, NEW dev \in EthDevs, PhyConnect(mask, dev),
         UNCHANGED <<board, phy_addr, mac>>
  PROVE  IInv'
BY Found, ResetStep DEF PhyConnect

\* Nothing but pc changes, or nothing at all.
LEMMA TrapStep ==
  ASSUME IInv, pc = "idle", pc' = "trap",
         UNCHANGED <<chipVars, phymap, addr, edev, i, changed, ret, history, board, phy_addr, mac>>
  PROVE  IInv'
<1>1. Rest'
  BY DEF IInv, Rest, chipVars, history, board, Places
<1>2. Lib' /\ Configured' /\ Sound(chip')
  BY DEF IInv, Lib, Configured, chipVars, history, Dev, LibPlaces, StartupPlaces, GethPlaces
<1> QED
  BY <1>1, <1>2, Outside DEF IInv, StartupPlaces

LEMMA MiiphyResetStep ==
  ASSUME IInv, NEW a \in Addrs, MiiphyReset(a), UNCHANGED <<board, phy_addr, mac>>
  PROVE  IInv'
<1>1. CASE GetPhyDeviceByMask({a}) # NULL
  <2>1. a = PhyAddr
    BY <1>1, Found
  <2>2. pc = "idle" /\ ResetBegins(PhyAddr, NULL)
    BY <1>1, <2>1 DEF MiiphyReset
  <2> QED
    BY <2>2, ResetStep
<1>2. CASE GetPhyDeviceByMask({a}) = NULL
  BY <1>2, TrapStep DEF MiiphyReset, Goto
<1> QED
  BY <1>1, <1>2

LEMMA PhyResetPollStep ==
  ASSUME IInv, PhyResetPoll, UNCHANGED <<board, phy_addr, mac>>
  PROVE  IInv'
<1>1. /\ pc = "reset" /\ addr = PhyAddr /\ PhyAddr \in Addrs /\ Dev \in PhyDevice
      /\ UNCHANGED <<chip, partner, addr, edev, changed, setup, seen, steady,
                     syscon, clocks, phy_addr, mac>>
  BY Constants DEF PhyResetPoll, IInv, Rest, Lib, LibPlaces, Dev, chipVars, history, board
<1>2. CASE "RESET" \in chip.bmcr /\ i < ResetPolls
  <2>1. i' = i + 1 /\ UNCHANGED <<phymap, pc, ret>>
    BY <1>2 DEF PhyResetPoll
  <2>2. Rest'
    BY <1>1, <1>2, <2>1, Constants DEF IInv, Rest
  <2>3. Lib' /\ Configured'
    BY <1>1, <2>1 DEF IInv, Lib, Configured, Dev
  <2> QED
    BY <1>1, <2>1, <2>2, <2>3, Outside DEF IInv, StartupPlaces
<1>3. CASE ~ ("RESET" \in chip.bmcr /\ i < ResetPolls)
  <2>1. /\ pc' = "idle" /\ i' = 0
        /\ ret' = IF edev = NULL /\ "RESET" \in chip.bmcr THEN -1 ELSE 0
        /\ phymap' = IF edev = NULL THEN phymap ELSE [phymap EXCEPT ![PhyAddr].dev = edev]
    BY <1>1, <1>3 DEF PhyResetPoll, Return, Goto
  <2>2. /\ phymap' \in [Addrs -> PhyDevice \cup {NULL}]
        /\ Dev' \in PhyDevice /\ Dev'.supported = Dev.supported
        /\ Dev'.advertising = Dev.advertising /\ Dev'.autoneg = Dev.autoneg
        /\ \A a \in Addrs : phymap'[a] # NULL => a = PhyAddr
    <3> DEFINE d == [Dev EXCEPT !.dev = edev]
    <3>1. CASE edev = NULL
      BY <1>1, <2>1, <3>1 DEF IInv, Rest, Lib, Dev
    <3>2. CASE edev # NULL
      <4>1. /\ d \in PhyDevice /\ d.supported = Dev.supported
            /\ d.advertising = Dev.advertising /\ d.autoneg = Dev.autoneg
        BY <1>1 DEF PhyDevice, IInv, Rest
      <4>2. phymap' = [phymap EXCEPT ![PhyAddr] = d]
        BY <2>1, <3>2 DEF Dev
      <4> HIDE DEF d
      <4> QED
        BY <1>1, <4>1, <4>2 DEF IInv, Rest, Lib, Dev
    <3> QED
      BY <3>1, <3>2
  <2>3. Rest'
    BY <1>1, <2>1, <2>2, Constants DEF IInv, Rest, Places
  <2>4. Lib' /\ Configured'
    BY <1>1, <2>1, <2>2, Constants DEF IInv, Lib, Configured, Dev, LibPlaces, GethPlaces, StartupPlaces
  <2> QED
    BY <1>1, <2>1, <2>3, <2>4, Outside DEF IInv, StartupPlaces
<1> QED
  BY <1>2, <1>3

\* A call on a known PHY.
LEMMA KnownIs ==
  ASSUME IInv, NEW a \in Addrs, Known(a)
  PROVE  pc = "idle" /\ a = PhyAddr /\ phymap[PhyAddr] \in PhyDevice
         /\ phymap[PhyAddr] # NULL
BY DEF Known, IInv, Rest, Lib

\* The device of the PHY becomes d.
LEMMA Replaced ==
  ASSUME Rest, Lib, NEW d \in PhyDevice, phymap' = [phymap EXCEPT ![PhyAddr] = d]
  PROVE  /\ phymap' \in [Addrs -> PhyDevice \cup {NULL}]
         /\ Dev' = d /\ Dev' # NULL
         /\ \A a \in Addrs : phymap'[a] # NULL => a = PhyAddr
BY Constants DEF Rest, Lib, Dev

LEMMA PrepareStep ==
  ASSUME IInv, NEW d \in PhyDevice, pc = "idle", Prepare(PhyAddr, d),
         UNCHANGED <<board, phy_addr, mac>>
  PROVE  IInv'
<1>1. /\ phymap' = [phymap EXCEPT ![PhyAddr] = d]
      /\ setup' = IF setup = "config" THEN "nobody" ELSE setup
      /\ UNCHANGED <<chip, partner, pc, addr, edev, i, changed, ret, seen, steady,
                     syscon, clocks, phy_addr, mac>>
  BY DEF Prepare, chipVars, board
<1>2. /\ phymap' \in [Addrs -> PhyDevice \cup {NULL}]
      /\ \A a \in Addrs : phymap'[a] # NULL => a = PhyAddr
  BY <1>1, Replaced DEF IInv
<1>3. Rest'
  BY <1>1, <1>2 DEF IInv, Rest
<1>4. Lib' /\ Configured'
  BY <1>1, <1>2 DEF IInv, Rest, Lib, Configured, Dev, LibPlaces, GethPlaces, StartupPlaces
<1> QED
  BY <1>1, <1>3, <1>4, Outside DEF IInv, StartupPlaces

LEMMA PhySetSupportedStep ==
  ASSUME IInv, NEW a \in Addrs, NEW s \in Limits, PhySetSupported(a, s),
         UNCHANGED <<board, phy_addr, mac>>
  PROVE  IInv'
<1> DEFINE d == [phymap[PhyAddr] EXCEPT !.supported = {m \in Modes : m.speed <= s}]
<1>1. pc = "idle" /\ a = PhyAddr /\ phymap[PhyAddr] \in PhyDevice
  BY KnownIs DEF PhySetSupported
<1>2. d \in PhyDevice
  BY <1>1 DEF PhyDevice
<1>3. Prepare(PhyAddr, d)
  BY <1>1 DEF PhySetSupported
<1> HIDE DEF d
<1> QED
  BY <1>1, <1>2, <1>3, PrepareStep

LEMMA ForceModeStep ==
  ASSUME IInv, NEW a \in Addrs, NEW m \in Forced, ForceMode(a, m),
         UNCHANGED <<board, phy_addr, mac>>
  PROVE  IInv'
<1> DEFINE d == [phymap[PhyAddr] EXCEPT !.autoneg = FALSE, !.mode = m]
<1>1. pc = "idle" /\ a = PhyAddr /\ phymap[PhyAddr] \in PhyDevice
  BY KnownIs DEF ForceMode
<1>2. d \in PhyDevice
  BY <1>1, Constants DEF PhyDevice
<1>3. Prepare(PhyAddr, d)
  BY <1>1 DEF ForceMode
<1> HIDE DEF d
<1> QED
  BY <1>1, <1>2, <1>3, PrepareStep

LEMMA ForcedBits ==
  ASSUME NEW mode
  PROVE  ForcedBmcr(mode) \in SUBSET BmcrBits /\ "ANENABLE" \notin ForcedBmcr(mode)
         /\ "RESET" \notin ForcedBmcr(mode)
BY DEF ForcedBmcr, BmcrBits

LEMMA PhyConfigStep ==
  ASSUME IInv, NEW a \in Addrs, PhyConfig(a), UNCHANGED <<board, phy_addr, mac>>
  PROVE  IInv'
<1> DEFINE supported == Dev.supported \cap Abilities
           modes == Dev.advertising \cap supported
           adverts == IF Dev.autoneg THEN modes ELSE Dev.advertising \cap Abilities
           d == [Dev EXCEPT !.supported = supported, !.advertising = adverts]
<1>1. pc = "idle" /\ a = PhyAddr /\ Dev \in PhyDevice /\ PhyAddr \in Addrs
  BY KnownIs, Constants DEF PhyConfig, Dev
<1>2. /\ d \in PhyDevice /\ d.supported = supported /\ d.advertising = adverts
      /\ d.autoneg = Dev.autoneg
  BY <1>1 DEF PhyDevice
<1>3. phymap' = [phymap EXCEPT ![PhyAddr] = d]
  BY <1>1 DEF PhyConfig, Dev
<1>4. /\ addr' = PhyAddr
      /\ setup' = IF setup = "geth" \/ "RESET" \in chip.bmcr THEN setup ELSE "config"
      /\ UNCHANGED <<partner, edev, i, seen, steady, syscon, clocks, phy_addr, mac>>
      /\ ~ changed
  BY <1>1 DEF PhyConfig, board, IInv, Lib
<1>5. IF Dev.autoneg THEN WriteAdvertise(modes) ELSE SetupForced(Dev.mode)
  BY <1>1 DEF PhyConfig, Dev
<1>6. /\ phymap' \in [Addrs -> PhyDevice \cup {NULL}] /\ Dev' = d /\ Dev' # NULL
      /\ \A b \in Addrs : phymap'[b] # NULL => b = PhyAddr
  <2> HIDE DEF d
  <2> QED
    BY <1>2, <1>3, Replaced DEF IInv
<1> HIDE DEF d
<1>7. setup' = "config" => "RESET" \notin chip.bmcr
  BY <1>4 DEF IInv, Lib
<1>8. CASE Dev.autoneg
  <2> DEFINE adv == (chip.adv \cap Gigabit) \cup (modes \ Gigabit)
             c == BmsrRead(chip)
  <2>1. /\ chip' = AdvWritten(c, adv) /\ changed' = (adv # chip.adv)
        /\ pc' = "gigabit" /\ ret' = ret
    BY <1>5, <1>8 DEF WriteAdvertise, Goto
  <2>2. modes \subseteq Abilities /\ adverts = modes /\ adv \in SUBSET Abilities
        /\ supported \subseteq Abilities /\ modes \subseteq supported
    BY <1>8 DEF IInv, Sound
  <2>3. Sound(c) /\ c.bmcr = chip.bmcr /\ c.neg = chip.neg /\ c.offer = chip.offer
    BY ReadSound DEF IInv
  <2> HIDE DEF c
  <2>4. /\ Sound(chip') /\ chip'.adv = adv /\ chip'.bmcr = chip.bmcr
        /\ chip'.neg = chip.neg /\ chip'.offer = chip.offer
    <3> HIDE DEF adv, modes
    <3> QED
      BY <2>1, <2>2, <2>3, AdvSound
  <2>5. Rest'
    BY <1>1, <1>4, <1>6, <2>1 DEF IInv, Rest, Places, LibPlaces
  <2>6. Lib'
    BY <1>2, <1>4, <1>6, <1>7, <1>8, <2>1, <2>4 DEF IInv, Lib, LibPlaces, GethPlaces
  <2>7. adv \ Gigabit = modes \ Gigabit
    OBVIOUS
  <2>8. ~ changed' => adv = chip.adv
    BY <2>1
  <2>9. Configured'
    <3> HIDE DEF adv, modes, supported
    <3> QED
      BY <1>2, <1>4, <1>6, <1>8, <2>1, <2>2, <2>4, <2>7, <2>8 DEF IInv, Configured
  <2> QED
    BY <2>1, <2>4, <2>5, <2>6, <2>9, Outside DEF IInv, StartupPlaces
<1>9. CASE ~ Dev.autoneg
  <2> DEFINE c == BmsrRead(chip)
             bits == ForcedBmcr(Dev.mode)
  <2>1. chip' = BmcrWritten(c, bits) /\ pc' = "idle" /\ ret' = 0 /\ changed' = changed
    BY <1>5, <1>9 DEF SetupForced, Return, Goto
  <2>2. /\ Sound(c) /\ c.bmcr = chip.bmcr /\ c.neg = chip.neg /\ c.offer = chip.offer
        /\ c.adv = chip.adv
    BY ReadSound DEF IInv
  <2>3. bits \in SUBSET BmcrBits /\ "ANENABLE" \notin bits /\ "RESET" \notin bits
    BY ForcedBits
  <2> HIDE DEF c, bits
  <2>4. /\ Sound(chip') /\ chip'.adv = chip.adv
        /\ chip'.bmcr = (bits \ {"ANRESTART"}) \cup (chip.bmcr \cap {"RESET"})
        /\ \/ chip'.neg = "none" \/ chip'.neg = "running"
           \/ chip'.neg = chip.neg /\ chip'.offer = chip.offer
    BY <2>1, <2>2, <2>3, BmcrSound
  <2>5. Rest'
    BY <1>1, <1>4, <1>6, <2>1 DEF IInv, Rest, Places
  <2>6. Lib'
    BY <1>2, <1>4, <1>6, <1>7, <2>1, <2>3, <2>4 DEF IInv, Lib, LibPlaces, GethPlaces, StartupPlaces
  <2>7. Configured'
    BY <1>2, <1>4, <1>6, <1>9, <2>1, <2>3, <2>4 DEF IInv, Configured
  <2> QED
    BY <2>1, <2>4, <2>5, <2>6, <2>7, Outside DEF IInv, StartupPlaces
<1> QED
  BY <1>8, <1>9

\* A step of the library that leaves the devices alone.
LEMMA ConfigGigabitStep ==
  ASSUME IInv, ConfigGigabit, UNCHANGED <<board, phy_addr, mac>>
  PROVE  IInv'
<1> DEFINE adv == IF Abilities \cap Gigabit = {} THEN chip.adv
                  ELSE (chip.adv \ Gigabit) \cup (Dev.advertising \cap Gigabit)
           c == BmsrRead(chip)
<1>1. pc = "gigabit" /\ addr = PhyAddr /\ Dev # NULL /\ Dev.autoneg
      /\ Dev.advertising \subseteq Dev.supported /\ Dev.supported \subseteq Abilities
      /\ chip.adv \subseteq Abilities
  BY DEF ConfigGigabit, IInv, Lib, Configured, LibPlaces, Sound
<1>2. "ESTATEN" \notin BmsrOf(chip) <=> Abilities \cap Gigabit = {}
  BY DEF BmsrOf
<1>3. /\ chip' = AdvWritten(c, adv) /\ changed' = (changed \/ adv # chip.adv)
      /\ pc' = "aneg"
      /\ UNCHANGED <<partner, phymap, addr, edev, i, ret, setup, seen, steady,
                     syscon, clocks, phy_addr, mac>>
  <2>1. adv = IF "ESTATEN" \notin BmsrOf(chip) THEN chip.adv
              ELSE (chip.adv \ Gigabit) \cup (phymap[addr].advertising \cap Gigabit)
    BY <1>1, <1>2 DEF Dev
  <2> HIDE DEF adv
  <2> QED
    BY <2>1 DEF ConfigGigabit, Goto, history, board
<1>4. adv \in SUBSET Abilities
  BY <1>1
<1>5. /\ Sound(c) /\ c.bmcr = chip.bmcr /\ c.neg = chip.neg /\ c.offer = chip.offer
  BY ReadSound DEF IInv
<1> HIDE DEF c
<1>6. setup = "config" => adv = Dev.advertising
  BY <1>1 DEF IInv, Configured
<1> HIDE DEF adv
<1>7. /\ Sound(chip') /\ chip'.adv = adv /\ chip'.bmcr = chip.bmcr
      /\ chip'.neg = chip.neg /\ chip'.offer = chip.offer
  BY <1>3, <1>4, <1>5, AdvSound
<1>8. Rest'
  <2>1. changed' \in BOOLEAN
    BY <1>3
  <2> QED
    BY <1>3, <2>1 DEF IInv, Rest, Places, LibPlaces
<1>9. Lib'
  BY <1>1, <1>3, <1>7 DEF IInv, Lib, Dev, LibPlaces, GethPlaces, StartupPlaces
<1>10. Configured'
  <2>1. ~ changed' => ~ changed /\ adv = chip.adv
    BY <1>3
  <2> QED
    BY <1>1, <1>3, <1>6, <1>7, <2>1 DEF IInv, Configured, Dev
<1> QED
  BY <1>3, <1>7, <1>8, <1>9, <1>10, Outside DEF IInv, StartupPlaces

LEMMA ConfigAnegStep ==
  ASSUME IInv, ConfigAneg, UNCHANGED <<board, phy_addr, mac>>
  PROVE  IInv'
<1> DEFINE bits == (chip.bmcr \ {"ISOLATE"}) \cup {"ANENABLE", "ANRESTART"}
<1>1. /\ pc = "aneg" /\ changed' = FALSE /\ pc' = "idle" /\ ret' = 0
      /\ chip' = IF MustRestart THEN BmcrWritten(chip, bits) ELSE chip
      /\ UNCHANGED <<partner, phymap, addr, edev, i, setup, seen, steady,
                     syscon, clocks, phy_addr, mac>>
  BY DEF ConfigAneg, Return, Goto, history, board
<1>2. bits \in SUBSET BmcrBits /\ {"ANENABLE", "ANRESTART"} \subseteq bits
      /\ ("RESET" \in bits => "RESET" \in chip.bmcr)
  BY DEF IInv, Sound, Chips, BmcrBits
<1> HIDE DEF bits
<1>3. /\ Sound(chip') /\ chip'.adv = chip.adv /\ "ANENABLE" \in chip'.bmcr
      /\ "RESET" \in chip'.bmcr => "RESET" \in chip.bmcr
      /\ \/ chip'.neg = "none" \/ chip'.neg = "running"
         \/ chip'.neg = chip.neg /\ chip'.offer = chip.offer /\ ~ changed
  <2>1. CASE MustRestart
    BY <1>1, <1>2, <2>1, BmcrSound DEF IInv
  <2>2. CASE ~ MustRestart
    BY <1>1, <2>2 DEF IInv, MustRestart
  <2> QED
    BY <2>1, <2>2
<1>4. Dev.autoneg
  BY <1>1 DEF IInv, Lib
<1>5. Rest'
  BY <1>1 DEF IInv, Rest, Places
<1>6. Lib'
  BY <1>1, <1>3 DEF IInv, Lib, Dev, LibPlaces, GethPlaces, StartupPlaces
<1>7. Configured'
  BY <1>1, <1>3, <1>4 DEF IInv, Configured, Dev
<1> QED
  BY <1>1, <1>3, <1>5, <1>6, <1>7, Outside DEF IInv, StartupPlaces

\* A step of phy_startup changes nothing the configuration is about.
LEMMA StartupKeeps ==
  ASSUME IInv, Sound(chip'), chip'.adv = chip.adv, chip'.neg = chip.neg,
         chip'.offer = chip.offer, chip'.bmcr = chip.bmcr,
         pc \in StartupPlaces \cup {"idle"}, pc' \in StartupPlaces \cup {"idle"},
         addr = PhyAddr \/ pc = "idle", addr' = PhyAddr,
         NEW d \in PhyDevice, phymap' = [phymap EXCEPT ![PhyAddr] = d],
         d.supported = Dev.supported, d.advertising = Dev.advertising, d.autoneg = Dev.autoneg,
         Dev \in PhyDevice,
         i' \in Nat, i' <= AnegTimeout + 1 \/ i' = i, ret' \in {-110, -1, 0},
         seen' \subseteq BOOLEAN, steady' \in BOOLEAN,
         UNCHANGED <<partner, edev, changed, setup, board, phy_addr, mac>>
  PROVE  Rest' /\ Lib' /\ Configured' /\ Dev' = d
<1>1. /\ phymap' \in [Addrs -> PhyDevice \cup {NULL}] /\ Dev' = d /\ Dev' # NULL
      /\ \A a \in Addrs : phymap'[a] # NULL => a = PhyAddr
  BY Replaced DEF IInv
<1>2. Rest'
  BY <1>1, Constants DEF IInv, Rest, Places, LibPlaces, board
<1>3. Lib'
  BY <1>1 DEF IInv, Lib, GethPlaces, StartupPlaces
<1>4. Configured'
  BY <1>1 DEF IInv, Configured, StartupPlaces
<1> QED
  BY <1>1, <1>2, <1>3, <1>4

LEMMA LinkOf ==
  ASSUME NEW d \in PhyDevice, NEW link \in {0, 1}
  PROVE  LET e == [d EXCEPT !.link = link] IN
         /\ e \in PhyDevice /\ e.link = link
         /\ e.supported = d.supported /\ e.advertising = d.advertising /\ e.autoneg = d.autoneg
BY DEF PhyDevice

LEMMA ModeOf ==
  ASSUME NEW d \in PhyDevice, NEW m \in Modes
  PROVE  LET e == [d EXCEPT !.mode = m] IN
         /\ e \in PhyDevice /\ e.link = d.link /\ e.mode = m
         /\ e.supported = d.supported /\ e.advertising = d.advertising /\ e.autoneg = d.autoneg
BY DEF PhyDevice

\* What a read of BMSR tells.
LEMMA Bmsr ==
  /\ "LSTATUS" \in BmsrOf(chip) <=> chip.up /\ ~ chip.latch
  /\ "ANEGCOMPLETE" \in BmsrOf(chip) <=> chip.neg = "complete"
  /\ "ESTATEN" \in BmsrOf(chip) <=> Abilities \cap Gigabit # {}
BY DEF BmsrOf

LEMMA PhyStartupStep ==
  ASSUME IInv, NEW a \in Addrs, PhyStartup(a), UNCHANGED <<board, phy_addr, mac>>
  PROVE  IInv'
<1>1. pc = "idle" /\ a = PhyAddr /\ Dev \in PhyDevice /\ PhyAddr \in Addrs
  BY KnownIs, Constants DEF PhyStartup, Dev
<1>2. /\ chip' = BmsrRead(chip) /\ seen' = seen \cup {chip.up} /\ steady' = TRUE
      /\ addr' = PhyAddr /\ i' = 0
      /\ UNCHANGED <<partner, phymap, edev, changed, ret, setup, board, phy_addr, mac>>
      /\ pc' \in {"parse", "wait", "second"}
      /\ pc' = "parse" => Dev.link = 1 /\ chip.up
  BY <1>1, Bmsr DEF PhyStartup, ReadBmsr, Goto, Dev
<1>3. /\ Sound(chip') /\ ~ chip'.latch
      /\ chip'.adv = chip.adv /\ chip'.neg = chip.neg /\ chip'.offer = chip.offer
      /\ chip'.bmcr = chip.bmcr
  BY <1>2, ReadSound DEF IInv
<1>4. phymap' = [phymap EXCEPT ![PhyAddr] = Dev]
  BY <1>2 DEF IInv, Rest, Dev
<1>5. chip.up \in BOOLEAN /\ seen' \subseteq BOOLEAN /\ (chip.up => TRUE \in seen')
  BY <1>2 DEF IInv, Sound, Chips, Rest
<1>6. /\ pc \in StartupPlaces \cup {"idle"} /\ pc' \in StartupPlaces \cup {"idle"}
      /\ i' \in Nat /\ i' <= AnegTimeout + 1 /\ ret' \in {-110, -1, 0} /\ steady' \in BOOLEAN
  BY <1>1, <1>2, Constants DEF IInv, Rest, StartupPlaces
<1>7. Rest' /\ Lib' /\ Configured' /\ Dev' = Dev
  BY <1>1, <1>2, <1>3, <1>4, <1>5, <1>6, StartupKeeps
<1>8. Startup'
  BY <1>2, <1>3, <1>5, <1>7 DEF Startup
<1> QED
  BY <1>3, <1>7, <1>8 DEF IInv

\* Where a call of the library stands.
LEMMA InCall ==
  ASSUME IInv, pc \in StartupPlaces
  PROVE  addr = PhyAddr /\ Dev \in PhyDevice /\ PhyAddr \in Addrs /\ chip.up \in BOOLEAN
         /\ seen \subseteq BOOLEAN
BY Constants DEF IInv, Sound, Chips, Rest, Lib, LibPlaces, Dev

\* A read of BMSR under way.
LEMMA ReadStep ==
  ASSUME IInv, pc \in StartupPlaces, ReadBmsr
  PROVE  /\ Sound(chip') /\ ~ chip'.latch /\ chip'.up = chip.up
         /\ chip'.adv = chip.adv /\ chip'.neg = chip.neg /\ chip'.offer = chip.offer
         /\ chip'.lpa = chip.lpa /\ chip'.bmcr = chip.bmcr
         /\ seen' = seen \cup {chip.up} /\ seen' \subseteq BOOLEAN /\ steady' = TRUE
<1>1. chip' = BmsrRead(chip) /\ seen' = seen \cup {chip.up} /\ steady' = TRUE
  BY DEF ReadBmsr
<1>2. Sound(chip)
  BY DEF IInv
<1> QED
  BY <1>1, <1>2, ReadSound, InCall

LEMMA AnegPollStep ==
  ASSUME IInv, AnegPoll, UNCHANGED <<board, phy_addr, mac>>
  PROVE  IInv'
<1>1. /\ pc = "wait" /\ pc \in StartupPlaces
      /\ UNCHANGED <<partner, addr, edev, changed, setup, board, phy_addr, mac>>
  BY DEF AnegPoll, StartupPlaces
<1>2. /\ addr = PhyAddr /\ Dev \in PhyDevice /\ PhyAddr \in Addrs /\ chip.up \in BOOLEAN
      /\ seen \subseteq BOOLEAN /\ i \in Nat /\ Sound(chip)
  BY <1>1, InCall DEF IInv, Rest
<1>3. CASE i > AnegTimeout
  <2> DEFINE d == [Dev EXCEPT !.link = 0]
  <2>1. /\ phymap' = [phymap EXCEPT ![PhyAddr] = d]
        /\ i' = 0 /\ pc' = "idle" /\ ret' = -110 /\ seen' = {} /\ steady' = FALSE /\ chip' = chip
    BY <1>2, <1>3 DEF AnegPoll, AnegTimedOut, SetLink, StartupReturns, Return, Goto, Dev
  <2>2. /\ d \in PhyDevice /\ d.supported = Dev.supported /\ d.advertising = Dev.advertising
        /\ d.autoneg = Dev.autoneg
    BY <1>2, LinkOf
  <2> HIDE DEF d
  <2>3. pc' \in StartupPlaces \cup {"idle"} /\ i' \in Nat /\ i' <= AnegTimeout + 1
    BY <2>1, Constants
  <2>4. Rest' /\ Lib' /\ Configured'
    BY <1>1, <1>2, <2>1, <2>2, <2>3, StartupKeeps
  <2> QED
    BY <1>2, <2>1, <2>4, Outside DEF IInv, StartupPlaces
<1>4. CASE ~ (i > AnegTimeout) /\ chip.neg = "complete"
  <2> DEFINE d == [Dev EXCEPT !.link = 1]
  <2>1. /\ phymap' = [phymap EXCEPT ![PhyAddr] = d]
        /\ i' = 0 /\ pc' = "parse" /\ ret' = ret /\ ReadBmsr
    BY <1>2, <1>4, Bmsr DEF AnegPoll, AnegTimedOut, SetLink, Goto, Dev
  <2>2. /\ d \in PhyDevice /\ d.supported = Dev.supported /\ d.advertising = Dev.advertising
        /\ d.autoneg = Dev.autoneg /\ d.link = 1
    BY <1>2, LinkOf
  <2> HIDE DEF d
  <2>3. pc' \in StartupPlaces \cup {"idle"} /\ i' \in Nat /\ i' <= AnegTimeout + 1
        /\ ret' \in {-110, -1, 0}
    BY <2>1, Constants DEF IInv, Rest, StartupPlaces
  <2>4. /\ Sound(chip') /\ ~ chip'.latch /\ chip'.up = chip.up
        /\ chip'.adv = chip.adv /\ chip'.neg = chip.neg /\ chip'.offer = chip.offer
        /\ chip'.bmcr = chip.bmcr
        /\ seen' = seen \cup {chip.up} /\ seen' \subseteq BOOLEAN /\ steady' = TRUE
    BY <1>1, <2>1, ReadStep
  <2>5. Rest' /\ Lib' /\ Configured' /\ Dev' = d
    BY <1>1, <1>2, <2>1, <2>2, <2>3, <2>4, StartupKeeps
  <2>6. chip.up
    BY <1>2, <1>4 DEF Sound, Agreed
  <2>7. Startup'
    BY <1>2, <2>1, <2>2, <2>4, <2>5, <2>6 DEF Startup
  <2> QED
    BY <2>4, <2>5, <2>7 DEF IInv
<1>5. CASE ~ (i > AnegTimeout) /\ chip.neg # "complete"
  <2>1. i' = i + 1 /\ UNCHANGED <<phymap, pc, ret>> /\ ReadBmsr
    BY <1>5, Bmsr DEF AnegPoll, AnegTimedOut, Polled
  <2>2. phymap' = [phymap EXCEPT ![PhyAddr] = Dev]
    BY <2>1 DEF IInv, Rest, Dev
  <2>3. pc' \in StartupPlaces \cup {"idle"} /\ i' \in Nat /\ i' <= AnegTimeout + 1
        /\ ret' \in {-110, -1, 0}
    BY <1>1, <1>2, <1>5, <2>1, Constants DEF IInv, Rest
  <2>4. /\ Sound(chip') /\ ~ chip'.latch /\ chip'.up = chip.up
        /\ chip'.adv = chip.adv /\ chip'.neg = chip.neg /\ chip'.offer = chip.offer
        /\ chip'.bmcr = chip.bmcr
        /\ seen' = seen \cup {chip.up} /\ seen' \subseteq BOOLEAN /\ steady' = TRUE
    BY <1>1, <2>1, ReadStep
  <2>5. Rest' /\ Lib' /\ Configured' /\ Dev' = Dev
    BY <1>1, <1>2, <2>1, <2>2, <2>3, <2>4, StartupKeeps
  <2>6. Startup'
    BY <1>1, <2>1, <2>4 DEF Startup
  <2> QED
    BY <2>4, <2>5, <2>6 DEF IInv
<1> QED
  BY <1>2, <1>3, <1>4, <1>5

LEMMA SecondReadStep ==
  ASSUME IInv, SecondRead, UNCHANGED <<board, phy_addr, mac>>
  PROVE  IInv'
<1> DEFINE link == IF "LSTATUS" \in BmsrOf(chip) THEN 1 ELSE 0
           d == [Dev EXCEPT !.link = link]
<1>1. /\ pc = "second" /\ pc \in StartupPlaces /\ pc' = "parse" /\ ReadBmsr
      /\ UNCHANGED <<partner, addr, edev, i, changed, ret, setup, board, phy_addr, mac>>
  BY DEF SecondRead, StartupPlaces, Goto
<1>2. /\ addr = PhyAddr /\ Dev \in PhyDevice /\ PhyAddr \in Addrs /\ chip.up \in BOOLEAN
      /\ seen \subseteq BOOLEAN
  BY <1>1, InCall
<1>3. phymap' = [phymap EXCEPT ![PhyAddr] = d]
  BY <1>2 DEF SecondRead, SetLink, Dev
<1>4. link \in {0, 1} /\ IF link = 1 THEN chip.up ELSE ~ chip.up \/ chip.latch
  BY Bmsr
<1> HIDE DEF link
<1>5. /\ d \in PhyDevice /\ d.supported = Dev.supported /\ d.advertising = Dev.advertising
      /\ d.autoneg = Dev.autoneg /\ d.link = link
  BY <1>2, <1>4, LinkOf
<1> HIDE DEF d
<1>6. pc' \in StartupPlaces \cup {"idle"} /\ i' \in Nat /\ i' = i /\ ret' \in {-110, -1, 0}
  BY <1>1 DEF IInv, Rest, StartupPlaces
<1>7. /\ Sound(chip') /\ ~ chip'.latch /\ chip'.up = chip.up
      /\ chip'.adv = chip.adv /\ chip'.neg = chip.neg /\ chip'.offer = chip.offer
      /\ chip'.bmcr = chip.bmcr
      /\ seen' = seen \cup {chip.up} /\ seen' \subseteq BOOLEAN /\ steady' = TRUE
  BY <1>1, ReadStep
<1>8. Rest' /\ Lib' /\ Configured' /\ Dev' = d
  BY <1>1, <1>2, <1>3, <1>5, <1>6, <1>7, StartupKeeps
<1>9. IF link = 1 THEN TRUE \in seen' ELSE FALSE \in seen'
  BY <1>1, <1>2, <1>4, <1>7 DEF IInv, Startup
<1>10. Startup'
  BY <1>1, <1>5, <1>7, <1>8, <1>9 DEF Startup
<1> QED
  BY <1>7, <1>8, <1>10 DEF IInv

LEMMA ParsedIn ==
  ASSUME NEW S
  PROVE  Parsed(S) \in Modes
<1> DEFINE best(s) == Mode(s, IF Mode(s, "FULL") \in S THEN "FULL" ELSE "HALF")
<1>1. \A s \in Speeds : best(s) \in Modes
  BY ModeIn DEF Duplexes
<1>2. Parsed(S) = best(1000) \/ Parsed(S) = best(100) \/ Parsed(S) = best(10)
  BY DEF Parsed
<1> QED
  BY <1>1, <1>2 DEF Speeds

\* The end of phy_startup, with a mode.
LEMMA EndStep ==
  ASSUME IInv, pc \in {"parse", "parse2"}, NEW m \in Modes, SetMode(m), StartupReturns(0),
         chip' = BmsrRead(chip) \/ chip' = chip,
         UNCHANGED <<partner, addr, edev, i, changed, setup, board, phy_addr, mac>>
  PROVE  IInv'
<1> DEFINE d == [Dev EXCEPT !.mode = m]
<1>1. /\ addr = PhyAddr /\ Dev \in PhyDevice /\ PhyAddr \in Addrs
      /\ pc \in StartupPlaces \cup {"idle"} /\ i \in Nat
  BY InCall DEF StartupPlaces, IInv, Rest
<1>2. phymap' = [phymap EXCEPT ![PhyAddr] = d]
  BY <1>1 DEF SetMode, Dev
<1>3. pc' = "idle" /\ ret' = 0 /\ seen' = {} /\ steady' = FALSE
  BY DEF StartupReturns, Return, Goto
<1>4. /\ d \in PhyDevice /\ d.supported = Dev.supported /\ d.advertising = Dev.advertising
      /\ d.autoneg = Dev.autoneg
  BY <1>1, ModeOf
<1> HIDE DEF d
<1>5. /\ Sound(chip') /\ chip'.adv = chip.adv /\ chip'.neg = chip.neg
      /\ chip'.offer = chip.offer /\ chip'.bmcr = chip.bmcr
  BY ReadSound DEF IInv
<1>6. Rest' /\ Lib' /\ Configured' /\ Dev' = d
  BY <1>1, <1>2, <1>3, <1>4, <1>5, StartupKeeps
<1> QED
  BY <1>3, <1>5, <1>6, Outside DEF IInv, StartupPlaces

\* What is known of the mode when genphy_parse_link reads it off.
LEMMA ModeKnown ==
  ASSUME IInv, pc \in {"parse", "parse2"}, setup = "config", chip.up
  PROVE  /\ ~ Dev.autoneg => "ANENABLE" \notin chip.bmcr /\ chip.mode = ForcedMode(chip)
         /\ Dev.autoneg =>
              /\ "ANENABLE" \in chip.bmcr
              /\ chip.lpa \cap chip.adv \in SUBSET Modes /\ chip.lpa \cap chip.adv # {}
              /\ chip.mode = Parsed(chip.lpa \cap chip.adv)
              /\ Dev.supported \cap Gigabit = {} => chip.adv \cap Gigabit = {}
<1>1. Sound(chip) /\ ~ changed /\ Dev \in PhyDevice
  BY InCall DEF IInv, Lib, StartupPlaces
<1>2. CASE ~ Dev.autoneg
  BY <1>1, <1>2 DEF IInv, Configured, Sound
<1>3. CASE Dev.autoneg
  <2>1. "ANENABLE" \in chip.bmcr /\ chip.adv = Dev.advertising /\ Dev.advertising \subseteq Dev.supported
    BY <1>3 DEF IInv, Configured
  <2>2. chip.neg = "complete"
    BY <1>1, <2>1 DEF Sound
  <2>3. chip.offer = chip.adv
    BY <1>1, <2>2 DEF IInv, Configured
  <2>4. /\ chip.offer \cap chip.lpa # {} /\ chip.mode = Parsed(chip.offer \cap chip.lpa)
        /\ chip.lpa \in SUBSET Modes
    BY <1>1, <2>2 DEF Sound, Agreed, Chips
  <2>5. chip.offer \cap chip.lpa = chip.lpa \cap chip.adv
    BY <2>3
  <2> QED
    BY <1>3, <2>1, <2>4, <2>5
<1> QED
  BY <1>2, <1>3

LEMMA ParseLinkStep ==
  ASSUME IInv, ParseLink, UNCHANGED <<board, phy_addr, mac>>
  PROVE  IInv'
<1> DEFINE gblpa == IF Dev.supported \cap Gigabit = {} THEN {}
                    ELSE chip.lpa \cap chip.adv \cap Gigabit
<1>1. /\ pc = "parse" /\ pc \in StartupPlaces /\ chip' = BmsrRead(chip)
      /\ UNCHANGED <<partner, addr, edev, i, changed, setup, board, phy_addr, mac>>
  BY DEF ParseLink, StartupPlaces
<1>2. /\ addr = PhyAddr /\ Dev \in PhyDevice /\ PhyAddr \in Addrs
  BY <1>1, InCall
<1>3. \/ /\ Dev.autoneg /\ gblpa = {} /\ pc' = "parse2"
         /\ UNCHANGED <<phymap, ret, seen, steady>>
      \/ /\ SetMode(IF Dev.autoneg THEN Parsed(gblpa) ELSE ForcedMode(chip))
         /\ StartupReturns(0)
  BY <1>2 DEF ParseLink, Goto, Dev
<1>4. CASE /\ Dev.autoneg /\ gblpa = {} /\ pc' = "parse2"
           /\ UNCHANGED <<phymap, ret, seen, steady>>
  <2>1. phymap' = [phymap EXCEPT ![PhyAddr] = Dev]
    BY <1>4 DEF IInv, Rest, Dev
  <2>2. /\ Sound(chip') /\ ~ chip'.latch /\ chip'.up = chip.up /\ chip'.lpa = chip.lpa
        /\ chip'.adv = chip.adv /\ chip'.neg = chip.neg /\ chip'.offer = chip.offer
        /\ chip'.bmcr = chip.bmcr
    BY <1>1, ReadSound DEF IInv
  <2>3. /\ pc \in StartupPlaces \cup {"idle"} /\ pc' \in StartupPlaces \cup {"idle"}
        /\ i' \in Nat /\ i' = i /\ ret' \in {-110, -1, 0}
        /\ seen' \subseteq BOOLEAN /\ steady' \in BOOLEAN
    BY <1>1, <1>4 DEF IInv, Rest, StartupPlaces
  <2>4. Rest' /\ Lib' /\ Configured' /\ Dev' = Dev
    BY <1>1, <1>2, <2>1, <2>2, <2>3, StartupKeeps
  <2>5. setup = "config" /\ chip.up => chip.lpa \cap chip.adv \cap Gigabit = {}
    BY <1>1, <1>4, ModeKnown
  <2>6. Startup'
    BY <1>1, <1>4, <2>2, <2>4, <2>5 DEF IInv, Startup
  <2> QED
    BY <2>2, <2>4, <2>6 DEF IInv
<1>5. CASE /\ SetMode(IF Dev.autoneg THEN Parsed(gblpa) ELSE ForcedMode(chip))
           /\ StartupReturns(0)
  <2> DEFINE m == IF Dev.autoneg THEN Parsed(gblpa) ELSE ForcedMode(chip)
  <2>1. m \in Modes /\ SetMode(m)
    BY <1>5, ParsedIn, ForcedModeIs
  <2> HIDE DEF m
  <2> QED
    BY <1>1, <1>5, <2>1, EndStep
<1> QED
  BY <1>3, <1>4, <1>5

LEMMA ParseLowMode ==
  ASSUME IInv, ParseLow
  PROVE  \E m \in Modes :
           /\ SetMode(m)
           /\ Ercap => m = Parsed((chip.adv \cap chip.lpa) \ Gigabit)
<1> DEFINE lpa == (chip.adv \cap chip.lpa) \ Gigabit
           estatus == IF "ESTATEN" \in BmsrOf(chip) /\ ~Ercap THEN Abilities \cap Gigabit ELSE {}
           full == Mode(1000, "FULL") \in estatus \/ Parsed(lpa).duplex = "FULL"
           m == IF estatus = {} THEN Parsed(lpa)
                ELSE Mode(1000, IF full THEN "FULL" ELSE "HALF")
<1>1. SetMode(m)
  BY DEF ParseLow
<1>2. Mode(1000, IF full THEN "FULL" ELSE "HALF") \in Modes
  BY ModeIn DEF Speeds, Duplexes
<1>3. m \in Modes
  BY <1>2, ParsedIn
<1>4. Ercap => m = Parsed(lpa)
  OBVIOUS
<1> HIDE DEF m
<1> QED
  BY <1>1, <1>3, <1>4

LEMMA ParseLowStep ==
  ASSUME IInv, ParseLow, UNCHANGED <<board, phy_addr, mac>>
  PROVE  IInv'
<1>1. /\ pc = "parse2" /\ StartupReturns(0) /\ chip' = chip
      /\ UNCHANGED <<partner, addr, edev, i, changed, setup, board, phy_addr, mac>>
  BY DEF ParseLow, chipVars
<1>2. PICK m \in Modes : SetMode(m)
  BY ParseLowMode
<1> QED
  BY <1>1, <1>2, EndStep

-----------------------------------------------------------------------------
(* mii_phy_init.                                                           *)

LEMMA GethStep ==
  ASSUME IInv, pc \in GethPlaces, pc' \in GethPlaces \cup {"idle"}, Sound(chip'),
         mac' \in Modes \cup {NoMode},
         UNCHANGED <<partner, phymap, addr, edev, i, changed, ret, setup, seen, steady,
                     board, phy_addr>>
  PROVE  IInv'
<1>1. setup' = "geth" /\ ~ changed'
  BY DEF IInv, Lib, GethPlaces
<1>2. Rest'
  BY DEF IInv, Rest, Places, board
<1>3. Lib'
  BY <1>1 DEF IInv, Lib, Dev, GethPlaces, LibPlaces, StartupPlaces
<1>4. Configured'
  BY <1>1 DEF Configured, GethPlaces
<1> QED
  BY <1>2, <1>3, <1>4, Outside DEF IInv, GethPlaces, StartupPlaces

LEMMA GethStepsStep ==
  ASSUME IInv, GethSteps
  PROVE  IInv'
<1>1. Sound(chip) /\ chip.bmcr \in SUBSET BmcrBits /\ chip.adv \subseteq Abilities
      /\ mac \in Modes \cup {NoMode}
  BY DEF IInv, Sound, Chips, Rest
<1>2. CASE GethResetDone
  <2>1. Sound(BmcrWritten(chip, chip.bmcr \ {"PDOWN"}))
    BY <1>1, BmcrSound
  <2> QED
    BY <1>1, <1>2, <2>1, GethStep DEF GethResetDone, Access, Goto, GethPlaces, board
<1>3. CASE GethPoweredUp
  BY <1>1, <1>3, GethStep DEF GethPoweredUp, Access, Goto, GethPlaces, board
<1>4. CASE GethAdvertise
  <2>1. Sound(AdvWritten(chip, chip.adv \ {Mode(1000, "FULL")}))
    BY <1>1, AdvSound
  <2> QED
    BY <1>1, <1>4, <2>1, GethStep DEF GethAdvertise, Access, Goto, GethPlaces, board
<1>5. CASE GethSpeed
  <2> DEFINE bits == (chip.bmcr \ {"SPEED1000"}) \cup {"SPEED100", "FULLDPLX"}
  <2>1. bits \in SUBSET BmcrBits
    BY <1>1 DEF BmcrBits
  <2>2. Sound(BmcrWritten(chip, bits))
    BY <1>1, <2>1, BmcrSound
  <2> QED
    BY <1>1, <1>5, <2>2, GethStep DEF GethSpeed, Access, Goto, GethPlaces, board
<1>6. CASE GethNegotiated
  <2>1. Sound(BmsrRead(chip))
    BY <1>1, ReadSound
  <2> QED
    BY <1>1, <1>6, <2>1, GethStep DEF GethNegotiated, Access, Goto, GethPlaces, board
<1>7. CASE GethMac
  <2>1. mac' \in Modes
    <3>1. \E s \in Speeds, d \in Duplexes : mac' = Mode(s, d)
      BY <1>7 DEF GethMac, Speeds, Duplexes
    <3> QED
      BY <3>1, ModeIn
  <2> QED
    BY <1>1, <1>7, <2>1, GethStep DEF GethMac, Access, Goto, GethPlaces, board
<1> QED
  BY <1>2, <1>3, <1>4, <1>5, <1>6, <1>7 DEF GethSteps

LEMMA MiiPhyInitStep ==
  ASSUME IInv, MiiPhyInit
  PROVE  IInv'
<1> DEFINE found == CreatePhyByMask(Addrs)
           bits == chip.bmcr \cup {"RESET"}
<1>1. /\ pc = "idle" /\ pc' = "greset" /\ setup' = "geth"
      /\ phy_addr' = IF found = {} THEN phy_addr ELSE Min(found)
      /\ chip' = IF Answers(phy_addr') THEN BmcrWritten(chip, bits) ELSE chip
      /\ UNCHANGED <<partner, phymap, addr, edev, i, changed, ret, seen, steady,
                     syscon, clocks, mac>>
  BY DEF MiiPhyInit, Goto, board
<1>2. phy_addr' \in 0 .. 31
  <2>1. found \subseteq {PhyAddr}
    BY DEF CreatePhyByMask, Answers
  <2>2. Min({PhyAddr}) = PhyAddr /\ PhyAddr \in 0 .. 31
    BY Constants DEF Min
  <2> HIDE DEF found
  <2> QED
    BY <1>1, <2>1, <2>2 DEF IInv, Rest
<1>3. Sound(chip')
  <2>1. bits \in SUBSET BmcrBits
    BY DEF IInv, Sound, Chips, BmcrBits
  <2> HIDE DEF bits
  <2> QED
    BY <1>1, <2>1, BmcrSound DEF IInv
<1>4. Rest'
  BY <1>1, <1>2 DEF IInv, Rest, Places, GethPlaces
<1>5. Lib'
  BY <1>1 DEF IInv, Lib, Dev, LibPlaces, StartupPlaces
<1>6. Configured'
  BY <1>1 DEF Configured
<1> QED
  BY <1>1, <1>3, <1>4, <1>5, <1>6, Outside DEF IInv, StartupPlaces

LEMMA GethSysInitStep ==
  ASSUME IInv, GethSysInit
  PROVE  IInv'
<1>1. /\ pc = "idle" /\ syscon' = (syscon \ SysconCleared) \cup SysconSet
      /\ clocks' = ClocksEnabled
      /\ chip' = PowerOn(chip) \/ chip' = chip
      /\ UNCHANGED <<partner, phymap, pc, addr, edev, i, changed, ret, setup, seen, steady,
                     phy_addr, mac>>
  BY DEF GethSysInit, phyVars
<1>2. syscon' \subseteq SysconFields /\ clocks' \subseteq Clocks
  BY <1>1 DEF IInv, Rest, SysconSet, ClocksEnabled, SysconFields, Clocks
<1>3. /\ Sound(chip') /\ chip'.adv = chip.adv /\ chip'.bmcr = chip.bmcr
      /\ \/ chip'.neg = "none" \/ chip'.neg = "running"
         \/ chip'.neg = chip.neg /\ chip'.offer = chip.offer
  <2> DEFINE c == [chip EXCEPT !.powered = TRUE]
  <2>1. c \in Chips /\ c.adv = chip.adv /\ c.bmcr = chip.bmcr /\ chip.adv \subseteq Abilities
    BY DEF IInv, Sound, Chips
  <2>2. PowerOn(chip) = StartOver(c)
    BY DEF PowerOn
  <2> HIDE DEF c
  <2> QED
    BY <1>1, <2>1, <2>2, StartOverSound DEF IInv
<1>4. Rest'
  BY <1>1, <1>2 DEF IInv, Rest
<1>5. Lib' /\ Configured'
  BY <1>1, <1>3 DEF IInv, Lib, Configured, Dev
<1> QED
  BY <1>1, <1>3, <1>4, <1>5, Outside DEF IInv, StartupPlaces

-----------------------------------------------------------------------------
LEMMA InitStep == Init => IInv
<1> SUFFICES ASSUME Init PROVE IInv
  OBVIOUS
<1>1. chip \in Chips
  BY Constants DEF Init, PhyInit, ChipInit, Chips, DefaultBmcr, BmcrBits, NoMode
<1>2. chip.adv = Abilities /\ chip.neg = "none" /\ chip.up = FALSE /\ chip.mode = NoMode
  BY DEF Init, PhyInit, ChipInit
<1>3. Sound(chip)
  BY <1>1, <1>2 DEF Sound, Agreed
<1>4. Rest
  <2>1. phymap \in [Addrs -> PhyDevice \cup {NULL}]
    BY DEF Init, PhyInit
  <2>2. /\ partner \in Partners \cup {{}} /\ addr = PhyAddr /\ edev = NULL /\ i = 0
        /\ changed = FALSE /\ ret = 0 /\ setup = "nobody" /\ seen = {} /\ steady = FALSE
        /\ pc = "idle" /\ clocks = {} /\ phy_addr = 31 /\ mac = NoMode
    BY DEF Init, PhyInit, ChipInit
  <2>3. syscon \subseteq SysconFields
    BY DEF Init, SysconFields
  <2> QED
    <3>1. i \in Nat /\ i <= ResetPolls /\ addr \in Addrs /\ phy_addr \in 0 .. 31
      BY <2>2, Constants
    <3>2. /\ partner \in Partners \cup {{}} /\ edev \in EthDevs \cup {NULL}
          /\ changed \in BOOLEAN /\ ret \in {-110, -1, 0}
          /\ setup \in {"nobody", "config", "geth"} /\ seen \subseteq BOOLEAN /\ steady \in BOOLEAN
          /\ pc \in Places /\ clocks \subseteq Clocks /\ mac \in Modes \cup {NoMode}
      BY <2>2 DEF Places
    <3> QED
      BY <2>1, <2>3, <3>1, <3>2 DEF Rest
<1>5. Lib /\ Configured /\ Startup
  BY <1>2 DEF Init, PhyInit, Lib, Configured, Startup, LibPlaces, StartupPlaces, GethPlaces
<1> QED
  BY <1>3, <1>4, <1>5 DEF IInv

LEMMA CallsStep ==
  ASSUME IInv, LibCalls, UNCHANGED <<board, phy_addr, mac>>
  PROVE  IInv'
BY PhyConnectStep, MiiphyResetStep, PhySetSupportedStep, ForceModeStep, PhyConfigStep,
   PhyStartupStep DEF LibCalls

LEMMA StepsStep ==
  ASSUME IInv, LibSteps, UNCHANGED <<board, phy_addr, mac>>
  PROVE  IInv'
BY PhyResetPollStep, ConfigGigabitStep, ConfigAnegStep, AnegPollStep, SecondReadStep,
   ParseLinkStep, ParseLowStep DEF LibSteps

LEMMA InvStep == IInv /\ [Next]_vars => IInv'
<1> SUFFICES ASSUME IInv, [Next]_vars PROVE IInv'
  OBVIOUS
<1>1. CASE UNCHANGED vars
  <2>1. UNCHANGED <<chip, partner, phymap, pc, addr, edev, i, changed, ret, setup, seen, steady,
                    syscon, clocks, phy_addr, mac>>
    BY <1>1 DEF vars, chipVars, phyVars
  <2>2. Rest'
    BY <2>1 DEF IInv, Rest
  <2>3. Lib' /\ Configured' /\ Startup'
    BY <2>1 DEF IInv, Lib, Configured, Startup, Dev
  <2> QED
    BY <2>1, <2>2, <2>3 DEF IInv
<1>2. CASE Next
  BY <1>2, GethSysInitStep, MiiPhyInitStep, CallsStep, StepsStep, GethStepsStep, Observing
     DEF Next, Code, Chip, CableMoves
<1> QED
  BY <1>1, <1>2

LEMMA Invariant == Spec => []IInv
BY InitStep, InvStep, PTL DEF Spec

-----------------------------------------------------------------------------
(* What they are for.                                                      *)

\* For any PHY, partners, addresses and numbers of polls the registers, the
\* phy_device and the place in the call under way keep to their types.
THEOREM TypeCorrect == Spec => []TypeOK
<1>1. IInv => TypeOK
  <2> SUFFICES ASSUME IInv PROVE TypeOK
    OBVIOUS
  <2>1. ChipType
    BY DEF IInv, Sound, Chips, Rest, ChipType
  <2>2. i \in 0 .. Max({ResetPolls, AnegTimeout + 1})
    <3> DEFINE top == IF ResetPolls >= AnegTimeout + 1 THEN ResetPolls ELSE AnegTimeout + 1
    <3>1. /\ top \in {ResetPolls, AnegTimeout + 1}
          /\ \A y \in {ResetPolls, AnegTimeout + 1} : top >= y
      BY Constants
    <3> DEFINE max == Max({ResetPolls, AnegTimeout + 1})
    <3> HIDE DEF top
    <3>2. /\ max \in {ResetPolls, AnegTimeout + 1}
          /\ \A y \in {ResetPolls, AnegTimeout + 1} : max >= y
      BY <3>1 DEF Max
    <3> HIDE DEF max
    <3>3. i \in 0 .. max
      BY <3>2, Constants DEF IInv, Rest
    <3> QED
      BY <3>3 DEF max
  <2>3. PhyType
    BY <2>2 DEF IInv, Rest, PhyType
  <2> QED
    BY <2>1, <2>3 DEF IInv, Rest, TypeOK, Places
<1> QED
  BY <1>1, Invariant, PTL

\* miiphy_speed and miiphy_duplex agree with the mode in use below gigabit.
LEMMA OlderWay ==
  ASSUME IInv, pc \in {"parse", "parse2"}, setup = "config", chip.up
  PROVE  chip.mode.speed < 1000 =>
           /\ MiiphySpeed = chip.mode.speed
           /\ chip.mode.duplex = "FULL" => MiiphyDuplex = "FULL"
<1> SUFFICES ASSUME chip.mode.speed < 1000
             PROVE  /\ MiiphySpeed = chip.mode.speed
                    /\ chip.mode.duplex = "FULL" => MiiphyDuplex = "FULL"
  OBVIOUS
<1>1. CASE ~ Dev.autoneg
  <2>1. "ANENABLE" \notin chip.bmcr /\ chip.mode = ForcedMode(chip)
    BY <1>1, ModeKnown
  <2>2. /\ chip.mode.speed = (CASE "SPEED1000" \in chip.bmcr -> 1000
                       [] {"SPEED1000", "SPEED100"} \cap chip.bmcr = {"SPEED100"} -> 100
                       [] OTHER -> 10)
        /\ chip.mode.duplex = IF "FULLDPLX" \in chip.bmcr THEN "FULL" ELSE "HALF"
    BY <2>1, ModeFields DEF ForcedMode
  <2>3. "SPEED1000" \notin chip.bmcr
    BY <2>2
  <2>4. chip.mode.speed = IF "SPEED100" \in chip.bmcr THEN 100 ELSE 10
    BY <2>2, <2>3
  <2> QED
    BY <2>1, <2>2, <2>4 DEF MiiphySpeed, MiiphyDuplex
<1>2. CASE Dev.autoneg
  <2> DEFINE S == chip.lpa \cap chip.adv
  <2>1. "ANENABLE" \in chip.bmcr /\ S \in SUBSET Modes /\ S # {} /\ chip.mode = Parsed(S)
    BY <1>2, ModeKnown
  <2> HIDE DEF S
  <2>2. chip.mode \in S /\ Beats(chip.mode, S) /\ chip.mode \in Modes
    BY <2>1, ParsedBeats
  <2>3. chip.mode.speed = 10 \/ chip.mode.speed = 100
    BY <2>2, SpeedsOf
  <2>4. (\E m \in S : m.speed = 100) <=> chip.mode.speed = 100
    BY <2>1, <2>2, <2>3, SpeedsOf DEF Beats
  <2>5. chip.mode \notin Gigabit
    BY <2>3 DEF Gigabit
  <2>6. MiiphySpeed = chip.mode.speed
    BY <2>1, <2>3, <2>4 DEF MiiphySpeed, S
  <2>7. chip.mode.duplex = "FULL" => MiiphyDuplex = "FULL"
    BY <2>1, <2>2, <2>5 DEF MiiphyDuplex, S
  <2> QED
    BY <2>6, <2>7
<1> QED
  BY <1>1, <1>2

\* phy_startup tells the truth: the link was as it says at some moment of the call, and
\* a mode given for a link that has stayed up is the mode in use.
THEOREM StartupTrueCorrect == Spec => StartupTrue
<1>1. IInv /\ [Next]_vars => [StartupEnds => LinkSeen(addr) /\ ModeInUse(addr)]_vars
  <2> SUFFICES ASSUME IInv, Next, StartupEnds
               PROVE  LinkSeen(addr) /\ ModeInUse(addr)
    OBVIOUS
  <2>1. pc \in StartupPlaces /\ pc' = "idle" /\ ret' = 0
    BY DEF StartupEnds
  <2>2. ~ Observed /\ ~ GethSteps /\ ~ LibCalls
    <3>1. ~ Observed
      BY <2>1 DEF Observed, StartupPlaces
    <3>2. ~ GethSteps
      BY <2>1 DEF GethSteps, GethResetDone, GethPoweredUp, GethAdvertise, GethSpeed,
                  GethNegotiated, GethMac, Access, StartupPlaces
    <3>3. pc # "idle"
      BY <2>1 DEF StartupPlaces
    <3>4. ~ LibCalls
      BY <3>3 DEF LibCalls, PhyConnect, MiiphyReset, PhySetSupported, ForceMode, PhyConfig,
                  PhyStartup, Known
    <3> QED
      BY <3>1, <3>2, <3>4
  <2>3. LibSteps
    BY <2>1, <2>2 DEF Next, Code, Chip, CableMoves, GethSysInit, MiiPhyInit, StartupPlaces
  <2>4. (ParseLink /\ pc = "parse") \/ (ParseLow /\ pc = "parse2")
    <3>1. ~ PhyResetPoll /\ ~ ConfigGigabit /\ ~ ConfigAneg
      BY <2>1 DEF PhyResetPoll, ConfigGigabit, ConfigAneg, StartupPlaces
    <3>2. ~ SecondRead
      BY <2>1 DEF SecondRead, Goto
    <3>3. ~ AnegPoll
      <4> SUFFICES ASSUME AnegPoll PROVE FALSE
        OBVIOUS
      <4>1. CASE AnegTimedOut
        BY <2>1, <4>1 DEF AnegPoll, StartupReturns, Return
      <4>2. CASE ~ AnegTimedOut
        BY <2>1, <4>2 DEF AnegPoll, Goto
      <4> QED
        BY <4>1, <4>2
    <3> QED
      BY <2>3, <3>1, <3>2, <3>3 DEF LibSteps, ParseLink, ParseLow
  <2>5. /\ addr = PhyAddr /\ Dev \in PhyDevice /\ PhyAddr \in Addrs /\ seen \subseteq BOOLEAN
    BY <2>1, InCall
  <2> DEFINE gblpa == IF Dev.supported \cap Gigabit = {} THEN {}
                      ELSE chip.lpa \cap chip.adv \cap Gigabit
             S == chip.lpa \cap chip.adv
  <2>6. \E m \in Modes :
          /\ SetMode(m)
          /\ ~ Dev.autoneg => m = ForcedMode(chip)
          /\ Dev.autoneg /\ chip.up /\ steady /\ setup = "config" /\ Ercap => m = chip.mode
    <3>1. CASE ParseLink /\ pc = "parse"
      <4> DEFINE m == IF Dev.autoneg THEN Parsed(gblpa) ELSE ForcedMode(chip)
      <4>1. SetMode(m) /\ (Dev.autoneg => gblpa # {})
        BY <2>1, <2>5, <3>1 DEF ParseLink, Goto, Dev
      <4>2. m \in Modes
        BY ParsedIn, ForcedModeIs
      <4>3. Dev.autoneg /\ chip.up /\ setup = "config" => m = chip.mode
        <5> SUFFICES ASSUME Dev.autoneg, chip.up, setup = "config" PROVE m = chip.mode
          OBVIOUS
        <5>1. S \in SUBSET Modes /\ chip.mode = Parsed(S)
          BY <3>1, ModeKnown
        <5>2. gblpa = S \cap Gigabit /\ S \cap Gigabit # {}
          BY <4>1
        <5> HIDE DEF S, gblpa
        <5>3. m = Parsed(S \cap Gigabit)
          BY <5>2
        <5> HIDE DEF m
        <5> QED
          BY <5>1, <5>2, <5>3, ParsedGigabit
      <4>4. ~ Dev.autoneg => m = ForcedMode(chip)
        OBVIOUS
      <4> HIDE DEF m
      <4> QED
        BY <4>1, <4>2, <4>3, <4>4
    <3>2. CASE ParseLow /\ pc = "parse2"
      <4>1. PICK m \in Modes :
              SetMode(m) /\ (Ercap => m = Parsed((chip.adv \cap chip.lpa) \ Gigabit))
        BY <3>2, ParseLowMode
      <4>2. Dev.autoneg
        BY <3>2 DEF IInv, Startup
      <4>3. chip.up /\ steady /\ setup = "config" /\ Ercap => m = chip.mode
        <5> SUFFICES ASSUME chip.up, steady, setup = "config", Ercap PROVE m = chip.mode
          OBVIOUS
        <5>1. S \in SUBSET Modes /\ chip.mode = Parsed(S)
          BY <3>2, <4>2, ModeKnown
        <5>2. S \cap Gigabit = {}
          BY <3>2 DEF IInv, Startup
        <5>3. (chip.adv \cap chip.lpa) \ Gigabit = S
          BY <5>2
        <5> QED
          BY <4>1, <5>1, <5>3
      <4> QED
        BY <4>1, <4>2, <4>3
    <3> QED
      BY <2>4, <3>1, <3>2
  <2>7. PICK m \in Modes :
          /\ SetMode(m)
          /\ ~ Dev.autoneg => m = ForcedMode(chip)
          /\ Dev.autoneg /\ chip.up /\ steady /\ setup = "config" /\ Ercap => m = chip.mode
    BY <2>6
  <2>8. phymap'[addr].link = Dev.link /\ phymap'[addr].mode = m
    <3> DEFINE d == [Dev EXCEPT !.mode = m]
    <3>1. phymap' = [phymap EXCEPT ![PhyAddr] = d]
      BY <2>5, <2>7 DEF SetMode, Dev
    <3>2. d \in PhyDevice /\ d.link = Dev.link /\ d.mode = m
      BY <2>5, ModeOf
    <3> HIDE DEF d
    <3>3. phymap'[PhyAddr] = d
      BY <2>5, <3>1 DEF IInv, Rest
    <3> QED
      BY <2>5, <3>2, <3>3
  <2>9. pc \in {"parse", "parse2"}
    BY <2>4
  <2>10. LinkSeen(addr)
    <3>1. IF Dev.link = 1 THEN TRUE \in seen ELSE FALSE \in seen
      BY <2>9 DEF IInv, Startup
    <3>2. CASE Dev.link = 1
      <4>1. (phymap'[addr].link = 1) = TRUE
        BY <2>8, <3>2
      <4> QED
        BY <3>1, <3>2, <4>1 DEF LinkSeen
    <3>3. CASE Dev.link # 1
      <4>1. (phymap'[addr].link = 1) = FALSE
        BY <2>8, <3>3
      <4> QED
        BY <3>1, <3>3, <4>1 DEF LinkSeen
    <3> QED
      BY <3>2, <3>3
  <2>11. ModeInUse(addr)
    <3> SUFFICES ASSUME steady, chip.up, setup = "config", Ercap
                 PROVE  /\ phymap'[addr].mode = chip.mode
                        /\ chip.mode.speed < 1000 =>
                             /\ MiiphySpeed = chip.mode.speed
                             /\ chip.mode.duplex = "FULL" => MiiphyDuplex = "FULL"
      BY DEF ModeInUse
    <3>1. ~ Dev.autoneg => chip.mode = ForcedMode(chip)
      BY <2>9, ModeKnown
    <3>2. m = chip.mode
      BY <2>7, <3>1
    <3> QED
      BY <2>8, <2>9, <3>2, OlderWay
  <2> QED
    BY <2>10, <2>11
<1> QED
  BY <1>1, Invariant, PTL DEF Spec, StartupTrue
=============================================================================
