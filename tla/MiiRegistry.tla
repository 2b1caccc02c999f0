---------------------------- MODULE MiiRegistry ----------------------------
(***************************************************************************)
(* What net/miiphyutil.c promises about the MDIO buses: they are kept in the *)
(* order of registration, a name that is taken is not given again, one of   *)
(* them may be current, and an access to a name goes to a bus that has it.  *)
(***************************************************************************)
EXTENDS Sequences, SequencesExt

CONSTANTS Buses, Names, EthDevs, NULL

VARIABLES
  buses,        \* the registered buses, oldest first
  name,         \* what each is called
  connected,    \* and the Ethernet device that uses its PHY
  current,      \* the one used last
  served        \* what was last asked for, and the bus that was found or NULL

registryVars == <<buses, name, connected, current, served>>

Called(n) == {b \in ToSet(buses) : name[b] = n}

RegistryInit ==
  /\ buses = << >> /\ current = NULL /\ served = <<NULL, NULL>>
  /\ name \in [Buses -> Names \cup {NULL}] /\ connected \in [Buses -> EthDevs \cup {NULL}]

Register(b, n) ==
  /\ b \notin ToSet(buses) /\ Called(n) = {}
  /\ buses' = Append(buses, b)
  /\ name' = [name EXCEPT ![b] = n]
  /\ current' = IF current = NULL THEN b ELSE current
  /\ UNCHANGED <<connected, served>>

Unregister(b) ==
  /\ IF b \in ToSet(buses)
     THEN \E k \in DOMAIN buses : buses[k] = b /\ buses' = RemoveAt(buses, k)
     ELSE UNCHANGED buses
  /\ current' = IF current = b THEN NULL ELSE current
  /\ UNCHANGED <<name, connected, served>>

\* One of them, or NULL.
OneOf(found) == IF found = {} THEN {NULL} ELSE found

Use(n) ==
  \E b \in OneOf(Called(n)) :
    /\ served' = <<n, b>>
    /\ current' = IF b = NULL THEN current ELSE b
    /\ UNCHANGED <<buses, name, connected>>

Find(e) ==
  \E b \in OneOf({c \in ToSet(buses) : connected[c] = e}) :
    /\ served' = <<e, b>>
    /\ UNCHANGED <<buses, name, connected, current>>

Connect(b, e) ==
  /\ connected' = [connected EXCEPT ![b] = e]
  /\ UNCHANGED <<buses, name, current, served>>

\* The name of one bus is overwritten, by its owner or by mdio_register_seq.
Rename(b, n) ==
  /\ name' = [name EXCEPT ![b] = n]
  /\ UNCHANGED <<buses, connected, current, served>>

RegistryNext ==
  \/ \E b \in Buses, n \in Names : Register(b, n) \/ Rename(b, n)
  \/ \E b \in Buses : Unregister(b)
  \/ \E n \in Names : Use(n)
  \/ \E e \in EthDevs : Find(e) \/ \E b \in Buses : Connect(b, e)

RegistrySpec == RegistryInit /\ [][RegistryNext]_registryVars
=============================================================================
