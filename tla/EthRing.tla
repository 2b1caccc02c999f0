------------------------------- MODULE EthRing -------------------------------
(***************************************************************************)
(* The ring of Ethernet devices of net/eth_legacy.c, the choice of the      *)
(* current one in net/eth_common.c, and the environment of misc/nvedit.c    *)
(* that the choice is kept in.                                              *)
(*                                                                         *)
(* The devices are linked by their field next; eth_devices points at the    *)
(* first.  The variable ethact names the current device.  The environment   *)
(* is searched by env_set without its last slot, where it then puts every   *)
(* variable it has not found: setting one variable drops the previous one,  *)
(* and so ethact and the addresses of eth_write_hwaddr displace each other. *)
(*                                                                         *)
(* phase: "boot" is eth_initialize up to the return of board_eth_init,      *)
(* "up" the program after eth_initialize, "trap" a null pointer passed to   *)
(* strcpy that ends it.                                                     *)
(***************************************************************************)
EXTENDS Walk, SequencesExt

CONSTANTS
  Devs,         \* Ethernet devices; a device stands for its name, too
  Slots,        \* number of slots of the environment (20)
  Roms,         \* "none", "valid", "group": the address a device comes with
  Hotplug,      \* FALSE: devices come in eth_initialize only, and none goes
  MaxIndex      \* bound: calls of eth_register

ASSUME RingAssumption ==
  /\ NULL \notin Devs
  /\ Slots \in Nat \ {0}
  /\ Roms \subseteq {"none", "valid", "group"}
  /\ Hotplug \in BOOLEAN
  /\ MaxIndex \in Nat

VARIABLES
  phase,
  eth_devices,
  eth_current,
  next,             \* device -> its field next
  index,            \* device -> its field index
  next_index,       \* the static of eth_register
  enetaddr,         \* device -> what its field enetaddr holds
  env,              \* slot -> the variable in it and its value
  act,              \* the static of eth_set_current: a slot, or NoSlot
  first_failed,     \* the static of eth_try_another
  net_restart_wrap,
  tried,            \* history: devices current since first_failed was set or
                    \* eth_set_current called
  round             \* history: first_failed was set last, and the ring is as then

ringVars == <<eth_devices, next, index, next_index>>
failVars == <<first_failed, net_restart_wrap, tried, round>>
vars == <<phase, ringVars, eth_current, enetaddr, env, act, failVars>>

Addresses == {"none", "valid", "group", "default"}

-----------------------------------------------------------------------------
(* The environment.  A variable is a pair: its name, and the index of a     *)
(* device where the name contains one.                                      *)

EthAct == <<"ethact", 0>>
EthPrime == <<"ethprime", 0>>
EthRotate == <<"ethrotate", 0>>
EthAddr(i) == <<"ethaddr", i>>
MacSkip(i) == <<"ethmacskip", i>>
NoVar == <<"", 0>>

\* A value: a device's name, an Ethernet address as text, or anything else.
Value(type, of) == [type |-> type, of |-> of]
Name(d) == Value("name", d)
Address(d) == Value("address", d)
Junk == Value("junk", NULL)
Values == [type : {"name", "address", "junk"}, of : Devs \cup {NULL}]

SlotIds == 0 .. Slots - 1
NoSlot == -1

Smallest(S) == CHOOSE i \in S : \A j \in S : i <= j

SlotFor(e, var) ==
  LET found == {i \in 0 .. Slots - 2 : e[i].var = var}
  IN  IF found = {} THEN Slots - 1 ELSE Smallest(found)

EnvSet(e, var, val) == [e EXCEPT ![SlotFor(e, var)] = [var |-> var, val |-> val]]

EnvSlot(e, var) ==
  LET found == {i \in SlotIds : e[i].var = var}
  IN  IF found = {} THEN NoSlot ELSE Smallest(found)

IsSet(e, var) == EnvSlot(e, var) # NoSlot

-----------------------------------------------------------------------------
(* The ring.                                                               *)

\* The devices in the order of the walks of eth_legacy.c, from eth_devices on.
Ring ==
  IF eth_devices = NULL THEN << >>
  ELSE <<eth_devices>> \o Along(next, eth_devices, {eth_devices, NULL}, MaxIndex)

OnRing == ToSet(Ring)

\* The value ethrotate is never set to "no" by the code; it is read all the same.
RotateOff(e) == IsSet(e, EthRotate)

\* ethact is made to name cur.
NameCurrent(cur, e) ==
  IF IsSet(e, EthAct) /\ e[EnvSlot(e, EthAct)].val = Name(cur) THEN e
  ELSE EnvSet(e, EthAct, Name(cur))

\* eth_current_changed, given the current device.  Removing ethact passes a null
\* pointer to strcpy: the program may trap or store whatever memory holds there.
Changed(cur, e) ==
  CASE RotateOff(e) -> phase' = phase /\ env' = e
    [] ~RotateOff(e) /\ cur # NULL -> phase' = phase /\ env' = NameCurrent(cur, e)
    [] ~RotateOff(e) /\ cur = NULL /\ IsSet(e, EthAct) ->
         \/ phase' = "trap" /\ env' = e
         \/ phase' = phase /\ env' = EnvSet(e, EthAct, Junk)
    [] OTHER -> phase' = phase /\ env' = e

\* Mutant: eth_current_changed is not called.
EthCurrentSet(cur, e) == eth_current' = cur /\ env' = e /\ phase' = phase

EthCurrentChanged(cur, e) == eth_current' = cur /\ Changed(cur, e)

RingMayChange == phase = "boot" \/ (Hotplug /\ phase = "up")

Init ==
  /\ phase = "boot"
  /\ eth_devices = NULL /\ eth_current = NULL
  /\ next = [d \in Devs |-> NULL] /\ index = [d \in Devs |-> 0] /\ next_index = 0
  /\ enetaddr \in [Devs -> Roms]
  /\ env = [i \in SlotIds |-> [var |-> NoVar, val |-> Junk]]
  /\ act = NoSlot
  /\ first_failed = NULL /\ net_restart_wrap = FALSE
  /\ tried = {} /\ round = FALSE

\* The static index of eth_register is not advanced.
IndexKept(i) == i

IndexAfter(i) == i + 1

\* eth_register, by board_eth_init or later.
EthRegister(dev) ==
  /\ RingMayChange /\ dev \notin OnRing /\ next_index < MaxIndex
  /\ index' = [index EXCEPT ![dev] = next_index] /\ next_index' = IndexAfter(next_index)
  /\ \/ /\ eth_devices = NULL
        /\ eth_devices' = dev
        /\ next' = [next EXCEPT ![dev] = dev]
        /\ EthCurrentChanged(dev, env)
     \/ /\ eth_devices # NULL
        /\ \E last \in OnRing :
             /\ next[last] = eth_devices
             /\ next' = [next EXCEPT ![last] = dev, ![dev] = eth_devices]
        /\ UNCHANGED <<eth_devices, eth_current, env, phase>>
  /\ round' = FALSE
  /\ UNCHANGED <<enetaddr, act, first_failed, net_restart_wrap, tried>>

\* The head is not moved on.
HeadKept(dev) == IF next[dev] = eth_devices /\ eth_devices = dev THEN NULL ELSE eth_devices

\* The head of the list without dev.
HeadWithout(dev) ==
  IF eth_devices # dev THEN eth_devices
  ELSE IF next[dev] = eth_devices THEN NULL ELSE next[dev]

EthUnregister(dev) ==
  /\ RingMayChange /\ Hotplug /\ dev \in OnRing
  /\ \E cur \in OnRing :
       /\ next[cur] = dev
       /\ next' = [next EXCEPT ![cur] = next[dev]]
  /\ eth_devices' = HeadWithout(dev)
  /\ IF eth_current = dev THEN EthCurrentChanged(HeadWithout(dev), env)
     ELSE UNCHANGED <<eth_current, env, phase>>
  /\ round' = FALSE
  /\ UNCHANGED <<index, next_index, enetaddr, act, first_failed, net_restart_wrap,
                 tried>>

-----------------------------------------------------------------------------
(* eth_initialize, from the loop over the registered devices on.           *)

\* The default replaces an address the device came with.
EthWriteDefault(a, dev) ==
  IF IsSet(a.env, EthAddr(index[dev])) THEN a ELSE [a EXCEPT !.mac[dev] = "default"]

\* eth_write_hwaddr for dev, with a = [mac, env] before: the address of the
\* environment wins, then the device's own, which goes to the environment, then
\* the default.
EthWriteHwaddr(a, dev) ==
  LET var == EthAddr(index[dev])
      set == IsSet(a.env, var)
  IN  CASE set -> [a EXCEPT !.mac[dev] = "valid"]
        [] ~set /\ a.mac[dev] = "valid" -> [a EXCEPT !.env = EnvSet(@, var, Address(dev))]
        [] ~set /\ a.mac[dev] = "none"  -> [a EXCEPT !.mac[dev] = "default"]
        [] OTHER -> a

\* The loop of eth_initialize over the ring: after[k] is what the first k devices leave.
Written ==
  LET after[k \in 0 .. Len(Ring)] ==
        IF k = 0 THEN [mac |-> enetaddr, env |-> env] ELSE EthWriteHwaddr(after[k - 1], Ring[k])
  IN  after[Len(Ring)]

\* The device ethprime names, or else the current one.
Preferred(e) ==
  LET i == EnvSlot(e, EthPrime)
  IN  IF i # NoSlot /\ e[i].val.of \in OnRing THEN e[i].val.of ELSE eth_current

\* Mutant: eth_initialize does not call eth_current_changed.
EthInitializeOnly ==
  /\ phase = "boot"
  /\ enetaddr' = Written.mac /\ env' = Written.env
  /\ phase' = "up"
  /\ UNCHANGED <<ringVars, eth_current, act, failVars>>

EthInitialize ==
  /\ phase = "boot"
  /\ enetaddr' = Written.mac
  /\ phase' = "up"
  /\ IF Ring = << >> THEN UNCHANGED <<eth_current, env>>
     ELSE /\ eth_current' = Preferred(env)
          /\ env' = IF RotateOff(Written.env) THEN Written.env
                    ELSE NameCurrent(Preferred(env), Written.env)
  /\ UNCHANGED <<ringVars, act, failVars>>

-----------------------------------------------------------------------------
(* The choice of the current device: eth_set_current for every call of      *)
(* net_loop, eth_try_another after a failure.                               *)

Named(slot) ==
  IF env[slot].val.type = "name" /\ env[slot].val.of \in OnRing
  THEN env[slot].val.of ELSE NULL

\* act keeps pointing at the value it was first read from, whatever variable
\* is stored there later.
EthSetCurrent ==
  /\ phase = "up"
  /\ LET a     == IF act = NoSlot THEN EnvSlot(env, EthAct) ELSE act
         prime == EnvSlot(env, EthPrime)
     IN  /\ act' = a
         /\ EthCurrentChanged(CASE a # NoSlot                  -> Named(a)
                                [] a = NoSlot /\ prime # NoSlot -> Named(prime)
                                [] OTHER                        -> NULL,
                              env)
  /\ tried' = {eth_current'} \ {NULL} /\ round' = FALSE
  /\ UNCHANGED <<ringVars, enetaddr, first_failed, net_restart_wrap>>

\* eth_set_current_to_next.
ToNext(dev) == next[dev]

\* The first device that failed is compared before moving on from it.
FailedAgain(failed) == failed = eth_current

WrappedAround(failed) == failed = eth_current'

EthTryAnother(first_restart) ==
  /\ phase = "up" /\ eth_current # NULL /\ ~RotateOff(env)
  /\ first_failed' = IF first_restart THEN eth_current ELSE first_failed
  /\ EthCurrentChanged(ToNext(eth_current), env)
  /\ net_restart_wrap' = (net_restart_wrap \/ WrappedAround(first_failed'))
  /\ tried' = IF first_restart THEN {eth_current, eth_current'}
              ELSE tried \cup {eth_current'}
  /\ round' = (round \/ first_restart)
  /\ UNCHANGED <<ringVars, enetaddr, act>>

\* net_start_again has looked at net_restart_wrap.
WrapSeen ==
  /\ phase = "up" /\ net_restart_wrap
  /\ net_restart_wrap' = FALSE
  /\ UNCHANGED <<phase, ringVars, eth_current, enetaddr, env, act, first_failed,
                 tried, round>>

Next ==
  \/ EthInitialize \/ EthSetCurrent \/ WrapSeen
  \/ \E dev \in Devs : EthRegister(dev) \/ EthUnregister(dev)
  \/ \E first_restart \in BOOLEAN : EthTryAnother(first_restart)

Spec == Init /\ [][Next]_vars

-----------------------------------------------------------------------------
(* Properties.                                                             *)

\* The type of the state.  The devices on the ring have different indices, by
\* which eth_get_dev_by_index and the variables eth<n>addr tell them apart.
TypeOK ==
  /\ phase \in {"boot", "up", "trap"}
  /\ eth_devices \in Devs \cup {NULL} /\ eth_current \in Devs \cup {NULL}
  /\ next \in [Devs -> Devs \cup {NULL}]
  /\ index \in [Devs -> 0 .. MaxIndex] /\ next_index \in 0 .. MaxIndex
  /\ \A d, e \in OnRing : index[d] = index[e] => d = e
  /\ enetaddr \in [Devs -> Addresses]
  /\ \A i \in SlotIds : env[i].val \in Values
  /\ act \in SlotIds \cup {NoSlot}
  /\ first_failed \in Devs \cup {NULL} /\ net_restart_wrap \in BOOLEAN
  /\ tried \subseteq Devs /\ round \in BOOLEAN

List == INSTANCE EthList WITH devices <- Ring, current <- eth_current

\* The linked ring is a list in the order of registration, from which devices
\* come and go anywhere, and the current device is on it as long as it has one.
IsList == List!ListSpec

\* Outside eth_initialize the variable ethact names the current device: neither
\* the addresses stored by eth_write_hwaddr nor a device that comes or goes
\* leaves it naming another.
EthactNamesCurrent ==
  phase = "up" /\ eth_current # NULL /\ next_index > 0 =>
    IsSet(env, EthAct) /\ env[EnvSlot(env, EthAct)].val = Name(eth_current)

\* eth_set_current, which every net_loop starts with, keeps the current device:
\* the value its pointer act has come to point at still names it.
CurrentKept == [][EthSetCurrent => eth_current' = eth_current]_vars

\* Every device on the ring has an address once eth_initialize is done, and none
\* that came with one of its own has lost it to the default.
Addressed ==
  [][phase = "boot" /\ phase' = "up" =>
       \A d \in OnRing : enetaddr'[d] = IF enetaddr[d] = "none" THEN "default"
                                       ELSE enetaddr[d]]_vars

\* Within one round of retries on an unchanged ring, net_restart_wrap is set only
\* when every device has had its turn.
RoundTriesAll ==
  [][~net_restart_wrap /\ net_restart_wrap' /\ round' => OnRing \subseteq tried']_vars

\* "Tried all network devices" (net/net.h:536): when net_restart_wrap is set, every
\* device has had its turn since the call of net_loop began.  It need not have:
\* first_failed may be the device that failed first in an earlier call, and eth_init
\* comes to it on its way from a device that does not start.
WrapMeansAllTried ==
  [][~net_restart_wrap /\ net_restart_wrap' => OnRing \subseteq tried']_vars
=============================================================================
