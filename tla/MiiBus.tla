------------------------------- MODULE MiiBus -------------------------------
(***************************************************************************)
(* The MDIO buses of net/miiphyutil.c on a list of include/linklist.h, and  *)
(* the PHYs connected through them, as far as the search by the name of an  *)
(* Ethernet device goes.                                                   *)
(*                                                                         *)
(* The program registers one bus, "eth0", from geth_initialize.  The other  *)
(* calls are there for drivers; here they come in any order, on buses that  *)
(* are registered and on others.  Nothing but miiphy_init may come first, or *)
(* the empty list is followed through a null pointer (TooEarly).  Names fit *)
(* into their MDIO_NAME_LEN bytes: what miiphy_register cuts off of longer  *)
(* ones, after its search for the whole name, is left out.                  *)
(***************************************************************************)
EXTENDS LinkList, FiniteSets, SequencesExt

CONSTANTS
  Buses,        \* memory for buses
  Names,
  EthDevs,
  mii_devs      \* the head of the list

ASSUME MiiAssumption ==
  /\ NULL \notin Buses \cup Names \cup EthDevs \cup {mii_devs}
  /\ mii_devs \notin Buses
  /\ IsFiniteSet(Buses)

VARIABLES
  mii_list,     \* the links of mii_devs and of the buses
  name,         \* bus -> its name, NULL while it is empty
  access,       \* the buses with a read and a write
  allocated,    \* memory in use
  connected,    \* bus -> the Ethernet device its PHY is connected to, or NULL
  current_mii,
  served,       \* what was last asked for, and the bus that was found
  mode          \* "boot" until miiphy_init, "up", "trap" after a null pointer

miiVars == <<mii_list, name, access, allocated, connected, current_mii, served, mode>>

BusNodes == Buses \cup {mii_devs}
Size == Cardinality(BusNodes)

LinksOfBuses ==
  [next : [BusNodes -> BusNodes \cup {NULL}], prev : [BusNodes -> BusNodes \cup {NULL}]]

\* The state of the MDIO buses.
BusesTypeOK ==
  /\ mii_list \in LinksOfBuses
  /\ name \in [Buses -> Names \cup {NULL}]
  /\ access \subseteq allocated /\ allocated \subseteq Buses
  /\ connected \in [Buses -> EthDevs \cup {NULL}]
  /\ current_mii \in Buses \cup {NULL}
  /\ served \in (Names \cup EthDevs \cup {NULL}) \X (Buses \cup {NULL})
  /\ mode \in {"boot", "up", "trap"}

Zero == [n \in BusNodes |-> NULL]
MiiInit ==
  /\ mii_list = [next |-> Zero, prev |-> Zero]
  /\ name = [b \in Buses |-> NULL] /\ access = {} /\ allocated = {}
  /\ connected = [b \in Buses |-> NULL]
  /\ current_mii = NULL /\ served = <<NULL, NULL>>
  /\ mode = "boot"

\* The walk of every search.
Walk == ListForEach(mii_list, mii_devs, Size)

First(wanted) ==
  LET k == SelectInSeq(Walk, LAMBDA b : b \in wanted) IN IF k = 0 THEN NULL ELSE Walk[k]

MiiphyGetDevByName(n) == First({b \in Buses : name[b] = n})

\* On a list: linked with another node.
Registered(b) == mii_list.next[b] \notin {b, NULL}

MiiphyInit ==
  /\ mode = "boot"
  /\ mii_list' = InitListHead(mii_list, mii_devs)
  /\ current_mii' = NULL
  /\ mode' = "up"
  /\ UNCHANGED <<name, access, allocated, connected, served>>

\* Any call before it.
TooEarly ==
  /\ mode = "boot"
  /\ mode' = "trap"
  /\ UNCHANGED <<mii_list, name, access, allocated, connected, current_mii, served>>

BecomesCurrent(b) == current_mii' = IF current_mii = NULL THEN b ELSE current_mii

MdioAlloc(b) ==
  /\ mode = "up" /\ b \notin allocated
  /\ mii_list' = InitListHead(mii_list, b)
  /\ allocated' = allocated \cup {b}
  /\ UNCHANGED <<name, access, connected, current_mii, served, mode>>

\* A name that is taken is refused.
MiiphyRegister(b, n) ==
  /\ mode = "up" /\ b \notin allocated
  /\ MiiphyGetDevByName(n) = NULL
  /\ mii_list' = ListAddTail(InitListHead(mii_list, b), b, mii_devs)
  /\ name' = [name EXCEPT ![b] = n]
  /\ access' = access \cup {b} /\ allocated' = allocated \cup {b}
  /\ BecomesCurrent(b)
  /\ UNCHANGED <<connected, served, mode>>

\* What the owner of a bus does before mdio_register.
Prepare(b, n) ==
  /\ mode = "up" /\ b \in allocated /\ ~Registered(b)
  /\ name' = [name EXCEPT ![b] = n]
  /\ access' \in {access, access \cup {b}}
  /\ UNCHANGED <<mii_list, allocated, connected, current_mii, served, mode>>

\* b has its name n already when the list is searched: on the list it finds itself.
MayRegister(b, n) == b \in access /\ First({c \in Buses : c = b \/ name[c] = n}) = NULL

AddToList(b) == mii_list' = ListAddTail(mii_list, b, mii_devs) /\ BecomesCurrent(b)

MdioRegister(b) ==
  /\ mode = "up" /\ b \in allocated
  /\ name[b] # NULL /\ MayRegister(b, name[b]) /\ AddToList(b)
  /\ UNCHANGED <<name, access, allocated, connected, served, mode>>

\* The new name stays when the bus is refused, one that is registered already included:
\* the comment, "Setup a unique name for each mdio bus", is not kept to.
MdioRegisterSeq(b, n) ==
  /\ mode = "up" /\ b \in allocated
  /\ name' = [name EXCEPT ![b] = n]
  /\ IF MayRegister(b, n) THEN AddToList(b) ELSE UNCHANGED <<mii_list, current_mii>>
  /\ UNCHANGED <<access, allocated, connected, served, mode>>

ForgetsBus(b) == current_mii = b

\* list_del leaves null pointers behind: a second call follows them.
MdioUnregister(b) ==
  /\ mode = "up" /\ b \in allocated
  /\ IF mii_list.next[b] = NULL
     THEN mode' = "trap" /\ UNCHANGED <<mii_list, current_mii>>
     ELSE /\ mii_list' = ListDel(mii_list, b)
          /\ current_mii' = IF ForgetsBus(b) THEN NULL ELSE current_mii
          /\ UNCHANGED mode
  /\ UNCHANGED <<name, access, allocated, connected, served>>

\* The bus used last is taken without looking at its name.
CurrentUnseen(n) == IF current_mii # NULL THEN current_mii ELSE MiiphyGetDevByName(n)

\* miiphy_get_active_dev: the bus that is current, if that is its name; otherwise the
\* one found becomes current.
ActiveDev(n) ==
  IF current_mii # NULL /\ name[current_mii] = n THEN current_mii ELSE MiiphyGetDevByName(n)

\* miiphy_read, miiphy_write and miiphy_info, of which each access goes this way, and
\* miiphy_set_current_dev.
MiiphyAccess(n) ==
  /\ mode = "up"
  /\ served' = <<n, ActiveDev(n)>>
  /\ current_mii' = IF ActiveDev(n) = NULL THEN current_mii ELSE ActiveDev(n)
  /\ UNCHANGED <<mii_list, name, access, allocated, connected, mode>>

MdioPhydevForEthname(e) ==
  /\ mode = "up"
  /\ served' = <<e, First({b \in Buses : connected[b] = e})>>
  /\ UNCHANGED <<mii_list, name, access, allocated, connected, current_mii, mode>>

\* phy_connect on a bus.
Connect(b, e) ==
  /\ mode = "up" /\ b \in allocated
  /\ connected' = [connected EXCEPT ![b] = e]
  /\ UNCHANGED <<mii_list, name, access, allocated, current_mii, served, mode>>

MiiNext ==
  \/ MiiphyInit \/ TooEarly
  \/ \E b \in Buses : MdioAlloc(b) \/ MdioRegister(b) \/ MdioUnregister(b)
  \/ \E b \in Buses, n \in Names : MiiphyRegister(b, n) \/ Prepare(b, n) \/ MdioRegisterSeq(b, n)
  \/ \E n \in Names : MiiphyAccess(n)
  \/ \E e \in EthDevs : MdioPhydevForEthname(e) \/ \E b \in Buses : Connect(b, e)

MiiSpec == MiiInit /\ [][MiiNext]_miiVars

-----------------------------------------------------------------------------
\* list_add_tail and list_del, in any order of registering and unregistering, leave
\* every node they have not taken out linked both ways, and current_mii is never a bus
\* that has been taken out.
WellLinked ==
  /\ Linked(mii_list)
  /\ current_mii # NULL => mii_list.next[current_mii] # NULL

\* The list is what miiphyutil.c is used for: buses in order of registration, none added
\* under a name that is taken, an access reaching a bus of that name whatever was current,
\* and an unregistered bus reached by nothing, a search for a PHY included.
Registry == INSTANCE MiiRegistry WITH
  buses <- Walk, current <- current_mii
Implements == Registry!RegistrySpec
=============================================================================
