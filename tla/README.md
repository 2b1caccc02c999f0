# Verification of emac-driver

emac-driver is a network driver for the EMAC of the Allwinner D1, put together
from U-Boot: a polling network stack (`net/net.c`, `arp.c`, `ping.c`), the ring
of Ethernet devices (`eth_legacy.c`, `eth_common.c`), the DMA driver
(`net/emac/sunxi_geth.c`), MII and PHY libraries and some support code.
`net_drv_init` (`main.c`) registers the device, sets an address and pings one
host. There is one thread and no interrupt; what is concurrent is the hardware:
two DMA engines, the data cache, the clock, and the other machines.

This directory holds TLA+ models of that code, the TLC runs that check them and
the proofs TLAPS checks.

## The system

| part | state it keeps | operations | depends on |
|---|---|---|---|
| net_loop (`net/net.c`) | `net_state`, handlers and `time_start`/`time_delta`, `net_try_count`, `net_restarted`, `net_restart_wrap` | `net_loop`, `net_start_again`, `net_cleanup_loop`, `net_set_timeout_handler` | ARP, ping, the ring, the timer |
| ARP (`net/arp.c`) | `net_arp_wait_packet_ip`, `net_arp_wait_reply_ip`, `arp_wait_try`, `arp_wait_timer_start`, size and address slot of the waiting packet | `arp_request`, `arp_timeout_check`, `arp_receive` | sends through the ring, called from `net_loop` and from the dispatch |
| ping (`net/ping.c`) | `net_ping_ip`, sequence number | `ping_start`, `ping_send`, `ping_timeout_handler`, `ping_receive` | leaves its packet with ARP |
| dispatch (`net/net.c`) | `net_rx_packet`, header pointers | `net_process_received_packet`, `receive_icmp` | called from within `geth_recv`; calls ARP and ping |
| device ring (`eth_legacy.c`, `eth_common.c`) | `eth_devices`, `eth_current`, each device's `next`, `index`, `state`, `enetaddr`; the statics `first_failed`, `act` | register, unregister, initialise, start, halt, select, try another | the environment, the driver |
| environment (`misc/nvedit.c`) | 20 slots | `env_set`, `env_get` | |
| EMAC driver (`sunxi_geth.c`) | one descriptor per direction, `rx_packet`, `rx_handle_buf` | `geth_init`, `geth_halt`, `geth_xmit`, `geth_recv` | cache operations, DMA, PHY |
| MII bus (`miiphyutil.c`) | list of buses `mii_devs`, `current_mii`, each bus's name and PHYs | `mdio_alloc`, `mdio_register`, `mdio_unregister`, searches, `miiphy_read`, `miiphy_write` | `linklist.h`, the driver's MDIO |
| PHY (`phy/phy.c`, `mii_phy_init` in `sunxi_geth.c`) | one `phy_device` per PHY: link, speed, duplex, what it supports and advertises; the registers of the PHY | `phy_connect`, `phy_reset`, `phy_config`, `phy_startup`, `mii_phy_init` | the MII bus; the PHY and the cable act on their own |
| lists (`linklist.h`) | two links per node | add, delete, replace, move, cut, splice | |
| timer (`timer.c`, `time.c`) | a counter of the processor | `get_timer`, `udelay` | used by net_loop, ARP, ping and the driver |
| memory (`common.c`) | three bump allocators | `malloc`, `calloc`, `memalign` | used by the driver for descriptors and buffers |
| checksums (`checksum.c`), numbers (`vsnprintf.c`) | none | `compute_ip_checksum`, `ip_checksum_ok`, `add_ip_checksums`; `put_dec` | |

How they interact: `net_loop` polls. Each pass runs `arp_timeout_check`, then
`eth_rx`, which is `geth_recv`, which hands a frame to the dispatch, which calls
`arp_receive` or `ping_receive`, which may send a frame before `geth_recv` has
returned; then the timeout handler; then a switch on `net_state`, which all of
the former may have set. What makes each part correct:

- *net_loop, ARP, ping*: a call returns; success means that the pinged host
  answered; a packet goes to the host it was built for; tries and timeouts are
  those configured; nothing is left over for the next call.
- *EMAC driver*: a descriptor and its buffer have one owner at a time, through
  a cache the device does not see; frames go up once and in order; packets go out.
- *device ring*: it remains a ring; the current device is on it; `ethact` names it.
- *dispatch*: a frame reaches the handler its headers name, and only when it is
  whole and for this machine; a request is answered in kind, and the answer gets
  through wherever the question did.
- *MII bus, lists*: a list stays linked both ways; a bus is found under its own
  name while it is registered and not after.
- *PHY*: what is reported of the link is true; the calls end; the MAC is set to
  the speed the link has.
- *timer*: a wait takes the time it was asked for, whatever the counter wraps to.
- *memory*: blocks do not overlap, and those the DMA uses share no cache line.
- *checksums, numbers*: damage is noticed; the digits are those of the number.

The hazards, each at its line, are listed in `PROJECT.json`.

## Modules

| module | what it models |
|---|---|
| `PingService` | abstract: one report per ping, "alive" only with an answer |
| `NetLoop` | `net_loop(PING)` with ARP, ping, timeouts, retries, and `eth_init`/`eth_halt`; implements `PingService` |
| `DCache` | a write-back cache over memory a device writes; `flush_dcache_range`, `invalidate_dcache_range` |
| `Geth` | the driver with the DMA engines, over `DCache` |
| `PhyChip` | a PHY, its registers and negotiation, its link partner and the cable (external) |
| `Phy` | the PHY library over `PhyChip`: search, connect, reset, configure, start up |
| `GethPhy` | `geth_sys_init` and `mii_phy_init` of the driver, composed with `Phy` on the same PHY |
| `NetRx` | the dispatch of received frames, with the answers ARP and ping make and the encapsulation of what is sent, on several machines of one segment |
| `EthList` | abstract: a list of devices in order of registration and the current one |
| `EthRing` | the linked ring, the choice of the current device, `eth_write_hwaddr`, the environment; implements `EthList` |
| `Walk` | a walk along the links of a list until it is back where it began |
| `LinkList` | the operations of `linklist.h` as functions on links |
| `Lists` | abstract sequences beside the links, under all those operations |
| `MiiRegistry` | abstract: buses in order of registration, found by name |
| `MiiBus` | the MDIO buses over `LinkList`; implements `MiiRegistry` |
| `Timer`, `Alloc`, `IpChecksum`, `Decimal` | the support code, one module each |
| `NetLoopProofs`, `GethProofs`, `NetRxProofs`, `PhyProofs`, `ListProofs`, `MiiBusProofs`, `EthRingProofs` | the theorems of one component each (`ListProofs`: `Lists` and `LinkList`) |
| `SupportProofs` | the theorems of `Timer`, `Alloc`, `IpChecksum` and `Decimal` |
| `MC_*` | instances for TLC; `MC_Support` puts the ring, the buses, `Lists` and the support code side by side |

### NetLoop

`pc` is the place in `net_loop`: the prologue (`open`), the label `restart`
(`start`), and the four stages of the loop body, one action per way through
each. `Tick` advances time between stages. A tick is 5 s, the `ARP_TIMEOUT`; the
ping timeout is 2 ticks. `MaxLag` bounds the time one stage can take: the longest
thing a stage does is a `geth_xmit` that waits out 5 s. Timestamps are kept as
ages and capped one past the longest comparison, so the state is finite although
time is not.

The network is `Arriving`: an echo reply can arrive from any host that an echo
request may have reached, at any later time and any number of times, including
after the call; ARP replies carry an address the named host truthfully has, and
come at any time, asked for or not; anything may be lost. Peers that lie about
addresses are not modelled.

Success returns `net_boot_file_size`, which is 0 for a ping. `net_check_prereq`
cannot fail for a zero Ethernet address (`eth_write_hwaddr` installs a default),
and `start_again_timeout_handler` never runs (`net_cleanup_loop` clears it), so
neither is an action.

Retries: the number comes from the variable `netretry`. The environment of this
program keeps a single variable (see `EthRing`), so `netretry` and `ethact`
cannot both be set and the program as shipped does not retry; `RetryCount` is a
parameter that models the code of `net.c` and `eth_common.c` as written.

### Geth

`ram` holds five lines as memory has them and as the processor sees them. Each
access of the code goes through the operators of `DCache`: reads load a line,
writes dirty it, `flush_cache` writes it back and keeps it, the invalidation
drops it. `CacheActs` replaces or fetches a line in `Volatile` at any moment.
The DMA engines, `Arrive` and `Clock` interleave with the steps of the driver;
the DMA stores a frame and updates the descriptor in two steps, and fetches and
finishes a packet in two. Writing ones clears bits of `GETH_INT_STA`, which the
driver itself relies on (line 463). Frames have a kind and a number, so that an
old one, a repeated one or a corrupt one can be told from the right one. Sizes
are left out. `geth_init` is one step: before it ends nothing is enabled.

An answer built over the received frame (`Reply`) is sent from `rx_handle_buf`
while the next `geth_recv` may already copy into it. The model includes that; no
property is stated of those frames, because they can be damaged when the DMA is
still reading and a dirty line is written back.

### NetRx

Each station runs the dispatch, `arp_receive` and `ping_receive` on frames that
are records of the header fields the code tests; lengths and offsets are those of
the code. An answer is made in the received frame (`UpdateEther`), a question by
`net_set_ether` (`Encapsulation`), and the model keeps the place of the packet in
the frame (`at`) apart from the place the headers imply, so that the two can
disagree. The address filter of the MAC is off in `geth_init`, hence every station
hears every frame. `net_our_vlan` and `net_native_vlan` are any of the values a
run gives; `net_drv_init` sets neither, but `on_vlan` and `on_nvlan` would.
Timeouts and retries are left to `NetLoop`: a station makes one call of `net_loop`
and remains in it until it is answered.

The other machine's frames may be faulty in ways the code does and does not look for:
among the latter are an IP header of less than five words, an IP length that ends
within the ICMP header, a wrong ICMP checksum and an 802.3 length of 1501 to 1513.
`NoUncalledAnswer` says what is needed for a station to send anything, and names
these four as what is not. The first is against the comment at `net.c:1168`, which
refuses "headers != 20 bytes" where the code refuses longer ones only. Three faults are not among the inputs: an IP
length under 20 (`ping_receive` would sum up a negative number of bytes), an 802.3
length up to 1500 that is not that of the packet, and the reserved VLAN number 4095
in a received tag (which is taken for no tag). Frames always have the 60 bytes of the
Ethernet minimum, except 802.3 frames the MAC strips: `geth_recv` takes four bytes
too many off those, and the dispatch then drops them.

### EthRing

`Ring` is the walk from `eth_devices` along `next`. An environment variable goes
to the slot `env_set` finds, which is always the last; `act` is the slot the
static pointer of `eth_set_current` points into. The values are device names,
addresses and junk. Only the code's own calls of `env_set` occur. Passing NULL
to `strcpy` is modelled as a choice between a trap and junk. `Hotplug` allows
devices to come and go after `eth_initialize`; the program itself does neither.

### PhyChip, Phy and GethPhy

`PhyChip` is the hardware: BMCR, the modes advertised, the state of the
negotiation, the link with its latched bit, the partner, and a cable that is put
in and pulled out at any time. The PHY takes over what it offers at a moment of
its own after a negotiation has begun.

`pc` of `Phy` is the place in the call under way. A place ends before each
access whose answer depends on when it is made; the PHY and the cable act in
between. The polls of `phy_reset` and `genphy_update_link` are counted as in the
code. `phymap` holds the `phy_device`s. Three history variables serve the
properties only: `setup` (who last set the PHY up), `seen` (the states of the
link during the call) and `steady` (the link has not changed since). Reads do not
fail, because the MDIO functions of the driver have no error to return.

`GethPhy` adds what `geth_init` does to the same PHY without the library.
`UsedType` is `EXT_PHY`, because `net/phy.h` (lines 18 to 20) defines
`CONFIG_SUNXI_EXT_PHY`; the other branch is modelled too. In
`geth_sys_init`, register values are the set of their fields that are not zero.

### LinkList, Lists, MiiRegistry and MiiBus

A list is two functions `next` and `prev` on nodes, and each operation of
`linklist.h` returns new ones, assignment by assignment in the order of the code.
`Lists` keeps a sequence per head beside the links and uses each operation where
its comment allows it. The poison values of `list_del` are NULL. `ListsLinked`
relates the links of every node to its place in the sequence.

`MiiBus` has the registered buses on such a list. Calls come in any order, but
nothing but `miiphy_init` comes first, which `eth_initialize` takes care of: the
head is zero until then, and a call before it is the action `TooEarly`, which ends
the execution. A bus that is registered already may be registered again: that fails,
but `mdio_register_seq` has renamed the bus by then, and two buses on the list can
have one name, against the comment at `miiphyutil.c:189`, "Setup a unique name".
`MiiRegistry` has this as an operation `Rename`; a search then finds the first of the
two. `miiphy_register` shortens a name of 32 characters or more after it has
searched for the whole of it; names are whole here, since none in the repository
is that long. The printing commands (`miiphy_listdev`) change nothing and are left
out.

### Timer, Alloc, IpChecksum and Decimal

`Timer` has the counter and one wait at a time, of any of the three kinds the
code makes: an interval from a stored `get_timer(0)` (`net_loop`, ARP, ping), a
deadline in an `int` (`geth_xmit`), and `udelay` in pieces. The ranges of `int`
and `unsigned long` are constants, so that wraps happen in a small model.
`WaitsInTime` names the exceptions the code has: the milliseconds pass through an
`int`, so an interval across 2^31 ms after the counter's start ends early, and
the deadline of `geth_xmit` is misjudged across a multiple of 2^32 ms.

`Alloc` bumps the three areas of `common.c`. `BlocksApart` speaks of blocks
inside their area; nothing in the code stops an area from overflowing.

`IpChecksum` follows a packet of a few small bytes from its sender, over damage
to one byte, to the test at the receiver. `ip_checksum_ok` ignores the lowest bit
of the sum, so the byte that is low in its word may arrive one lower than it was
sent. `ChecksumSound` is about `compute_ip_checksum`, which notices that.
`ip_checksum_ok` is to make sure that the sum is 0 (`net.h:622`) and accepts 1 as
well; which damage that lets through is the theorem `DamageAccepted`.

`Decimal` is the division-free conversion of `put_dec`. It has no state: TLC
evaluates `PutDecTried` when it starts `support`, which tries `DigitsRight` on some
thousands of numbers; `PutDecCorrect` proves it of all.

## Runs

| run | shows |
|---|---|
| `netloop_ping` | one device, no retry (as shipped), three hosts: near with two possible hardware addresses, far behind a gateway, the null address. All safety properties, the refinement of `PingService`, and that each call returns |
| `netloop_retry` | two devices, `netretry` once, no gateway, two ARP tries: the retry paths, the ring scan, wrap, and that each call still returns |
| `geth_safety` | engines of any speed, volatile receive lines, two sessions, two frames good or bad |
| `geth_live` | engines within 5 s, no help from the cache: packets out, FIFO drained |
| `netrx` | two stations with every pair of VLAN settings (none, 5, 5 with a bit too many, 7; native VLAN none or 5), one frame from a machine of another make: 15 good ones in every encapsulation, 15 with one fault each |
| `phy` | one PHY that does 10, 100 and 1000, two kinds of partner, a cable moved at any time: the library and `mii_phy_init` in every order. `phy_startup` tells the truth, and every call ends |
| `support` | the parts around the stack and the driver, one at a time: the ring (three devices, four registrations, every order); the MDIO buses (three, two names, one Ethernet device), which stay linked and implement `MiiRegistry`; lists of three entries on two heads; waits over the wraps of small integers; allocators under every order of requests; a packet of five bytes with one damaged |
| `geth_lost_frame` | violated: sending clears the receive bits, and a completed frame is dropped |
| `geth_stale_own` | violated: `geth_xmit` waits 5 s for a packet that has been sent |
| `netloop_arp_tries` | violated: `arp.c:26` calls `ARP_TIMEOUT_COUNT` the number of timeouts before giving up, but `arp_timeout_check` increments before it compares and gives up at the one before |
| `ethring_stale_failed` | violated: `net.h:536` says of `net_restart_wrap` that all devices have been tried; a `first_failed` left by an earlier call sets it before they have |
| `phy_link_at_100` | violated: `mii_phy_init` withdraws 1000BASE-T under a negotiation it does not restart, and the link can run at 1000 with the MAC set to 100 |

The violated runs each check what a comment of the repository says; the findings in
`PROJECT.json` quote it. Three more comments are not kept to, and are described above
without a run: the header length at `net.c:1168` (excepted by name in
`NoUncalledAnswer`), `ip_checksum_ok` at `net.h:622` to 628 (`DamageAccepted`) and the
unique names at `miiphyutil.c:189` (`Rename` in `MiiRegistry`). `ethring_stale_failed`
is about the code of `eth_common.c` as written: a retry needs `netretry`, which the
environment of the program as shipped cannot keep beside `ethact`.

Other behaviour one might not expect, and which the models have because the code has
it; of these the repository does not say what should happen:

- a ping reply accepted in the pass in which the timeout expires is thrown away,
  because the timeout handler overwrites `net_state`;
- the reply to a ping of an earlier call, or to an earlier attempt, answers the
  present one: `ping_receive` compares the address only. `AliveMeansReply` and
  `PingService` allow it;
- after `net_restart_wrap` the retry that was announced is not made and
  `net_loop` returns 0;
- a ping with a wrong ICMP checksum, or with an IP length that cuts its header
  short, is answered;
- with no cable `geth_init` does not return: `mii_phy_init` prints a warning about a
  timeout, and polls on.

Bounds. `NetLoop` needs none besides its constants: pings are unlimited, ages are
capped where no test can tell further values apart. Three hosts are one per class
the code distinguishes (on the subnet, off it, the gateway), two hardware
addresses allow one to change, two devices are the least that rotate. `Geth`: two
frames suffice for an old and a new one, two sessions for what is left of the
first in the second, a FIFO of one to overflow; the model has one descriptor per
direction because the code has. Eviction is restricted to the receive lines in
`geth_safety` to keep the run short. The ring: three devices make a first, a
middle and a last; the fourth registration brings one back; three slots are two
that `env_set` searches and the one it does not.

`NetRx`: two
stations ask and answer each other; a third would only overhear what the second
overhears already. One foreign frame at a time is enough since the dispatch keeps
nothing between frames.

`Phy`: one poll of each kind is enough for a poll that goes on and one that gives
up; one partner agrees with the PHY on 100 half, the other on 1000, and either can
take the place of the other. Two addresses on the bus are one that
answers and one that does not. The buses: three are a first, a middle and a
last one; two names for three buses make a name taken. The timer: integers of 4
and 6 bits keep the ratio and the sign; `Pass` lets less than half the range of an
`int` go by between two looks at the clock, which in the code is 24 days. Three
blocks have one between two others. Bytes of 2 bits, and an odd number of them,
reach the second carry.

`CHECK_DEADLOCK FALSE` is set for `Geth`, `EthRing`, `NetRx`, `Phy` and `support`: the program may leave the device closed, or trap, or have nothing more
to say; a call before `miiphy_init` traps; the support modules end when their
bounds are reached.

Fairness. `NetLoop`: the processor takes steps (`Cpu`) and the clock advances
(`Tick`), both weakly; nothing is assumed of the network or the caller. `Geth`:
the driver's code runs on, the engines do what they have been given, the clock
runs; and `geth_recv` is called again and again (`net_loop` calls it in every
pass), which is strong fairness because in between the driver may be sending. `NetRx`:
frames under way are delivered, weakly; nobody need send one. `Phy`: the code takes
steps and the PHY ends a reset or a negotiation that can end, both weakly;
nothing is assumed of the cable. `CallsReturn` of `geth_init`, which polls without a
bound and without looking at the link, has the premise that the cable stays in and
that the two ends have a mode in common; without it `geth_init` does not return.

## Proofs

Everything here is proved for all values of the constants that the named
assumptions of the modules allow.

`NetLoopProofs`: type correctness; `AliveMeansReply`; `EchoToNextHop`;
`OneEchoPerAttempt`; `TimerWaitsForArp`; `ReturnsQuiet`; `ArpBudget`;
`RetryBudget`; and that without retries `NetLoop` implements `PingService`. The
assumptions are that gateways are on the subnet, that the special values are
distinct, and `LagAssumption`: two stages of the loop fit in a ping timeout.
`TimerWaitsForArp` is false without it.

The properties are not inductive by themselves. `IInv` adds: inside the loop,
success comes with an answer, and an answer with a request that reached the host;
while an ARP request is pending, the packet waiting, the address waited for and
the address pinged agree, and the echo request has not gone out; in the loop
either the request is pending or the packet has been sent; and while it is
pending the ping timer is no older than the stages since it was restarted.
`InvStep` goes through the actions one by one; the action properties follow from
`IInv` before the step. The budgets need `Tries`: within the loop the requests sent
in the attempt are those `arp_wait_try` has counted. What a call leaves behind
needs `Tidy`: only the current device is ever up, and a handler survives into a
further attempt only when `net_check_prereq` will succeed there, too. The refinement
needs besides that `net_try_count` stays 1 (`OneTry`).

`GethProofs`: type correctness; `OneOwner`; `SendsWhatWasGiven`; `NewFramesOnly`;
and `OnePacketAtATime` for an engine that is not slower than the 5 s that
`geth_xmit` waits (`~SlowDma`; without it the property is false, by design of
the timeout). They hold for every set of volatile lines (`VolatileAssumption`
says that they are lines), every FIFO, and any number of frames and sessions. The
inductive invariant has a part per question. `Typed` says how the cache relates to
memory: between two steps only the two buffers the stack writes are ever dirty,
and otherwise the processor reads them as memory has them. `RxOwner`: the engine is
busy only with a descriptor it owns, and from the test of `own` to the end of
`geth_recv`, an answer in between included, it does not own it and the processor
reads the descriptor as it is. `TxGiven` follows the packet from the store of
`tx_packet` through the write-back to memory, from where the engine takes it.
`TxIdle`: what the processor has not yet seen given back is at most stale in that
direction, and at the end of the wait it has been given back. `FrameOrder`: the
numbers of the frames rise from those handed up, over the one in `rx_packet` and the
one in the engine, to those in the FIFO; and a descriptor that says a good frame
means one in `rx_packet`. All of it needs the invalidations and write-backs where
the code has them.

`NetRxProofs`: the four invariants of `NetRx` and `NoUncalledAnswer` for any number of stations, with any
VLAN settings (`StationAssumption` only says that they are VLAN numbers), and any
frames of the other machine that are well formed (`AlienAssumption`: the fields that
the code reads are there and have their width, the frame is no longer than Ethernet
allows). `IInv` says of every frame under way that it is well formed; that what a
station made is whole; and that a frame of an exchange a station began is
encapsulated as that station encapsulates, whether it is the question or an answer,
which goes back in the frame it came in. `AnswerHeard` and `PingOnlyWithinVlan`
rest on that last part. `NoUncalledAnswer` is stated in terms of how the sender laid
the frame out, and `FoundIsAnnounced` relates that to where the dispatch looks.

`PhyProofs`: type correctness, and `StartupTrue` for any PHY, any partners and any
number of polls. `Sound` is what is true of the PHY whatever is done to it: a link
that is up has the best mode in common of what was offered, or the forced one.
`Configured` says that what was offered is what is advertised, as long as no restart of
the negotiation is due, and after `phy_config` that this is what the `phy_device`
advertises and supports: the reason why the mode `genphy_parse_link` works out from
the registers is the one in use. It is stated without `geth_init`, which breaks it.
`Startup` says of the latch that what it holds is a loss since the call began, and of
the link recorded so far that it was so at some moment. That the `if` statements of
`genphy_parse_link` find the best mode of every set is `ResolvedIsParsed`.

`ListProofs`: `ListsLinked` for any number of lists and entries. The inductive
invariant `Rep` adds that an entry is on one list at most and once. What each of the
inner functions does to a list as a whole is a lemma: `RingInsert` (`__list_add`,
`__list_splice`), `RingRemove` (`__list_del`), `RingReplace`, `RingCut`; `RepChange`
says that the other lists have not been touched if none of their nodes has. The
order of the assignments matters where the neighbours are the same node, the head of
an empty list, and the lemmas that end in `Is` cover that case. `WalksCorrect` adds what
a loop over a list meets: its entries, in order, and then the head.

`MiiBusProofs`: type correctness, `WellLinked`, and the refinement of `MiiRegistry`,
renaming of registered buses included. The inductive invariant says that the list is
either as the zeroed head leaves it or linked in the order of `Walk`, and that a bus
which is not on it is unlinked or linked with itself. The lemmas of `ListProofs` are
used through an instance with a single head.

`EthRingProofs`: type correctness, `EthactNamesCurrent`, the refinement of `EthList`,
`CurrentKept`, `Addressed` and `RoundTriesAll`, for any number of devices and slots.
Four parts make the invariant inductive. `Shape`: `next` leads round the devices of
`Ring` and nowhere else. `Slim`: only the last slot of the environment was ever written,
because `env_set` does not search that slot and so does not find what it has put there.
`Acts`: between two actions that slot has `ethact` and names the current device; without
one it is unused or has junk. `Turns`: during a round `first_failed` and the current device
have been tried, and so has the device after every other one that has. `CurrentKept` holds because the static pointer can only point at the last
slot, which the name in it decides about.

`SupportProofs` has four parts. `WaitsInTime`, for every width of `int` and
`unsigned long`, every tick rate and every delay: the difference that `get_timer` returns
is first shown to be that of two signed values, modulo the width of `unsigned long`; then,
by cases of where the wrap lies, which comparisons it can falsify: those that the
property names and no others. `TInv` says what a wait has stored and, of `udelay`, that
the pieces waited for so far have passed. `BlocksApart`, by an invariant saying that
every block ends before the bytes counted as used, together with arithmetic on rounding
up to a multiple of any alignment. `ChecksumSound`, for any width of a byte and any
packet not longer than `Word` bytes (the 64 kbytes for which `sum` does not overflow; a
byte has at least three values, or dropping the lowest bit would drop all): `Stands` says
that a folded sum is the sum modulo `Word - 1`, with zero apart, and everything follows
from how that behaves under addition, a change of one byte and, for a cut at an odd
place, an exchange of the two bytes of every word. `DamageAccepted` says which damage
`ip_checksum_ok` lets through. And `put_dec`, for a number of any
size: `put_dec_full` writes the five digits of every number below 100000, because the
products and shifts divide rightly in the range they are used in; `put_dec_trunc` stops
at the last that is not zero; and the rounds of `put_dec` add up.

Induction over data. The induction theorems of the library take an operator, which the
prover cannot instantiate; the least element of a non-empty set of numbers
(`NatLessThanWellFounded` with `WFMin`) serves instead. `Least` in `ListProofs` and
`FromZero` in `SupportProofs` are that step: the set is of the numbers at which something
holds. A recursive function is a `CHOOSE`, and what it computes can be used once it is
shown that such a function exists, again by `FromZero` (`UptoExists`, `ReadExists`,
`RoundsExist`).

Model-checked only: liveness (`CallReturns`, `PacketSent`, `FramesTaken`, `PingWorks`,
`Quiesces`, `CallsReturn`), since fairness is outside what the prover does. Every
invariant and action property of the passing runs is proved. Of these theorems three
have a premise about the setting, which the code does not enforce: `OnePacketCorrect`
an engine within the 5 s, `Refinement` of `NetLoop` no retries, and what rests on
`LagAssumption`.

## Not modelled, and what could be added

- Console output: the rest of `vsnprintf.c` and the printing commands of
  `miiphyutil.c`; no decision depends on it.
- Strings: `string_to_ip`, `eth_parse_enetaddr` and the functions of `string.c`.
  Names and addresses are values; what is converted are settings, not what peers send.
- UDP: `net_send_udp_packet` and the handlers. PING is the only protocol that is
  started, and the dummy handler takes what arrives.
- Device access macros (`asm/io.h`, `byteorder.h`): single loads and stores. Their
  order is that of the program, which the models keep.
- PHY drivers other than the generic one, and device-tree properties, are not
  configured; `fdt.c` is empty.
- `timer_init` and `timer_exit` write a timer nothing reads.
- Worth adding: failures of `mdio` reads (no bus of this program reports them), and
  a channel that `Geth` implements.
