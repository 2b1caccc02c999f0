------------------------------- MODULE NetRx -------------------------------
(***************************************************************************)
(* net_process_received_packet (net/net.c), which decides from the headers *)
(* of a frame which handler sees it, with arp_receive and ping_receive,    *)
(* which answer a request by turning the received frame around, and with   *)
(* net_set_ether and net_update_ether, which decide the encapsulation of   *)
(* what is sent.  Several machines that run this code, each with a VLAN    *)
(* configuration of its own, share an Ethernet segment with a machine of   *)
(* another make (Alien) that also uses 802.3 with SNAP.                    *)
(*                                                                         *)
(* A frame is a record: the 16 bits after the addresses (protlen), the     *)
(* VLAN tag, the protocol behind the VLAN or SNAP header (prot), the       *)
(* offset at which its ARP or IP packet starts (at), its length without    *)
(* the FCS and without padding (len), the packet itself (body), and        *)
(* whether the MAC strips padding and FCS when it receives it (strip).     *)
(* Timeouts, retries and the driver are modelled in NetLoop and Geth.      *)
(***************************************************************************)
EXTENDS Integers

CONSTANTS
  Stations,       \* the machines that run this code
  Mac,            \* station -> net_ethaddr
  Ip,             \* station -> net_ip
  OurVlans,       \* the values of net_our_vlan to try, in host byte order
  NativeVlans,    \* those of net_native_vlan
  Alien,          \* the other machine
  AlienFrames,    \* what it may send
  MaxAlien,       \* bound: how many frames it sends
  Absent,         \* an IP address nobody has
  NoIp,           \* the IP address 0
  BcastIp,        \* 255.255.255.255
  BcastMac        \* net_bcast_ethaddr

VARIABLES
  net_our_vlan, net_native_vlan,
  net_state,      \* station -> "idle" before its call of net_loop, then net_state
  net_ping_ip,
  arp_wait_ip,    \* net_arp_wait_packet_ip; all stations are on one subnet
  tx_packet,      \* the echo request that waits for its destination
  wire,           \* copies of frames under way, [to, frame]
  sent            \* how many frames Alien has sent

vars == <<net_our_vlan, net_native_vlan, net_state, net_ping_ip, arp_wait_ip,
          tx_packet, wire, sent>>
config == <<net_our_vlan, net_native_vlan>>
station == <<net_state, net_ping_ip, arp_wait_ip, tx_packet>>

PROT_IP == 2048
PROT_ARP == 2054
PROT_VLAN == 33024
ETHER_HDR_SIZE == 14
VLAN_ETHER_HDR_SIZE == 18
E802_HDR_SIZE == 22
ARP_HDR_SIZE == 28
IP_HDR_SIZE == 20
IP_UDP_HDR_SIZE == 28
IP_ICMP_HDR_SIZE == 28
VLAN_NONE == 4095
MinFrame == 60              \* the MAC pads a shorter frame
MaxFrame == 1518
MaxWord == 65535            \* of 16 bits

-----------------------------------------------------------------------------
(* Packets.  An ARP packet has fmt (hardware, protocol and length fields   *)
(* are those of IPv4 over Ethernet); an IP packet its version, header      *)
(* length in words, total length, whether ip_checksum_ok accepts the       *)
(* checksum of its header (sum), whether the one of its ICMP message is    *)
(* right (isum), whether it is a fragment, and what it carries: the ICMP   *)
(* type, or "udp", or another.                                             *)

ArpPacket(op, sha, spa, tpa) ==
  [op |-> op, fmt |-> TRUE, sha |-> sha, src |-> spa, dst |-> tpa]

\* set_icmp_header over net_set_ip_header
IpPacket(type, src, dst) ==
  [op |-> type, v |-> 4, hl |-> 5, len |-> IP_ICMP_HDR_SIZE, sum |-> TRUE,
   isum |-> TRUE, frag |-> FALSE, src |-> src, dst |-> dst]

IsArp(body) == body.op \in {"ArpRequest", "ArpReply"}

Length(body) == IF IsArp(body) THEN ARP_HDR_SIZE ELSE body.len

NoFrame == [len |-> 0]

\* The stations have addresses of their own (net_check_prereq refuses to ping without).
ASSUME StationAssumption ==
  /\ \A s \in Stations : Ip[s] \notin {NoIp, BcastIp}
  /\ \A s, t \in Stations : Ip[s] = Ip[t] => s = t
  /\ OurVlans \cup NativeVlans \subseteq Nat
  /\ MaxAlien \in Nat

\* A frame and a packet have the fields above, and no others.
HasFields(r, fields) == r = [x \in fields |-> r[x]]
FrameFields == {"dest", "src", "protlen", "tag", "prot", "at", "strip", "len", "body"}
ArpFields == {"op", "fmt", "sha", "src", "dst"}
IpFields == {"op", "v", "hl", "len", "sum", "isum", "frag", "src", "dst"}

IsFrame(f) == HasFields(f, FrameFields)
IsPacket(p) == HasFields(p, IF IsArp(p) THEN ArpFields ELSE IpFields)

\* What can be on the segment, damaged or not.  Left out: the VLAN number 802.1Q
\* reserves, 802.3 frames whose length is not that of their packet, and an IP length
\* under that of the IP header, with which ping_receive has a negative number of bytes
\* to sum up.  A length above 1500 that is no protocol is not left out.
WellFormed(f) ==
  /\ IsFrame(f) /\ IsPacket(f.body)
  /\ f.len \in ETHER_HDR_SIZE + IP_HDR_SIZE .. MaxFrame
  /\ f.protlen \in 0 .. MaxWord /\ f.prot \in 0 .. MaxWord
  /\ f.tag \in Nat /\ f.tag % 4096 # VLAN_NONE
  /\ IsArp(f.body) \/ f.body.len \in IP_HDR_SIZE .. MaxFrame
  /\ f.protlen <= 1500 => f.protlen = 8 + Length(f.body)

\* Alien sends such frames, and does not pass for a station.
ASSUME AlienAssumption ==
  \A f \in AlienFrames :
    /\ WellFormed(f) /\ f.body.src # BcastIp
    /\ \A s \in Stations : f.src # Mac[s] /\ f.body.src # Ip[s]

-----------------------------------------------------------------------------
(* VLANs.                                                                  *)

VlanId(vlan) == IF vlan = 65535 THEN VLAN_NONE ELSE vlan

OurVlan(s) == VlanId(net_our_vlan[s])
NativeVlan(s) == VlanId(net_native_vlan[s])

InVlanRaw(s) == net_our_vlan[s] # VLAN_NONE    \* mutant: 0xFFFF is a VLAN

InVlan(s) == OurVlan(s) % 4096 # VLAN_NONE

EthHdrSize(s) == IF InVlan(s) THEN VLAN_ETHER_HDR_SIZE ELSE ETHER_HDR_SIZE

\* net_set_ether, as the fields it fills in besides the addresses
Encapsulation(s, prot) ==
  IF InVlan(s)
    THEN [protlen |-> PROT_VLAN, tag |-> OurVlan(s) % 4096, prot |-> prot]
    ELSE [protlen |-> prot, tag |-> 0, prot |-> 0]

\* A frame s builds itself: the packet goes where net_set_ether says.
OwnFrame(s, dest, prot, body) ==
  LET e == Encapsulation(s, prot)
  IN  [dest |-> dest, src |-> Mac[s], protlen |-> e.protlen, tag |-> e.tag,
       prot |-> e.prot, at |-> EthHdrSize(s), strip |-> FALSE,
       len |-> EthHdrSize(s) + Length(body), body |-> body]

-----------------------------------------------------------------------------
(* net_process_received_packet: how the headers are read.                  *)

Snap(f) == f.protlen < 1514
Tagged(f) == f.protlen = PROT_VLAN

EthProto(f) == IF Snap(f) \/ Tagged(f) THEN f.prot ELSE f.protlen

HeaderSize(f) ==
  CASE Snap(f)   -> E802_HDR_SIZE
    [] Tagged(f) -> VLAN_ETHER_HDR_SIZE
    [] OTHER     -> ETHER_HDR_SIZE

\* The length geth_recv passes up.  geth_init asks the MAC to strip padding and
\* FCS, which such hardware does to 802.3 frames only; geth_recv takes the four
\* bytes of the FCS off in any case, for rx_status never says llc_snap.
RxLength(f) ==
  IF f.strip THEN f.len - 4
  ELSE IF f.len < MinFrame THEN MinFrame ELSE f.len

\* len when the switch on the protocol is reached
Rest(f) == RxLength(f) - HeaderSize(f)

\* The VLAN of a frame for s: an untagged one belongs to the native VLAN.
FrameVlan(s, f) ==
  IF Tagged(f) /\ f.tag % 4096 # VLAN_NONE THEN f.tag % 4096
  ELSE NativeVlan(s) % 4096

VlanPassesUntagged(s, f) ==    \* mutant: an untagged frame is not checked
  IF InVlan(s) THEN Tagged(f) => FrameVlan(s, f) = OurVlan(s) % 4096
  ELSE ~ Tagged(f)

VlanPassesTagged(s, f) ==      \* mutant: no native VLAN
  IF InVlan(s) THEN Tagged(f) /\ FrameVlan(s, f) = OurVlan(s) % 4096
  ELSE ~ Tagged(f)

VlanPasses(s, f) ==
  IF InVlan(s) THEN FrameVlan(s, f) = OurVlan(s) % 4096 ELSE ~ Tagged(f)

\* Every frame is read at the offset its header implies; a packet that is not
\* there is not found.
Found(f, prot) == EthProto(f) = prot /\ f.at = HeaderSize(f)

ArpReaches(s, f) ==
  /\ VlanPasses(s, f) /\ Found(f, PROT_ARP)
  /\ Rest(f) >= ARP_HDR_SIZE
  /\ f.body.fmt
  /\ Ip[s] # NoIp /\ f.body.dst = Ip[s]

IpWholeOrNot(f) ==    \* mutant: net_defragment is not called
  /\ Rest(f) >= IP_UDP_HDR_SIZE /\ Rest(f) >= f.body.len
  /\ f.body.v = 4 /\ f.body.hl <= 5 /\ f.body.sum

IpWhole(f) ==
  /\ Rest(f) >= IP_UDP_HDR_SIZE /\ Rest(f) >= f.body.len
  /\ f.body.v = 4 /\ f.body.hl <= 5 /\ f.body.sum
  /\ ~ f.body.frag

IpReaches(s, f) ==
  /\ VlanPasses(s, f) /\ Found(f, PROT_IP)
  /\ IpWhole(f)
  /\ Ip[s] = NoIp \/ f.body.dst \in {Ip[s], BcastIp}

-----------------------------------------------------------------------------
(* Answers, made in the received frame.                                    *)

UpdatedSizeNoSnap(f) ==    \* mutant: SNAP frames are overlooked
  IF f.protlen = PROT_VLAN THEN VLAN_ETHER_HDR_SIZE ELSE ETHER_HDR_SIZE

\* The value of net_update_ether.
UpdatedSize(f) ==
  CASE f.protlen = PROT_VLAN -> VLAN_ETHER_HDR_SIZE
    [] f.protlen # PROT_VLAN /\ f.protlen > 1514 -> ETHER_HDR_SIZE
    [] OTHER -> E802_HDR_SIZE

UpdateEtherOwn(s, f, prot) ==    \* mutant: as net_set_ether would encapsulate
  [f EXCEPT !.dest = f.src, !.src = Mac[s],
            !.protlen = Encapsulation(s, prot).protlen,
            !.tag = Encapsulation(s, prot).tag,
            !.prot = Encapsulation(s, prot).prot]

\* net_update_ether(et, et->et_src, prot)
UpdateEther(s, f, prot) ==
  LET turned == [f EXCEPT !.dest = f.src, !.src = Mac[s]]
  IN  IF UpdatedSize(f) = ETHER_HDR_SIZE
        THEN [turned EXCEPT !.protlen = prot]
        ELSE [turned EXCEPT !.prot = prot]

ArpAnswer(s, f) ==
  [UpdateEther(s, f, PROT_ARP) EXCEPT
     !.len = UpdatedSize(f) + ARP_HDR_SIZE,
     !.body = ArpPacket("ArpReply", Mac[s], Ip[s], f.body.src)]

EchoAnswer(s, f) ==
  [UpdateEther(s, f, PROT_IP) EXCEPT
     !.len = UpdatedSize(f) + f.body.len,
     !.body = [f.body EXCEPT !.op = "EchoReply", !.src = Ip[s],
                             !.dst = f.body.src, !.sum = TRUE, !.isum = TRUE,
                             !.frag = FALSE]]

-----------------------------------------------------------------------------
(* The segment.  The address filter of the MAC is off (geth_init): every   *)
(* frame reaches every other station, in any order.  A station that is not *)
(* in net_loop loses it.                                                   *)

CopiesFor(from, f) == {[to |-> t, frame |-> f] : t \in Stations \ {from}}

Init ==
  /\ net_our_vlan \in [Stations -> OurVlans]
  /\ net_native_vlan \in [Stations -> NativeVlans]
  /\ net_state = [s \in Stations |-> "idle"]
  /\ net_ping_ip = [s \in Stations |-> NoIp]
  /\ arp_wait_ip = [s \in Stations |-> NoIp]
  /\ tx_packet = [s \in Stations |-> NoFrame]
  /\ wire = {}
  /\ sent = 0

ArpQuestion(s, ip) ==
  OwnFrame(s, BcastMac, PROT_ARP, ArpPacket("ArpRequest", Mac[s], Ip[s], ip))

\* ping_start: one call of net_loop for each station.
PingStart(s, ip) ==
  /\ net_state[s] = "idle" /\ ip # Ip[s]
  /\ net_state' = [net_state EXCEPT ![s] = "CONTINUE"]
  /\ net_ping_ip' = [net_ping_ip EXCEPT ![s] = ip]
  /\ arp_wait_ip' = [arp_wait_ip EXCEPT ![s] = ip]
  /\ tx_packet' = [tx_packet EXCEPT ![s] =
                     OwnFrame(s, NoIp, PROT_IP, IpPacket("EchoRequest", Ip[s], ip))]
  /\ wire' = wire \cup CopiesFor(s, ArpQuestion(s, ip))
  /\ UNCHANGED <<config, sent>>

\* Alien sends a frame of its own accord.
AlienSends(f) ==
  /\ sent < MaxAlien /\ sent' = sent + 1
  /\ wire' = wire \cup CopiesFor(Alien, f)
  /\ UNCHANGED <<config, station>>

Take(c) ==
  /\ c \in wire
  /\ UNCHANGED <<config, sent, net_ping_ip>>

Polled(c) == net_state[c.to] = "CONTINUE"

\* The stages of the protocol, for a copy c of a frame that station c.to takes.
AsksArp(c) == Polled(c) /\ ArpReaches(c.to, c.frame) /\ c.frame.body.op = "ArpRequest"

AwaitedArp(c) ==
  /\ Polled(c) /\ ArpReaches(c.to, c.frame) /\ c.frame.body.op = "ArpReply"
  /\ arp_wait_ip[c.to] # NoIp /\ c.frame.body.src = arp_wait_ip[c.to]

AsksEchoAgain(c) ==    \* mutant: echo replies are answered as well
  /\ Polled(c) /\ IpReaches(c.to, c.frame)
  /\ c.frame.body.op \in {"EchoRequest", "EchoReply"}

AsksEcho(c) == Polled(c) /\ IpReaches(c.to, c.frame) /\ c.frame.body.op = "EchoRequest"

AwaitedEcho(c) ==
  /\ Polled(c) /\ IpReaches(c.to, c.frame) /\ c.frame.body.op = "EchoReply"
  /\ c.frame.body.src = net_ping_ip[c.to]

ArpRequestIn(c) ==
  /\ Take(c) /\ AsksArp(c)
  /\ wire' = (wire \ {c}) \cup CopiesFor(c.to, ArpAnswer(c.to, c.frame))
  /\ UNCHANGED <<net_state, arp_wait_ip, tx_packet>>

\* The waiting packet gets its destination and goes.
ArpReplyIn(c) ==
  /\ Take(c) /\ AwaitedArp(c)
  /\ tx_packet' = [tx_packet EXCEPT ![c.to].dest = c.frame.body.sha]
  /\ wire' = (wire \ {c}) \cup CopiesFor(c.to, tx_packet'[c.to])
  /\ arp_wait_ip' = [arp_wait_ip EXCEPT ![c.to] = NoIp]
  /\ UNCHANGED net_state

EchoRequestIn(c) ==
  /\ Take(c) /\ AsksEcho(c)
  /\ wire' = (wire \ {c}) \cup CopiesFor(c.to, EchoAnswer(c.to, c.frame))
  /\ UNCHANGED <<net_state, arp_wait_ip, tx_packet>>

EchoReplyIn(c) ==
  /\ Take(c) /\ AwaitedEcho(c)
  /\ net_state' = [net_state EXCEPT ![c.to] = "SUCCESS"]
  /\ wire' = wire \ {c}
  /\ UNCHANGED <<arp_wait_ip, tx_packet>>

\* Dropped by the dispatch, or by the handler, or passed to dummy_handler, or
\* not read because the station is not in net_loop.
Ignored(c) ==
  /\ Take(c)
  /\ ~ (AsksArp(c) \/ AwaitedArp(c) \/ AsksEcho(c) \/ AwaitedEcho(c))
  /\ wire' = wire \ {c}
  /\ UNCHANGED <<net_state, arp_wait_ip, tx_packet>>

Deliver(c) ==
  \/ ArpRequestIn(c) \/ ArpReplyIn(c) \/ EchoRequestIn(c) \/ EchoReplyIn(c)
  \/ Ignored(c)

Next ==
  \/ \E s \in Stations, ip \in {Ip[t] : t \in Stations} \cup {Absent} : PingStart(s, ip)
  \/ \E f \in AlienFrames : AlienSends(f)
  \/ \E c \in wire : Deliver(c)

Spec == Init /\ [][Next]_vars

\* The code polls and the segment delivers; nothing obliges anyone to send.
FairSpec == Spec /\ WF_vars(\E c \in wire : Deliver(c))

-----------------------------------------------------------------------------
(* Properties.                                                             *)

Vid == 0 .. 4094

\* Every frame under way has a length and headers Ethernet allows; the VLAN
\* number 4095, which 802.1Q reserves, is never put on the wire.
TypeOK ==
  /\ net_state \in [Stations -> {"idle", "CONTINUE", "SUCCESS"}]
  /\ sent \in 0 .. MaxAlien
  /\ \A c \in wire :
       /\ c.to \in Stations
       /\ c.frame.len \in ETHER_HDR_SIZE + IP_HDR_SIZE .. MaxFrame
       /\ c.frame.protlen \in 0 .. MaxWord /\ c.frame.prot \in 0 .. MaxWord
       /\ c.frame.tag % 4096 \in Vid

FromStation(f) == \E s \in Stations : f.src = Mac[s]

\* A frame the code sends, built by net_set_ether or turned around by
\* net_update_ether, ends where its packet ends, has the packet behind the
\* header it announces, and, in 802.3, announces the right length.  The size
\* net_update_ether returns and the offset at which the dispatch found the
\* packet are worked out separately.
FramesWhole ==
  \A c \in wire : FromStation(c.frame) =>
    LET f == c.frame
    IN  /\ f.len = f.at + Length(f.body)
        /\ f.at = CASE f.protlen = PROT_VLAN -> 18
                    [] f.protlen < 1514 -> 22
                    [] OTHER -> 14
        /\ f.protlen <= 1500 => f.protlen = 8 + Length(f.body)

\* An answer a station sends is not lost on its way up in the station that
\* asked: whatever the two VLAN configurations, what got the question through
\* gets the answer through.
AnswerHeard ==
  \A c \in wire : \A s \in Stations :
    (c.to = s /\ FromStation(c.frame) /\ c.frame.body.dst = Ip[s]) =>
      /\ c.frame.body.op = "ArpReply" => ArpReaches(s, c.frame)
      /\ c.frame.body.op = "EchoReply" => IpReaches(s, c.frame)

\* What the two configurations say of the way from s to t.
Connected(s, t) ==
  IF InVlan(s) THEN InVlan(t) /\ OurVlan(t) % 4096 = OurVlan(s) % 4096
  ELSE ~ InVlan(t) \/ NativeVlan(t) % 4096 = OurVlan(t) % 4096

\* A ping succeeds only when the VLANs let the pinging station reach the
\* pinged one: nothing overheard, and nothing Alien sends, replaces that.
PingOnlyWithinVlan ==
  \A s, t \in Stations :
    (net_state[s] = "SUCCESS" /\ net_ping_ip[s] = Ip[t]) => Connected(s, t)

\* Whether f, as whoever sent it laid it out, calls for something to be sent by s: it
\* announces the packet it carries, and all of it; the packet is a question to s, or
\* the Ethernet address s waits for; and it is sound, as far as its recipient can tell
\* from an ARP packet or an IP header without options.
Announces(f, prot) == prot = IF f.at = ETHER_HDR_SIZE THEN f.protlen ELSE f.prot

CutShort(f) == f.len >= MinFrame /\ f.len < f.at + Length(f.body)

CallsForArp(s, f) ==
  /\ Announces(f, PROT_ARP) /\ ~ CutShort(f) /\ f.body.fmt /\ f.body.dst = Ip[s]
  /\ \/ f.body.op = "ArpRequest"
     \/ f.body.op = "ArpReply" /\ arp_wait_ip[s] # NoIp /\ f.body.src = arp_wait_ip[s]

CallsForEcho(s, f) ==
  /\ Announces(f, PROT_IP) /\ ~ CutShort(f) /\ f.body.dst \in {Ip[s], BcastIp}
  /\ f.body.op = "EchoRequest"
  /\ f.body.v = 4 /\ f.body.hl <= 5 /\ f.body.sum /\ ~ f.body.frag

\* A station sends nothing on a frame unless that frame calls for it: not on one for
\* another address or protocol, an answer out of turn, a packet cut short (unless
\* padding hides that), a fragment, or one with options or a damaged header.  What
\* net_process_received_packet and ping_receive do not look at is not required of it:
\* a header length of less than five words (against the comment at net.c:1168, "headers
\* != 20 bytes"), the checksum of the ICMP message, an IP length that ends within its
\* header, an 802.3 length of 1501 to 1513.  Frames with these faults are answered.
NoUncalledAnswer ==
  [][\A c \in wire \ wire' :
       \/ wire' \subseteq wire
       \/ CallsForArp(c.to, c.frame) \/ CallsForEcho(c.to, c.frame)]_vars

\* When an ARP request is on its way to a station that stays in net_loop and
\* that the VLANs let it reach, the ping that sent it succeeds: ARP request,
\* ARP reply, echo request and echo reply all get through the dispatch.
PingWorks ==
  \A s, t \in Stations :
    (/\ Connected(s, t)
     /\ net_ping_ip[s] = Ip[t]
     /\ [to |-> t, frame |-> ArpQuestion(s, Ip[t])] \in wire
     /\ net_state[t] = "CONTINUE" /\ net_ping_ip[t] = Absent)
    ~> net_state[s] = "SUCCESS"

\* Answers provoke no answers: when nobody asks any more the segment falls
\* silent, although every station hears every frame.
Quiesces == <>[](wire = {})
=============================================================================
