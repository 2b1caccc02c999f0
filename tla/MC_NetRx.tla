------------------------------ MODULE MC_NetRx ------------------------------
(***************************************************************************)
(* Two stations a and b; Alien asks with every encapsulation, and sends    *)
(* frames that differ from a good echo request in one respect each.        *)
(***************************************************************************)
EXTENDS NetRx

CONSTANTS a, b, macA, macB, ipA, ipB, AlienMac, AlienIp

MCMac == [s \in {a, b} |-> IF s = a THEN macA ELSE macB]
MCIp == [s \in {a, b} |-> IF s = a THEN ipA ELSE ipB]

\* unset; VLAN 5; VLAN 5 with a bit above the 12 of a VLAN number; VLAN 7
MCOurVlans == {65535, 5, 4096 + 5, 7}
MCNativeVlans == {65535, 5}

AlienFrame(protlen, tag, prot, at, body) ==
  [dest |-> BcastMac, src |-> AlienMac, protlen |-> protlen, tag |-> tag,
   prot |-> prot, at |-> at, strip |-> FALSE, len |-> at + Length(body), body |-> body]

\* Plain, with a tag (with and without priority bits), and with SNAP (whether
\* or not the MAC strips it).
Encapsulations(prot, body) ==
  {AlienFrame(prot, 0, 0, 14, body),
   AlienFrame(PROT_VLAN, 5, prot, 18, body),
   AlienFrame(PROT_VLAN, 7 + 3 * 8192, prot, 18, body),
   AlienFrame(8 + Length(body), 0, prot, 22, body),
   [AlienFrame(8 + Length(body), 0, prot, 22, body) EXCEPT !.strip = TRUE]}

Echo(ip) == IpPacket("EchoRequest", AlienIp, ip)

Answerable ==
  Encapsulations(PROT_ARP, ArpPacket("ArpRequest", AlienMac, AlienIp, ipA))
  \cup Encapsulations(PROT_IP, Echo(ipA))
  \cup Encapsulations(PROT_IP, [Echo(BcastIp) EXCEPT !.len = 84])

Damaged(body) ==
  {[body EXCEPT !.v = 6], [body EXCEPT !.hl = 6], [body EXCEPT !.sum = FALSE],
   [body EXCEPT !.frag = TRUE], [body EXCEPT !.dst = AlienIp],
   [body EXCEPT !.op = "EchoReply"], [body EXCEPT !.op = "udp"]}

\* A header of four words, a wrong ICMP checksum, an IP length that ends in the header
\* of the ICMP message.
Overlooked(body) ==
  {[body EXCEPT !.hl = 4], [body EXCEPT !.isum = FALSE], [body EXCEPT !.len = 24]}

Faulty ==
  {AlienFrame(PROT_IP, 0, 0, 14, body) : body \in Damaged(Echo(ipA)) \cup Overlooked(Echo(ipA))}
  \cup {[AlienFrame(PROT_IP, 0, 0, 14, [Echo(ipA) EXCEPT !.len = 84]) EXCEPT !.len = 97],
        AlienFrame(PROT_ARP, 0, 0, 14,
                   [ArpPacket("ArpRequest", AlienMac, AlienIp, ipA) EXCEPT !.fmt = FALSE]),
        AlienFrame(PROT_ARP, 0, 0, 14, ArpPacket("ArpReply", AlienMac, AlienIp, ipA)),
        \* neither a length nor the number of a protocol
        AlienFrame(1505, 0, PROT_IP, 22, Echo(ipA)),
        AlienFrame(1514, 0, PROT_IP, 22, Echo(ipA))}

MCAlienFrames == Answerable \cup Faulty
=============================================================================
