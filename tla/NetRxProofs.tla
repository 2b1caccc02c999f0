---------------------------- MODULE NetRxProofs ----------------------------
(***************************************************************************)
(* Theorems about NetRx for any stations, VLAN settings and frames of the  *)
(* other machine.  The inductive invariant says of every frame under way   *)
(* that it is well formed and, when it is part of an exchange a station    *)
(* began, encapsulated as that station encapsulates.                       *)
(***************************************************************************)
EXTENDS NetRx, TLAPS

\* The headers of f are those net_set_ether of station s writes.
Encapsulated(s, prot, f) ==
  /\ f.protlen = Encapsulation(s, prot).protlen
  /\ f.tag = Encapsulation(s, prot).tag
  /\ f.prot = Encapsulation(s, prot).prot
  /\ f.at = EthHdrSize(s) /\ f.strip = FALSE
  /\ f.len = EthHdrSize(s) + Length(f.body)

\* The questions of s, and the answers to them, from whichever station.
Exchange(s, f) ==
  /\ f.body.op = "ArpRequest" /\ f.body.src = Ip[s] => Encapsulated(s, PROT_ARP, f)
  /\ f.body.op = "EchoRequest" /\ f.body.src = Ip[s] =>
       /\ Encapsulated(s, PROT_IP, f)
       /\ f.body = IpPacket("EchoRequest", Ip[s], f.body.dst)
  /\ f.body.op = "ArpReply" /\ f.body.dst = Ip[s] /\ FromStation(f) =>
       Encapsulated(s, PROT_ARP, f) /\ f.body.fmt
  /\ f.body.op = "EchoReply" /\ f.body.dst = Ip[s] /\ FromStation(f) =>
       /\ Encapsulated(s, PROT_IP, f)
       /\ f.body = IpPacket("EchoReply", f.body.src, Ip[s])
  /\ \A t \in Stations :
       f.body.op = "EchoReply" /\ f.body.dst = Ip[s] /\ f.body.src = Ip[t] => Connected(s, t)

\* A frame that ends where its packet ends.
Whole(f) ==
  /\ f.len = f.at + Length(f.body) /\ f.at = HeaderSize(f) /\ f.protlen # 1514

FrameOK(f) ==
  /\ WellFormed(f) /\ f.body.src # BcastIp
  /\ FromStation(f) => Whole(f)
  /\ \A t \in Stations : f.body.op = "EchoReply" /\ f.body.src = Ip[t] => f.body.dst # BcastIp
  /\ \A s \in Stations : Exchange(s, f)

\* The echo request of s, with a destination or without.
EchoOf(s, f) ==
  /\ IsFrame(f) /\ f.src = Mac[s] /\ Encapsulated(s, PROT_IP, f)
  /\ f.body = IpPacket("EchoRequest", Ip[s], f.body.dst)

Settings ==
  /\ net_our_vlan \in [Stations -> Nat]
  /\ net_native_vlan \in [Stations -> Nat]

Calls ==
  /\ net_state \in [Stations -> {"idle", "CONTINUE", "SUCCESS"}]
  /\ net_ping_ip = [s \in Stations |-> net_ping_ip[s]]
  /\ tx_packet = [s \in Stations |-> tx_packet[s]]
  /\ sent \in 0 .. MaxAlien

Copy(c) == c = [to |-> c.to, frame |-> c.frame] /\ c.to \in Stations

IInv ==
  /\ Settings /\ Calls
  /\ \A c \in wire : Copy(c) /\ FrameOK(c.frame)
  /\ \A s \in Stations : net_state[s] # "idle" => EchoOf(s, tx_packet[s])
  /\ PingOnlyWithinVlan

-----------------------------------------------------------------------------
(* Frames.                                                                 *)

LEMMA Numbers ==
  /\ MaxWord \in Nat /\ 33024 < MaxWord /\ MaxFrame \in Nat /\ MaxFrame > 1500
  /\ ETHER_HDR_SIZE = 14 /\ VLAN_ETHER_HDR_SIZE = 18 /\ E802_HDR_SIZE = 22
  /\ ARP_HDR_SIZE = 28 /\ IP_HDR_SIZE = 20 /\ IP_ICMP_HDR_SIZE = 28 /\ IP_UDP_HDR_SIZE = 28
BY DEF MaxWord, MaxFrame, ETHER_HDR_SIZE, VLAN_ETHER_HDR_SIZE, E802_HDR_SIZE, ARP_HDR_SIZE,
       IP_HDR_SIZE, IP_ICMP_HDR_SIZE, IP_UDP_HDR_SIZE

\* How a station encapsulates: with its VLAN number, which is not the reserved one, or
\* without a tag.
LEMMA EncapsulationIs ==
  ASSUME Settings, NEW s \in Stations, NEW prot \in {PROT_IP, PROT_ARP}
  PROVE  LET e == Encapsulation(s, prot)
         IN  /\ InVlan(s) => /\ e.protlen = PROT_VLAN /\ e.prot = prot
                             /\ e.tag = OurVlan(s) % 4096 /\ e.tag \in Nat /\ e.tag < 4095
                             /\ EthHdrSize(s) = 18
             /\ ~ InVlan(s) => /\ e.protlen = prot /\ e.tag = 0 /\ e.prot = 0
                               /\ EthHdrSize(s) = 14
<1>1. OurVlan(s) \in Nat
  BY DEF Settings, OurVlan, VlanId, VLAN_NONE
<1>2. OurVlan(s) % 4096 \in Nat /\ OurVlan(s) % 4096 <= 4095
  BY <1>1
<1> QED
  BY <1>2 DEF Encapsulation, InVlan, EthHdrSize, VLAN_ETHER_HDR_SIZE, ETHER_HDR_SIZE, VLAN_NONE

\* A frame a station encapsulates is what Ethernet allows, and whole.
LEMMA EncapsulatedIsWellFormed ==
  ASSUME Settings, NEW s \in Stations, NEW prot \in {PROT_IP, PROT_ARP}, NEW f,
         IsFrame(f), IsPacket(f.body), Length(f.body) = 28, Encapsulated(s, prot, f)
  PROVE  WellFormed(f) /\ Whole(f)
<1>1. f.protlen \in {PROT_VLAN, PROT_IP, PROT_ARP} /\ f.prot \in {0, PROT_IP, PROT_ARP}
  BY EncapsulationIs DEF Encapsulated
<1>2. f.tag \in Nat /\ f.tag < 4095 /\ f.len \in {42, 46}
  BY EncapsulationIs DEF Encapsulated
<1>3. f.tag % 4096 # VLAN_NONE
  BY <1>2 DEF VLAN_NONE
<1>4. IsArp(f.body) \/ f.body.len = 28
  BY DEF Length
<1>5. f.protlen = PROT_VLAN <=> InVlan(s)
  BY EncapsulationIs DEF Encapsulated, PROT_VLAN, PROT_IP, PROT_ARP
<1>6. f.at = HeaderSize(f)
  BY <1>1, <1>5, EncapsulationIs
     DEF Encapsulated, HeaderSize, Snap, Tagged, PROT_VLAN, PROT_IP, PROT_ARP,
         VLAN_ETHER_HDR_SIZE, ETHER_HDR_SIZE
<1>7. /\ f.protlen \in 0 .. MaxWord /\ f.prot \in 0 .. MaxWord
      /\ f.protlen >= 1514
  BY <1>1, Numbers DEF PROT_VLAN, PROT_IP, PROT_ARP
<1>8. WellFormed(f)
  BY <1>1, <1>2, <1>3, <1>4, <1>7, Numbers DEF WellFormed
<1> QED
  BY <1>1, <1>6, <1>8 DEF Whole, Encapsulated, PROT_VLAN, PROT_IP, PROT_ARP

\* Only the settings matter of the state.
LEMMA FrameKept ==
  ASSUME NEW f, FrameOK(f), UNCHANGED config
  PROVE  FrameOK(f)'
BY DEF FrameOK, WellFormed, Whole, Exchange, Encapsulated, Encapsulation, EthHdrSize, InVlan,
       OurVlan, NativeVlan, Connected, config

\* The question of s for an Ethernet address.
LEMMA ArpQuestionOK ==
  ASSUME Settings, NEW s \in Stations, NEW ip
  PROVE  FrameOK(ArpQuestion(s, ip))
<1> DEFINE f == ArpQuestion(s, ip)
           p == ArpPacket("ArpRequest", Mac[s], Ip[s], ip)
           e == Encapsulation(s, PROT_ARP)
<1>1. /\ IsPacket(p) /\ IsArp(p) /\ Length(p) = 28
      /\ p.op = "ArpRequest" /\ p.src = Ip[s]
  BY DEF IsPacket, HasFields, ArpFields, ArpPacket, IsArp, Length, ARP_HDR_SIZE
<1> HIDE DEF p
<1>2. f = [dest |-> BcastMac, src |-> Mac[s], protlen |-> e.protlen, tag |-> e.tag,
           prot |-> e.prot, at |-> EthHdrSize(s), strip |-> FALSE,
           len |-> EthHdrSize(s) + Length(p), body |-> p]
  BY DEF ArpQuestion, OwnFrame, p
<1>3. /\ IsFrame(f) /\ f.body = p /\ f.src = Mac[s] /\ Encapsulated(s, PROT_ARP, f)
  BY <1>2 DEF IsFrame, HasFields, FrameFields, Encapsulated
<1> HIDE DEF f
<1>4. WellFormed(f) /\ Whole(f)
  BY <1>1, <1>3, EncapsulatedIsWellFormed
<1>5. \A t \in Stations : Exchange(t, f)
  BY <1>1, <1>3, StationAssumption DEF Exchange
<1> QED
  BY <1>1, <1>3, <1>4, <1>5, StationAssumption DEF FrameOK, f

\* The echo request of s.
LEMMA EchoOK ==
  ASSUME Settings, NEW s \in Stations, NEW f, EchoOf(s, f)
  PROVE  FrameOK(f)
<1>1. /\ IsPacket(f.body) /\ ~ IsArp(f.body) /\ Length(f.body) = 28
      /\ f.body.op = "EchoRequest" /\ f.body.src = Ip[s]
  BY DEF EchoOf, IsPacket, HasFields, IpFields, IpPacket, IsArp, Length, IP_ICMP_HDR_SIZE
<1>2. IsFrame(f) /\ Encapsulated(s, PROT_IP, f) /\ f.body = IpPacket("EchoRequest", Ip[s], f.body.dst)
  BY DEF EchoOf
<1>3. WellFormed(f) /\ Whole(f)
  BY <1>1, <1>2, EncapsulatedIsWellFormed
<1>4. \A t \in Stations : Exchange(t, f)
  BY <1>1, <1>2, StationAssumption DEF Exchange
<1> QED
  BY <1>1, <1>3, <1>4, StationAssumption DEF FrameOK

LEMMA AlienOK ==
  ASSUME NEW f \in AlienFrames
  PROVE  FrameOK(f)
BY AlienAssumption DEF FrameOK, FromStation, Exchange

-----------------------------------------------------------------------------
(* Answers.                                                                *)

\* Where net_update_ether says the packet is, the dispatch has found it.
LEMMA UpdatedSizeIs ==
  ASSUME NEW f, WellFormed(f), NEW prot \in {PROT_IP, PROT_ARP}, Found(f, prot)
  PROVE  /\ f.protlen # 1514 /\ UpdatedSize(f) = HeaderSize(f) /\ f.at = HeaderSize(f)
         /\ UpdatedSize(f) \in {14, 18, 22}
         /\ UpdatedSize(f) = 22 => f.protlen < 1514
         /\ UpdatedSize(f) = 18 => f.protlen = PROT_VLAN
         /\ UpdatedSize(f) = 14 => f.protlen = prot
<1>1. f.protlen \in Nat
  BY Numbers DEF WellFormed
<1>2. f.protlen # 1514
  BY DEF Found, EthProto, Snap, Tagged, PROT_IP, PROT_ARP, PROT_VLAN
<1> QED
  BY <1>1, <1>2, Numbers
     DEF Found, EthProto, UpdatedSize, HeaderSize, Snap, Tagged, PROT_IP, PROT_ARP, PROT_VLAN

\* The frame turned around, with another packet in it.
Answer(s, f, prot, len, body) == [UpdateEther(s, f, prot) EXCEPT !.len = len, !.body = body]

LEMMA Turned ==
  ASSUME NEW s, NEW f, IsFrame(f), NEW prot, NEW len, NEW body
  PROVE  LET r == Answer(s, f, prot, len, body)
         IN  /\ IsFrame(r) /\ r.src = Mac[s] /\ r.len = len /\ r.body = body
             /\ r.at = f.at /\ r.strip = f.strip /\ r.tag = f.tag
             /\ r.protlen = IF UpdatedSize(f) = ETHER_HDR_SIZE THEN prot ELSE f.protlen
             /\ r.prot = IF UpdatedSize(f) = ETHER_HDR_SIZE THEN f.prot ELSE prot
<1> USE DEF IsFrame, HasFields, FrameFields
<1> DEFINE t == [f EXCEPT !.dest = f.src, !.src = Mac[s]]
           u == UpdateEther(s, f, prot)
           r == Answer(s, f, prot, len, body)
<1>1. /\ IsFrame(t) /\ t.src = Mac[s] /\ t.at = f.at /\ t.strip = f.strip /\ t.tag = f.tag
      /\ t.protlen = f.protlen /\ t.prot = f.prot
  OBVIOUS
<1>2. u = IF UpdatedSize(f) = ETHER_HDR_SIZE THEN [t EXCEPT !.protlen = prot]
          ELSE [t EXCEPT !.prot = prot]
  BY DEF UpdateEther
<1> HIDE DEF t, u
<1>3. /\ IsFrame(u) /\ u.src = Mac[s] /\ u.at = f.at /\ u.strip = f.strip /\ u.tag = f.tag
      /\ u.protlen = IF UpdatedSize(f) = ETHER_HDR_SIZE THEN prot ELSE f.protlen
      /\ u.prot = IF UpdatedSize(f) = ETHER_HDR_SIZE THEN f.prot ELSE prot
  BY <1>1, <1>2
<1>4. r = [u EXCEPT !.len = len, !.body = body]
  BY DEF u, Answer
<1> HIDE DEF r
<1>5. /\ IsFrame(r) /\ r.len = len /\ r.body = body /\ r.src = u.src /\ r.at = u.at
      /\ r.strip = u.strip /\ r.tag = u.tag /\ r.protlen = u.protlen /\ r.prot = u.prot
  BY <1>3, <1>4
<1> QED
  BY <1>3, <1>5 DEF r

\* An answer as long as the header found and the packet is well formed, and whole; and
\* it has the encapsulation of a question made by a station, but for its packet.
LEMMA AnswerShape ==
  ASSUME Settings, NEW f, WellFormed(f), NEW prot \in {PROT_IP, PROT_ARP}, Found(f, prot),
         NEW r, IsFrame(r), IsPacket(r.body), NEW n \in Nat, Length(r.body) = n,
         r.len = UpdatedSize(f) + n, n >= 20, UpdatedSize(f) + n <= MaxFrame,
         Length(f.body) = n, IsArp(r.body) \/ r.body.len = n,
         r.at = f.at, r.strip = f.strip, r.tag = f.tag,
         r.protlen = IF UpdatedSize(f) = ETHER_HDR_SIZE THEN prot ELSE f.protlen,
         r.prot = IF UpdatedSize(f) = ETHER_HDR_SIZE THEN f.prot ELSE prot
  PROVE  /\ WellFormed(r) /\ Whole(r)
         /\ \A s \in Stations : Encapsulated(s, prot, f) => Encapsulated(s, prot, r)
<1> USE UpdatedSizeIs, Numbers
<1>1. /\ f.protlen \in 0 .. MaxWord /\ f.prot \in 0 .. MaxWord
      /\ f.tag \in Nat /\ f.tag % 4096 # VLAN_NONE
      /\ (f.protlen <= 1500 => f.protlen = 8 + Length(f.body))
  BY DEF WellFormed
<1>2. prot \in 0 .. MaxWord /\ prot > 1514 /\ prot # PROT_VLAN /\ PROT_VLAN > 1514
  BY DEF PROT_IP, PROT_ARP, PROT_VLAN
<1>3. r.protlen = f.protlen
  BY <1>1
<1>4. WellFormed(r)
  BY <1>1, <1>2, <1>3 DEF WellFormed
<1>5. HeaderSize(r) = HeaderSize(f)
  BY <1>3 DEF HeaderSize, Snap, Tagged
<1>6. Whole(r)
  BY <1>3, <1>5 DEF Whole
<1>7. ASSUME NEW s \in Stations, Encapsulated(s, prot, f) PROVE Encapsulated(s, prot, r)
  <2>1. r.prot = f.prot
    BY <1>2, <1>7, EncapsulationIs DEF Encapsulated
  <2> QED
    BY <1>3, <1>7, <2>1 DEF Encapsulated
<1> QED
  BY <1>4, <1>6, <1>7

\* VLANs let a question of s through to t only when they connect the two.
LEMMA HeardMeansConnected ==
  ASSUME Settings, NEW s \in Stations, NEW t \in Stations, NEW prot \in {PROT_IP, PROT_ARP},
         NEW f, Encapsulated(s, prot, f), VlanPasses(t, f)
  PROVE  Connected(s, t)
<1>1. Tagged(f) <=> InVlan(s)
  BY EncapsulationIs DEF Encapsulated, Tagged, PROT_IP, PROT_ARP, PROT_VLAN
<1>2. CASE InVlan(s)
  <2>1. f.tag = OurVlan(s) % 4096 /\ f.tag \in Nat /\ f.tag < 4095
    BY <1>2, EncapsulationIs DEF Encapsulated
  <2>2. FrameVlan(t, f) = OurVlan(s) % 4096
    BY <1>1, <1>2, <2>1 DEF FrameVlan, VLAN_NONE
  <2> QED
    BY <1>1, <1>2, <2>2 DEF VlanPasses, Connected
<1>3. CASE ~ InVlan(s)
  <2>1. FrameVlan(t, f) = NativeVlan(t) % 4096
    BY <1>1, <1>3 DEF FrameVlan
  <2> QED
    BY <1>1, <1>3, <2>1 DEF VlanPasses, Connected
<1> QED
  BY <1>2, <1>3

LEMMA ArpAnswerOK ==
  ASSUME Settings, NEW t \in Stations, NEW f, FrameOK(f), ArpReaches(t, f),
         f.body.op = "ArpRequest"
  PROVE  FrameOK(ArpAnswer(t, f))
<1> DEFINE p == ArpPacket("ArpReply", Mac[t], Ip[t], f.body.src)
           len == UpdatedSize(f) + ARP_HDR_SIZE
           r == Answer(t, f, PROT_ARP, len, p)
<1>1. /\ IsPacket(p) /\ IsArp(p) /\ Length(p) = 28 /\ p.op = "ArpReply" /\ p.fmt
      /\ p.src = Ip[t] /\ p.dst = f.body.src
  BY DEF IsPacket, HasFields, ArpFields, ArpPacket, IsArp, Length, ARP_HDR_SIZE
<1>2. /\ WellFormed(f) /\ IsFrame(f) /\ Found(f, PROT_ARP) /\ Length(f.body) = 28
      /\ f.body.src # BcastIp
  BY DEF FrameOK, WellFormed, ArpReaches, Length, IsArp, ARP_HDR_SIZE
<1> HIDE DEF p
<1>3. /\ IsFrame(r) /\ r.src = Mac[t] /\ r.len = len /\ r.body = p
      /\ r.at = f.at /\ r.strip = f.strip /\ r.tag = f.tag
      /\ r.protlen = IF UpdatedSize(f) = ETHER_HDR_SIZE THEN PROT_ARP ELSE f.protlen
      /\ r.prot = IF UpdatedSize(f) = ETHER_HDR_SIZE THEN f.prot ELSE PROT_ARP
  BY <1>2, Turned
<1> HIDE DEF r
<1>4. len = UpdatedSize(f) + 28 /\ UpdatedSize(f) + 28 <= MaxFrame
  BY <1>2, UpdatedSizeIs, Numbers
<1> HIDE DEF len
<1>5. /\ WellFormed(r) /\ Whole(r)
      /\ \A s \in Stations : Encapsulated(s, PROT_ARP, f) => Encapsulated(s, PROT_ARP, r)
  BY <1>1, <1>2, <1>3, <1>4, AnswerShape
<1>6. ASSUME NEW s \in Stations PROVE Exchange(s, r)
  <2>1. f.body.src = Ip[s] => Encapsulated(s, PROT_ARP, f)
    BY DEF FrameOK, Exchange
  <2> QED
    BY <1>1, <1>3, <1>5, <2>1 DEF Exchange
<1>7. FrameOK(r)
  BY <1>1, <1>3, <1>5, <1>6, StationAssumption DEF FrameOK
<1>8. ArpAnswer(t, f) = r
  BY DEF ArpAnswer, Answer, r, len, p
<1> QED
  BY <1>7, <1>8

LEMMA EchoAnswerOK ==
  ASSUME Settings, NEW t \in Stations, NEW f, FrameOK(f), IpReaches(t, f),
         f.body.op = "EchoRequest"
  PROVE  FrameOK(EchoAnswer(t, f))
<1> DEFINE p == [f.body EXCEPT !.op = "EchoReply", !.src = Ip[t],
                               !.dst = f.body.src, !.sum = TRUE, !.isum = TRUE,
                               !.frag = FALSE]
           len == UpdatedSize(f) + f.body.len
           r == Answer(t, f, PROT_IP, len, p)
<1>1. /\ WellFormed(f) /\ IsFrame(f) /\ Found(f, PROT_IP) /\ IsPacket(f.body)
      /\ ~ IsArp(f.body) /\ Length(f.body) = f.body.len /\ f.body.src # BcastIp
      /\ VlanPasses(t, f) /\ IpWhole(f)
  BY DEF FrameOK, WellFormed, IpReaches, Length, IsArp
<1>2. HasFields(f.body, IpFields)
  BY <1>1 DEF IsPacket
<1>3. /\ HasFields(p, IpFields) /\ p.op = "EchoReply" /\ p.src = Ip[t] /\ p.dst = f.body.src
      /\ p.v = f.body.v /\ p.hl = f.body.hl /\ p.len = f.body.len /\ p.sum = TRUE
      /\ p.isum = TRUE /\ p.frag = FALSE
  BY <1>2 DEF HasFields, IpFields
<1> HIDE DEF p
<1>4. IsPacket(p) /\ ~ IsArp(p) /\ Length(p) = f.body.len
  BY <1>3 DEF IsPacket, IsArp, Length
<1>5. /\ IsFrame(r) /\ r.src = Mac[t] /\ r.len = len /\ r.body = p
      /\ r.at = f.at /\ r.strip = f.strip /\ r.tag = f.tag
      /\ r.protlen = IF UpdatedSize(f) = ETHER_HDR_SIZE THEN PROT_IP ELSE f.protlen
      /\ r.prot = IF UpdatedSize(f) = ETHER_HDR_SIZE THEN f.prot ELSE PROT_IP
  BY <1>1, Turned
<1> HIDE DEF r
<1>6. f.body.len \in Nat /\ f.body.len >= 20 /\ f.len \in Nat /\ f.len <= MaxFrame
  BY <1>1, Numbers DEF WellFormed
<1>7. RxLength(f) \in Int /\ RxLength(f) <= MaxFrame
  BY <1>6, Numbers DEF RxLength, MinFrame
<1>8. UpdatedSize(f) + f.body.len <= MaxFrame
  BY <1>1, <1>6, <1>7, UpdatedSizeIs, Numbers DEF IpWhole, Rest
<1>9. /\ WellFormed(r) /\ Whole(r)
      /\ \A s \in Stations : Encapsulated(s, PROT_IP, f) => Encapsulated(s, PROT_IP, r)
  <2>1. len = UpdatedSize(f) + f.body.len
    OBVIOUS
  <2> HIDE DEF len
  <2> QED
    BY <1>1, <1>3, <1>4, <1>5, <1>6, <1>8, <2>1, AnswerShape
<1>10. ASSUME NEW s \in Stations PROVE Exchange(s, r)
  <2>1. CASE f.body.src # Ip[s]
    BY <1>3, <1>5, <2>1 DEF Exchange
  <2>2. CASE f.body.src = Ip[s]
    <3>1. Encapsulated(s, PROT_IP, f) /\ f.body = IpPacket("EchoRequest", Ip[s], f.body.dst)
      BY <2>2 DEF FrameOK, Exchange
    <3>2. Connected(s, t)
      BY <1>1, <3>1, HeardMeansConnected
    <3>3. p = IpPacket("EchoReply", Ip[t], Ip[s])
      <4> DEFINE q == IpPacket("EchoReply", Ip[t], Ip[s])
      <4>1. HasFields(q, IpFields)
        BY DEF IpPacket, HasFields, IpFields
      <4>2. /\ f.body.v = q.v /\ f.body.hl = q.hl /\ f.body.len = q.len /\ q.op = "EchoReply"
            /\ q.src = Ip[t] /\ q.dst = Ip[s] /\ q.sum = TRUE
            /\ q.isum = TRUE /\ q.frag = FALSE
        BY <3>1 DEF IpPacket
      <4> HIDE DEF q
      <4>3. \A x \in IpFields : p[x] = q[x]
        BY <1>3, <2>2, <4>2 DEF IpFields
      <4>4. p = q
        BY <1>3, <4>1, <4>3 DEF HasFields
      <4> QED
        BY <4>4 DEF q
    <3>4. \A w \in Stations : p.src = Ip[w] => w = t
      BY <1>3, StationAssumption
    <3> QED
      BY <1>3, <1>5, <1>9, <2>2, <3>1, <3>2, <3>3, <3>4 DEF Exchange
  <2> QED
    BY <2>1, <2>2
<1>11. FrameOK(r)
  BY <1>3, <1>5, <1>9, <1>10, StationAssumption DEF FrameOK
<1>12. EchoAnswer(t, f) = r
  BY DEF EchoAnswer, Answer, r, len, p
<1> QED
  BY <1>11, <1>12

-----------------------------------------------------------------------------
(* The invariant.                                                          *)

FramesUnderWay == \A c \in wire : Copy(c) /\ FrameOK(c.frame)
EchoesWaiting == \A s \in Stations : net_state[s] # "idle" => EchoOf(s, tx_packet[s])

LEMMA Parts == IInv <=> /\ Settings /\ Calls /\ FramesUnderWay /\ EchoesWaiting
                        /\ PingOnlyWithinVlan
BY DEF IInv, FramesUnderWay, EchoesWaiting

\* Frames are put on the wire and taken from it.
LEMMA WireStep ==
  ASSUME FramesUnderWay, UNCHANGED config, NEW from, NEW f, FrameOK(f),
         wire' \subseteq wire \cup CopiesFor(from, f)
  PROVE  FramesUnderWay'
<1> SUFFICES ASSUME NEW c \in wire' PROVE Copy(c) /\ FrameOK(c.frame)'
  BY DEF FramesUnderWay, Copy
<1>1. CASE c \in wire
  BY <1>1, FrameKept DEF FramesUnderWay
<1>2. CASE c \notin wire
  <2>1. PICK t \in Stations : c = [to |-> t, frame |-> f]
    BY <1>2 DEF CopiesFor
  <2> QED
    BY <2>1, FrameKept DEF Copy
<1> QED
  BY <1>1, <1>2

LEMMA WireTaken ==
  ASSUME FramesUnderWay, UNCHANGED config, wire' \subseteq wire
  PROVE  FramesUnderWay'
BY FrameKept DEF FramesUnderWay, Copy

\* The settings stay, and so do the echo requests that wait.
LEMMA StationsKept ==
  ASSUME UNCHANGED config
  PROVE  /\ Settings => Settings'
         /\ EchoesWaiting /\ UNCHANGED <<net_state, tx_packet>> => EchoesWaiting'
         /\ PingOnlyWithinVlan /\ UNCHANGED <<net_state, net_ping_ip>> => PingOnlyWithinVlan'
BY DEF Settings, EchoesWaiting, EchoOf, Encapsulated, Encapsulation, EthHdrSize, InVlan, OurVlan,
       NativeVlan, PingOnlyWithinVlan, Connected, config

\* The new call of s: its echo request has everything but a destination.
LEMMA PingStartStep ==
  ASSUME IInv, NEW s \in Stations, NEW ip, PingStart(s, ip)
  PROVE  IInv'
<1>1. Settings /\ Calls /\ FramesUnderWay /\ EchoesWaiting /\ PingOnlyWithinVlan
  BY Parts
<1>2. UNCHANGED config
  BY DEF PingStart
<1>3. Settings'
  BY <1>1, <1>2, StationsKept
<1>4. Calls'
  BY <1>1 DEF Calls, PingStart
<1>5. FramesUnderWay'
  BY <1>1, <1>2, ArpQuestionOK, WireStep DEF PingStart
<1>6. EchoesWaiting'
  <2> DEFINE f == OwnFrame(s, NoIp, PROT_IP, IpPacket("EchoRequest", Ip[s], ip))
  <2>1. EchoOf(s, f)
    BY DEF EchoOf, OwnFrame, IsFrame, HasFields, FrameFields, Encapsulated, IpPacket
  <2> HIDE DEF f
  <2>2. tx_packet'[s] = f /\ \A t \in Stations \ {s} : tx_packet'[t] = tx_packet[t]
                                                       /\ net_state'[t] = net_state[t]
    BY <1>1 DEF Calls, PingStart, f
  <2>3. ASSUME NEW t \in Stations, net_state'[t] # "idle" PROVE EchoOf(t, tx_packet[t])'
    <3>1. EchoOf(t, tx_packet'[t])
      BY <1>1, <2>1, <2>2, <2>3 DEF EchoesWaiting
    <3> QED
      BY <1>2, <3>1
         DEF EchoOf, Encapsulated, Encapsulation, EthHdrSize, InVlan, OurVlan, config
  <2> QED
    BY <2>3 DEF EchoesWaiting
<1>7. PingOnlyWithinVlan'
  BY <1>1, <1>2 DEF PingOnlyWithinVlan, PingStart, Calls, Connected, InVlan, OurVlan,
     NativeVlan, config
<1> QED
  BY <1>3, <1>4, <1>5, <1>6, <1>7 DEF IInv, FramesUnderWay, EchoesWaiting

LEMMA ArpReplyStep ==
  ASSUME IInv, NEW c \in wire, ArpReplyIn(c)
  PROVE  IInv'
<1>1. Settings /\ Calls /\ FramesUnderWay /\ EchoesWaiting /\ PingOnlyWithinVlan
  BY Parts
<1> DEFINE s == c.to
           f == tx_packet'[s]
<1>2. UNCHANGED config /\ UNCHANGED <<net_state, net_ping_ip, sent>> /\ s \in Stations
  BY <1>1 DEF ArpReplyIn, Take, FramesUnderWay, Copy
<1>3. /\ tx_packet' = [tx_packet EXCEPT ![s] = [tx_packet[s] EXCEPT !.dest = c.frame.body.sha]]
      /\ wire' \subseteq wire \cup CopiesFor(s, f) /\ net_state[s] # "idle"
  BY DEF ArpReplyIn, AwaitedArp, Polled
<1>4. EchoOf(s, tx_packet[s])
  BY <1>1, <1>2, <1>3 DEF EchoesWaiting
<1>5. f = [tx_packet[s] EXCEPT !.dest = c.frame.body.sha]
  BY <1>1, <1>2, <1>3 DEF Calls
<1>6. EchoOf(s, f)
  <2> DEFINE g == tx_packet[s]
  <2>1. IsFrame(g) /\ f = [g EXCEPT !.dest = c.frame.body.sha]
    BY <1>4, <1>5 DEF EchoOf
  <2> HIDE DEF f, g
  <2>2. /\ IsFrame(f) /\ f.src = g.src /\ f.protlen = g.protlen /\ f.tag = g.tag
        /\ f.prot = g.prot /\ f.at = g.at /\ f.strip = g.strip /\ f.len = g.len
        /\ f.body = g.body
    BY <2>1 DEF IsFrame, HasFields, FrameFields
  <2>3. EchoOf(s, g)
    BY <1>4 DEF g
  <2> QED
    BY <2>2, <2>3 DEF EchoOf, Encapsulated
<1>7. Calls'
  BY <1>1, <1>2, <1>3 DEF Calls
<1>8. FramesUnderWay'
  BY <1>1, <1>2, <1>3, <1>6, EchoOK, WireStep
<1>9. EchoesWaiting'
  <2>1. ASSUME NEW t \in Stations, net_state'[t] # "idle" PROVE EchoOf(t, tx_packet[t])'
    <3>1. EchoOf(t, tx_packet'[t])
      BY <1>1, <1>2, <1>3, <1>6, <2>1 DEF EchoesWaiting, Calls
    <3> QED
      BY <1>2, <3>1
         DEF EchoOf, Encapsulated, Encapsulation, EthHdrSize, InVlan, OurVlan, config
  <2> QED
    BY <2>1 DEF EchoesWaiting
<1> QED
  BY <1>1, <1>2, <1>7, <1>8, <1>9, StationsKept DEF IInv, FramesUnderWay, EchoesWaiting

\* A ping that succeeds has heard an answer to itself, from a station that heard it.
LEMMA EchoReplyStep ==
  ASSUME IInv, NEW c \in wire, EchoReplyIn(c)
  PROVE  IInv'
<1>1. Settings /\ Calls /\ FramesUnderWay /\ EchoesWaiting /\ PingOnlyWithinVlan
  BY Parts
<1>2. /\ UNCHANGED config /\ UNCHANGED <<net_ping_ip, tx_packet, sent>>
      /\ c.to \in Stations /\ FrameOK(c.frame)
  BY <1>1 DEF EchoReplyIn, Take, FramesUnderWay, Copy
<1>3. /\ net_state' = [net_state EXCEPT ![c.to] = "SUCCESS"] /\ wire' \subseteq wire
      /\ AwaitedEcho(c) /\ net_state[c.to] # "idle"
  BY DEF EchoReplyIn, AwaitedEcho, Polled
<1>4. Calls'
  BY <1>1, <1>2, <1>3 DEF Calls
<1>5. EchoesWaiting'
  BY <1>1, <1>2, <1>3 DEF EchoesWaiting, Calls, EchoOf, Encapsulated, Encapsulation, EthHdrSize,
     InVlan, OurVlan, config
<1>6. PingOnlyWithinVlan'
  <2>1. ASSUME NEW t \in Stations, net_ping_ip[c.to] = Ip[t] PROVE Connected(c.to, t)
    <3>1. /\ c.frame.body.op = "EchoReply" /\ c.frame.body.src = Ip[t]
          /\ c.frame.body.dst \in {Ip[c.to], BcastIp}
      BY <1>2, <1>3, <2>1, StationAssumption DEF AwaitedEcho, IpReaches
    <3> QED
      BY <1>2, <3>1 DEF FrameOK, Exchange
  <2>2. ASSUME NEW s \in Stations, NEW t \in Stations, net_state'[s] = "SUCCESS",
               net_ping_ip'[s] = Ip[t]
        PROVE  Connected(s, t)
    BY <1>1, <1>2, <1>3, <2>1, <2>2 DEF PingOnlyWithinVlan, Calls
  <2> QED
    BY <1>2, <2>2 DEF PingOnlyWithinVlan, Connected, InVlan, OurVlan, NativeVlan, config
<1> QED
  BY <1>1, <1>2, <1>3, <1>4, <1>5, <1>6, StationsKept, WireTaken
     DEF IInv, FramesUnderWay, EchoesWaiting

\* The other steps change nothing but the wire.
LEMMA AnswerStep ==
  ASSUME IInv, UNCHANGED <<config, station>>, sent' \in 0 .. MaxAlien, FramesUnderWay'
  PROVE  IInv'
<1>1. UNCHANGED config /\ UNCHANGED <<net_state, net_ping_ip, tx_packet>>
  BY DEF station
<1> QED
  BY <1>1, StationsKept, Parts DEF Calls, IInv, FramesUnderWay, EchoesWaiting

LEMMA InvStep == IInv /\ [Next]_vars => IInv'
<1> SUFFICES ASSUME IInv, [Next]_vars PROVE IInv'
  OBVIOUS
<1>1. Settings /\ Calls /\ FramesUnderWay /\ sent \in 0 .. MaxAlien
  BY Parts DEF Calls
<1>2. ASSUME NEW s \in Stations, NEW ip, PingStart(s, ip) PROVE IInv'
  BY <1>2, PingStartStep
<1>3. ASSUME NEW f \in AlienFrames, AlienSends(f) PROVE IInv'
  <2>1. FramesUnderWay' /\ UNCHANGED <<config, station>>
    BY <1>1, <1>3, AlienOK, WireStep DEF AlienSends
  <2>2. sent' \in 0 .. MaxAlien
    BY <1>1, <1>3, StationAssumption DEF AlienSends
  <2> QED
    BY <2>1, <2>2, AnswerStep
<1>4. ASSUME NEW c \in wire, Deliver(c) PROVE IInv'
  <2>1. c.to \in Stations /\ FrameOK(c.frame)
    BY <1>1 DEF FramesUnderWay, Copy
  <2>2. CASE ArpRequestIn(c)
    <3>1. FrameOK(ArpAnswer(c.to, c.frame))
      BY <1>1, <2>1, <2>2, ArpAnswerOK DEF ArpRequestIn, AsksArp
    <3>2. FramesUnderWay'
      BY <1>1, <2>2, <3>1, WireStep DEF ArpRequestIn, Take
    <3> QED
      BY <1>1, <2>2, <3>2, AnswerStep DEF ArpRequestIn, Take, station
  <2>3. CASE EchoRequestIn(c)
    <3>1. FrameOK(EchoAnswer(c.to, c.frame))
      BY <1>1, <2>1, <2>3, EchoAnswerOK DEF EchoRequestIn, AsksEcho
    <3>2. FramesUnderWay'
      BY <1>1, <2>3, <3>1, WireStep DEF EchoRequestIn, Take
    <3> QED
      BY <1>1, <2>3, <3>2, AnswerStep DEF EchoRequestIn, Take, station
  <2>4. CASE Ignored(c)
    <3>1. FramesUnderWay'
      BY <1>1, <2>4, WireTaken DEF Ignored, Take
    <3> QED
      BY <1>1, <2>4, <3>1, AnswerStep DEF Ignored, Take, station
  <2> QED
    BY <1>4, <2>2, <2>3, <2>4, ArpReplyStep, EchoReplyStep DEF Deliver
<1>5. CASE UNCHANGED vars
  <2>1. /\ UNCHANGED <<config, station>> /\ wire' = wire /\ sent' = sent
    BY <1>5 DEF vars, config, station
  <2> QED
    BY <1>1, <2>1, WireTaken, AnswerStep
<1> QED
  BY <1>2, <1>3, <1>4, <1>5 DEF Next

LEMMA InvInit == Init => IInv
BY StationAssumption DEF Init, IInv, Settings, Calls, PingOnlyWithinVlan

LEMMA Invariant == Spec => []IInv
BY InvInit, InvStep, PTL DEF Spec

-----------------------------------------------------------------------------
(* The properties.                                                         *)

\* The numbers a tag has room for, but for the reserved one.
LEMMA VidIs ==
  ASSUME NEW n \in Nat, n % 4096 # VLAN_NONE
  PROVE  n % 4096 \in Vid
<1>1. n % 4096 \in 0 .. 4095
  OBVIOUS
<1>2. VLAN_NONE = 4095 /\ Vid = 0 .. 4094
  BY DEF VLAN_NONE, Vid
<1> QED
  BY <1>1, <1>2

\* Every frame under way keeps to what Ethernet allows, and no tag has the reserved
\* VLAN number.
THEOREM TypeCorrect == Spec => []TypeOK
<1>1. IInv => TypeOK
  <2> SUFFICES ASSUME IInv PROVE TypeOK
    OBVIOUS
  <2>1. Calls /\ FramesUnderWay
    BY Parts
  <2>2. ASSUME NEW c \in wire
        PROVE  /\ c.to \in Stations
               /\ c.frame.len \in ETHER_HDR_SIZE + IP_HDR_SIZE .. MaxFrame
               /\ c.frame.protlen \in 0 .. MaxWord /\ c.frame.prot \in 0 .. MaxWord
               /\ c.frame.tag % 4096 \in Vid
    <3>1. WellFormed(c.frame) /\ c.to \in Stations
      BY <2>1 DEF FramesUnderWay, FrameOK, Copy
    <3>2. c.frame.tag \in Nat /\ c.frame.tag % 4096 # VLAN_NONE
      BY <3>1 DEF WellFormed
    <3>3. c.frame.tag % 4096 \in Vid
      BY <3>2, VidIs
    <3> QED
      BY <3>1, <3>3 DEF WellFormed
  <2> QED
    BY <2>1, <2>2 DEF TypeOK, Calls
<1> QED
  BY <1>1, Invariant, PTL

\* What a station sends, questions, answers in another's encapsulation and all, ends
\* where its packet ends and has the packet behind the header it announces.
THEOREM FramesWholeCorrect == Spec => []FramesWhole
<1>1. IInv => FramesWhole
  <2> SUFFICES ASSUME IInv, NEW c \in wire, FromStation(c.frame)
               PROVE  LET f == c.frame
                      IN  /\ f.len = f.at + Length(f.body)
                          /\ f.at = CASE f.protlen = PROT_VLAN -> 18
                                      [] f.protlen < 1514 -> 22
                                      [] OTHER -> 14
                          /\ f.protlen <= 1500 => f.protlen = 8 + Length(f.body)
    BY DEF FramesWhole
  <2>1. WellFormed(c.frame) /\ Whole(c.frame)
    BY Parts DEF FramesUnderWay, FrameOK
  <2> DEFINE f == c.frame
  <2>2. /\ f.protlen \in Nat
        /\ f.protlen <= 1500 => f.protlen = 8 + Length(f.body)
    BY <2>1, Numbers DEF WellFormed
  <2> QED
    BY <2>1, <2>2, Numbers DEF Whole, HeaderSize, Snap, Tagged, PROT_VLAN
<1> QED
  BY <1>1, Invariant, PTL

\* What a station encapsulates it would hear itself.
LEMMA OwnEncapsulationPasses ==
  ASSUME Settings, NEW s \in Stations, NEW prot \in {PROT_IP, PROT_ARP}, NEW f,
         Encapsulated(s, prot, f), WellFormed(f), Length(f.body) = 28
  PROVE  VlanPasses(s, f) /\ Found(f, prot) /\ Rest(f) >= 28
<1>1. Tagged(f) <=> InVlan(s)
  BY EncapsulationIs DEF Encapsulated, Tagged, PROT_IP, PROT_ARP, PROT_VLAN
<1>2. ~ Snap(f)
  BY EncapsulationIs DEF Encapsulated, Snap, PROT_IP, PROT_ARP, PROT_VLAN
<1>3. InVlan(s) => f.tag = OurVlan(s) % 4096 /\ f.tag \in Nat /\ f.tag < 4095
  BY EncapsulationIs DEF Encapsulated
<1>4. InVlan(s) => FrameVlan(s, f) = OurVlan(s) % 4096
  BY <1>1, <1>3 DEF FrameVlan, VLAN_NONE
<1>5. f.at = HeaderSize(f) /\ EthProto(f) = prot
  BY <1>1, <1>2, EncapsulationIs, Numbers DEF Encapsulated, HeaderSize, EthProto
<1>6. f.len = f.at + 28 /\ f.at \in Nat
  BY EncapsulationIs DEF Encapsulated
<1>7. RxLength(f) >= f.at + 28 /\ RxLength(f) \in Nat
  BY <1>6 DEF RxLength, MinFrame, Encapsulated
<1> QED
  BY <1>1, <1>4, <1>5, <1>6, <1>7 DEF VlanPasses, Found, Rest

\* The answer to a station gets past the filters and tests of its dispatch, wherever
\* the question got through.
THEOREM AnswerHeardCorrect == Spec => []AnswerHeard
<1>1. IInv => AnswerHeard
  <2> SUFFICES ASSUME IInv, NEW c \in wire, NEW s \in Stations, c.to = s,
                      FromStation(c.frame), c.frame.body.dst = Ip[s]
               PROVE  /\ c.frame.body.op = "ArpReply" => ArpReaches(s, c.frame)
                      /\ c.frame.body.op = "EchoReply" => IpReaches(s, c.frame)
    BY DEF AnswerHeard
  <2> DEFINE f == c.frame
  <2>1. Settings /\ WellFormed(f) /\ Exchange(s, f)
    BY Parts DEF FramesUnderWay, FrameOK
  <2>2. CASE f.body.op = "ArpReply"
    <3>1. Encapsulated(s, PROT_ARP, f) /\ f.body.fmt /\ Length(f.body) = 28
      BY <2>1, <2>2 DEF Exchange, Length, IsArp, ARP_HDR_SIZE
    <3> QED
      BY <2>1, <2>2, <3>1, OwnEncapsulationPasses, StationAssumption, Numbers DEF ArpReaches
  <2>3. CASE f.body.op = "EchoReply"
    <3>1. Encapsulated(s, PROT_IP, f) /\ f.body = IpPacket("EchoReply", f.body.src, Ip[s])
      BY <2>1, <2>3 DEF Exchange
    <3>2. /\ Length(f.body) = 28 /\ f.body.len = 28 /\ f.body.v = 4 /\ f.body.hl = 5
          /\ f.body.sum /\ ~ f.body.frag
      BY <3>1 DEF IpPacket, Length, IsArp, IP_ICMP_HDR_SIZE
    <3>3. VlanPasses(s, f) /\ Found(f, PROT_IP) /\ Rest(f) >= 28
      BY <2>1, <3>1, <3>2, OwnEncapsulationPasses
    <3> QED
      BY <2>3, <3>2, <3>3, Numbers DEF IpReaches, IpWhole
  <2> QED
    BY <2>2, <2>3
<1> QED
  BY <1>1, Invariant, PTL

\* A ping succeeds only between stations the VLAN settings connect.
THEOREM WithinVlanCorrect == Spec => []PingOnlyWithinVlan
<1>1. IInv => PingOnlyWithinVlan
  BY DEF IInv
<1> QED
  BY <1>1, Invariant, PTL

\* Where the dispatch finds a packet its sender announced it, and unless the frame is
\* cut short the packet fits into what geth_recv passes up.
LEMMA FoundIsAnnounced ==
  ASSUME NEW f, WellFormed(f), NEW prot \in {PROT_IP, PROT_ARP}, Found(f, prot),
         Length(f.body) \in Nat, Rest(f) >= Length(f.body)
  PROVE  Announces(f, prot) /\ ~ CutShort(f)
<1>1. f.at = HeaderSize(f) /\ HeaderSize(f) \in {14, 18, 22} /\ f.len \in Nat
  BY Numbers, UpdatedSizeIs DEF WellFormed
<1>2. Announces(f, prot)
  BY <1>1, Numbers DEF Announces, Found, EthProto, HeaderSize, Snap, Tagged
<1>3. f.len >= MinFrame => f.len >= f.at + Length(f.body)
  BY <1>1 DEF Rest, RxLength, MinFrame
<1> QED
  BY <1>1, <1>2, <1>3 DEF CutShort, MinFrame

\* Whatever net_process_received_packet and the handlers send in answer was called for:
\* by a question to this address, or by the reply it waits for, that is all there, in
\* one piece, with a sound ARP packet or IP header.
THEOREM NoUncalledAnswerCorrect == Spec => NoUncalledAnswer
<1>1. ASSUME IInv, [Next]_vars, NEW c \in wire \ wire'
      PROVE  wire' \subseteq wire \/ CallsForArp(c.to, c.frame) \/ CallsForEcho(c.to, c.frame)
  <2>1. PICK d \in wire : Deliver(d)
    BY <1>1 DEF Next, PingStart, AlienSends, vars
  <2>2. c = d
    BY <1>1, <2>1 DEF Deliver, ArpRequestIn, ArpReplyIn, EchoRequestIn, EchoReplyIn, Ignored
  <2> DEFINE f == c.frame
             s == c.to
  <2>3. WellFormed(f) /\ s \in Stations /\ Ip[s] # NoIp
    BY <1>1, Parts, StationAssumption DEF FramesUnderWay, FrameOK, Copy
  <2>4. ASSUME ArpReaches(s, f), IsArp(f.body)
        PROVE  Announces(f, PROT_ARP) /\ ~ CutShort(f) /\ f.body.fmt /\ f.body.dst = Ip[s]
    <3>1. Length(f.body) = 28 /\ Found(f, PROT_ARP) /\ Rest(f) >= 28
      BY <2>4, Numbers DEF ArpReaches, Length
    <3> QED
      BY <2>3, <2>4, <3>1, FoundIsAnnounced DEF ArpReaches
  <2>5. ASSUME IpReaches(s, f), f.body.op = "EchoRequest"
        PROVE  CallsForEcho(s, f)
    <3>1. ~ IsArp(f.body) /\ Length(f.body) = f.body.len
      BY <2>5 DEF IsArp, Length
    <3>2. f.body.len \in Nat /\ Found(f, PROT_IP) /\ Rest(f) >= f.body.len
      BY <2>3, <2>5, <3>1, Numbers DEF WellFormed, IpReaches, IpWhole
    <3>3. Announces(f, PROT_IP) /\ ~ CutShort(f)
      BY <2>3, <3>1, <3>2, FoundIsAnnounced
    <3> QED
      BY <2>3, <2>5, <3>3 DEF IpReaches, IpWhole, CallsForEcho
  <2>6. CASE AsksArp(c) \/ AwaitedArp(c)
    <3>1. /\ ArpReaches(s, f) /\ IsArp(f.body)
          /\ \/ f.body.op = "ArpRequest"
             \/ /\ f.body.op = "ArpReply"
                /\ arp_wait_ip[s] # NoIp /\ f.body.src = arp_wait_ip[s]
      BY <2>6 DEF AsksArp, AwaitedArp, IsArp
    <3> QED
      BY <2>4, <3>1 DEF CallsForArp
  <2>7. CASE AsksEcho(c)
    BY <2>5, <2>7 DEF AsksEcho
  <2>8. CASE ~ AsksArp(c) /\ ~ AwaitedArp(c) /\ ~ AsksEcho(c)
    BY <2>1, <2>2, <2>8
       DEF Deliver, ArpRequestIn, ArpReplyIn, EchoRequestIn, EchoReplyIn, Ignored
  <2> QED
    BY <2>6, <2>7, <2>8
<1>2. IInv /\ [Next]_vars =>
        [\A c \in wire \ wire' :
           \/ wire' \subseteq wire
           \/ CallsForArp(c.to, c.frame) \/ CallsForEcho(c.to, c.frame)]_vars
  BY <1>1
<1> QED
  BY <1>2, Invariant, PTL DEF Spec, NoUncalledAnswer
=============================================================================
