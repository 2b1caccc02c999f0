----------------------------- MODULE IpChecksum -----------------------------
(***************************************************************************)
(* net/checksum.c on packets, and what becomes of a packet whose sender     *)
(* fills in the checksum and of which one byte is damaged on the way.  Bytes *)
(* run up to Byte - 1 and words are made of two; Byte is 256 in the code.   *)
(***************************************************************************)
EXTENDS Integers, Sequences

CONSTANTS
  Byte,         \* values of a byte
  Octets,         \* bytes of the packet
  Field         \* the checksum is in bytes Field and Field + 1

ASSUME ChecksumAssumption ==
  /\ Byte \in Nat \ {0, 1, 2}
  /\ Octets \in Nat /\ Octets <= Byte * Byte    \* 64 kbytes: sum is an int
  /\ Field \in Nat /\ Field % 2 = 1 /\ Field < Octets

VARIABLES
  packet,       \* its bytes
  sent,         \* what they were when the checksum had been filled in, or << >>
  stage         \* "built", "sent", "arrived"

checksumVars == <<packet, sent, stage>>

Word == Byte * Byte
Bytes == 0 .. Byte - 1

\* The words of a packet are read with the first byte low; a last odd byte counts as
\* the low byte of a word.
Worth(p, k) == IF k % 2 = 1 THEN p[k] ELSE Byte * p[k]

WordSum(p) ==
  LET upto[k \in 0 .. Len(p)] == IF k = 0 THEN 0 ELSE upto[k - 1] + Worth(p, k)
  IN  upto[Len(p)]

\* The carry of the carry is lost.
FoldOnce(sum) == ((sum \div Word) + (sum % Word)) % Word

Folded(sum) ==
  LET once == (sum \div Word) + (sum % Word)
  IN  (once + (once \div Word)) % Word

Complement(w) == Word - 1 - w

ComputeIpChecksum(p) == Complement(Folded(WordSum(p)))

IpChecksumOk(p) == ComputeIpChecksum(p) \in {0, 1}

Swapped(w) == (w \div Byte) + Byte * (w % Byte)

\* Of a part with the checksum sum and one with the checksum new that follows at offset.
AddIpChecksums(offset, sum, new) ==
  LET added == IF offset % 2 = 1 THEN Swapped(Complement(new)) ELSE Complement(new)
      total == Complement(sum) + added
  IN  Complement(IF total > Word - 1 THEN total - (Word - 1) ELSE total)

ChecksumInit ==
  /\ packet \in [1 .. Octets -> Bytes]
  /\ sent = << >> /\ stage = "built"

\* ip_sum = 0, then ip_sum = compute_ip_checksum, in net_set_udp_header and, for the
\* ICMP header, in ping.c.
FillIn ==
  /\ stage = "built" /\ stage' = "sent"
  /\ LET sum == ComputeIpChecksum([packet EXCEPT ![Field] = 0, ![Field + 1] = 0])
     IN  packet' = [packet EXCEPT ![Field] = sum % Byte, ![Field + 1] = sum \div Byte]
  /\ sent' = packet'

Damage ==
  /\ stage = "sent" /\ stage' = "arrived"
  /\ \E k \in DOMAIN packet, b \in Bytes : b # packet[k] /\ packet' = [packet EXCEPT ![k] = b]
  /\ UNCHANGED sent

ChecksumNext == FillIn \/ Damage

ChecksumSpec == ChecksumInit /\ [][ChecksumNext]_checksumVars

\* Computed over a packet as it was sent, its checksum included, the checksum is 0, and
\* the packet is accepted; with any one byte damaged it is not 0.  And the checksums of
\* two parts, cut anywhere, add up to that of the whole.  That ip_checksum_ok refuses
\* the damaged packet is not said, though it ought to ("true if the checksum matches,
\* false if not", net/net.h:628): its mask lets a checksum of 1 pass for 0.
ChecksumSound ==
  /\ stage = "sent" => ComputeIpChecksum(packet) = 0 /\ IpChecksumOk(packet)
  /\ stage = "arrived" => ComputeIpChecksum(packet) # 0
  /\ \A cut \in 0 .. Octets :
       AddIpChecksums(cut, ComputeIpChecksum(SubSeq(packet, 1, cut)),
                      ComputeIpChecksum(SubSeq(packet, cut + 1, Octets))) = ComputeIpChecksum(packet)
=============================================================================
