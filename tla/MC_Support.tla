----------------------------- MODULE MC_Support -----------------------------
(***************************************************************************)
(* The parts around the stack and the driver, each on its own: an execution *)
(* is about the ring of devices, the MDIO buses, the lists, the timer, the   *)
(* memory or a checksum, as job says, and the others stay as they begin.    *)
(* The devices of the ring are interchangeable.                            *)
(***************************************************************************)
EXTENDS EthRing, MiiBus, Lists, Timer, Alloc, IpChecksum, Decimal, TLC

\* The decimal conversion has no state: it is tried out here.
Tried == (0 .. 12000) \cup (99000 .. 101000) \cup {999999, 1000000, 999900000, 2147483647}
ASSUME PutDecTried == \A n \in Tried : DigitsRight(n)

VARIABLE job

At(part) == job = part

SupportInit ==
  /\ job \in {"ring", "buses", "lists", "timer", "memory", "checksum"}
  /\ Init /\ MiiInit /\ ListsInit /\ TimerInit /\ AllocInit /\ ChecksumInit
  /\ ~At("ring") => \A d \in Devs : enetaddr[d] = "none"
  /\ ~At("timer") => now = 0
  /\ ~At("checksum") => \A k \in 1 .. Octets : packet[k] = 0

SupportNext ==
  /\ UNCHANGED job
  /\ \/ /\ At("ring") /\ Next
        /\ UNCHANGED <<miiVars, listVars, timerVars, allocVars, checksumVars>>
     \/ /\ At("buses") /\ MiiNext
        /\ UNCHANGED <<vars, listVars, timerVars, allocVars, checksumVars>>
     \/ /\ At("lists") /\ ListsNext
        /\ UNCHANGED <<vars, miiVars, timerVars, allocVars, checksumVars>>
     \/ /\ At("timer") /\ TimerNext
        /\ UNCHANGED <<vars, miiVars, listVars, allocVars, checksumVars>>
     \/ /\ At("memory") /\ AllocNext
        /\ UNCHANGED <<vars, miiVars, listVars, timerVars, checksumVars>>
     \/ /\ At("checksum") /\ ChecksumNext
        /\ UNCHANGED <<vars, miiVars, listVars, timerVars, allocVars>>

supportVars ==
  <<job, vars, miiVars, listVars, timerVars, allocVars, checksumVars>>

SupportSpec == SupportInit /\ [][SupportNext]_supportVars

DevSymmetry == Permutations(Devs)
MCStarts == 0 .. 40
MCAreas == [malloc |-> 0, calloc |-> 3, memalign |-> 5]
=============================================================================
