------------------------------ MODULE EthList ------------------------------
(***************************************************************************)
(* What net/eth_legacy.c and net/eth_common.c promise about the Ethernet   *)
(* devices: a list in the order of registration, and one of them current.  *)
(* The first device registered is current at once; a device is current for *)
(* as long as there is one; eth_try_another goes round the list.           *)
(***************************************************************************)
EXTENDS Integers, Sequences, SequencesExt

CONSTANTS Devs, NULL

VARIABLES devices, current

listVars == <<devices, current>>

Successor(d) ==
  LET i == CHOOSE i \in 1 .. Len(devices) : devices[i] = d
  IN  devices[(i % Len(devices)) + 1]

ListInit == devices = << >> /\ current = NULL

Add(d) ==
  /\ d \notin ToSet(devices)
  /\ devices' = Append(devices, d)
  /\ current' = IF devices = << >> THEN d ELSE current

Withdraw(d) ==
  /\ d \in ToSet(devices)
  /\ \E k \in DOMAIN devices : devices[k] = d /\ devices' = RemoveAt(devices, k)
  /\ current' = IF current # d THEN current
                ELSE IF devices' = << >> THEN NULL ELSE Head(devices')

Choose ==
  /\ current' \in ToSet(devices)
  /\ UNCHANGED devices

Rotate ==
  /\ current # NULL /\ current' = Successor(current)
  /\ UNCHANGED devices

ListNext == (\E d \in Devs : Add(d) \/ Withdraw(d)) \/ Choose \/ Rotate

ListSpec == ListInit /\ [][ListNext]_listVars
=============================================================================
