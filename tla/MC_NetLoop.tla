----------------------------- MODULE MC_NetLoop -----------------------------
(***************************************************************************)
(* Instances of NetLoop: near is on the subnet and answers ARP with one of *)
(* two addresses (it may be replaced while a ping is under way), far is    *)
(* behind the gateway gw and answers no ARP of ours.                       *)
(***************************************************************************)
EXTENDS NetLoop

CONSTANTS near, far, gw, m1, m2, mg

MCHosts == {near, far, gw}
MCOnLink == {near, gw}
MCMacs == {m1, m2, mg}
MCMacsOf == [h \in MCHosts |-> CASE h = near -> {m1, m2}
                                 [] h = gw   -> {mg}
                                 [] OTHER    -> {}]
=============================================================================
