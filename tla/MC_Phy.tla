------------------------------- MODULE MC_Phy -------------------------------
(***************************************************************************)
(* Instances of GethPhy.                                                   *)
(***************************************************************************)
EXTENDS GethPhy

MCAddrs == {0, 1}
MCForced == {Mode(100, "HALF")}
MCAbilities == {Mode(10, "FULL"), Mode(100, "HALF"), Mode(100, "FULL"), Mode(1000, "FULL")}
MCPartners == {{Mode(10, "FULL"), Mode(100, "HALF")}, {Mode(100, "FULL"), Mode(1000, "FULL")}}
=============================================================================
