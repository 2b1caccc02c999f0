----------------------------- MODULE MC_EthRing -----------------------------
(***************************************************************************)
(* Instance of EthRing by itself.                                          *)
(***************************************************************************)
EXTENDS EthRing
=============================================================================
