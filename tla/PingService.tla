---------------------------- MODULE PingService ----------------------------
(***************************************************************************)
(* What do_ping (main.c) promises its caller, without saying how: a ping   *)
(* is asked for, an answer of that host may or may not arrive, and exactly *)
(* one report is given per ping.  A report "alive" is backed by an answer  *)
(* of the host that was asked for, received during that ping.  NetLoop     *)
(* implements it (NetLoop!Service).                                        *)
(***************************************************************************)
CONSTANTS
  Target,   \* the addresses that can be pinged, the null address included
  Unasked   \* the value of asked before the first ping

VARIABLES
  asked,    \* the address of the latest ping
  heard,    \* whether that address has answered since
  report    \* "none" before the first ping, then "pending", "alive", "dead"

svars == <<asked, heard, report>>

TypeOK ==
  /\ asked \in Target \cup {Unasked}
  /\ heard \in BOOLEAN
  /\ report \in {"none", "pending", "alive", "dead"}

Init ==
  /\ asked = Unasked
  /\ heard = FALSE
  /\ report = "none"

Ask(t) ==
  /\ report # "pending"
  /\ asked' = t
  /\ heard' = FALSE
  /\ report' = "pending"

Answer ==
  /\ report = "pending"
  /\ heard' = TRUE
  /\ UNCHANGED <<asked, report>>

\* An answer is necessary for "alive"; it does not exclude "dead", because
\* a timeout that expires in the same pass of the loop wins over it.
Report ==
  /\ report = "pending"
  /\ \/ heard /\ report' = "alive"
     \/ report' = "dead"
  /\ UNCHANGED <<asked, heard>>

Next == (\E t \in Target : Ask(t)) \/ Answer \/ Report

Spec == Init /\ [][Next]_svars

\* Every ping is reported on.
Reported == report = "pending" ~> report # "pending"
=============================================================================
