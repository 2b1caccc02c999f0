-------------------------------- MODULE Walk --------------------------------
(***************************************************************************)
(* Lists without a length: the loops of include/linklist.h, and those of    *)
(* net/eth_legacy.c over the ring of devices, follow a field from node to   *)
(* node until they are back where they began.                               *)
(***************************************************************************)
EXTENDS Integers, Sequences

CONSTANT NULL       \* no node

\* The nodes met on the way along next from head, which is not one of them, to the first
\* of stops; the first size of them where the way is longer.
Along(next, head, stops, size) ==
  LET onwards[k \in 0 .. size] ==
        [n \in DOMAIN next \cup stops |->
           IF n \in stops \/ k = 0 THEN << >> ELSE <<n>> \o onwards[k - 1][next[n]]]
  IN  onwards[size][next[head]]
=============================================================================
