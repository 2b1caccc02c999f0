------------------------------- MODULE Alloc --------------------------------
(***************************************************************************)
(* malloc, calloc and memalign of common.c: each cuts blocks off an area of  *)
(* its own, and nothing comes back (free prints).                           *)
(***************************************************************************)
EXTENDS Integers, FiniteSets

CONSTANTS
  AreaSize,     \* 16384 in the code
  AreaAt,       \* where the compiler puts each area: function -> address
  Line,         \* bytes of a cache line
  Sizes, Aligns, \* what is asked for
  MaxBlocks

ASSUME AllocAssumption ==
  /\ AreaSize \in Nat /\ Line \in Nat \ {0} /\ MaxBlocks \in Nat
  /\ Sizes \subseteq Nat /\ Aligns \subseteq Nat \ {0}
  /\ AreaAt \in [{"malloc", "calloc", "memalign"} -> Nat]

VARIABLES
  sz,           \* function -> bytes it has used
  blocks        \* what has been handed out

allocVars == <<sz, blocks>>

AllocInit ==
  /\ sz = [by \in DOMAIN AreaAt |-> 0]
  /\ blocks = {}

\* The gap in front of an aligned block is not counted.
SizeOnly(by, at, size) == sz[by] + size

Used(by, at, size) == at - AreaAt[by] + size

Cut(by, at, size, align) ==
  /\ Cardinality(blocks) < MaxBlocks
  /\ blocks' = blocks \cup {[by |-> by, at |-> at, size |-> size, align |-> align]}
  /\ sz' = [sz EXCEPT ![by] = Used(by, at, size)]

\* No call looks at the end of its area.
Malloc(size) == Cut("malloc", AreaAt["malloc"] + sz["malloc"], size, 1)

Calloc(nelem, elsize) == Cut("calloc", AreaAt["calloc"] + sz["calloc"], nelem * elsize, 1)

MemalignRoundup(alignment, addr) ==
  IF addr % alignment = 0 THEN addr ELSE alignment + addr - (addr % alignment)

Memalign(alignment, size) ==
  Cut("memalign", MemalignRoundup(alignment, AreaAt["memalign"] + sz["memalign"]), size, alignment)

AllocNext ==
  \E size \in Sizes :
    \/ Malloc(size)
    \/ \E nelem \in Sizes : Calloc(nelem, size)
    \/ \E alignment \in Aligns : Memalign(alignment, size)

AllocSpec == AllocInit /\ [][AllocNext]_allocVars

Extent(b) == b.at .. b.at + b.size - 1
Lines(b) == {a \div Line : a \in Extent(b)}
Of(by) == {b \in blocks : b.by = by}

\* The blocks of one function do not overlap and are aligned; those aligned to a cache
\* line, as the descriptors and buffers of geth_initialize are, share no line; and all
\* of them lie in the area as long as the bytes used do not exceed it.
BlocksApart ==
  \A by \in DOMAIN AreaAt : \A b \in Of(by) :
    /\ b.at % b.align = 0
    /\ \A c \in Of(by) : b # c =>
         /\ Extent(b) \cap Extent(c) = {}
         /\ b.align % Line = 0 /\ c.align % Line = 0 => Lines(b) \cap Lines(c) = {}
    /\ sz[by] <= AreaSize => Extent(b) \subseteq AreaAt[by] .. AreaAt[by] + AreaSize - 1
=============================================================================
