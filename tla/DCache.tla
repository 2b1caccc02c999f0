------------------------------- MODULE DCache -------------------------------
(***************************************************************************)
(* The data cache between the processor and a memory that a device reads   *)
(* and writes behind its back, and the two cache operations of common.c.   *)
(*                                                                         *)
(* A line stands for one object that is cleaned and invalidated as a whole *)
(* (a DMA descriptor, a packet buffer).  The state r of the lines is a     *)
(* record: r.mem is what memory holds, r.cpu what the processor reads,     *)
(* r.cached the lines held in the cache, r.dirty those written since they  *)
(* were last written back.  An uncached line reads as memory does.         *)
(***************************************************************************)

Coherent(mem) == [mem |-> mem, cpu |-> mem, cached |-> {}, dirty |-> {}]

\* The processor reads a line: it is in the cache afterwards.
Load(r, l) == [r EXCEPT !.cached = @ \cup {l}]

\* The processor writes a line: the store stays in the cache.
Store(r, l, v) == [r EXCEPT !.cpu[l] = v, !.cached = @ \cup {l},
                            !.dirty = @ \cup {l}]

WrittenBack(r, l) == IF l \in r.dirty THEN [r.mem EXCEPT ![l] = r.cpu[l]] ELSE r.mem

\* flush_dcache_range (dcache.cpa): write back, and keep the line.
Clean(r, l) == [r EXCEPT !.mem = WrittenBack(r, l), !.dirty = @ \ {l}]

\* invalidate_dcache_range (dcache.ipa): drop the line, written back or not.
Invalidate(r, l) == [r EXCEPT !.cpu[l] = r.mem[l], !.cached = @ \ {l},
                              !.dirty = @ \ {l}]

\* The cache replaces a line on its own.
Evict(r, l) == Invalidate(Clean(r, l), l)

\* The device writes memory: a line in the cache goes stale.
DeviceWrite(r, l, v) ==
  [r EXCEPT !.mem[l] = v, !.cpu[l] = IF l \in r.cached THEN @ ELSE v]
=============================================================================
