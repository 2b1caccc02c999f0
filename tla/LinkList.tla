------------------------------ MODULE LinkList ------------------------------
(***************************************************************************)
(* The doubly linked lists of include/linklist.h.  The nodes of all lists   *)
(* are one record l of two functions, next and prev; a list is known by its *)
(* head, a node like the others.  An operator returns l as its assignments  *)
(* leave it, made in the order of the source, which matters where two of    *)
(* its arguments are the same node.                                        *)
(***************************************************************************)
EXTENDS Walk      \* NULL stands for LIST_POISON1 and LIST_POISON2, too

SetNext(l, n, to) == [l EXCEPT !.next[n] = to]
SetPrev(l, n, to) == [l EXCEPT !.prev[n] = to]

InitListHead(l, n) == SetPrev(SetNext(l, n, n), n, n)

ListAddBetween(l, newitem, prev, next) ==
  SetNext(SetPrev(SetNext(SetPrev(l, next, newitem), newitem, next), newitem, prev),
          prev, newitem)

ListAdd(l, newitem, head) == ListAddBetween(l, newitem, head, l.next[head])

ListAddTail(l, newitem, head) == ListAddBetween(l, newitem, l.prev[head], head)

\* The neighbour after the entry still points back at it.
DelForward(l, prev, next) == SetNext(l, prev, next)

ListDelBetween(l, prev, next) == SetNext(SetPrev(l, next, prev), prev, next)

Unlink(l, entry) == ListDelBetween(l, l.prev[entry], l.next[entry])

ListDel(l, entry) == SetPrev(SetNext(Unlink(l, entry), entry, NULL), entry, NULL)

ListDelInit(l, entry) == InitListHead(Unlink(l, entry), entry)

ListReplace(l, old, newitem) ==
  LET a == SetNext(l, newitem, l.next[old])
      b == SetPrev(a, a.next[newitem], newitem)
      c == SetPrev(b, newitem, b.prev[old])
  IN  SetNext(c, c.prev[newitem], newitem)

ListReplaceInit(l, old, newitem) == InitListHead(ListReplace(l, old, newitem), old)

ListMove(l, entry, head) == ListAdd(Unlink(l, entry), entry, head)

ListMoveTail(l, entry, head) == ListAddTail(Unlink(l, entry), entry, head)

ListIsLast(l, entry, head) == l.next[entry] = head

ListEmpty(l, head) == l.next[head] = head

ListEmptyCareful(l, head) == l.next[head] = head /\ l.prev[head] = head

ListIsSingular(l, head) == ~ListEmpty(l, head) /\ l.next[head] = l.prev[head]

\* What is left of the list still points back at what has been cut off.
CutForward(l, list, head, entry) ==
  LET first == l.next[entry]
      a     == SetNext(l, list, l.next[head])
      b     == SetPrev(a, a.next[list], list)
  IN  SetNext(SetNext(SetPrev(b, list, entry), entry, list), head, first)

\* What comes before entry, and entry, goes from head to list.
CutAt(l, list, head, entry) ==
  LET first == l.next[entry]
      a     == SetNext(l, list, l.next[head])
      b     == SetPrev(a, a.next[list], list)
  IN  SetPrev(SetNext(SetNext(SetPrev(b, list, entry), entry, list), head, first), first, head)

ListCutPosition(l, list, head, entry) ==
  IF \/ ListEmpty(l, head)
     \/ ListIsSingular(l, head) /\ l.next[head] # entry /\ head # entry
  THEN l
  ELSE IF entry = head THEN InitListHead(l, list) ELSE CutAt(l, list, head, entry)

SpliceBetween(l, list, prev, next) ==
  LET first == l.next[list]
      last  == l.prev[list]
  IN  SetPrev(SetNext(SetNext(SetPrev(l, first, prev), prev, first), last, next), next, last)

ListSplice(l, list, head) ==
  IF ListEmpty(l, list) THEN l ELSE SpliceBetween(l, list, head, l.next[head])

ListSpliceTail(l, list, head) ==
  IF ListEmpty(l, list) THEN l ELSE SpliceBetween(l, list, l.prev[head], head)

ListSpliceInit(l, list, head) ==
  IF ListEmpty(l, list) THEN l ELSE InitListHead(ListSplice(l, list, head), list)

ListSpliceTailInit(l, list, head) ==
  IF ListEmpty(l, list) THEN l ELSE InitListHead(ListSpliceTail(l, list, head), list)

\* list_for_each: the nodes it visits.  A walk that meets NULL, or does not come back
\* to its head within as many steps as there are nodes, is not a list.
ListForEach(l, head, size) == Along(l.next, head, {head, NULL}, size)

\* Every node is linked both ways, but for those list_del has poisoned.
Live(l) == {n \in DOMAIN l.next : l.next[n] # NULL}
Linked(l) ==
  \A n \in Live(l) : /\ l.next[n] \in Live(l) /\ l.prev[n] \in Live(l)
                     /\ l.prev[l.next[n]] = n /\ l.next[l.prev[n]] = n
=============================================================================
