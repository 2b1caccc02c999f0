------------------------------- MODULE Lists -------------------------------
(***************************************************************************)
(* A program that uses every operation of include/linklist.h, in any order,  *)
(* on lists with the heads Heads and the entries Entries, within what each   *)
(* operation's comment allows.  seq is what the lists ought to be.          *)
(***************************************************************************)
EXTENDS LinkList, SequencesExt

CONSTANTS Heads, Entries

ASSUME ListsAssumption == Heads \cap Entries = {} /\ NULL \notin Heads \cup Entries

VARIABLES
  l,            \* the links
  seq           \* the lists: head -> sequence of entries

listVars == <<l, seq>>

Nodes == Heads \cup Entries

ListsInit ==
  /\ l = [next |-> [n \in Nodes |-> IF n \in Heads THEN n ELSE NULL],
          prev |-> [n \in Nodes |-> IF n \in Heads THEN n ELSE NULL]]
  /\ seq = [h \in Heads |-> << >>]

Place(s, e) == CHOOSE k \in DOMAIN s : s[k] = e
Free(e) == \A h \in Heads : e \notin ToSet(seq[h])
Without(e) ==
  [h \in Heads |-> IF e \in ToSet(seq[h]) THEN RemoveAt(seq[h], Place(seq[h], e)) ELSE seq[h]]

Do(links, lists) == l' = links /\ seq' = lists

Adding(h, e) ==
  /\ Free(e)
  /\ \/ Do(ListAdd(l, e, h), [seq EXCEPT ![h] = <<e>> \o @])
     \/ Do(ListAddTail(l, e, h), [seq EXCEPT ![h] = Append(@, e)])

Deleting(e) ==
  /\ ~Free(e)
  /\ Do(ListDel(l, e), Without(e)) \/ Do(ListDelInit(l, e), Without(e))

Replacing(e, newitem) ==
  LET renamed == [h \in Heads |-> [k \in DOMAIN seq[h] |->
                                     IF seq[h][k] = e THEN newitem ELSE seq[h][k]]]
  IN  /\ ~Free(e) /\ Free(newitem)
      /\ \/ Do(ListReplace(l, e, newitem), renamed)
         \/ Do(ListReplaceInit(l, e, newitem), renamed)

Moving(e, h) ==
  /\ ~Free(e)
  /\ \/ Do(ListMove(l, e, h), [Without(e) EXCEPT ![h] = <<e>> \o @])
     \/ Do(ListMoveTail(l, e, h), [Without(e) EXCEPT ![h] = Append(@, e)])

\* "list_add" is to be an empty list, or one whose contents may be lost; entry is on
\* head or is head itself.
Cutting(list, head, entry) ==
  /\ list # head /\ seq[list] = << >>
  /\ entry = head \/ entry \in ToSet(seq[head])
  /\ Do(ListCutPosition(l, list, head, entry),
        LET k == IF entry = head THEN 0 ELSE Place(seq[head], entry)
        IN  [seq EXCEPT ![list] = SubSeq(seq[head], 1, k),
                        ![head] = SubSeq(@, k + 1, Len(@))])

\* Without "init" the head of what was spliced is left as it is and must be made a
\* list again before it is used.
Splicing(list, head) ==
  /\ list # head
  /\ \/ /\ \/ l' = ListSpliceInit(l, list, head)
           \/ l' = InitListHead(ListSplice(l, list, head), list)
        /\ seq' = [seq EXCEPT ![list] = << >>, ![head] = seq[list] \o @]
     \/ /\ \/ l' = ListSpliceTailInit(l, list, head)
           \/ l' = InitListHead(ListSpliceTail(l, list, head), list)
        /\ seq' = [seq EXCEPT ![list] = << >>, ![head] = @ \o seq[list]]

ListsNext ==
  \/ \E h \in Heads, e \in Entries : Adding(h, e) \/ Moving(e, h)
  \/ \E e \in Entries : Deleting(e)
  \/ \E e, newitem \in Entries : Replacing(e, newitem)
  \/ \E list, head \in Heads : Splicing(list, head) \/ \E entry \in Nodes : Cutting(list, head, entry)

\* The nodes on the way from h along next: h, the entries of s, and h again.
Node(h, s, k) == IF k \in DOMAIN s THEN s[k] ELSE h

\* After any calls the nodes of each list are linked both ways in the order in which
\* its entries have been put there, so that a walk either way visits just these; and the
\* tests agree with that.
ListsLinked ==
  \A h \in Heads :
    /\ \A k \in 0 .. Len(seq[h]) :
         /\ l.next[Node(h, seq[h], k)] = Node(h, seq[h], k + 1)
         /\ l.prev[Node(h, seq[h], k + 1)] = Node(h, seq[h], k)
    /\ ListEmpty(l, h) <=> seq[h] = << >>
    /\ ListEmptyCareful(l, h) <=> seq[h] = << >>
    /\ ListIsSingular(l, h) <=> Len(seq[h]) = 1
    /\ \A k \in DOMAIN seq[h] : ListIsLast(l, seq[h][k], h) <=> k = Len(seq[h])
=============================================================================
