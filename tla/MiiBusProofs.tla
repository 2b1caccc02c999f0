---------------------------- MODULE MiiBusProofs ----------------------------
(***************************************************************************)
(* The list of MDIO buses of net/miiphyutil.c stays linked, and what its    *)
(* operations do is what MiiRegistry promises, for any number of buses,     *)
(* names and devices.  What the links do is taken from ListProofs.          *)
(***************************************************************************)
EXTENDS MiiBus, FiniteSetTheorems, TLAPS

\* The only list, with the buses s on it.
Only(s) == [h \in {mii_devs} |-> s]

L == INSTANCE ListProofs WITH Heads <- {mii_devs}, Entries <- Buses, l <- mii_list,
                            seq <- Only(Walk)

\* A bus that is not on the list: never linked, deleted, or linked with itself.
Alone(links, b) == links.next[b] = NULL \/ (links.next[b] = b /\ links.prev[b] = b)

\* The links are those of a list of the buses s.
Shape(links, s) ==
  /\ L!Rep(links, Only(s))
  /\ \A b \in Buses : b \in ToSet(s) \/ Alone(links, b)

Zeroed == mii_list = [next |-> Zero, prev |-> Zero]

IInv ==
  /\ BusesTypeOK
  /\ Zeroed \/ Shape(mii_list, Walk)
  /\ mode = "boot" => Zeroed
  /\ mode = "up" => Shape(mii_list, Walk)
  /\ ToSet(Walk) \subseteq allocated
  /\ current_mii # NULL => current_mii \in ToSet(Walk)

-----------------------------------------------------------------------------
(* The list.                                                               *)

LEMMA ListsGiven == L!ListsAssumption
BY MiiAssumption DEF L!ListsAssumption

LEMMA SizeIs == Size \in Nat /\ Cardinality(Buses) \in Nat /\ Cardinality(Buses) <= Size
<1>1. IsFiniteSet(Buses) /\ mii_devs \notin Buses
  BY MiiAssumption
<1>2. Cardinality(BusNodes) = Cardinality(Buses) + 1
  BY <1>1, FS_AddElement DEF BusNodes
<1>3. Cardinality(Buses) \in Nat
  BY <1>1, FS_CardinalityType
<1> QED
  BY <1>2, <1>3 DEF Size

\* The walks are given as many steps as the longest list needs.
LEMMA Fits ==
  ASSUME NEW s, L!Distinct(s)
  PROVE  Len(s) <= Size
<1>1. s \in Seq(Buses) /\ Len(s) \in Nat /\ \A j, k \in 1 .. Len(s) : s[j] = s[k] => j = k
  BY DEF L!Distinct
<1>2. IsFiniteSet(1 .. Len(s)) /\ Cardinality(1 .. Len(s)) = Len(s)
  <2> DEFINE n == Len(s)
  <2>1. n \in Int /\ 1 \in Int /\ n >= 0
    BY <1>1
  <2> HIDE DEF n
  <2>2. IsFiniteSet(1 .. n) /\ Cardinality(1 .. n) = IF 1 > n THEN 0 ELSE n - 1 + 1
    BY <2>1, FS_Interval
  <2>3. Cardinality(1 .. n) = n
    BY <2>1, <2>2
  <2> QED
    BY <2>2, <2>3 DEF n
<1>3. s \in [1 .. Len(s) -> Buses]
  BY <1>1
<1>4. ASSUME Cardinality(Buses) < Len(s)
      PROVE  FALSE
  <2>1. Cardinality(Buses) < Cardinality(1 .. Len(s)) /\ IsFiniteSet(Buses)
    BY <1>2, <1>4, MiiAssumption
  <2>2. \E x, y \in 1 .. Len(s) : x # y /\ s[x] = s[y]
    BY <1>2, <1>3, <2>1, FS_PigeonHole
  <2> QED
    BY <1>1, <2>2
<1> QED
  BY <1>1, <1>4, SizeIs

LEMMA ForEachSame ==
  ASSUME NEW links, NEW h, NEW size
  PROVE  L!ListForEach(links, h, size) = ListForEach(links, h, size)
BY Zenon DEF L!ListForEach, ListForEach, L!Along, Along

LEMMA ShapeIs ==
  ASSUME NEW links, NEW s, Shape(links, s)
  PROVE  /\ s \in Seq(Buses) /\ L!Distinct(s) /\ L!Ring(links, mii_devs, s)
         /\ Len(s) \in Nat /\ DOMAIN s = 1 .. Len(s) /\ ToSet(s) \subseteq Buses
         /\ links \in L!Links /\ Only(s)[mii_devs] = s
         /\ Only(s) \in [{mii_devs} -> Seq(Buses)]
<1>1. L!Rep(links, Only(s)) /\ Only(s)[mii_devs] = s /\ mii_devs \in {mii_devs}
  BY DEF Shape, Only
<1>2. /\ L!Distinct(s) /\ L!Ring(links, mii_devs, s) /\ links \in L!Links
      /\ Only(s) \in [{mii_devs} -> Seq(Buses)]
  BY <1>1 DEF L!Rep
<1>3. s \in Seq(Buses)
  BY <1>2 DEF L!Distinct
<1> QED
  BY <1>1, <1>2, <1>3 DEF ToSet

\* Every search visits the buses of the list in their order.
LEMMA WalkIs ==
  ASSUME NEW links, NEW s, Shape(links, s)
  PROVE  ListForEach(links, mii_devs, Size) = s
<1>1. L!Distinct(s) /\ Only(s)[mii_devs] = s
  BY ShapeIs
<1>2. /\ L!Rep(links, Only(s)) /\ mii_devs \in {mii_devs}
      /\ Size \in Nat /\ Len(Only(s)[mii_devs]) <= Size
  BY <1>1, Fits, SizeIs DEF Shape
<1>3. L!ListForEach(links, mii_devs, Size) = Only(s)[mii_devs]
  BY <1>2, ListsGiven, L!ForEachIs, Zenon
<1> QED
  BY <1>1, <1>3, ForEachSame

LEMMA AbsentIs ==
  ASSUME NEW s \in Seq(Buses), NEW b
  PROVE  b \notin ToSet(s) <=> L!Absent(Only(s), b)
BY DEF ToSet, L!Absent, L!On, Only
\* The operations of linklist.h are those ListProofs is about.
LEMMA SameOperations ==
  ASSUME NEW links, NEW b
  PROVE  /\ InitListHead(links, b) = L!InitListHead(links, b)
         /\ ListAddTail(links, b, mii_devs) = L!ListAddTail(links, b, mii_devs)
         /\ ListDel(links, b)
              = L!SetPrev(L!SetNext(L!Unlink(links, b), b, NULL), b, NULL)
<1>1. InitListHead(links, b) = L!InitListHead(links, b)
  BY DEF InitListHead, SetNext, SetPrev, L!InitListHead, L!SetNext, L!SetPrev
<1>2. ListAddTail(links, b, mii_devs) = L!ListAddTail(links, b, mii_devs)
  BY DEF ListAddTail, ListAddBetween, SetNext, SetPrev,
         L!ListAddTail, L!ListAddBetween, L!SetNext, L!SetPrev
<1>3. ListDel(links, b) = L!SetPrev(L!SetNext(L!Unlink(links, b), b, NULL), b, NULL)
  BY DEF ListDel, Unlink, ListDelBetween, SetNext, SetPrev,
         L!Unlink, L!ListDelBetween, L!SetNext, L!SetPrev
<1> QED
  BY <1>1, <1>2, <1>3

\* INIT_LIST_HEAD of a bus that is not on the list.
LEMMA ShapeFresh ==
  ASSUME NEW links, NEW s, Shape(links, s), NEW b \in Buses, b \notin ToSet(s)
  PROVE  Shape(InitListHead(links, b), s)
<1> DEFINE m == L!SetPrev(L!SetNext(links, b, b), b, b)
<1>1. L!Rep(links, Only(s)) /\ L!Absent(Only(s), b) /\ links \in L!Links
  BY ShapeIs, AbsentIs DEF Shape
<1>2. L!Rep(L!InitListHead(links, b), Only(s))
  BY <1>1, ListsGiven, L!InitAbsent
<1>3. InitListHead(links, b) = L!InitListHead(links, b) /\ L!InitListHead(links, b) = m
  BY SameOperations DEF L!InitListHead
<1>4. b \in L!Nodes
  BY DEF L!Nodes
<1>5. /\ m.next[b] = b /\ m.prev[b] = b
      /\ \A x \in L!Nodes \ {b} : m.next[x] = links.next[x] /\ m.prev[x] = links.prev[x]
  BY <1>1, <1>4, ListsGiven, L!SetBothIs
<1> HIDE DEF m
<1>6. ASSUME NEW x \in Buses, x \notin ToSet(s)
      PROVE  Alone(m, x)
  <2>1. Alone(links, x) /\ x \in L!Nodes
    BY <1>6 DEF Shape, L!Nodes
  <2> QED
    BY <1>5, <2>1 DEF Alone
<1> QED
  BY <1>2, <1>3, <1>6 DEF Shape

\* The neighbours of the head are the head or on the list.
LEMMA TailIs ==
  ASSUME NEW links, NEW s, Shape(links, s)
  PROVE  links.prev[mii_devs] = mii_devs \/ links.prev[mii_devs] \in ToSet(s)
<1>1. s \in Seq(Buses) /\ L!Ring(links, mii_devs, s) /\ mii_devs \in {mii_devs}
  BY ShapeIs
<1>2. L!Node(mii_devs, s, Len(s)) = links.prev[mii_devs]
  BY <1>1, ListsGiven, L!NodeEnds
<1> QED
  BY <1>2 DEF L!Node, ToSet

LEMMA AppendedIs ==
  ASSUME NEW s \in Seq(Buses), NEW b \in Buses
  PROVE  ToSet(Append(s, b)) = ToSet(s) \cup {b}
<1>1. Len(Append(s, b)) = Len(s) + 1 /\ DOMAIN Append(s, b) = 1 .. Len(s) + 1 /\ Len(s) \in Nat
  OBVIOUS
<1>2. \A k \in 1 .. Len(s) + 1 : Append(s, b)[k] = IF k = Len(s) + 1 THEN b ELSE s[k]
  OBVIOUS
<1>3. DOMAIN s = 1 .. Len(s) /\ 1 .. Len(s) + 1 = (1 .. Len(s)) \cup {Len(s) + 1}
  BY <1>1
<1> QED
  BY <1>1, <1>2, <1>3 DEF ToSet

\* list_add_tail of a bus that is not on the list.
LEMMA ShapeAdd ==
  ASSUME NEW links, NEW s, Shape(links, s), NEW b \in Buses, b \notin ToSet(s)
  PROVE  Shape(ListAddTail(links, b, mii_devs), Append(s, b))
<1> DEFINE p == links.prev[mii_devs]
           m == L!ListAddBetween(links, b, p, mii_devs)
<1>1. /\ L!Rep(links, Only(s)) /\ L!Absent(Only(s), b) /\ links \in L!Links
      /\ s \in Seq(Buses) /\ mii_devs \in {mii_devs} /\ ToSet(s) \subseteq Buses
  BY ShapeIs, AbsentIs DEF Shape
<1>2. L!Rep(L!ListAddTail(links, b, mii_devs), [Only(s) EXCEPT ![mii_devs] = Append(@, b)])
  BY <1>1, ListsGiven, L!AddStep
<1>3. [Only(s) EXCEPT ![mii_devs] = Append(@, b)] = Only(Append(s, b))
  BY DEF Only
<1>4. ListAddTail(links, b, mii_devs) = m /\ L!ListAddTail(links, b, mii_devs) = m
  BY SameOperations DEF L!ListAddTail
<1>5. /\ b \in L!Nodes /\ p \in L!Nodes /\ mii_devs \in L!Nodes /\ b # p /\ b # mii_devs
      /\ p = mii_devs \/ p \in ToSet(s)
  BY <1>1, TailIs, MiiAssumption DEF L!Nodes
<1>6. m \in L!Links /\ \A x \in L!Nodes :
        /\ m.next[x] = IF x = p THEN b ELSE IF x = b THEN mii_devs ELSE links.next[x]
        /\ m.prev[x] = IF x = b THEN p ELSE IF x = mii_devs THEN b ELSE links.prev[x]
  <2> HIDE DEF p
  <2> QED
    BY <1>1, <1>5, ListsGiven, L!AddBetweenIs, SMT
<1>7. ToSet(Append(s, b)) = ToSet(s) \cup {b}
  BY <1>1, AppendedIs
<1> HIDE DEF m, p
<1>8. ASSUME NEW x \in Buses, x \notin ToSet(Append(s, b))
      PROVE  Alone(m, x)
  <2>1. x \notin ToSet(s) /\ x # b /\ x # mii_devs /\ x # p /\ x \in L!Nodes
    BY <1>5, <1>7, <1>8, MiiAssumption DEF L!Nodes
  <2>2. m.next[x] = links.next[x] /\ m.prev[x] = links.prev[x]
    BY <1>6, <2>1
  <2>3. Alone(links, x)
    BY <2>1 DEF Shape
  <2> QED
    BY <2>2, <2>3 DEF Alone
<1> QED
  BY <1>2, <1>3, <1>4, <1>8 DEF Shape
\* A bus is linked with another node just when it is on the list.
LEMMA RegisteredIs ==
  ASSUME NEW links, NEW s, Shape(links, s), NEW b \in Buses
  PROVE  /\ b \in ToSet(s) => /\ links.next[b] \notin {b, NULL}
                              /\ links.next[b] \in {mii_devs} \cup ToSet(s)
                              /\ links.prev[b] \in {mii_devs} \cup ToSet(s)
                              /\ links.prev[links.next[b]] = b
                              /\ links.next[links.prev[b]] = b
         /\ b \notin ToSet(s) => links.next[b] \in {b, NULL}
<1>1. b \notin ToSet(s) => links.next[b] \in {b, NULL}
  BY DEF Shape, Alone
<1>2. ASSUME b \in ToSet(s)
      PROVE  /\ links.next[b] \notin {b, NULL} /\ links.next[b] \in {mii_devs} \cup ToSet(s)
             /\ links.prev[b] \in {mii_devs} \cup ToSet(s)
             /\ links.prev[links.next[b]] = b /\ links.next[links.prev[b]] = b
  <2>1. L!Rep(links, Only(s)) /\ mii_devs \in {mii_devs} /\ Only(s)[mii_devs] = s
        /\ ToSet(s) \subseteq Buses /\ DOMAIN s = 1 .. Len(s)
    BY ShapeIs DEF Shape
  <2>2. PICK k \in 1 .. Len(s) : s[k] = b
    BY <1>2, <2>1 DEF ToSet
  <2> DEFINE p == L!Node(mii_devs, s, k - 1)
             n == L!Node(mii_devs, s, k + 1)
  <2>3. /\ b # n /\ links.prev[b] = p /\ links.next[b] = n
        /\ links.next[p] = b /\ links.prev[n] = b
        /\ p = mii_devs \/ \E j \in 1 .. Len(s) : p = s[j]
        /\ n = mii_devs \/ \E j \in 1 .. Len(s) : n = s[j]
    <3>1. s \in Seq(Buses) /\ L!Distinct(s) /\ L!Ring(links, mii_devs, s) /\ Len(s) \in Nat
      BY ShapeIs
    <3>2. /\ L!Node(mii_devs, s, k) = b
          /\ p = IF 1 <= k - 1 /\ k - 1 <= Len(s) THEN s[k - 1] ELSE mii_devs
          /\ n = IF 1 <= k + 1 /\ k + 1 <= Len(s) THEN s[k + 1] ELSE mii_devs
      BY <2>1, <2>2, <3>1, ListsGiven, L!NodeIs
    <3>3. k - 1 \in 0 .. Len(s) /\ k \in 0 .. Len(s) /\ (k - 1) + 1 = k /\ k \in Int
      BY <2>2, <3>1
    <3>4. /\ links.prev[b] = p /\ links.next[b] = n
          /\ links.next[p] = b /\ links.prev[n] = b
      BY <3>1, <3>2, <3>3 DEF L!Ring
    <3>5. b # n
      BY <2>1, <2>2, <3>1, <3>2, <3>3, ListsGiven, L!NodesApart
    <3> QED
      BY <3>1, <3>2, <3>3, <3>4, <3>5
  <2> HIDE DEF p, n
  <2>4. n \in {mii_devs} \cup ToSet(s) /\ p \in {mii_devs} \cup ToSet(s)
    BY <2>1, <2>3 DEF ToSet
  <2>5. n # NULL
    BY <2>1, <2>4, MiiAssumption
  <2> QED
    BY <2>3, <2>4, <2>5
<1> QED
  BY <1>1, <1>2

\* list_del of a bus that is on the list, and of one that is linked with itself.
LEMMA ShapeDel ==
  ASSUME NEW links, NEW s, Shape(links, s), NEW b \in Buses, links.next[b] # NULL
  PROVE  \/ /\ b \notin ToSet(s) /\ Shape(ListDel(links, b), s)
         \/ \E k \in DOMAIN s :
              /\ s[k] = b /\ Shape(ListDel(links, b), RemoveAt(s, k))
              /\ ToSet(RemoveAt(s, k)) = ToSet(s) \ {b}
<1> DEFINE d == L!Unlink(links, b)
           m == L!SetPrev(L!SetNext(d, b, NULL), b, NULL)
<1>1. /\ L!Rep(links, Only(s)) /\ links \in L!Links /\ s \in Seq(Buses) /\ L!Distinct(s)
      /\ mii_devs \in {mii_devs} /\ ToSet(s) \subseteq Buses /\ Only(s)[mii_devs] = s
      /\ DOMAIN s = 1 .. Len(s) /\ Len(s) \in Nat
  BY ShapeIs DEF Shape
<1>2. ListDel(links, b) = m
  BY SameOperations
<1>3. b \in L!Nodes /\ NULL \in L!Nodes \cup {NULL}
  BY DEF L!Nodes
<1>4. ASSUME d \in L!Links
      PROVE  /\ m \in L!Links /\ m.next[b] = NULL /\ m.prev[b] = NULL
             /\ \A x \in L!Nodes \ {b} : m.next[x] = d.next[x] /\ m.prev[x] = d.prev[x]
  <2> HIDE DEF d
  <2> QED
    BY <1>3, <1>4, ListsGiven, L!SetBothIs, SMT
<1>5. CASE b \notin ToSet(s)
  <2>1. links.next[b] = b /\ links.prev[b] = b
    BY <1>5 DEF Shape, Alone
  <2>2. d \in L!Links /\ \A x \in L!Nodes : d.next[x] = links.next[x] /\ d.prev[x] = links.prev[x]
    <3>1. d = L!ListDelBetween(links, b, b)
      BY <2>1 DEF L!Unlink
    <3> QED
      BY <1>1, <1>3, <2>1, <3>1, ListsGiven, L!UnlinkIs
  <2> HIDE DEF d
  <2>3. m \in L!Links /\ \A x \in L!Nodes \ {b} : m.next[x] = links.next[x] /\ m.prev[x] = links.prev[x]
    BY <1>4, <2>2
  <2>4. m.next[b] = NULL
    BY <1>4, <2>2
  <2> HIDE DEF m
  <2>5. L!Absent(Only(s), b)
    BY <1>1, <1>5, AbsentIs
  <2>6. L!Rep(m, Only(s))
    BY <1>1, <2>3, <2>5, ListsGiven, L!RepAbsent
  <2>7. \A x \in Buses : x \in ToSet(s) \/ Alone(m, x)
    BY <2>3, <2>4 DEF Shape, Alone, L!Nodes
  <2> QED
    BY <1>2, <1>5, <2>6, <2>7 DEF Shape
<1>6. CASE b \in ToSet(s)
  <2>1. PICK k \in 1 .. Len(s) : s[k] = b
    BY <1>1, <1>6 DEF ToSet
  <2> DEFINE u == RemoveAt(s, k)
  <2>2. L!Removed(s, k, u)
    <3>1. L!Removed(s, k, L!RemoveAt(s, k))
      BY <1>1, <2>1, ListsGiven, L!PlaceIs
    <3>2. u = L!RemoveAt(s, k)
      BY DEF RemoveAt, L!RemoveAt
    <3> QED
      BY <3>1, <3>2
  <2> HIDE DEF u
  <2>3. u \in Seq(Buses) /\ Len(u) = Len(s) - 1
        /\ \A j \in 1 .. Len(u) : u[j] = IF j < k THEN s[j] ELSE s[j + 1]
    BY <2>2 DEF L!Removed
  <2>4. ToSet(u) = ToSet(s) \ {b}
    <3>1. DOMAIN u = 1 .. Len(s) - 1
      BY <1>1, <2>3
    <3>2. \A x \in ToSet(u) : x \in ToSet(s) \ {b}
      <4>1. \A j \in 1 .. Len(u) : u[j] # s[k] /\ \E i \in 1 .. Len(s) : u[j] = s[i]
        BY <1>1, <2>1, <2>2, ListsGiven, L!RemovedIs
      <4> QED
        BY <1>1, <2>1, <2>3, <3>1, <4>1 DEF ToSet
    <3>3. ASSUME NEW i \in 1 .. Len(s), i # k
          PROVE  s[i] \in ToSet(u)
      <4>1. CASE i < k
        BY <1>1, <2>1, <2>3, <3>1, <4>1 DEF ToSet
      <4>2. CASE i > k
        <5>1. i - 1 \in 1 .. Len(s) - 1 /\ ~(i - 1 < k) /\ (i - 1) + 1 = i
          BY <1>1, <2>1, <4>2
        <5>2. u[i - 1] = s[i]
          BY <2>3, <5>1
        <5> QED
          BY <3>1, <5>1, <5>2 DEF ToSet
      <4> QED
        BY <2>1, <3>3, <4>1, <4>2
    <3> QED
      BY <1>1, <2>1, <3>2, <3>3 DEF ToSet
  <2>5. /\ L!Rep(d, Only(u)) /\ L!Absent(Only(u), b)
    <3>1. [Only(s) EXCEPT ![mii_devs] = u] = Only(u)
      BY DEF Only
    <3>2. k \in 1 .. Len(Only(s)[mii_devs]) /\ Only(s)[mii_devs][k] = b
          /\ L!Removed(Only(s)[mii_devs], k, u)
      BY <1>1, <2>1, <2>2
    <3>3. /\ L!Rep(L!Unlink(links, Only(s)[mii_devs][k]), [Only(s) EXCEPT ![mii_devs] = u])
          /\ L!Absent([Only(s) EXCEPT ![mii_devs] = u], Only(s)[mii_devs][k])
      BY <1>1, <3>2, ListsGiven, L!UnlinkRep
    <3> QED
      BY <3>1, <3>2, <3>3
  <2>6. d \in L!Links /\ L!Rep(m, Only(u))
    <3> HIDE DEF d
    <3>1. d \in L!Links
      BY <2>5 DEF L!Rep
    <3>2. L!Rep(m, Only(u))
      BY <2>5, ListsGiven, L!InitAbsent
    <3> QED
      BY <3>1, <3>2
  <2>7. \A x \in L!Nodes \ ({mii_devs} \cup ToSet(s)) :
          d.next[x] = links.next[x] /\ d.prev[x] = links.prev[x]
    <3> DEFINE p == links.prev[b]
               n == links.next[b]
    <3>1. p \in {mii_devs} \cup ToSet(s) /\ n \in {mii_devs} \cup ToSet(s)
      BY <1>6, RegisteredIs
    <3>2. p \in L!Nodes /\ n \in L!Nodes
      BY <1>1, <3>1 DEF L!Nodes
    <3>3. d = L!ListDelBetween(links, p, n)
      BY DEF L!Unlink
    <3> HIDE DEF d, p, n
    <3>4. \A x \in L!Nodes : /\ d.next[x] = IF x = p THEN n ELSE links.next[x]
                            /\ d.prev[x] = IF x = n THEN p ELSE links.prev[x]
      BY <1>1, <3>2, <3>3, ListsGiven, L!UnlinkIs, SMT
    <3> QED
      BY <3>1, <3>4
  <2>8. ASSUME NEW x \in Buses, x \notin ToSet(u)
        PROVE  Alone(m, x)
    <3>1. m.next[b] = NULL
      BY <1>4, <2>6
    <3>2. CASE x # b
      <4>1. x \in L!Nodes \ ({mii_devs} \cup ToSet(s)) /\ x \in L!Nodes \ {b} /\ Alone(links, x)
        BY <2>4, <2>8, <3>2, MiiAssumption DEF L!Nodes, Shape
      <4> HIDE DEF d
      <4>2. m.next[x] = d.next[x] /\ m.prev[x] = d.prev[x]
        BY <1>4, <2>6, <4>1
      <4> HIDE DEF m
      <4> QED
        BY <2>7, <4>1, <4>2 DEF Alone
    <3> QED
      BY <3>1, <3>2 DEF Alone
  <2> HIDE DEF m
  <2>9. Shape(ListDel(links, b), u)
    BY <1>2, <2>6, <2>8 DEF Shape
  <2> QED
    BY <1>1, <2>1, <2>4, <2>9 DEF u
<1> QED
  BY <1>5, <1>6
\* Nothing is on the list before miiphy_init, and nothing right after it.
LEMMA ZeroedIs ==
  ASSUME Zeroed
  PROVE  /\ Walk = << >>
         /\ Shape(InitListHead(mii_list, mii_devs), << >>)
<1> DEFINE s == << >>
           stops == {mii_devs, NULL}
           at == <<NULL>>
           m == L!SetPrev(L!SetNext(mii_list, mii_devs, mii_devs), mii_devs, mii_devs)
<1>1. s \in Seq(Buses) /\ Len(s) = 0 /\ ToSet(s) = {} /\ L!Distinct(s)
  BY DEF ToSet, L!Distinct
<1>2. mii_list.next = Zero /\ mii_list.prev = Zero /\ mii_devs \in BusNodes /\ BusNodes = L!Nodes
  BY DEF Zeroed, BusNodes, L!Nodes
<1>3. L!Along(mii_list.next, mii_devs, stops, Size) = s
  <2>1. mii_list.next[mii_devs] = NULL
    BY <1>2 DEF Zero
  <2>2. L!Way(mii_list.next, mii_devs, stops, s, at)
    BY <1>1, <2>1 DEF L!Way
  <2> HIDE DEF stops, s, at
  <2>3. s \in Seq(Buses) /\ Len(s) <= Size /\ Size \in Nat
    BY <1>1, SizeIs
  <2> QED
    BY <2>2, <2>3, ListsGiven, L!AlongIs, Zenon
<1>4. Walk = s
  <2> HIDE DEF s
  <2>1. Walk = L!ListForEach(mii_list, mii_devs, Size)
    BY ForEachSame DEF Walk
  <2> QED
    BY <1>3, <2>1 DEF L!ListForEach
<1>5. mii_list \in L!Links
  BY <1>2 DEF Zeroed, Zero, L!Links
<1>6. /\ m \in L!Links /\ m.next[mii_devs] = mii_devs /\ m.prev[mii_devs] = mii_devs
      /\ \A x \in L!Nodes \ {mii_devs} : m.next[x] = mii_list.next[x] /\ m.prev[x] = mii_list.prev[x]
  BY <1>2, <1>5, ListsGiven, L!SetBothIs
<1>7. InitListHead(mii_list, mii_devs) = m
  BY SameOperations DEF L!InitListHead
<1> HIDE DEF m, s
<1>8. L!Rep(m, Only(s))
  <2>1. /\ Only(s) \in [{mii_devs} -> Seq(Buses)] /\ \A h \in {mii_devs} : Only(s)[h] = s
    BY <1>1 DEF Only
  <2>2. L!Ring(m, mii_devs, s)
    BY <1>1, <1>6, ListsGiven, L!EmptyRing
  <2>3. L!Apart(Only(s))
    BY DEF L!Apart
  <2> QED
    BY <1>1, <1>6, <2>1, <2>2, <2>3 DEF L!Rep
<1>9. \A b \in Buses : Alone(m, b)
  BY <1>2, <1>6, MiiAssumption DEF Alone, Zero, BusNodes
<1> QED
  BY <1>4, <1>7, <1>8, <1>9 DEF Shape, s

\* A search returns a bus of the list that is wanted, or NULL when there is none.
LEMMA FirstIs ==
  ASSUME Walk \in Seq(Buses), NEW wanted
  PROVE  \/ First(wanted) = NULL /\ ToSet(Walk) \cap wanted = {}
         \/ First(wanted) \in ToSet(Walk) \cap wanted
<1> DEFINE found == {i \in 1 .. Len(Walk) : Walk[i] \in wanted}
           k == SelectInSeq(Walk, LAMBDA b : b \in wanted)
<1>1. DOMAIN Walk = 1 .. Len(Walk) /\ Len(Walk) \in Nat
  OBVIOUS
<1>2. k = IF found # {} THEN Min(found) ELSE 0
  BY DEF SelectInSeq
<1>3. First(wanted) = IF k = 0 THEN NULL ELSE Walk[k]
  BY DEF First
<1> HIDE DEF k
<1>4. CASE found = {}
  BY <1>1, <1>2, <1>3, <1>4 DEF ToSet
<1>5. CASE found # {}
  <2>1. found \in SUBSET Nat
    BY <1>1
  <2>2. \E i \in found : \A j \in found : i <= j
    BY <1>5, <2>1, ListsGiven, L!Least
  <2> HIDE DEF found
  <2>3. Min(found) \in found
    BY <2>2 DEF Min
  <2>4. k \in found
    BY <1>2, <1>5, <2>3
  <2>5. k \in 1 .. Len(Walk) /\ Walk[k] \in wanted
    BY <2>4 DEF found
  <2>6. First(wanted) = Walk[k]
    BY <1>1, <1>3, <2>5
  <2> QED
    BY <1>1, <2>5, <2>6 DEF ToSet
<1> QED
  BY <1>4, <1>5

LEMMA ShapeLinked ==
  ASSUME Zeroed \/ Shape(mii_list, Walk)
  PROVE  Linked(mii_list) /\ \A b \in ToSet(Walk) : mii_list.next[b] # NULL
<1>1. CASE Zeroed
  <2>1. Live(mii_list) = {}
    BY <1>1 DEF Live, Zeroed, Zero
  <2>2. ToSet(Walk) = {}
    BY <1>1, ZeroedIs DEF ToSet
  <2> QED
    BY <2>1, <2>2 DEF Linked
<1>2. CASE Shape(mii_list, Walk)
  <2>1. ToSet(Walk) \subseteq Buses /\ mii_list \in L!Links /\ L!Ring(mii_list, mii_devs, Walk)
        /\ Walk \in Seq(Buses) /\ L!Rep(mii_list, Only(Walk)) /\ Len(Walk) \in Nat
        /\ DOMAIN Walk = 1 .. Len(Walk)
    BY <1>2, ShapeIs DEF Shape
  <2>2. DOMAIN mii_list.next = {mii_devs} \cup Buses
    BY <2>1, ListsGiven, L!LinkFields DEF L!Nodes
  <2>3. /\ mii_list.next[mii_devs] \in {mii_devs} \cup ToSet(Walk)
        /\ mii_list.prev[mii_devs] \in {mii_devs} \cup ToSet(Walk)
        /\ mii_list.prev[mii_list.next[mii_devs]] = mii_devs /\ mii_list.next[mii_list.prev[mii_devs]] = mii_devs
    <3> DEFINE s == Walk
    <3>1. /\ \A j \in Int : L!Node(mii_devs, s, j)
                              = IF 1 <= j /\ j <= Len(s) THEN s[j] ELSE mii_devs
          /\ 0 \in 0 .. Len(s) /\ Len(s) \in 0 .. Len(s) /\ 0 + 1 = 1 /\ Len(s) \in Int
      BY <2>1, ListsGiven, L!NodeIs
    <3>2. /\ mii_list.next[L!Node(mii_devs, s, 0)] = L!Node(mii_devs, s, 1)
          /\ mii_list.prev[L!Node(mii_devs, s, 1)] = L!Node(mii_devs, s, 0)
          /\ mii_list.next[L!Node(mii_devs, s, Len(s))] = L!Node(mii_devs, s, Len(s) + 1)
          /\ mii_list.prev[L!Node(mii_devs, s, Len(s) + 1)] = L!Node(mii_devs, s, Len(s))
      BY <2>1, <3>1 DEF L!Ring
    <3>3. /\ L!Node(mii_devs, s, 0) = mii_devs /\ L!Node(mii_devs, s, Len(s) + 1) = mii_devs
          /\ L!Node(mii_devs, s, 1) \in {mii_devs} \cup ToSet(s)
          /\ L!Node(mii_devs, s, Len(s)) \in {mii_devs} \cup ToSet(s)
      BY <2>1, <3>1 DEF ToSet
    <3> QED
      BY <3>2, <3>3
  <2>4. ASSUME NEW n \in Live(mii_list)
        PROVE  /\ mii_list.next[n] \in Live(mii_list) /\ mii_list.prev[n] \in Live(mii_list)
               /\ mii_list.prev[mii_list.next[n]] = n /\ mii_list.next[mii_list.prev[n]] = n
    <3>1. n \in {mii_devs} \cup Buses /\ mii_list.next[n] # NULL
      BY <2>2 DEF Live
    <3>2. {mii_devs} \cup ToSet(Walk) \subseteq Live(mii_list)
      BY <1>2, <2>1, <2>2, <2>3, RegisteredIs, MiiAssumption DEF Live
    <3>3. CASE n \in {mii_devs} \cup ToSet(Walk)
      BY <1>2, <2>1, <2>3, <3>2, <3>3, RegisteredIs
    <3>4. CASE n \in Buses \ ToSet(Walk)
      BY <1>2, <3>1, <3>4 DEF Shape, Alone
    <3> QED
      BY <3>1, <3>3, <3>4
  <2> QED
    BY <1>2, <2>1, <2>4, RegisteredIs DEF Linked
<1> QED
  BY <1>1, <1>2

-----------------------------------------------------------------------------
(* The actions.                                                            *)

Steps == [Registry!RegistryNext]_(Registry!registryVars)

LEMMA SameSequences ==
  ASSUME NEW s, NEW k
  PROVE  Registry!ToSet(s) = ToSet(s) /\ Registry!RemoveAt(s, k) = RemoveAt(s, k)
BY DEF ToSet, RemoveAt, Registry!ToSet, Registry!RemoveAt

LEMMA UpIs ==
  ASSUME IInv, mode = "up"
  PROVE  /\ Shape(mii_list, Walk) /\ Walk \in Seq(Buses) /\ DOMAIN Walk = 1 .. Len(Walk)
         /\ ToSet(Walk) \subseteq Buses /\ NULL \notin Buses
         /\ current_mii \in ToSet(Walk) \cup {NULL}
BY ShapeIs, MiiAssumption DEF IInv

\* What a step leaves of the list is all that IInv asks of the links.
LEMMA LinksNext ==
  ASSUME NEW s, Shape(mii_list', s)
  PROVE  /\ Walk' = s /\ Shape(mii_list', Walk')
         /\ mii_list' \in LinksOfBuses
<1>1. Walk' = s
  BY WalkIs DEF Walk
<1>2. mii_list' \in L!Links /\ L!Nodes = BusNodes
  BY ShapeIs DEF L!Nodes, BusNodes
<1> QED
  BY <1>1, <1>2 DEF L!Links, LinksOfBuses

LEMMA InitHolds == MiiInit => IInv /\ Registry!RegistryInit
<1> SUFFICES ASSUME MiiInit PROVE IInv /\ Registry!RegistryInit
  OBVIOUS
<1>1. Zeroed /\ Walk = << >> /\ ToSet(Walk) = {}
  BY ZeroedIs DEF MiiInit, Zeroed, ToSet
<1>2. BusesTypeOK
  BY DEF MiiInit, BusesTypeOK, Zero, LinksOfBuses
<1> QED
  BY <1>1, <1>2 DEF MiiInit, IInv, Registry!RegistryInit

LEMMA StutterStep == IInv /\ UNCHANGED miiVars => IInv'
<1> SUFFICES ASSUME IInv, UNCHANGED miiVars PROVE IInv'
  OBVIOUS
<1>1. Walk' = Walk
  BY DEF Walk, miiVars
<1> QED
  BY <1>1 DEF miiVars, IInv, BusesTypeOK, Zeroed

LEMMA MiiphyInitStep == IInv /\ MiiphyInit => IInv' /\ Steps
<1> SUFFICES ASSUME IInv, MiiphyInit PROVE IInv' /\ Steps
  OBVIOUS
<1>1. Zeroed /\ Walk = << >> /\ Shape(mii_list', << >>)
  BY ZeroedIs DEF IInv, MiiphyInit
<1>2. Walk' = << >> /\ Shape(mii_list', Walk')
      /\ mii_list' \in LinksOfBuses
  BY <1>1, LinksNext
<1>3. ToSet(Walk) = {} /\ ToSet(Walk') = {}
  BY <1>1, <1>2 DEF ToSet
<1>4. current_mii = NULL
  BY <1>3 DEF IInv
<1>5. BusesTypeOK'
  BY <1>2 DEF IInv, BusesTypeOK, MiiphyInit
<1>6. IInv'
  BY <1>2, <1>3, <1>5 DEF IInv, MiiphyInit
<1>7. Steps
  BY <1>1, <1>2, <1>4 DEF Steps, Registry!registryVars, MiiphyInit
<1> QED
  BY <1>6, <1>7

LEMMA TooEarlyStep == IInv /\ TooEarly => IInv' /\ Steps
<1> SUFFICES ASSUME IInv, TooEarly PROVE IInv' /\ Steps
  OBVIOUS
<1>1. Walk' = Walk
  BY DEF Walk, TooEarly
<1> QED
  BY <1>1 DEF TooEarly, IInv, BusesTypeOK, Zeroed, Steps, Registry!registryVars

LEMMA MdioAllocStep ==
  ASSUME IInv, NEW b \in Buses, MdioAlloc(b)
  PROVE  IInv' /\ Steps
<1>1. b \notin ToSet(Walk) /\ Shape(mii_list, Walk)
  BY UpIs DEF IInv, MdioAlloc
<1>2. Walk' = Walk /\ Shape(mii_list', Walk')
      /\ mii_list' \in LinksOfBuses
  BY <1>1, ShapeFresh, LinksNext DEF MdioAlloc
<1>3. BusesTypeOK'
  BY <1>2 DEF IInv, BusesTypeOK, MdioAlloc
<1>4. IInv'
  BY <1>2, <1>3 DEF IInv, MdioAlloc
<1>5. Steps
  BY <1>2 DEF Steps, Registry!registryVars, MdioAlloc
<1> QED
  BY <1>4, <1>5

\* list_add_tail of a bus with a name nobody has.
LEMMA Registering ==
  ASSUME IInv, mode = "up", mode' = mode, NEW b \in Buses, b \notin ToSet(Walk),
         NEW links, Shape(links, Walk), mii_list' = ListAddTail(links, b, mii_devs),
         NEW n \in Names, MiiphyGetDevByName(n) = NULL, name' = [name EXCEPT ![b] = n],
         b \in allocated', allocated \subseteq allocated', allocated' \subseteq Buses,
         access' \subseteq allocated', BecomesCurrent(b), UNCHANGED <<connected, served>>
  PROVE  IInv' /\ Steps
<1>1. /\ Walk \in Seq(Buses) /\ ToSet(Walk) \subseteq Buses /\ DOMAIN Walk = 1 .. Len(Walk)
      /\ NULL \notin Buses
  BY UpIs
<1>2. Walk' = Append(Walk, b) /\ Shape(mii_list', Walk')
      /\ mii_list' \in LinksOfBuses
  BY ShapeAdd, LinksNext
<1>3. ToSet(Walk') = ToSet(Walk) \cup {b}
  BY <1>1, <1>2, AppendedIs
<1>4. \A c \in ToSet(Walk) : name[c] # n
  <2>1. ToSet(Walk) \cap {c \in Buses : name[c] = n} = {}
    BY <1>1, FirstIs DEF MiiphyGetDevByName
  <2> QED
    BY <1>1, <2>1
<1>5. BusesTypeOK'
  BY <1>2 DEF IInv, BusesTypeOK, BecomesCurrent
<1>6. IInv'
  <2>3. ToSet(Walk') \subseteq allocated'
    BY <1>3 DEF IInv
  <2>4. current_mii' # NULL => current_mii' \in ToSet(Walk')
    BY <1>3 DEF IInv, BecomesCurrent
  <2> QED
    BY <1>2, <1>5, <2>3, <2>4 DEF IInv
<1>7. Registry!Register(b, n)
  <2>1. Registry!Called(n) = {} /\ b \notin Registry!ToSet(Walk)
    BY <1>4, SameSequences DEF Registry!Called
  <2> QED
    BY <1>2, <2>1 DEF Registry!Register, BecomesCurrent
<1> QED
  BY <1>6, <1>7 DEF Steps, Registry!RegistryNext

LEMMA MiiphyRegisterStep ==
  ASSUME IInv, NEW b \in Buses, NEW n \in Names, MiiphyRegister(b, n)
  PROVE  IInv' /\ Steps
<1> DEFINE links == InitListHead(mii_list, b)
<1>1. b \notin ToSet(Walk) /\ Shape(mii_list, Walk) /\ mode = "up" /\ mode' = mode
  BY UpIs DEF IInv, MiiphyRegister
<1>2. Shape(links, Walk)
  BY <1>1, ShapeFresh
<1>3. /\ allocated \subseteq Buses /\ access \subseteq allocated
  BY DEF IInv, BusesTypeOK
<1>4. /\ mii_list' = ListAddTail(links, b, mii_devs) /\ MiiphyGetDevByName(n) = NULL
      /\ name' = [name EXCEPT ![b] = n] /\ b \in allocated' /\ allocated \subseteq allocated'
      /\ allocated' \subseteq Buses /\ access' \subseteq allocated' /\ BecomesCurrent(b)
      /\ UNCHANGED <<connected, served>>
  BY <1>3 DEF MiiphyRegister
<1> HIDE DEF links
<1> QED
  BY <1>1, <1>2, <1>4, Registering

\* What mdio_register has found out when it does not refuse.
LEMMA MayRegisterIs ==
  ASSUME IInv, mode = "up", NEW b \in Buses, NEW n \in Names, MayRegister(b, n)
  PROVE  b \in access /\ b \notin ToSet(Walk) /\ MiiphyGetDevByName(n) = NULL
<1> DEFINE wider == {c \in Buses : c = b \/ name[c] = n}
           wanted == {c \in Buses : name[c] = n}
<1>1. /\ Walk \in Seq(Buses) /\ ToSet(Walk) \subseteq Buses /\ NULL \notin Buses
  BY UpIs
<1>2. b \in access /\ First(wider) = NULL
  BY DEF MayRegister
<1>3. wanted \subseteq wider /\ b \in wider
  OBVIOUS
<1>4. MiiphyGetDevByName(n) = First(wanted)
  BY DEF MiiphyGetDevByName
<1> HIDE DEF wider, wanted
<1>5. ToSet(Walk) \cap wider = {}
  BY <1>1, <1>2, FirstIs
<1>6. First(wanted) = NULL
  BY <1>1, <1>3, <1>5, FirstIs
<1> QED
  BY <1>2, <1>3, <1>4, <1>5, <1>6

LEMMA MdioRegisterStep ==
  ASSUME IInv, NEW b \in Buses, MdioRegister(b)
  PROVE  IInv' /\ Steps
<1> DEFINE n == name[b]
<1>1. Shape(mii_list, Walk) /\ mode = "up" /\ mode' = mode /\ Walk \in Seq(Buses)
  BY UpIs DEF MdioRegister
<1>2. name \in [Buses -> Names \cup {NULL}] /\ allocated \subseteq Buses /\ access \subseteq allocated
  BY DEF IInv, BusesTypeOK
<1>3. n \in Names /\ MayRegister(b, n)
  BY <1>2 DEF MdioRegister
<1>4. b \in access /\ b \notin ToSet(Walk) /\ MiiphyGetDevByName(n) = NULL
  BY <1>1, <1>3, MayRegisterIs
<1>5. name' = [name EXCEPT ![b] = n]
  BY <1>2 DEF MdioRegister
<1>6. /\ mii_list' = ListAddTail(mii_list, b, mii_devs) /\ b \in allocated' /\ allocated \subseteq allocated'
      /\ allocated' \subseteq Buses /\ access' \subseteq allocated' /\ BecomesCurrent(b)
      /\ UNCHANGED <<connected, served>>
  BY <1>2 DEF MdioRegister, AddToList
<1> HIDE DEF n
<1> QED
  BY <1>1, <1>3, <1>4, <1>5, <1>6, Registering

\* A bus may be given any name, on the list or not.
LEMMA Renaming ==
  ASSUME IInv, mode = "up", mode' = mode, NEW b \in Buses,
         NEW n \in Names, name' = [name EXCEPT ![b] = n], access' \subseteq allocated',
         UNCHANGED <<mii_list, allocated, connected, current_mii, served>>
  PROVE  IInv' /\ Steps
<1>1. Walk' = Walk
  BY DEF Walk
<1>3. IInv'
  <2>1. BusesTypeOK'
    BY DEF IInv, BusesTypeOK
  <2> QED
    BY <1>1, <2>1 DEF IInv
<1>4. Registry!Rename(b, n)
  BY <1>1 DEF Registry!Rename
<1> QED
  BY <1>3, <1>4 DEF Steps, Registry!RegistryNext

LEMMA PrepareStep ==
  ASSUME IInv, NEW b \in Buses, NEW n \in Names, Prepare(b, n)
  PROVE  IInv' /\ Steps
<1>1. mode = "up" /\ mode' = mode
  BY DEF Prepare
<1>2. access' \subseteq allocated'
  BY DEF IInv, BusesTypeOK, Prepare
<1> QED
  BY <1>1, <1>2, Renaming DEF Prepare

LEMMA MdioRegisterSeqStep ==
  ASSUME IInv, NEW b \in Buses, NEW n \in Names, MdioRegisterSeq(b, n)
  PROVE  IInv' /\ Steps
<1>1. mode = "up" /\ mode' = mode /\ Shape(mii_list, Walk)
  BY UpIs DEF MdioRegisterSeq
<1>2. /\ allocated' = allocated /\ allocated \subseteq Buses /\ access' \subseteq allocated'
      /\ b \in allocated' /\ name' = [name EXCEPT ![b] = n] /\ UNCHANGED <<connected, served>>
  BY DEF IInv, BusesTypeOK, MdioRegisterSeq
<1>3. CASE MayRegister(b, n)
  <2>1. /\ mii_list' = ListAddTail(mii_list, b, mii_devs) /\ BecomesCurrent(b)
        /\ allocated \subseteq allocated' /\ allocated' \subseteq Buses
    BY <1>2, <1>3 DEF MdioRegisterSeq, AddToList
  <2>2. b \notin ToSet(Walk) /\ MiiphyGetDevByName(n) = NULL
    BY <1>1, <1>3, MayRegisterIs
  <2> QED
    BY <1>1, <1>2, <2>1, <2>2, Registering
<1>4. CASE ~MayRegister(b, n)
  <2>1. UNCHANGED <<mii_list, current_mii>>
    BY <1>4 DEF MdioRegisterSeq
  <2> QED
    BY <1>1, <1>2, <2>1, Renaming
<1> QED
  BY <1>3, <1>4

LEMMA MdioUnregisterStep ==
  ASSUME IInv, NEW b \in Buses, MdioUnregister(b)
  PROVE  IInv' /\ Steps
<1>1. Shape(mii_list, Walk) /\ Walk \in Seq(Buses) /\ DOMAIN Walk = 1 .. Len(Walk)
  BY UpIs DEF MdioUnregister
<1>2. CASE mii_list.next[b] = NULL
  <2>1. mode' = "trap" /\ UNCHANGED <<mii_list, current_mii, name, access, allocated, connected, served>>
    BY <1>2 DEF MdioUnregister
  <2>2. Walk' = Walk
    BY <2>1 DEF Walk
  <2> QED
    BY <1>1, <2>1, <2>2 DEF IInv, BusesTypeOK, Zeroed, Steps, Registry!registryVars
<1>3. CASE mii_list.next[b] # NULL
  <2>1. /\ mii_list' = ListDel(mii_list, b) /\ current_mii' = IF current_mii = b THEN NULL ELSE current_mii
        /\ UNCHANGED <<mode, name, access, allocated, connected, served>>
    BY <1>3 DEF MdioUnregister, ForgetsBus
  <2>2. PICK s : /\ Shape(mii_list', s) /\ ToSet(s) = ToSet(Walk) \ {b}
                 /\ IF b \in ToSet(Walk)
                    THEN \E k \in DOMAIN Walk : Walk[k] = b /\ s = RemoveAt(Walk, k)
                    ELSE s = Walk
    <3>1. CASE b \notin ToSet(Walk) /\ Shape(ListDel(mii_list, b), Walk)
      BY <2>1, <3>1
    <3>2. CASE \E k \in DOMAIN Walk :
                 /\ Walk[k] = b /\ Shape(ListDel(mii_list, b), RemoveAt(Walk, k))
                 /\ ToSet(RemoveAt(Walk, k)) = ToSet(Walk) \ {b}
      <4>1. b \in ToSet(Walk)
        BY <3>2 DEF ToSet
      <4> QED
        BY <2>1, <3>2, <4>1
    <3> QED
      BY <1>1, <1>3, <3>1, <3>2, ShapeDel
  <2>3. Walk' = s /\ Shape(mii_list', Walk')
        /\ mii_list' \in LinksOfBuses
    BY <2>2, LinksNext
  <2>4. BusesTypeOK'
    BY <2>1, <2>3 DEF IInv, BusesTypeOK
  <2>5. IInv'
    <3>1. ToSet(Walk') \subseteq ToSet(Walk)
      BY <2>2, <2>3
    <3>3. ToSet(Walk') \subseteq allocated'
      BY <2>1, <3>1 DEF IInv
    <3>4. current_mii' # NULL => current_mii' \in ToSet(Walk')
      BY <2>1, <2>2, <2>3 DEF IInv
    <3>5. mode' = "up"
      BY <2>1 DEF MdioUnregister
    <3> QED
      BY <2>3, <2>4, <3>3, <3>4, <3>5 DEF IInv
  <2>6. Registry!Unregister(b)
    <3>1. \A k : Registry!RemoveAt(Walk, k) = RemoveAt(Walk, k)
      BY SameSequences
    <3>2. Registry!ToSet(Walk) = ToSet(Walk)
      BY SameSequences
    <3> QED
      BY <2>1, <2>2, <2>3, <3>1, <3>2 DEF Registry!Unregister
  <2> QED
    BY <2>5, <2>6 DEF Steps, Registry!RegistryNext
<1> QED
  BY <1>2, <1>3

LEMMA MiiphyAccessStep ==
  ASSUME IInv, NEW n \in Names, MiiphyAccess(n)
  PROVE  IInv' /\ Steps
<1> DEFINE b == ActiveDev(n)
<1>1. /\ Shape(mii_list, Walk) /\ Walk \in Seq(Buses) /\ ToSet(Walk) \subseteq Buses /\ NULL \notin Buses
      /\ current_mii \in ToSet(Walk) \cup {NULL}
  BY UpIs DEF MiiphyAccess
<1>2. Walk' = Walk
  BY DEF Walk, MiiphyAccess
<1>3. \/ b = NULL /\ Registry!Called(n) = {}
      \/ b \in ToSet(Walk) /\ b \in Registry!Called(n)
  <2>1. Registry!Called(n) = {c \in ToSet(Walk) : name[c] = n}
    BY SameSequences DEF Registry!Called
  <2>2. CASE current_mii # NULL /\ name[current_mii] = n
    BY <1>1, <2>1, <2>2 DEF ActiveDev
  <2>3. CASE ~(current_mii # NULL /\ name[current_mii] = n)
    <3> DEFINE wanted == {c \in Buses : name[c] = n}
    <3>1. b = First(wanted)
      BY <2>3 DEF ActiveDev, MiiphyGetDevByName
    <3>2. ToSet(Walk) \cap wanted = Registry!Called(n)
      BY <1>1, <2>1
    <3> HIDE DEF b, wanted
    <3> QED
      BY <1>1, <3>1, <3>2, FirstIs
  <2> QED
    BY <2>2, <2>3
<1>4. /\ served' = <<n, b>> /\ current_mii' = IF b = NULL THEN current_mii ELSE b
      /\ UNCHANGED <<mii_list, name, access, allocated, connected, mode>>
  BY DEF MiiphyAccess
<1> HIDE DEF b
<1>5. IInv'
  <2>1. BusesTypeOK'
    BY <1>1, <1>3, <1>4 DEF IInv, BusesTypeOK
  <2> QED
    BY <1>2, <1>3, <1>4, <2>1 DEF IInv, Zeroed
<1>6. Registry!Use(n)
  BY <1>1, <1>2, <1>3, <1>4 DEF Registry!Use, Registry!OneOf
<1> QED
  BY <1>5, <1>6 DEF Steps, Registry!RegistryNext

LEMMA MdioPhydevForEthnameStep ==
  ASSUME IInv, NEW e \in EthDevs, MdioPhydevForEthname(e)
  PROVE  IInv' /\ Steps
<1> DEFINE wanted == {c \in Buses : connected[c] = e}
           b == First(wanted)
<1>1. /\ Walk \in Seq(Buses) /\ ToSet(Walk) \subseteq Buses /\ NULL \notin Buses
  BY UpIs DEF MdioPhydevForEthname
<1>2. Walk' = Walk
  BY DEF Walk, MdioPhydevForEthname
<1>3. ToSet(Walk) \cap wanted = {c \in Registry!ToSet(Walk) : connected[c] = e}
  BY <1>1, SameSequences
<1>4. served' = <<e, b>> /\ UNCHANGED <<mii_list, name, access, allocated, connected, current_mii, mode>>
  BY DEF MdioPhydevForEthname
<1> HIDE DEF wanted
<1>5. (b = NULL /\ ToSet(Walk) \cap wanted = {}) \/ b \in ToSet(Walk) \cap wanted
  BY <1>1, FirstIs
<1> HIDE DEF b
<1>6. IInv'
  <2>1. BusesTypeOK'
    BY <1>1, <1>4, <1>5 DEF IInv, BusesTypeOK
  <2> QED
    BY <1>2, <1>4, <2>1 DEF IInv, Zeroed
<1>7. Registry!Find(e)
  BY <1>2, <1>3, <1>4, <1>5 DEF Registry!Find, Registry!OneOf
<1> QED
  BY <1>6, <1>7 DEF Steps, Registry!RegistryNext

LEMMA ConnectStep ==
  ASSUME IInv, NEW b \in Buses, NEW e \in EthDevs, Connect(b, e)
  PROVE  IInv' /\ Steps
<1>1. Walk' = Walk
  BY DEF Walk, Connect
<1>2. BusesTypeOK'
  BY DEF IInv, BusesTypeOK, Connect
<1>3. IInv'
  BY <1>1, <1>2 DEF IInv, Zeroed, Connect
<1>4. Registry!Connect(b, e)
  BY <1>1 DEF Registry!Connect, Connect
<1> QED
  BY <1>3, <1>4 DEF Steps, Registry!RegistryNext

LEMMA NextStep == IInv /\ MiiNext => IInv' /\ Steps
<1> SUFFICES ASSUME IInv, MiiNext PROVE IInv' /\ Steps
  OBVIOUS
<1>1. CASE MiiphyInit
  BY <1>1, MiiphyInitStep
<1>2. CASE TooEarly
  BY <1>2, TooEarlyStep
<1>3. CASE \E b \in Buses : MdioAlloc(b)
  BY <1>3, MdioAllocStep
<1>4. CASE \E b \in Buses : MdioRegister(b)
  BY <1>4, MdioRegisterStep
<1>5. CASE \E b \in Buses : MdioUnregister(b)
  BY <1>5, MdioUnregisterStep
<1>6. CASE \E b \in Buses, n \in Names : MiiphyRegister(b, n)
  BY <1>6, MiiphyRegisterStep
<1>7. CASE \E b \in Buses, n \in Names : Prepare(b, n)
  BY <1>7, PrepareStep
<1>8. CASE \E b \in Buses, n \in Names : MdioRegisterSeq(b, n)
  BY <1>8, MdioRegisterSeqStep
<1>9. CASE \E n \in Names : MiiphyAccess(n)
  BY <1>9, MiiphyAccessStep
<1>10. CASE \E e \in EthDevs : MdioPhydevForEthname(e)
  BY <1>10, MdioPhydevForEthnameStep
<1>11. CASE \E e \in EthDevs, b \in Buses : Connect(b, e)
  BY <1>11, ConnectStep
<1> QED
  BY <1>1, <1>2, <1>3, <1>4, <1>5, <1>6, <1>7, <1>8, <1>9, <1>10, <1>11 DEF MiiNext

LEMMA Inductive == MiiSpec => []IInv
<1>1. MiiInit => IInv
  BY InitHolds
<1>2. IInv /\ [MiiNext]_miiVars => IInv'
  BY NextStep, StutterStep
<1> QED
  BY <1>1, <1>2, PTL DEF MiiSpec

\* The state of the buses has its type, for any number of buses, names and devices.
THEOREM TypeCorrect == MiiSpec => []BusesTypeOK
<1>1. IInv => BusesTypeOK
  BY DEF IInv
<1> QED
  BY <1>1, Inductive, PTL

\* In whatever order buses are registered, taken out and used, the list stays linked both
\* ways and current_mii is a bus on it.
THEOREM WellLinkedCorrect == MiiSpec => []WellLinked
<1>1. IInv => WellLinked
  BY ShapeLinked DEF IInv, WellLinked
<1> QED
  BY <1>1, Inductive, PTL

\* Every operation of miiphyutil.c is one of those that MiiRegistry promises.
THEOREM ImplementsCorrect == MiiSpec => Implements
<1>1. MiiInit => Registry!RegistryInit
  BY InitHolds
<1>2. IInv /\ [MiiNext]_miiVars => [Registry!RegistryNext]_(Registry!registryVars)
  <2>1. IInv /\ MiiNext => [Registry!RegistryNext]_(Registry!registryVars)
    BY NextStep DEF Steps
  <2>2. UNCHANGED miiVars => UNCHANGED Registry!registryVars
    BY DEF miiVars, Registry!registryVars, Walk
  <2> QED
    BY <2>1, <2>2
<1> QED
  BY <1>1, <1>2, Inductive, PTL DEF MiiSpec, Implements, Registry!RegistrySpec
=============================================================================
