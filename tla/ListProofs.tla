---------------------------- MODULE ListProofs ----------------------------
(***************************************************************************)
(* The operations of include/linklist.h keep the links what Lists says      *)
(* they are, for any number of lists and entries.                          *)
(***************************************************************************)
EXTENDS Lists, SequenceTheorems, WellFoundedInduction, TLAPS

-----------------------------------------------------------------------------
(* Walks.                                                                  *)

\* A set of numbers has a least one: with it, what follows by induction.
LEMMA Least ==
  ASSUME NEW T \in SUBSET Nat, T # {}
  PROVE  \E m \in T : \A n \in T : m <= n
<1>1. \E x \in T : \A y \in T : ~ (<<y, x>> \in OpToRel(<, Nat))
  BY NatLessThanWellFounded, WFMin
<1>2. PICK x \in T : \A y \in T : ~ (<<y, x>> \in OpToRel(<, Nat))
  BY <1>1
<1>3. ASSUME NEW y \in T
      PROVE  x <= y
  <2>1. <<y, x>> \notin OpToRel(<, Nat)
    BY <1>2
  <2>2. ~(y < x)
    BY <2>1 DEF OpToRel
  <2> QED
    BY <2>2
<1> QED
  BY <1>2, <1>3

\* The function of Along: one row for each number of nodes that may still be met.
Rows(next, stops, size, f) ==
  f = [k \in 0 .. size |->
         [n \in DOMAIN next \cup stops |->
            IF n \in stops \/ k = 0 THEN << >> ELSE <<n>> \o f[k - 1][next[n]]]]

LEMMA RowsExist ==
  ASSUME NEW next, NEW stops, NEW size \in Nat
  PROVE  \E f : Rows(next, stops, size, f)
<1> DEFINE Row(k, f) == [n \in DOMAIN next \cup stops |->
                           IF n \in stops \/ k = 0 THEN << >> ELSE <<n>> \o f[k - 1][next[n]]]
           T == {m \in Nat : ~ \E f : Rows(next, stops, m, f)}
<1>1. ASSUME T # {}
      PROVE  FALSE
  <2>1. PICK m \in T : \A n \in T : m <= n
    BY <1>1, Least
  <2>2. CASE m = 0
    <3> DEFINE f == [k \in 0 .. 0 |-> [n \in DOMAIN next \cup stops |-> << >>]]
    <3>1. Rows(next, stops, 0, f)
      BY DEF Rows
    <3> QED
      BY <2>1, <2>2, <3>1
  <2>3. CASE m # 0
    <3>1. m - 1 \in Nat /\ m - 1 \notin T /\ m \in Nat
      BY <2>1, <2>3
    <3>2. PICK f : Rows(next, stops, m - 1, f)
      BY <3>1
    <3> DEFINE g == [k \in 0 .. m |-> IF k = m THEN Row(m, f) ELSE f[k]]
    <3>3. ASSUME NEW k \in 0 .. m
          PROVE  g[k] = Row(k, g)
      <4>1. CASE k = m
        <5>1. g[k - 1] = f[k - 1]
          BY <3>1, <4>1, <2>3
        <5> QED
          BY <4>1, <5>1
      <4>2. CASE k # m
        <5>1. k \in 0 .. m - 1 /\ g[k] = f[k]
          BY <3>1, <4>2
        <5>2. f[k] = Row(k, f)
          BY <3>2, <5>1 DEF Rows
        <5>3. k # 0 => g[k - 1] = f[k - 1]
          BY <3>1, <5>1
        <5>4. Row(k, f) = Row(k, g)
          BY <5>3
        <5> QED
          BY <5>1, <5>2, <5>4
      <4> QED
        BY <4>1, <4>2
    <3>4. Rows(next, stops, m, g)
      <4>1. g = [k \in 0 .. m |-> g[k]]
        OBVIOUS
      <4>2. \A k \in 0 .. m : g[k] = Row(k, g)
        BY <3>3
      <4> HIDE DEF g
      <4>3. g = [k \in 0 .. m |-> Row(k, g)]
        BY <4>1, <4>2, Zenon
      <4> QED
        BY <4>3 DEF Rows
    <3> QED
      BY <2>1, <3>4
  <2> QED
    BY <2>2, <2>3
<1> QED
  BY <1>1

\* What is met from n on with at most k nodes to come is f[k][n].
Walked(next, head, stops, size, f) ==
  /\ Along(next, head, stops, size) = f[size][next[head]]
  /\ \A k \in 0 .. size, n \in DOMAIN next \cup stops :
       f[k][n] = IF n \in stops \/ k = 0 THEN << >> ELSE <<n>> \o f[k - 1][next[n]]

LEMMA AlongRows ==
  ASSUME NEW next, NEW head, NEW stops, NEW size \in Nat
  PROVE  \E f : Walked(next, head, stops, size, f)
<1> DEFINE f == CHOOSE f : Rows(next, stops, size, f)
<1>1. Rows(next, stops, size, f)
  BY RowsExist
<1>2. Along(next, head, stops, size) = f[size][next[head]]
  BY DEF Along, Rows
<1> HIDE DEF f
<1>3. ASSUME NEW k \in 0 .. size, NEW n \in DOMAIN next \cup stops
      PROVE f[k][n] = IF n \in stops \/ k = 0 THEN << >>
                               ELSE <<n>> \o f[k - 1][next[n]]
  <2>1. f[k] = [i \in DOMAIN next \cup stops |-> IF i \in stops \/ k = 0 THEN << >>
                               ELSE <<i>> \o f[k - 1][next[i]]]
    BY <1>1 DEF Rows
  <2> QED
    BY <2>1
<1>4. Walked(next, head, stops, size, f)
  BY <1>2, <1>3 DEF Walked
<1> QED
  BY <1>4

LEMMA RestOf ==
  ASSUME NEW S, NEW s \in Seq(S), NEW j \in 1 .. Len(s)
  PROVE  <<s[j]>> \o SubSeq(s, j + 1, Len(s)) = SubSeq(s, j, Len(s))
<1> DEFINE a == SubSeq(s, j + 1, Len(s))
           b == SubSeq(s, j, Len(s))
           c == <<s[j]>> \o a
<1>1. a \in Seq(S) /\ b \in Seq(S) /\ s[j] \in S /\ Len(s) \in Nat
  OBVIOUS
<1>2. Len(a) = Len(s) - j /\ \A i \in 1 .. Len(a) : a[i] = s[j + i]
  OBVIOUS
<1>3. Len(b) = Len(s) + 1 - j /\ \A i \in 1 .. Len(b) : b[i] = s[j + i - 1]
  OBVIOUS
<1> HIDE DEF a, b
<1>4. c \in Seq(S) /\ Len(c) = 1 + Len(a) /\ \A i \in 1 .. Len(c) : c[i] = IF i = 1 THEN s[j] ELSE a[i - 1]
  BY <1>1
<1> HIDE DEF c
<1>5. Len(c) = Len(b)
  BY <1>1, <1>2, <1>3, <1>4
<1>6. ASSUME NEW i \in 1 .. Len(c)
      PROVE  c[i] = b[i]
  <2>1. b[i] = s[j + i - 1]
    BY <1>3, <1>5
  <2>2. CASE i = 1
    BY <1>4, <2>1, <2>2
  <2>3. CASE i # 1
    <3>1. i - 1 \in 1 .. Len(a)
      BY <1>1, <1>2, <1>4, <2>3
    <3>2. c[i] = a[i - 1] /\ a[i - 1] = s[j + (i - 1)]
      BY <1>2, <1>4, <2>3, <3>1
    <3>3. j + (i - 1) = j + i - 1
      BY <1>1, <1>4
    <3> QED
      BY <2>1, <3>2, <3>3
  <2> QED
    BY <2>2, <2>3
<1>7. c = b
  BY <1>1, <1>4, <1>5, <1>6, SeqEqual
<1> QED
  BY <1>7 DEF a, b, c

\* The way along next from head goes over the nodes of s, at their places at, to a stop.
Way(next, head, stops, s, at) ==
  /\ next[head] = at[1] /\ at[Len(s) + 1] \in stops
  /\ \A k \in 1 .. Len(s) :
       at[k] = s[k] /\ s[k] \in DOMAIN next \ stops /\ next[s[k]] = at[k + 1]

\* Such a walk visits s.
LEMMA AlongIs ==
  ASSUME NEW next, NEW head, NEW stops, NEW size \in Nat, NEW S, NEW s \in Seq(S),
         Len(s) <= size, NEW at, Way(next, head, stops, s, at)
  PROVE  Along(next, head, stops, size) = s
<1> DEFINE last == at[Len(s) + 1]
<1>0. /\ next[head] = at[1] /\ last \in stops
      /\ \A k \in 1 .. Len(s) :
           at[k] = s[k] /\ s[k] \in DOMAIN next \ stops /\ next[s[k]] = at[k + 1]
  BY DEF Way
<1> HIDE DEF last
<1>1. PICK f : Walked(next, head, stops, size, f)
  BY AlongRows, Zenon
<1>2. Len(s) \in Nat
  OBVIOUS
<1> DEFINE Bad == {k \in 0 .. size : \E j \in 1 .. Len(s) + 1 :
                     Len(s) + 1 - j <= k /\ f[k][at[j]] # SubSeq(s, j, Len(s))}
<1>3. ASSUME Bad # {}
      PROVE  FALSE
  <2>1. Bad \in SUBSET Nat
    OBVIOUS
  <2>2. PICK k \in Bad : \A m \in Bad : k <= m
    BY <1>3, <2>1, Least
  <2>3. PICK j \in 1 .. Len(s) + 1 : Len(s) + 1 - j <= k /\ f[k][at[j]] # SubSeq(s, j, Len(s))
    BY <2>2
  <2>4. k \in 0 .. size /\ k \in Nat
    BY <2>2
  <2>5. CASE j = Len(s) + 1
    <3>1. at[j] = last
      BY <2>5 DEF last
    <3>2. f[k][at[j]] = << >>
      BY <1>0, <1>1, <2>4, <3>1 DEF Walked
    <3>3. SubSeq(s, j, Len(s)) = << >>
      BY <1>2, <2>5
    <3> QED
      BY <2>3, <3>2, <3>3
  <2>6. CASE j # Len(s) + 1
    <3>1. j \in 1 .. Len(s) /\ j + 1 \in 1 .. Len(s) + 1 /\ k # 0 /\ k - 1 \in 0 .. size
          /\ Len(s) + 1 - (j + 1) <= k - 1
      BY <1>2, <2>3, <2>4, <2>6
    <3>2. at[j] = s[j] /\ s[j] \in DOMAIN next \ stops /\ next[s[j]] = at[j + 1]
      BY <1>0, <3>1
    <3>3. k - 1 \notin Bad
      <4> HIDE DEF Bad
      <4>1. k - 1 \in Bad => k <= k - 1
        BY <2>2
      <4> QED
        BY <2>4, <4>1
    <3>4. f[k - 1][at[j + 1]] = SubSeq(s, j + 1, Len(s))
      BY <3>1, <3>3
    <3>5. f[k][at[j]] = <<s[j]>> \o f[k - 1][at[j + 1]]
      <4> DEFINE n == s[j]
      <4>1. n \in DOMAIN next \cup stops /\ n \notin stops /\ k \in 0 .. size /\ k # 0
        BY <2>4, <3>1, <3>2
      <4>2. f[k][n] = <<n>> \o f[k - 1][next[n]]
        <5> HIDE DEF n
        <5> QED
          BY <1>1, <4>1, Zenon DEF Walked
      <4> QED
        BY <3>2, <4>2
    <3>6. <<s[j]>> \o SubSeq(s, j + 1, Len(s)) = SubSeq(s, j, Len(s))
      BY <3>1, RestOf
    <3> QED
      BY <2>3, <3>2, <3>4, <3>5, <3>6
  <2> QED
    BY <2>5, <2>6
<1>4. f[size][at[1]] = SubSeq(s, 1, Len(s))
  <2>1. size \notin Bad
    BY <1>3
  <2>2. size \in 0 .. size /\ 1 \in 1 .. Len(s) + 1 /\ Len(s) + 1 - 1 <= size
    BY <1>2
  <2> QED
    BY <2>1, <2>2
<1>5. SubSeq(s, 1, Len(s)) = s
  OBVIOUS
<1> QED
  BY <1>0, <1>1, <1>4, <1>5 DEF Walked

-----------------------------------------------------------------------------
(* Links.                                                                  *)

Links == [next : [Nodes -> Nodes \cup {NULL}], prev : [Nodes -> Nodes \cup {NULL}]]

LEMMA LinkFields ==
  ASSUME NEW links \in Links
  PROVE  /\ links.next \in [Nodes -> Nodes \cup {NULL}]
         /\ links.prev \in [Nodes -> Nodes \cup {NULL}]
BY DEF Links

LEMMA SetNextIs ==
  ASSUME NEW links \in Links, NEW n \in Nodes, NEW to \in Nodes \cup {NULL}
  PROVE  LET m == SetNext(links, n, to) IN
         /\ m \in Links /\ m.prev = links.prev
         /\ m.next = [links.next EXCEPT ![n] = to]
BY DEF SetNext, Links

LEMMA SetPrevIs ==
  ASSUME NEW links \in Links, NEW n \in Nodes, NEW to \in Nodes \cup {NULL}
  PROVE  LET m == SetPrev(links, n, to) IN
         /\ m \in Links /\ m.next = links.next
         /\ m.prev = [links.prev EXCEPT ![n] = to]
BY DEF SetPrev, Links

-----------------------------------------------------------------------------
(* One list.                                                               *)

\* The nodes of s, and h, are linked with their neighbours.
Ring(links, h, s) ==
  \A k \in 0 .. Len(s) :
    /\ links.next[Node(h, s, k)] = Node(h, s, k + 1)
    /\ links.prev[Node(h, s, k + 1)] = Node(h, s, k)

\* s is a sequence of different entries.
Distinct(s) ==
  /\ s \in Seq(Entries)
  /\ \A j, k \in 1 .. Len(s) : s[j] = s[k] => j = k

LEMMA NodeIs ==
  ASSUME NEW h \in Heads, NEW s \in Seq(Entries)
  PROVE  /\ Len(s) \in Nat /\ DOMAIN s = 1 .. Len(s)
         /\ \A k \in Int : Node(h, s, k) = IF 1 <= k /\ k <= Len(s) THEN s[k] ELSE h
         /\ \A k \in 1 .. Len(s) : s[k] \in Entries
         /\ \A k \in Int : Node(h, s, k) \in Nodes
BY DEF Node, Nodes

\* On the way round a list every node comes once.
LEMMA NodesApart ==
  ASSUME NEW h \in Heads, NEW s, Distinct(s)
  PROVE  /\ \A x, y \in Int : x # y /\ 0 <= x /\ x <= Len(s) /\ 0 <= y /\ y <= Len(s)
                              => Node(h, s, x) # Node(h, s, y)
         /\ \A x, y \in Int : x # y /\ 1 <= x /\ x <= Len(s) + 1 /\ 1 <= y /\ y <= Len(s) + 1
                              => Node(h, s, x) # Node(h, s, y)
<1> DEFINE in(x) == 1 <= x /\ x <= Len(s)
<1>1. s \in Seq(Entries) /\ Len(s) \in Nat /\ h \notin Entries
  BY ListsAssumption DEF Distinct
<1>2. \A x \in Int : in(x) => Node(h, s, x) = s[x] /\ s[x] \in Entries
  BY <1>1, NodeIs
<1>3. \A x \in Int : ~in(x) => Node(h, s, x) = h
  BY <1>1, NodeIs
<1>4. ASSUME NEW x \in Int, NEW y \in Int, x # y, in(x) \/ in(y)
      PROVE  Node(h, s, x) # Node(h, s, y)
  <2>1. CASE in(x) /\ in(y)
    <3>1. x \in 1 .. Len(s) /\ y \in 1 .. Len(s)
      BY <1>1, <2>1
    <3>2. s[x] # s[y]
      BY <1>4, <3>1 DEF Distinct
    <3> QED
      BY <1>2, <2>1, <3>2
  <2>2. CASE in(x) /\ ~in(y)
    BY <1>1, <1>2, <1>3, <2>2
  <2>3. CASE ~in(x) /\ in(y)
    BY <1>1, <1>2, <1>3, <2>3
  <2> QED
    BY <1>4, <2>1, <2>2, <2>3
<1>5. \A x, y \in Int : x # y /\ 0 <= x /\ x <= Len(s) /\ 0 <= y /\ y <= Len(s) => in(x) \/ in(y)
  BY <1>1
<1>6. \A x, y \in Int :
        x # y /\ 1 <= x /\ x <= Len(s) + 1 /\ 1 <= y /\ y <= Len(s) + 1 => in(x) \/ in(y)
  BY <1>1
<1> QED
  BY <1>4, <1>5, <1>6

\* What a list is linked by depends on its nodes only.
LEMMA RingFrame ==
  ASSUME NEW h \in Heads, NEW s \in Seq(Entries), NEW links, NEW m, Ring(links, h, s),
         m.next[h] = links.next[h], m.prev[h] = links.prev[h],
         \A k \in 1 .. Len(s) : m.next[s[k]] = links.next[s[k]] /\ m.prev[s[k]] = links.prev[s[k]]
  PROVE  Ring(m, h, s)
<1> SUFFICES ASSUME NEW k \in 0 .. Len(s)
             PROVE  /\ m.next[Node(h, s, k)] = Node(h, s, k + 1)
                    /\ m.prev[Node(h, s, k + 1)] = Node(h, s, k)
  BY DEF Ring
<1>1. /\ links.next[Node(h, s, k)] = Node(h, s, k + 1)
      /\ links.prev[Node(h, s, k + 1)] = Node(h, s, k)
  BY DEF Ring
<1>2. \A j \in Int : m.next[Node(h, s, j)] = links.next[Node(h, s, j)]
                     /\ m.prev[Node(h, s, j)] = links.prev[Node(h, s, j)]
  BY NodeIs
<1> QED
  BY <1>1, <1>2, NodeIs

\* s with t put in after its k-th entry.
Inserted(s, k, t, u) ==
  /\ u \in Seq(Entries) /\ Len(u) = Len(s) + Len(t)
  /\ \A j \in 1 .. Len(u) :
       u[j] = IF j <= k THEN s[j] ELSE IF j <= k + Len(t) THEN t[j - k] ELSE s[j - Len(t)]

LEMMA InsertedIs ==
  ASSUME NEW s, Distinct(s), NEW t, Distinct(t), NEW k \in 0 .. Len(s), NEW u,
         Inserted(s, k, t, u), \A i \in 1 .. Len(s), j \in 1 .. Len(t) : s[i] # t[j]
  PROVE  /\ Distinct(u)
         /\ \A j \in 1 .. Len(u) : \/ \E i \in 1 .. Len(s) : u[j] = s[i]
                                   \/ \E i \in 1 .. Len(t) : u[j] = t[i]
<1>1. /\ u \in Seq(Entries) /\ Len(u) = Len(s) + Len(t)
      /\ Len(s) \in Nat /\ Len(t) \in Nat /\ k \in Nat /\ k <= Len(s)
  BY DEF Distinct, Inserted
<1> DEFINE a == Len(s)
           b == Len(t)
           Is(j) == \/ j \in 1 .. k /\ u[j] = s[j]
                    \/ j - k \in 1 .. b /\ u[j] = t[j - k]
                    \/ j - b \in k + 1 .. a /\ u[j] = s[j - b]
<1>2. \A j \in 1 .. a + b : Is(j) /\ j \in Int
  <2> TAKE j \in 1 .. a + b
  <2>1. u[j] = IF j <= k THEN s[j] ELSE IF j <= k + b THEN t[j - k] ELSE s[j - b]
    BY <1>1 DEF Inserted
  <2>2. a \in Nat /\ b \in Nat /\ k \in Nat /\ k <= a
    BY <1>1
  <2> HIDE DEF a, b
  <2>3. j \in Int /\ 1 <= j /\ j <= a + b
    BY <2>2
  <2>4. CASE j <= k
    BY <2>1, <2>2, <2>3, <2>4
  <2>5. CASE j > k /\ j <= k + b
    BY <2>1, <2>2, <2>3, <2>5
  <2>6. CASE j > k + b
    BY <2>1, <2>2, <2>3, <2>6
  <2> QED
    BY <2>2, <2>3, <2>4, <2>5, <2>6
<1>3. /\ \A i, j \in 1 .. a : s[i] = s[j] => i = j
      /\ \A i, j \in 1 .. b : t[i] = t[j] => i = j
      /\ \A i \in 1 .. a, j \in 1 .. b : s[i] # t[j]
      /\ 1 .. k \subseteq 1 .. a /\ k + 1 .. a \subseteq 1 .. a
  BY <1>1 DEF Distinct
<1>4. a \in Nat /\ b \in Nat /\ k \in Nat /\ k <= a
  BY <1>1
<1>5. ASSUME NEW i \in 1 .. a + b, NEW j \in 1 .. a + b, u[i] = u[j] PROVE i = j
  <2> HIDE DEF a, b
  <2>1. Is(i) /\ Is(j) /\ i \in Int /\ j \in Int
    BY <1>2
  <2>2. CASE i \in 1 .. k /\ u[i] = s[i]
    BY <1>3, <1>4, <1>5, <2>1, <2>2
  <2>3. CASE i - k \in 1 .. b /\ u[i] = t[i - k]
    BY <1>3, <1>4, <1>5, <2>1, <2>3
  <2>4. CASE i - b \in k + 1 .. a /\ u[i] = s[i - b]
    BY <1>3, <1>4, <1>5, <2>1, <2>4
  <2> QED
    BY <2>1, <2>2, <2>3, <2>4
<1>6. \A j \in 1 .. a + b : \/ \E i \in 1 .. a : u[j] = s[i]
                            \/ \E i \in 1 .. b : u[j] = t[i]
  <2> HIDE DEF a, b
  <2> QED BY <1>2, <1>3
<1> QED
  BY <1>1, <1>5, <1>6 DEF Distinct

\* The entries of t are linked with each other, but for its ends.
Linkage(links, t) ==
  \A j \in 1 .. Len(t) - 1 : links.next[t[j]] = t[j + 1] /\ links.prev[t[j + 1]] = t[j]

\* __list_add and __list_splice: t comes between two neighbours.
LEMMA RingInsert ==
  ASSUME NEW h \in Heads, NEW s, Distinct(s), NEW t, Distinct(t), Len(t) > 0,
         NEW k \in 0 .. Len(s), NEW u, Inserted(s, k, t, u),
         \A i \in 1 .. Len(s), j \in 1 .. Len(t) : s[i] # t[j],
         NEW links, Ring(links, h, s), Linkage(links, t), NEW m,
         m.next[Node(h, s, k)] = t[1],
         m.next[t[Len(t)]] = Node(h, s, k + 1),
         m.prev[Node(h, s, k + 1)] = t[Len(t)],
         m.prev[t[1]] = Node(h, s, k),
         \A n \in Nodes \ {Node(h, s, k), t[Len(t)]} : m.next[n] = links.next[n],
         \A n \in Nodes \ {Node(h, s, k + 1), t[1]} : m.prev[n] = links.prev[n]
  PROVE  Ring(m, h, u)
<1>1. /\ s \in Seq(Entries) /\ t \in Seq(Entries) /\ u \in Seq(Entries)
      /\ Len(u) = Len(s) + Len(t) /\ Len(s) \in Nat /\ Len(t) \in Nat /\ k \in Nat /\ k <= Len(s)
      /\ h \in Nodes /\ h \notin Entries /\ Entries \subseteq Nodes
  BY NodeIs, ListsAssumption DEF Distinct, Inserted, Nodes
<1>2. \A j \in Int :
        Node(h, u, j) = IF j <= k THEN Node(h, s, j)
                        ELSE IF j <= k + Len(t) THEN t[j - k]
                        ELSE Node(h, s, j - Len(t))
  <2> TAKE j \in Int
  <2>1. /\ Node(h, u, j) = IF 1 <= j /\ j <= Len(u) THEN u[j] ELSE h
        /\ Node(h, s, j) = IF 1 <= j /\ j <= Len(s) THEN s[j] ELSE h
        /\ Node(h, s, j - Len(t)) =
             IF 1 <= j - Len(t) /\ j - Len(t) <= Len(s) THEN s[j - Len(t)] ELSE h
    BY <1>1, NodeIs
  <2>2. 1 <= j /\ j <= Len(u) =>
          u[j] = IF j <= k THEN s[j] ELSE IF j <= k + Len(t) THEN t[j - k] ELSE s[j - Len(t)]
    BY <1>1 DEF Inserted
  <2> QED
    BY <1>1, <2>1, <2>2
<1> SUFFICES ASSUME NEW j \in 0 .. Len(u)
             PROVE  /\ m.next[Node(h, u, j)] = Node(h, u, j + 1)
                    /\ m.prev[Node(h, u, j + 1)] = Node(h, u, j)
  BY DEF Ring
<1>3. \A i \in 0 .. Len(s) :
        /\ links.next[Node(h, s, i)] = Node(h, s, i + 1)
        /\ links.prev[Node(h, s, i + 1)] = Node(h, s, i)
  BY DEF Ring
<1>4. \A i \in 0 .. Len(s) :
        /\ i # k => Node(h, s, i) # Node(h, s, k) /\ Node(h, s, i + 1) # Node(h, s, k + 1)
        /\ \A n \in 1 .. Len(t) : Node(h, s, i) # t[n] /\ Node(h, s, i + 1) # t[n]
        /\ Node(h, s, i) \in Nodes /\ Node(h, s, i + 1) \in Nodes
  <2> TAKE i \in 0 .. Len(s)
  <2>1. \A o \in Int : Node(h, s, o) = IF 1 <= o /\ o <= Len(s) THEN s[o] ELSE h
    BY <1>1, NodeIs
  <2>2. \A o, n \in 1 .. Len(s) : s[o] = s[n] => o = n
    BY DEF Distinct
  <2>3. (\A o \in 1 .. Len(s) : s[o] \in Entries) /\ (\A o \in 1 .. Len(t) : t[o] \in Entries)
    BY <1>1
  <2>4. i # k => Node(h, s, i) # Node(h, s, k) /\ Node(h, s, i + 1) # Node(h, s, k + 1)
    <3>1. \A x, y \in Int : x # y /\ 0 <= x /\ x <= Len(s) /\ 0 <= y /\ y <= Len(s)
                            => Node(h, s, x) # Node(h, s, y)
      BY NodesApart
    <3>2. \A x, y \in Int : x # y /\ 1 <= x /\ x <= Len(s) + 1 /\ 1 <= y /\ y <= Len(s) + 1
                            => Node(h, s, x) # Node(h, s, y)
      BY NodesApart
    <3>3. i \in Int /\ k \in Int /\ 0 <= i /\ i <= Len(s) /\ 0 <= k /\ k <= Len(s)
      BY <1>1
    <3>4. i # k => Node(h, s, i) # Node(h, s, k)
      BY <3>1, <3>3
    <3>5. i # k => Node(h, s, i + 1) # Node(h, s, k + 1)
      <4> SUFFICES ASSUME i # k PROVE Node(h, s, i + 1) # Node(h, s, k + 1)
        OBVIOUS
      <4> DEFINE x == i + 1
                 y == k + 1
      <4>1. /\ x \in Int /\ y \in Int /\ x # y
            /\ 1 <= x /\ x <= Len(s) + 1 /\ 1 <= y /\ y <= Len(s) + 1
        BY <1>1, <3>3
      <4> HIDE DEF x, y
      <4>2. Node(h, s, x) # Node(h, s, y)
        BY <3>2, <4>1
      <4> QED
        BY <4>2 DEF x, y
    <3> QED
      BY <3>4, <3>5
  <2>5. \A n \in 1 .. Len(t) : Node(h, s, i) # t[n] /\ Node(h, s, i + 1) # t[n]
    <3> TAKE n \in 1 .. Len(t)
    <3>1. t[n] # h
      BY <1>1, <2>3
    <3>2. \A o \in Int : Node(h, s, o) # t[n]
      <4> TAKE p \in Int
      <4>1. CASE p \in 1 .. Len(s)
        <5>1. Node(h, s, p) = s[p]
          BY <1>1, <2>1, <4>1
        <5> QED
          BY <4>1, <5>1
      <4>2. CASE p \notin 1 .. Len(s)
        <5>1. Node(h, s, p) = h
          BY <1>1, <2>1, <4>2
        <5> QED
          BY <3>1, <5>1
      <4> QED
        BY <4>1, <4>2
    <3> QED
      BY <1>1, <3>2
  <2> QED
    BY <1>1, <2>4, <2>5, NodeIs
<1>5. \A i \in 0 .. Len(s) : i # k =>
        /\ m.next[Node(h, s, i)] = Node(h, s, i + 1)
        /\ m.prev[Node(h, s, i + 1)] = Node(h, s, i)
  <2> TAKE i \in 0 .. Len(s)
  <2> HAVE i # k
  <2>1. /\ Node(h, s, i) \in Nodes \ {Node(h, s, k), t[Len(t)]}
        /\ Node(h, s, i + 1) \in Nodes \ {Node(h, s, k + 1), t[1]}
    <3>1. 1 \in 1 .. Len(t) /\ Len(t) \in 1 .. Len(t)
      BY <1>1
    <3>2. Node(h, s, i) # t[Len(t)] /\ Node(h, s, i + 1) # t[1]
      BY <1>4, <3>1
    <3> QED
      BY <1>4, <3>2
  <2> QED
    BY <1>3, <2>1
<1>6. \A i \in 1 .. Len(t) - 1 : m.next[t[i]] = t[i + 1] /\ m.prev[t[i + 1]] = t[i]
  <2> TAKE i \in 1 .. Len(t) - 1
  <2>1. t[i] \in Nodes /\ t[i + 1] \in Nodes /\ t[i] # t[Len(t)] /\ t[i + 1] # t[1]
    <3>1. /\ i \in 1 .. Len(t) /\ i + 1 \in 1 .. Len(t) /\ Len(t) \in 1 .. Len(t) /\ 1 \in 1 .. Len(t)
          /\ i # Len(t) /\ i + 1 # 1
      BY <1>1
    <3>2. \A o, n \in 1 .. Len(t) : t[o] = t[n] => o = n
      BY DEF Distinct
    <3>3. \A o \in 1 .. Len(t) : t[o] \in Nodes
      BY <1>1
    <3> QED
      BY <3>1, <3>2, <3>3
  <2>2. t[i] # Node(h, s, k) /\ t[i + 1] # Node(h, s, k + 1)
    BY <1>1, <1>4
  <2> QED
    BY <2>1, <2>2 DEF Linkage
<1>7. CASE j < k
  <2>1. Node(h, u, j) = Node(h, s, j) /\ Node(h, u, j + 1) = Node(h, s, j + 1)
    BY <1>1, <1>2, <1>7
  <2> QED
    BY <1>1, <1>5, <1>7, <2>1
<1>8. CASE j = k
  <2>1. Node(h, u, j) = Node(h, s, k) /\ Node(h, u, j + 1) = t[1]
    BY <1>1, <1>2, <1>8
  <2> QED
    BY <2>1
<1>9. CASE j > k /\ j < k + Len(t)
  <2> DEFINE i == j - k
  <2>1. i \in 1 .. Len(t) - 1
    BY <1>1, <1>9
  <2>2. Node(h, u, j) = t[i]
    BY <1>1, <1>2, <1>9
  <2>3. Node(h, u, j + 1) = t[i + 1]
    <3>1. Node(h, u, j + 1) = t[(j + 1) - k]
      BY <1>1, <1>2, <1>9
    <3>2. (j + 1) - k = i + 1
      BY <1>1, <1>9
    <3> QED
      BY <3>1, <3>2
  <2> QED
    BY <1>6, <2>1, <2>2, <2>3
<1>10. CASE j = k + Len(t)
  <2>1. Node(h, u, j) = t[Len(t)] /\ Node(h, u, j + 1) = Node(h, s, k + 1)
    BY <1>1, <1>2, <1>10
  <2> QED
    BY <2>1
<1>11. CASE j > k + Len(t)
  <2> DEFINE i == j - Len(t)
  <2>1. i \in 0 .. Len(s) /\ i # k
    BY <1>1, <1>11
  <2>2. Node(h, u, j) = Node(h, s, i)
    BY <1>1, <1>2, <1>11
  <2>3. Node(h, u, j + 1) = Node(h, s, i + 1)
    <3>1. Node(h, u, j + 1) = Node(h, s, (j + 1) - Len(t))
      BY <1>1, <1>2, <1>11
    <3>2. (j + 1) - Len(t) = i + 1
      BY <1>1, <1>11
    <3> QED
      BY <3>1, <3>2
  <2> QED
    BY <1>5, <2>1, <2>2, <2>3
<1>12. j < k \/ j = k \/ (j > k /\ j < k + Len(t)) \/ j = k + Len(t) \/ j > k + Len(t)
  <2> DEFINE size == Len(t)
  <2>1. j \in Int /\ k \in Int /\ size \in Int
    BY <1>1
  <2> HIDE DEF size
  <2>2. j < k \/ j = k \/ (j > k /\ j < k + size) \/ j = k + size \/ j > k + size
    BY <2>1
  <2> QED
    BY <2>2 DEF size
<1> QED
  BY <1>7, <1>8, <1>9, <1>10, <1>11, <1>12

-----------------------------------------------------------------------------
\* u is s without its k-th entry.
Removed(s, k, u) ==
  /\ u \in Seq(Entries) /\ Len(u) = Len(s) - 1
  /\ \A j \in 1 .. Len(u) : u[j] = IF j < k THEN s[j] ELSE s[j + 1]

\* __list_del: the neighbours of the k-th entry are linked with each other.
LEMMA RingRemove ==
  ASSUME NEW h \in Heads, NEW s, Distinct(s), NEW k \in 1 .. Len(s), NEW u, Removed(s, k, u),
         NEW links, Ring(links, h, s), NEW m,
         m.next[Node(h, s, k - 1)] = Node(h, s, k + 1),
         m.prev[Node(h, s, k + 1)] = Node(h, s, k - 1),
         \A n \in Nodes \ {Node(h, s, k - 1), s[k]} : m.next[n] = links.next[n],
         \A n \in Nodes \ {Node(h, s, k + 1), s[k]} : m.prev[n] = links.prev[n]
  PROVE  Ring(m, h, u)
<1>1. /\ s \in Seq(Entries) /\ u \in Seq(Entries)
      /\ Len(u) = Len(s) - 1 /\ Len(s) \in Nat /\ k \in Nat /\ 1 <= k /\ k <= Len(s)
      /\ h \in Nodes /\ h \notin Entries /\ Entries \subseteq Nodes
  BY NodeIs, ListsAssumption DEF Distinct, Removed, Nodes
<1>2. \A j \in Int : Node(h, u, j) = IF j < k THEN Node(h, s, j) ELSE Node(h, s, j + 1)
  <2> TAKE j \in Int
  <2>1. /\ Node(h, u, j) = IF 1 <= j /\ j <= Len(u) THEN u[j] ELSE h
        /\ Node(h, s, j) = IF 1 <= j /\ j <= Len(s) THEN s[j] ELSE h
        /\ Node(h, s, j + 1) = IF 1 <= j + 1 /\ j + 1 <= Len(s) THEN s[j + 1] ELSE h
    BY <1>1, NodeIs
  <2>2. 1 <= j /\ j <= Len(u) => u[j] = IF j < k THEN s[j] ELSE s[j + 1]
    BY <1>1 DEF Removed
  <2> QED
    BY <1>1, <2>1, <2>2
<1> SUFFICES ASSUME NEW j \in 0 .. Len(u)
             PROVE  /\ m.next[Node(h, u, j)] = Node(h, u, j + 1)
                    /\ m.prev[Node(h, u, j + 1)] = Node(h, u, j)
  BY DEF Ring
<1>3. j \in Int /\ 0 <= j /\ j <= Len(s) - 1
  BY <1>1
<1>4. \A i \in 0 .. Len(s) : i # k - 1 /\ i # k =>
        /\ m.next[Node(h, s, i)] = Node(h, s, i + 1)
        /\ m.prev[Node(h, s, i + 1)] = Node(h, s, i)
  <2> TAKE i \in 0 .. Len(s)
  <2> HAVE i # k - 1 /\ i # k
  <2>1. \A n \in Int : Node(h, s, n) = IF 1 <= n /\ n <= Len(s) THEN s[n] ELSE h
    BY <1>1, NodeIs
  <2>2. \A n, p \in 1 .. Len(s) : s[n] = s[p] => n = p
    BY DEF Distinct
  <2>3. \A n \in 1 .. Len(s) : s[n] \in Entries
    BY <1>1
  <2>4. Node(h, s, k) = s[k]
    BY <1>1, <2>1
  <2>5. /\ Node(h, s, i) # Node(h, s, k - 1) /\ Node(h, s, i) # Node(h, s, k)
        /\ Node(h, s, i + 1) # Node(h, s, k + 1) /\ Node(h, s, i + 1) # Node(h, s, k)
    BY <1>1, <2>1, <2>2, <2>3
  <2>6. Node(h, s, i) \in Nodes /\ Node(h, s, i + 1) \in Nodes
    BY <1>1, NodeIs
  <2>7. /\ links.next[Node(h, s, i)] = Node(h, s, i + 1)
        /\ links.prev[Node(h, s, i + 1)] = Node(h, s, i)
    BY DEF Ring
  <2> QED
    BY <2>4, <2>5, <2>6, <2>7
<1>5. CASE j < k - 1
  <2>1. Node(h, u, j) = Node(h, s, j) /\ Node(h, u, j + 1) = Node(h, s, j + 1)
    BY <1>1, <1>2, <1>3, <1>5
  <2> QED
    BY <1>1, <1>3, <1>4, <1>5, <2>1
<1>6. CASE j = k - 1
  <2>1. Node(h, u, j) = Node(h, s, k - 1) /\ Node(h, u, j + 1) = Node(h, s, k + 1)
    BY <1>1, <1>2, <1>3, <1>6
  <2> QED
    BY <2>1
<1>7. CASE j > k - 1
  <2> DEFINE i == j + 1
  <2>1. i \in 0 .. Len(s) /\ i # k - 1 /\ i # k
    BY <1>1, <1>3, <1>7
  <2>2. Node(h, u, j) = Node(h, s, i) /\ Node(h, u, j + 1) = Node(h, s, i + 1)
    BY <1>1, <1>2, <1>3, <1>7
  <2> QED
    BY <1>4, <2>1, <2>2
<1> QED
  BY <1>1, <1>3, <1>5, <1>6, <1>7

\* list_replace: another entry takes the place of the k-th.
LEMMA RingReplace ==
  ASSUME NEW h \in Heads, NEW s, Distinct(s), NEW k \in 1 .. Len(s), NEW e \in Entries,
         \A j \in 1 .. Len(s) : s[j] # e,
         NEW u \in Seq(Entries), Len(u) = Len(s),
         \A j \in 1 .. Len(s) : u[j] = IF j = k THEN e ELSE s[j],
         NEW links, Ring(links, h, s), NEW m,
         m.next[e] = Node(h, s, k + 1), m.prev[Node(h, s, k + 1)] = e,
         m.prev[e] = Node(h, s, k - 1), m.next[Node(h, s, k - 1)] = e,
         \A n \in Nodes \ {e, s[k], Node(h, s, k - 1)} : m.next[n] = links.next[n],
         \A n \in Nodes \ {e, s[k], Node(h, s, k + 1)} : m.prev[n] = links.prev[n]
  PROVE  Ring(m, h, u)
<1>1. /\ s \in Seq(Entries) /\ Len(s) \in Nat /\ k \in Nat /\ 1 <= k /\ k <= Len(s)
      /\ h \in Nodes /\ h \notin Entries /\ Entries \subseteq Nodes
  BY NodeIs, ListsAssumption DEF Distinct, Nodes
<1>2. \A j \in Int : Node(h, u, j) = IF j = k THEN e ELSE Node(h, s, j)
  BY <1>1, NodeIs
<1> SUFFICES ASSUME NEW j \in 0 .. Len(s)
             PROVE  /\ m.next[Node(h, u, j)] = Node(h, u, j + 1)
                    /\ m.prev[Node(h, u, j + 1)] = Node(h, u, j)
  BY DEF Ring
<1>3. j \in Int /\ 0 <= j /\ j <= Len(s)
  BY <1>1
<1>4. CASE j # k /\ j # k - 1
  <2>1. \A n \in Int : Node(h, s, n) = IF 1 <= n /\ n <= Len(s) THEN s[n] ELSE h
    BY <1>1, NodeIs
  <2>2. \A n, p \in 1 .. Len(s) : s[n] = s[p] => n = p
    BY DEF Distinct
  <2>3. \A n \in 1 .. Len(s) : s[n] \in Entries
    BY <1>1
  <2>4. Node(h, s, k) = s[k]
    BY <1>1, <2>1
  <2>5. /\ Node(h, s, j) # Node(h, s, k - 1) /\ Node(h, s, j) # Node(h, s, k)
        /\ Node(h, s, j + 1) # Node(h, s, k + 1) /\ Node(h, s, j + 1) # Node(h, s, k)
        /\ Node(h, s, j) # e /\ Node(h, s, j + 1) # e
    BY <1>1, <1>3, <1>4, <2>1, <2>2, <2>3
  <2>6. Node(h, s, j) \in Nodes /\ Node(h, s, j + 1) \in Nodes
    BY <1>1, NodeIs
  <2>7. /\ links.next[Node(h, s, j)] = Node(h, s, j + 1)
        /\ links.prev[Node(h, s, j + 1)] = Node(h, s, j)
    BY DEF Ring
  <2>8. Node(h, u, j) = Node(h, s, j) /\ Node(h, u, j + 1) = Node(h, s, j + 1)
    BY <1>1, <1>2, <1>3, <1>4
  <2> QED
    BY <2>4, <2>5, <2>6, <2>7, <2>8
<1>5. CASE j = k
  <2>1. Node(h, u, j) = e /\ Node(h, u, j + 1) = Node(h, s, k + 1)
    BY <1>1, <1>2, <1>3, <1>5
  <2> QED
    BY <2>1
<1>6. CASE j = k - 1
  <2>1. Node(h, u, j) = Node(h, s, k - 1) /\ Node(h, u, j + 1) = e
    BY <1>1, <1>2, <1>3, <1>6
  <2> QED
    BY <2>1
<1> QED
  BY <1>4, <1>5, <1>6

\* s is cut after its k-th entry.
Parted(s, k, u, v) ==
  /\ u \in Seq(Entries) /\ Len(u) = k /\ \A j \in 1 .. k : u[j] = s[j]
  /\ v \in Seq(Entries) /\ Len(v) = Len(s) - k /\ \A j \in 1 .. Len(v) : v[j] = s[j + k]

CutLinks(links, m, g, h, s, k) ==
  /\ m.next[g] = s[1] /\ m.prev[s[1]] = g /\ m.prev[g] = s[k] /\ m.next[s[k]] = g
  /\ m.next[h] = Node(h, s, k + 1) /\ m.prev[Node(h, s, k + 1)] = h
  /\ \A n \in Nodes \ {g, h, s[k]} : m.next[n] = links.next[n]
  /\ \A n \in Nodes \ {g, s[1], Node(h, s, k + 1)} : m.prev[n] = links.prev[n]

\* list_cut_position: the first k entries go to g, the rest stays.
LEMMA RingCut ==
  ASSUME NEW h \in Heads, NEW s, Distinct(s), NEW k \in 1 .. Len(s), NEW g \in Heads, g # h,
         NEW u, NEW v, Parted(s, k, u, v),
         NEW links, Ring(links, h, s), NEW m, CutLinks(links, m, g, h, s, k)
  PROVE  Ring(m, g, u) /\ Ring(m, h, v)
<1> /\ u \in Seq(Entries) /\ Len(u) = k /\ \A j \in 1 .. k : u[j] = s[j]
    /\ v \in Seq(Entries) /\ Len(v) = Len(s) - k /\ \A j \in 1 .. Len(v) : v[j] = s[j + k]
  BY DEF Parted
<1> /\ m.next[g] = s[1] /\ m.prev[s[1]] = g /\ m.prev[g] = s[k] /\ m.next[s[k]] = g
    /\ m.next[h] = Node(h, s, k + 1) /\ m.prev[Node(h, s, k + 1)] = h
    /\ \A n \in Nodes \ {g, h, s[k]} : m.next[n] = links.next[n]
    /\ \A n \in Nodes \ {g, s[1], Node(h, s, k + 1)} : m.prev[n] = links.prev[n]
  BY DEF CutLinks
<1>1. /\ s \in Seq(Entries) /\ Len(s) \in Nat /\ k \in Nat /\ 1 <= k /\ k <= Len(s)
      /\ g \in Nodes /\ g \notin Entries /\ h \in Nodes /\ h \notin Entries
      /\ Entries \subseteq Nodes
  BY NodeIs, ListsAssumption DEF Distinct, Nodes
<1>2. \A n \in Int : Node(h, s, n) = IF 1 <= n /\ n <= Len(s) THEN s[n] ELSE h
  BY <1>1, NodeIs
<1>3. \A n \in 1 .. Len(s) : s[n] \in Entries
  BY <1>1
<1>4. \A n, p \in 1 .. Len(s) : s[n] = s[p] => n = p
  BY DEF Distinct
<1>5. \A i \in 1 .. Len(s) - 1 : i # k =>
        m.next[s[i]] = s[i + 1] /\ m.prev[s[i + 1]] = s[i]
  <2> TAKE i \in 1 .. Len(s) - 1
  <2> HAVE i # k
  <2>1. i \in Int /\ i \in 1 .. Len(s) /\ i + 1 \in 1 .. Len(s) /\ i \in 0 .. Len(s)
    BY <1>1
  <2>2. Node(h, s, i) = s[i] /\ Node(h, s, i + 1) = s[i + 1]
    BY <1>1, <1>2, <2>1
  <2>3. links.next[s[i]] = s[i + 1] /\ links.prev[s[i + 1]] = s[i]
    BY <2>1, <2>2 DEF Ring
  <2>4. s[i] \in Nodes \ {g, h, s[k]}
    <3>1. s[i] \in Entries /\ k \in 1 .. Len(s)
      BY <1>3, <2>1
    <3>2. s[i] # s[k]
      BY <1>4, <2>1, <3>1
    <3> QED
      BY <1>1, <3>1, <3>2
  <2>5. s[i + 1] # s[1] /\ s[i + 1] \in Nodes /\ s[i + 1] # g
    BY <1>1, <1>3, <1>4, <2>1
  <2>6. s[i + 1] # Node(h, s, k + 1)
    BY <1>1, <1>2, <1>3, <1>4, <2>1
  <2> QED
    BY <2>3, <2>4, <2>5, <2>6
<1>6. Ring(m, g, u)
  <2> SUFFICES ASSUME NEW j \in 0 .. k
               PROVE  /\ m.next[Node(g, u, j)] = Node(g, u, j + 1)
                      /\ m.prev[Node(g, u, j + 1)] = Node(g, u, j)
    BY DEF Ring
  <2>1. j \in Int /\ 0 <= j /\ j <= k
    BY <1>1
  <2>2. \A n \in Int : Node(g, u, n) = IF 1 <= n /\ n <= k THEN s[n] ELSE g
    BY <1>1, NodeIs
  <2>3. CASE j = 0
    BY <1>1, <2>1, <2>2, <2>3
  <2>4. CASE j = k
    BY <1>1, <2>1, <2>2, <2>4
  <2>5. CASE 1 <= j /\ j < k
    <3>1. j \in 1 .. Len(s) - 1 /\ j # k /\ j + 1 \in Int /\ 1 <= j + 1 /\ j + 1 <= k
      BY <1>1, <2>1, <2>5
    <3>2. Node(g, u, j) = s[j] /\ Node(g, u, j + 1) = s[j + 1]
      BY <2>1, <2>2, <2>5, <3>1
    <3> QED
      BY <1>5, <3>1, <3>2
  <2> QED
    BY <2>1, <2>3, <2>4, <2>5
<1>7. Ring(m, h, v)
  <2> SUFFICES ASSUME NEW j \in 0 .. Len(v)
               PROVE  /\ m.next[Node(h, v, j)] = Node(h, v, j + 1)
                      /\ m.prev[Node(h, v, j + 1)] = Node(h, v, j)
    BY DEF Ring
  <2>1. j \in Int /\ 0 <= j /\ j <= Len(s) - k
    BY <1>1
  <2>2. \A n \in Int : Node(h, v, n) = IF 1 <= n THEN Node(h, s, n + k) ELSE h
    <3> TAKE n \in Int
    <3>1. Node(h, v, n) = IF 1 <= n /\ n <= Len(v) THEN v[n] ELSE h
      BY NodeIs
    <3>2. 1 <= n /\ n <= Len(v) => v[n] = s[n + k]
      BY <1>1
    <3>3. Node(h, s, n + k) = IF 1 <= n + k /\ n + k <= Len(s) THEN s[n + k] ELSE h
      BY <1>1, <1>2
    <3> QED
      BY <1>1, <3>1, <3>2, <3>3
  <2>3. CASE j = 0
    <3>1. Node(h, v, j) = h /\ Node(h, v, j + 1) = Node(h, s, k + 1)
      BY <1>1, <2>1, <2>2, <2>3
    <3> QED
      BY <3>1
  <2>4. CASE 1 <= j /\ j < Len(s) - k
    <3> DEFINE i == j + k
    <3>1. i \in 1 .. Len(s) - 1 /\ i # k /\ i \in Int
      BY <1>1, <2>1, <2>4
    <3>2. Node(h, v, j) = s[i]
      <4>1. Node(h, v, j) = Node(h, s, i)
        BY <2>1, <2>2, <2>4
      <4>2. 1 <= i /\ i <= Len(s)
        BY <1>1, <3>1
      <4> QED
        BY <1>2, <3>1, <4>1, <4>2
    <3>3. Node(h, v, j + 1) = s[i + 1]
      <4>1. j + 1 \in Int /\ 1 <= j + 1 /\ (j + 1) + k = i + 1
        BY <1>1, <2>1, <2>4
      <4>2. Node(h, v, j + 1) = Node(h, s, i + 1)
        BY <2>2, <4>1
      <4> QED
        BY <1>1, <1>2, <3>1, <4>2
    <3> QED
      BY <1>5, <3>1, <3>2, <3>3
  <2>5. CASE 1 <= j /\ j = Len(s) - k
    <3>1. Node(h, v, j) = s[Len(s)] /\ Node(h, v, j + 1) = h
      <4> DEFINE size == Len(s)
      <4>1. j + 1 \in Int /\ 1 <= j + 1 /\ (j + 1) + k = size + 1 /\ j + k = size
        <5>1. size \in Int /\ k \in Int /\ j \in Int /\ 1 <= j /\ j = size - k
          BY <1>1, <2>1, <2>5
        <5> HIDE DEF size
        <5> QED
          BY <5>1
      <4>2. Node(h, v, j) = Node(h, s, Len(s)) /\ Node(h, v, j + 1) = Node(h, s, Len(s) + 1)
        BY <2>1, <2>2, <2>5, <4>1
      <4> QED
        BY <1>1, <1>2, <4>2
    <3>2. Len(s) \in 0 .. Len(s) /\ Node(h, s, Len(s)) = s[Len(s)] /\ Node(h, s, Len(s) + 1) = h
      BY <1>1, <1>2
    <3>3. links.next[s[Len(s)]] = h /\ links.prev[h] = s[Len(s)]
      BY <3>2 DEF Ring
    <3>4. Len(s) # k /\ Len(s) \in 1 .. Len(s) /\ k + 1 \in 1 .. Len(s) /\ 1 \in 1 .. Len(s)
      BY <1>1, <2>1, <2>5
    <3>5. s[Len(s)] \in Nodes \ {g, h, s[k]}
      BY <1>1, <1>3, <1>4, <3>4
    <3>6. h \in Nodes \ {g, s[1], Node(h, s, k + 1)}
      BY <1>1, <1>2, <1>3, <3>4
    <3> QED
      BY <3>1, <3>3, <3>5, <3>6
  <2>6. j = 0 \/ (1 <= j /\ j < Len(s) - k) \/ (1 <= j /\ j = Len(s) - k)
    <3> DEFINE size == Len(s)
    <3>1. size \in Int /\ k \in Int /\ j \in Int /\ 0 <= j /\ j <= size - k
      BY <1>1, <2>1
    <3> HIDE DEF size
    <3>2. j = 0 \/ (1 <= j /\ j < size - k) \/ (1 <= j /\ j = size - k)
      BY <3>1
    <3> QED
      BY <3>2 DEF size
  <2> QED
    BY <2>3, <2>4, <2>5, <2>6
<1> QED
  BY <1>6, <1>7

-----------------------------------------------------------------------------
(* All the lists.                                                          *)

\* No two lists share an entry.
Apart(lists) ==
  \A g, h \in Heads : g # h =>
    \A i \in 1 .. Len(lists[g]), j \in 1 .. Len(lists[h]) : lists[g][i] # lists[h][j]

\* The links are those of the lists.
Rep(links, lists) ==
  /\ links \in Links
  /\ lists \in [Heads -> Seq(Entries)]
  /\ \A h \in Heads : Distinct(lists[h])
  /\ Apart(lists)
  /\ \A h \in Heads : Ring(links, h, lists[h])

\* e is on none of the lists.
On(lists, h, e) == \E i \in 1 .. Len(lists[h]) : lists[h][i] = e
Absent(lists, e) == \A h \in Heads : ~On(lists, h, e)

\* The links of the nodes of list h have not changed.
Same(links, m, h, s) ==
  /\ m.next[h] = links.next[h] /\ m.prev[h] = links.prev[h]
  /\ \A i \in 1 .. Len(s) : m.next[s[i]] = links.next[s[i]] /\ m.prev[s[i]] = links.prev[s[i]]

\* What an operation has to keep to: the lists it changes are linked, the others as before.
LEMMA RepChange ==
  ASSUME NEW links, NEW lists, Rep(links, lists), NEW m \in Links,
         NEW new \in [Heads -> Seq(Entries)], Apart(new),
         \A h \in Heads : \/ Distinct(new[h]) /\ Ring(m, h, new[h])
                          \/ new[h] = lists[h] /\ Same(links, m, h, lists[h])
  PROVE  Rep(m, new)
<1> SUFFICES ASSUME NEW h \in Heads
             PROVE  Distinct(new[h]) /\ Ring(m, h, new[h])
  BY DEF Rep
<1>1. CASE new[h] = lists[h] /\ Same(links, m, h, lists[h])
  <2>1. Distinct(lists[h]) /\ Ring(links, h, lists[h]) /\ lists[h] \in Seq(Entries)
    BY DEF Rep
  <2> QED
    BY <1>1, <2>1, RingFrame DEF Same
<1> QED
  BY <1>1

\* The links of an entry on no list do not matter.
LEMMA RepAbsent ==
  ASSUME NEW links, NEW lists, Rep(links, lists), NEW e \in Entries, Absent(lists, e),
         NEW m \in Links,
         \A n \in Nodes \ {e} : m.next[n] = links.next[n] /\ m.prev[n] = links.prev[n]
  PROVE  Rep(m, lists)
<1>1. \A h \in Heads : lists[h] = lists[h] /\ Same(links, m, h, lists[h])
  <2> TAKE h \in Heads
  <2>1. h \in Nodes /\ h # e /\ lists[h] \in Seq(Entries)
    BY ListsAssumption DEF Nodes, Rep
  <2>2. \A i \in 1 .. Len(lists[h]) : lists[h][i] \in Nodes \ {e}
    BY <2>1 DEF Nodes, Absent, On
  <2> QED
    BY <2>1, <2>2 DEF Same
<1>2. lists \in [Heads -> Seq(Entries)] /\ Apart(lists)
  BY DEF Rep
<1>3. Rep(links, lists) /\ m \in Links
  OBVIOUS
<1> QED
  BY <1>1, <1>2, <1>3, RepChange

-----------------------------------------------------------------------------
(* list_add, list_add_tail.                                                *)

LEMMA AddBetweenIs ==
  ASSUME NEW links \in Links, NEW e \in Nodes, NEW p \in Nodes, NEW n \in Nodes, e # p, e # n
  PROVE  LET m == ListAddBetween(links, e, p, n) IN
         /\ m \in Links
         /\ \A x \in Nodes :
              /\ m.next[x] = IF x = p THEN e ELSE IF x = e THEN n ELSE links.next[x]
              /\ m.prev[x] = IF x = e THEN p ELSE IF x = n THEN e ELSE links.prev[x]
<1> DEFINE a == SetPrev(links, n, e)
           b == SetNext(a, e, n)
           c == SetPrev(b, e, p)
           d == SetNext(c, p, e)
<1>1. a \in Links /\ a.next = links.next /\ a.prev = [links.prev EXCEPT ![n] = e]
  BY SetPrevIs
<1>2. b \in Links /\ b.prev = a.prev /\ b.next = [a.next EXCEPT ![e] = n]
  <2> HIDE DEF a
  <2> QED BY <1>1, SetNextIs
<1>3. c \in Links /\ c.next = b.next /\ c.prev = [b.prev EXCEPT ![e] = p]
  <2> HIDE DEF b
  <2> QED BY <1>2, SetPrevIs
<1>4. d \in Links /\ d.prev = c.prev /\ d.next = [c.next EXCEPT ![p] = e]
  <2> HIDE DEF c
  <2> QED BY <1>3, SetNextIs
<1>5. ListAddBetween(links, e, p, n) = d
  BY DEF ListAddBetween
<1> HIDE DEF a, b, c, d
<1>6. /\ d.next = [links.next EXCEPT ![e] = n, ![p] = e]
      /\ d.prev = [links.prev EXCEPT ![n] = e, ![e] = p]
  BY <1>1, <1>2, <1>3, <1>4
<1>7. \A x \in Nodes :
        /\ d.next[x] = IF x = p THEN e ELSE IF x = e THEN n ELSE links.next[x]
        /\ d.prev[x] = IF x = e THEN p ELSE IF x = n THEN e ELSE links.prev[x]
  BY <1>6, LinkFields
<1> QED
  BY <1>4, <1>5, <1>7

LEMMA AddRep ==
  ASSUME NEW links, NEW lists, Rep(links, lists), NEW e \in Entries, Absent(lists, e),
         NEW h \in Heads, NEW k \in 0 .. Len(lists[h]), NEW u, Inserted(lists[h], k, <<e>>, u)
  PROVE  Rep(ListAddBetween(links, e, Node(h, lists[h], k), Node(h, lists[h], k + 1)),
             [lists EXCEPT ![h] = u])
<1> DEFINE s == lists[h]
           p == Node(h, s, k)
           n == Node(h, s, k + 1)
           m == ListAddBetween(links, e, p, n)
           new == [lists EXCEPT ![h] = u]
<1>1. /\ links \in Links /\ lists \in [Heads -> Seq(Entries)] /\ s \in Seq(Entries)
      /\ Distinct(s) /\ Ring(links, h, s) /\ Apart(lists)
  BY DEF Rep
<1>2. p \in Nodes /\ n \in Nodes /\ e \in Nodes /\ h \in Nodes
  BY <1>1, NodeIs DEF Nodes
<1>3. \A i \in 1 .. Len(s) : s[i] # e
  BY DEF Absent, On
<1>4. e # p /\ e # n
  <2>1. h # e
    BY ListsAssumption
  <2>2. \A i \in Int : Node(h, s, i) = h \/ (i \in 1 .. Len(s) /\ Node(h, s, i) = s[i])
    BY <1>1, NodeIs
  <2>3. k \in Int /\ k + 1 \in Int
    BY <1>1, NodeIs
  <2> HIDE DEF s
  <2> QED
    BY <1>3, <2>1, <2>2, <2>3
<1>5. /\ links \in Links /\ e \in Nodes /\ p \in Nodes /\ n \in Nodes /\ e # p /\ e # n
  BY <1>1, <1>2, <1>4
<1>6. /\ m \in Links
      /\ \A x \in Nodes :
           /\ m.next[x] = IF x = p THEN e ELSE IF x = e THEN n ELSE links.next[x]
           /\ m.prev[x] = IF x = e THEN p ELSE IF x = n THEN e ELSE links.prev[x]
  <2> HIDE DEF p, n
  <2> QED BY ONLY <1>5, AddBetweenIs
<1>7. u \in Seq(Entries) /\ Len(u) = Len(s) + 1 /\ Len(s) \in Nat /\ k \in Nat
  BY <1>1, NodeIs DEF Inserted
<1>8. /\ Distinct(<<e>>) /\ Len(<<e>>) = 1 /\ Len(<<e>>) > 0 /\ <<e>>[1] = e
      /\ \A i \in 1 .. Len(s), j \in 1 .. Len(<<e>>) : s[i] # <<e>>[j]
  BY <1>3 DEF Distinct
<1>9. Distinct(u) /\ \A j \in 1 .. Len(u) : u[j] = e \/ \E i \in 1 .. Len(s) : u[j] = s[i]
  <2>1. Inserted(s, k, <<e>>, u) /\ k \in 0 .. Len(s)
    OBVIOUS
  <2>2. \A j \in 1 .. Len(<<e>>) : <<e>>[j] = e
    BY <1>8
  <2> DEFINE t == <<e>>
  <2>3. /\ Distinct(s) /\ Distinct(t) /\ k \in 0 .. Len(s) /\ Inserted(s, k, t, u)
        /\ \A i \in 1 .. Len(s), j \in 1 .. Len(t) : s[i] # t[j]
    BY <1>1, <1>8, <2>1
  <2> HIDE DEF t, s
  <2>4. Distinct(u) /\ \A j \in 1 .. Len(u) : \/ \E i \in 1 .. Len(s) : u[j] = s[i]
                                              \/ \E i \in 1 .. Len(t) : u[j] = t[i]
    BY ONLY <2>3, InsertedIs
  <2> QED
    BY <2>2, <2>4 DEF t
<1>10. Ring(m, h, u)
  <2>1. Linkage(links, <<e>>)
    BY DEF Linkage
  <2>2. /\ m.next[p] = e /\ m.next[e] = n /\ m.prev[n] = e /\ m.prev[e] = p
        /\ \A x \in Nodes \ {p, e} : m.next[x] = links.next[x]
        /\ \A x \in Nodes \ {n, e} : m.prev[x] = links.prev[x]
    <3> HIDE DEF m, n, p
    <3> QED BY <1>2, <1>4, <1>6
  <2>3. Inserted(s, k, <<e>>, u) /\ k \in 0 .. Len(s)
    OBVIOUS
  <2> DEFINE t == <<e>>
  <2>4. t[1] = e /\ t[Len(t)] = e
    OBVIOUS
  <2>5. /\ h \in Heads /\ Distinct(s) /\ Distinct(t) /\ Len(t) > 0 /\ k \in 0 .. Len(s)
        /\ Inserted(s, k, t, u) /\ \A i \in 1 .. Len(s), j \in 1 .. Len(t) : s[i] # t[j]
        /\ Ring(links, h, s) /\ Linkage(links, t)
    BY <1>1, <1>8, <2>1, <2>3
  <2> HIDE DEF t, m, s
  <2>6. /\ m.next[Node(h, s, k)] = t[1] /\ m.next[t[Len(t)]] = Node(h, s, k + 1)
        /\ m.prev[Node(h, s, k + 1)] = t[Len(t)] /\ m.prev[t[1]] = Node(h, s, k)
        /\ \A x \in Nodes \ {Node(h, s, k), t[Len(t)]} : m.next[x] = links.next[x]
        /\ \A x \in Nodes \ {Node(h, s, k + 1), t[1]} : m.prev[x] = links.prev[x]
    BY <2>2, <2>4 DEF n, p
  <2> QED
    BY ONLY <2>5, <2>6, RingInsert
<1>11. \A g \in Heads \ {h} : new[g] = lists[g] /\ Same(links, m, g, lists[g])
  <2> TAKE g \in Heads \ {h}
  <2>1. new[g] = lists[g] /\ lists[g] \in Seq(Entries)
    BY <1>1
  <2>2. g \in Nodes /\ g # e /\ g # h /\ g \notin Entries
    BY ListsAssumption DEF Nodes
  <2>3. \A i \in 1 .. Len(lists[g]) : /\ lists[g][i] \in Nodes /\ lists[g][i] # e /\ lists[g][i] # h
                                      /\ \A j \in 1 .. Len(s) : lists[g][i] # s[j]
    BY <1>1, <2>1, ListsAssumption DEF Nodes, Absent, On, Apart
  <2>4. \A i \in Int : Node(h, s, i) = h \/ \E j \in 1 .. Len(s) : Node(h, s, i) = s[j]
    BY <1>1, NodeIs
  <2>5. \A j \in 1 .. Len(s) : s[j] \in Entries
    BY <1>1
  <2>6. k \in Int /\ k + 1 \in Int
    BY <1>7
  <2> HIDE DEF s
  <2>7. g # p /\ g # n /\ \A i \in 1 .. Len(lists[g]) : lists[g][i] # p /\ lists[g][i] # n
    BY <2>2, <2>3, <2>4, <2>5, <2>6
  <2> HIDE DEF m, n, p, new
  <2> QED
    BY <1>6, <2>1, <2>2, <2>3, <2>7 DEF Same
<1>12. Apart(new)
  <2> SUFFICES ASSUME NEW g \in Heads, g # h
               PROVE  \A i \in 1 .. Len(lists[g]), j \in 1 .. Len(u) : lists[g][i] # u[j]
    BY <1>1 DEF Apart
  <2> QED
    BY <1>1, <1>9 DEF Apart, Absent, On
<1>13. new \in [Heads -> Seq(Entries)] /\ new[h] = u
  BY <1>1, <1>7
<1>14. \A g \in Heads : \/ Distinct(new[g]) /\ Ring(m, g, new[g])
                        \/ new[g] = lists[g] /\ Same(links, m, g, lists[g])
  <2> HIDE DEF m, new
  <2> QED BY <1>9, <1>10, <1>11, <1>13
<1>15. Rep(links, lists)
  OBVIOUS
<1> HIDE DEF m, new
<1>16. Rep(m, new)
  BY <1>6, <1>12, <1>13, <1>14, <1>15, RepChange
<1> QED
  BY <1>16 DEF m, new

-----------------------------------------------------------------------------
(* list_del, list_replace.                                                 *)

LEMMA RemovedIs ==
  ASSUME NEW s, Distinct(s), NEW k \in 1 .. Len(s), NEW u, Removed(s, k, u)
  PROVE  /\ Distinct(u)
         /\ \A j \in 1 .. Len(u) : u[j] # s[k] /\ \E i \in 1 .. Len(s) : u[j] = s[i]
<1>1. /\ u \in Seq(Entries) /\ Len(u) = Len(s) - 1 /\ Len(s) \in Nat
      /\ k \in Nat /\ 1 <= k /\ k <= Len(s)
  BY DEF Distinct, Removed
<1> DEFINE a == Len(s)
           at(j) == IF j < k THEN j ELSE j + 1
<1>2. \A j \in 1 .. a - 1 : at(j) \in 1 .. a /\ at(j) # k /\ u[j] = s[at(j)]
  <2> TAKE j \in 1 .. a - 1
  <2>1. u[j] = IF j < k THEN s[j] ELSE s[j + 1]
    BY <1>1 DEF Removed
  <2>2. a \in Nat /\ k \in Nat /\ 1 <= k /\ k <= a
    BY <1>1
  <2> HIDE DEF a
  <2> QED
    BY <2>1, <2>2
<1>3. \A i, j \in 1 .. a : s[i] = s[j] => i = j
  BY DEF Distinct
<1>4. a \in Nat /\ k \in 1 .. a
  BY <1>1
<1>5. ASSUME NEW i \in 1 .. a - 1, NEW j \in 1 .. a - 1, u[i] = u[j] PROVE i = j
  <2> HIDE DEF a, at
  <2>1. at(i) = at(j)
    BY <1>2, <1>3, <1>5
  <2>2. i \in Int /\ j \in Int /\ k \in Int
    BY <1>4
  <2> QED
    BY <2>1, <2>2 DEF at
<1>6. \A j \in 1 .. a - 1 : u[j] # s[k] /\ \E i \in 1 .. a : u[j] = s[i]
  <2> HIDE DEF a, at
  <2> QED BY <1>2, <1>3, <1>4
<1> QED
  BY <1>1, <1>5, <1>6 DEF Distinct

\* Where an entry is on its list, and who its neighbours are.
LEMMA AroundIs ==
  ASSUME NEW links, NEW lists, Rep(links, lists), NEW h \in Heads, NEW k \in 1 .. Len(lists[h])
  PROVE  LET s == lists[h]
             e == s[k]
             p == Node(h, s, k - 1)
             n == Node(h, s, k + 1)
         IN  /\ k \in Nat /\ Len(s) \in Nat /\ h \in Nodes
             /\ e \in Entries /\ e \in Nodes /\ p \in Nodes /\ n \in Nodes
             /\ e # h /\ e # p /\ e # n
             /\ links.prev[e] = p /\ links.next[e] = n /\ links.next[p] = e /\ links.prev[n] = e
             /\ p = h \/ \E j \in 1 .. Len(s) : p = s[j]
             /\ n = h \/ \E j \in 1 .. Len(s) : n = s[j]
<1> DEFINE s == lists[h]
           e == s[k]
<1>1. s \in Seq(Entries) /\ Distinct(s) /\ Ring(links, h, s)
  BY DEF Rep
<1>2. Len(s) \in Nat /\ k \in Nat /\ 1 <= k /\ k <= Len(s)
  BY <1>1
<1>3. e \in Entries /\ e \in Nodes /\ h \in Nodes /\ e # h
  BY <1>1, ListsAssumption DEF Nodes
<1>4. \A j \in Int : /\ Node(h, s, j) = IF 1 <= j /\ j <= Len(s) THEN s[j] ELSE h
                     /\ Node(h, s, j) \in Nodes
  BY <1>1, NodeIs
<1>5. \A i, j \in 1 .. Len(s) : s[i] = s[j] => i = j
  BY <1>1 DEF Distinct
<1>6. k - 1 \in 0 .. Len(s) /\ k \in 0 .. Len(s) /\ (k - 1) + 1 = k
  BY <1>2
<1> HIDE DEF s
<1>7. Node(h, s, k) = e
  BY <1>2, <1>4
<1>8. /\ links.next[Node(h, s, k - 1)] = Node(h, s, (k - 1) + 1)
      /\ links.prev[Node(h, s, (k - 1) + 1)] = Node(h, s, k - 1)
      /\ links.next[Node(h, s, k)] = Node(h, s, k + 1)
      /\ links.prev[Node(h, s, k + 1)] = Node(h, s, k)
  BY <1>1, <1>6 DEF Ring
<1>9. e # Node(h, s, k - 1) /\ e # Node(h, s, k + 1)
  BY <1>2, <1>3, <1>4, <1>5
<1>10. \A j \in Int : Node(h, s, j) = h \/ \E i \in 1 .. Len(s) : Node(h, s, j) = s[i]
  BY <1>2, <1>4
<1>11. k - 1 \in Int /\ k + 1 \in Int
  BY <1>2
<1>12. /\ k \in Nat /\ Len(s) \in Nat /\ h \in Nodes
       /\ e \in Entries /\ e \in Nodes /\ Node(h, s, k - 1) \in Nodes /\ Node(h, s, k + 1) \in Nodes
       /\ e # h /\ e # Node(h, s, k - 1) /\ e # Node(h, s, k + 1)
       /\ links.prev[e] = Node(h, s, k - 1) /\ links.next[e] = Node(h, s, k + 1)
       /\ links.next[Node(h, s, k - 1)] = e /\ links.prev[Node(h, s, k + 1)] = e
  BY <1>2, <1>3, <1>4, <1>6, <1>7, <1>8, <1>9, <1>11
<1>13. /\ Node(h, s, k - 1) = h \/ \E j \in 1 .. Len(s) : Node(h, s, k - 1) = s[j]
       /\ Node(h, s, k + 1) = h \/ \E j \in 1 .. Len(s) : Node(h, s, k + 1) = s[j]
  BY <1>10, <1>11
<1> QED
  BY <1>12, <1>13 DEF s

\* A node of one list is on no other.
LEMMA NotOn ==
  ASSUME NEW links, NEW lists, Rep(links, lists), NEW h \in Heads, NEW x \in Nodes,
         x = h \/ (\E j \in 1 .. Len(lists[h]) : x = lists[h][j]) \/ (x \in Entries /\ Absent(lists, x))
  PROVE  \A g \in Heads \ {h} : x # g /\ ~On(lists, g, x)
<1> TAKE g \in Heads \ {h}
<1>1. /\ Apart(lists) /\ lists[g] \in Seq(Entries) /\ lists[h] \in Seq(Entries)
      /\ h \notin Entries /\ g \notin Entries
  BY ListsAssumption DEF Rep
<1>2. CASE x = h
  BY <1>1, <1>2 DEF On
<1>3. CASE \E j \in 1 .. Len(lists[h]) : x = lists[h][j]
  BY <1>1, <1>3 DEF On, Apart
<1>4. CASE x \in Entries /\ Absent(lists, x)
  BY <1>1, <1>4 DEF Absent
<1> QED
  BY <1>2, <1>3, <1>4

LEMMA OthersSame ==
  ASSUME NEW links, NEW lists, Rep(links, lists), NEW g \in Heads, NEW m,
         \A x \in Nodes : \/ m.next[x] = links.next[x] /\ m.prev[x] = links.prev[x]
                          \/ x # g /\ ~On(lists, g, x)
  PROVE  Same(links, m, g, lists[g])
<1>1. g \in Nodes /\ lists[g] \in Seq(Entries)
  BY DEF Rep, Nodes
<1>2. \A i \in 1 .. Len(lists[g]) : lists[g][i] \in Nodes /\ On(lists, g, lists[g][i])
  BY <1>1 DEF On, Nodes
<1> QED
  BY <1>1, <1>2 DEF Same

LEMMA UnlinkIs ==
  ASSUME NEW links \in Links, NEW p \in Nodes, NEW n \in Nodes
  PROVE  LET m == ListDelBetween(links, p, n) IN
         /\ m \in Links
         /\ \A x \in Nodes : /\ m.next[x] = IF x = p THEN n ELSE links.next[x]
                            /\ m.prev[x] = IF x = n THEN p ELSE links.prev[x]
<1> DEFINE a == SetPrev(links, n, p)
           b == SetNext(a, p, n)
<1>1. a \in Links /\ a.next = links.next /\ a.prev = [links.prev EXCEPT ![n] = p]
  BY SetPrevIs
<1>2. b \in Links /\ b.prev = a.prev /\ b.next = [a.next EXCEPT ![p] = n]
  <2> HIDE DEF a
  <2> QED BY <1>1, SetNextIs
<1>3. ListDelBetween(links, p, n) = b
  BY DEF ListDelBetween
<1> HIDE DEF a, b
<1>4. \A x \in Nodes : /\ b.next[x] = IF x = p THEN n ELSE links.next[x]
                      /\ b.prev[x] = IF x = n THEN p ELSE links.prev[x]
  BY <1>1, <1>2, LinkFields
<1> QED
  BY <1>2, <1>3, <1>4

\* Unlinking an entry takes it off its list.
LEMMA UnlinkRep ==
  ASSUME NEW links, NEW lists, Rep(links, lists), NEW h \in Heads, NEW k \in 1 .. Len(lists[h]),
         NEW u, Removed(lists[h], k, u)
  PROVE  /\ Rep(Unlink(links, lists[h][k]), [lists EXCEPT ![h] = u])
         /\ Absent([lists EXCEPT ![h] = u], lists[h][k])
<1> DEFINE s == lists[h]
           e == s[k]
           p == Node(h, s, k - 1)
           n == Node(h, s, k + 1)
           m == Unlink(links, e)
           new == [lists EXCEPT ![h] = u]
<1>1. /\ links \in Links /\ lists \in [Heads -> Seq(Entries)] /\ s \in Seq(Entries)
      /\ Distinct(s) /\ Ring(links, h, s) /\ Apart(lists) /\ Rep(links, lists)
  BY DEF Rep
<1>2. /\ k \in Nat /\ Len(s) \in Nat /\ h \in Nodes
      /\ e \in Entries /\ e \in Nodes /\ p \in Nodes /\ n \in Nodes
      /\ e # h /\ e # p /\ e # n /\ links.prev[e] = p /\ links.next[e] = n
      /\ p = h \/ \E j \in 1 .. Len(s) : p = s[j]
      /\ n = h \/ \E j \in 1 .. Len(s) : n = s[j]
  BY AroundIs
<1>3. u \in Seq(Entries) /\ Distinct(u)
      /\ \A j \in 1 .. Len(u) : u[j] # e /\ \E i \in 1 .. Len(s) : u[j] = s[i]
  <2>1. k \in 1 .. Len(s) /\ Removed(s, k, u) /\ Distinct(s)
    BY <1>1
  <2>2. u \in Seq(Entries)
    BY DEF Removed
  <2> HIDE DEF s
  <2> QED
    BY <2>1, <2>2, RemovedIs
<1> HIDE DEF s, e, p, n
<1>4. /\ m \in Links
      /\ \A x \in Nodes : m.next[x] = IF x = p THEN n ELSE links.next[x]
      /\ \A x \in Nodes : m.prev[x] = IF x = n THEN p ELSE links.prev[x]
  <2>1. m = ListDelBetween(links, p, n)
    BY <1>2 DEF Unlink
  <2> HIDE DEF m
  <2>2. /\ ListDelBetween(links, p, n) \in Links
        /\ \A x \in Nodes :
             /\ ListDelBetween(links, p, n).next[x] = IF x = p THEN n ELSE links.next[x]
             /\ ListDelBetween(links, p, n).prev[x] = IF x = n THEN p ELSE links.prev[x]
    <3>1. links \in Links /\ p \in Nodes /\ n \in Nodes
      BY <1>1, <1>2
    <3> QED
      BY ONLY <3>1, UnlinkIs
  <2> QED
    BY <2>1, <2>2
<1> HIDE DEF m
<1>5. Ring(m, h, u)
  <2>1. /\ h \in Heads /\ Distinct(s) /\ k \in 1 .. Len(s) /\ Removed(s, k, u) /\ Ring(links, h, s)
    BY <1>1 DEF s
  <2>2. /\ m.next[Node(h, s, k - 1)] = Node(h, s, k + 1)
        /\ m.prev[Node(h, s, k + 1)] = Node(h, s, k - 1)
        /\ \A x \in Nodes \ {Node(h, s, k - 1), s[k]} : m.next[x] = links.next[x]
        /\ \A x \in Nodes \ {Node(h, s, k + 1), s[k]} : m.prev[x] = links.prev[x]
    BY <1>2, <1>4 DEF p, n
  <2> QED
    BY <2>1, <2>2, RingRemove
<1>6. \A g \in Heads \ {h} : Same(links, m, g, lists[g])
  <2>1. \A g \in Heads \ {h} : p # g /\ ~On(lists, g, p) /\ n # g /\ ~On(lists, g, n)
    BY <1>1, <1>2, NotOn DEF s
  <2> QED
    BY <1>1, <1>4, <2>1, OthersSame
<1>7. new \in [Heads -> Seq(Entries)] /\ new[h] = u /\ \A g \in Heads \ {h} : new[g] = lists[g]
  BY <1>1, <1>3
<1> HIDE DEF new
<1>8. Apart(new) /\ Absent(new, e)
  <2>1. \A g \in Heads \ {h} : \A i \in 1 .. Len(lists[g]), j \in 1 .. Len(s) : lists[g][i] # s[j]
    BY <1>1 DEF Apart, s
  <2>2. \A g \in Heads \ {h} : \A i \in 1 .. Len(lists[g]), j \in 1 .. Len(u) : lists[g][i] # u[j]
    BY <1>3, <2>1
  <2>3. \A g \in Heads \ {h} : ~On(new, g, e)
    BY <1>7, <2>1 DEF On, e, s
  <2>4. ~On(new, h, e)
    BY <1>3, <1>7 DEF On
  <2>5. Apart(new)
    <3> SUFFICES ASSUME NEW f \in Heads, NEW g \in Heads, f # g,
                        NEW i \in 1 .. Len(new[f]), NEW j \in 1 .. Len(new[g])
                 PROVE  new[f][i] # new[g][j]
      BY DEF Apart
    <3>1. CASE f = h
      BY <1>7, <2>2, <3>1
    <3>2. CASE g = h
      BY <1>7, <2>2, <3>2
    <3>3. CASE f # h /\ g # h
      BY <1>1, <1>7, <3>3 DEF Apart
    <3> QED
      BY <3>1, <3>2, <3>3
  <2> QED
    BY <2>3, <2>4, <2>5 DEF Absent
<1>9. \A g \in Heads : \/ Distinct(new[g]) /\ Ring(m, g, new[g])
                       \/ new[g] = lists[g] /\ Same(links, m, g, lists[g])
  BY <1>3, <1>5, <1>6, <1>7
<1>10. Rep(m, new)
  BY <1>1, <1>4, <1>7, <1>8, <1>9, RepChange
<1> QED
  BY <1>8, <1>10 DEF m, new, e, s

\* Both links of one node are set.
LEMMA SetBothIs ==
  ASSUME NEW links \in Links, NEW n \in Nodes, NEW x \in Nodes \cup {NULL}, NEW y \in Nodes \cup {NULL}
  PROVE  LET m == SetPrev(SetNext(links, n, x), n, y) IN
         /\ m \in Links /\ m.next[n] = x /\ m.prev[n] = y
         /\ \A o \in Nodes \ {n} : m.next[o] = links.next[o] /\ m.prev[o] = links.prev[o]
<1> DEFINE a == SetNext(links, n, x)
           b == SetPrev(a, n, y)
<1>1. a \in Links /\ a.prev = links.prev /\ a.next = [links.next EXCEPT ![n] = x]
  BY SetNextIs
<1>2. b \in Links /\ b.next = a.next /\ b.prev = [a.prev EXCEPT ![n] = y]
  <2> HIDE DEF a
  <2> QED BY <1>1, SetPrevIs
<1> HIDE DEF a, b
<1>3. /\ b \in Links /\ b.next[n] = x /\ b.prev[n] = y
      /\ \A o \in Nodes \ {n} : b.next[o] = links.next[o] /\ b.prev[o] = links.prev[o]
  BY <1>1, <1>2, LinkFields
<1> QED
  BY <1>3 DEF a, b

LEMMA InitAbsent ==
  ASSUME NEW links, NEW lists, Rep(links, lists), NEW e \in Entries, Absent(lists, e)
  PROVE  /\ Rep(InitListHead(links, e), lists)
         /\ Rep(SetPrev(SetNext(links, e, NULL), e, NULL), lists)
<1>1. links \in Links /\ e \in Nodes
  BY DEF Rep, Nodes
<1> DEFINE m == InitListHead(links, e)
           d == SetPrev(SetNext(links, e, NULL), e, NULL)
<1>2. m \in Links /\ \A o \in Nodes \ {e} : m.next[o] = links.next[o] /\ m.prev[o] = links.prev[o]
  BY <1>1, SetBothIs DEF InitListHead
<1>3. d \in Links /\ \A o \in Nodes \ {e} : d.next[o] = links.next[o] /\ d.prev[o] = links.prev[o]
  BY <1>1, SetBothIs
<1>4. Rep(links, lists) /\ Absent(lists, e)
  OBVIOUS
<1> HIDE DEF m, d
<1>5. Rep(m, lists) /\ Rep(d, lists)
  BY <1>2, <1>3, <1>4, RepAbsent
<1> QED
  BY <1>5 DEF m, d

LEMMA ReplaceIs ==
  ASSUME NEW links \in Links, NEW e \in Nodes, NEW o \in Nodes, NEW p \in Nodes, NEW n \in Nodes,
         links.next[o] = n, links.prev[o] = p, e # o, e # p, e # n, n # o
  PROVE  LET m == ListReplace(links, o, e) IN
         /\ m \in Links
         /\ m.next = [links.next EXCEPT ![e] = n, ![p] = e]
         /\ m.prev = [links.prev EXCEPT ![n] = e, ![e] = p]
<1> DEFINE a == SetNext(links, e, n)
           b == SetPrev(a, n, e)
           c == SetPrev(b, e, p)
           d == SetNext(c, p, e)
<1>1. a \in Links /\ a.prev = links.prev /\ a.next = [links.next EXCEPT ![e] = n]
  BY SetNextIs
<1>2. b \in Links /\ b.next = a.next /\ b.prev = [a.prev EXCEPT ![n] = e]
  <2> HIDE DEF a
  <2> QED BY <1>1, SetPrevIs
<1>3. c \in Links /\ c.next = b.next /\ c.prev = [b.prev EXCEPT ![e] = p]
  <2> HIDE DEF a, b
  <2>1. b \in Links /\ e \in Nodes /\ p \in Nodes \cup {NULL}
    BY <1>2
  <2> QED BY <2>1, SetPrevIs
<1>4. d \in Links /\ d.prev = c.prev /\ d.next = [c.next EXCEPT ![p] = e]
  <2> HIDE DEF c
  <2> QED BY <1>3, SetNextIs
<1>5. a.next[e] = n
  <2> HIDE DEF a
  <2> QED BY <1>1, LinkFields
<1>6. b.prev[o] = p
  <2> HIDE DEF a, b
  <2> QED BY <1>1, <1>2, LinkFields
<1>7. c.prev[e] = p
  <2> HIDE DEF a, b, c
  <2> QED BY <1>2, <1>3, LinkFields
<1>8. ListReplace(links, o, e) = d
  BY <1>5, <1>6, <1>7 DEF ListReplace
<1> HIDE DEF a, b, c, d
<1> QED
  BY <1>1, <1>2, <1>3, <1>4, <1>8

LEMMA ReplaceRep ==
  ASSUME NEW links, NEW lists, Rep(links, lists), NEW h \in Heads, NEW k \in 1 .. Len(lists[h]),
         NEW e \in Entries, Absent(lists, e),
         NEW u \in Seq(Entries), Len(u) = Len(lists[h]),
         \A j \in 1 .. Len(lists[h]) : u[j] = IF j = k THEN e ELSE lists[h][j]
  PROVE  /\ Rep(ListReplace(links, lists[h][k], e), [lists EXCEPT ![h] = u])
         /\ Absent([lists EXCEPT ![h] = u], lists[h][k])
<1> DEFINE s == lists[h]
           o == s[k]
           p == Node(h, s, k - 1)
           n == Node(h, s, k + 1)
           m == ListReplace(links, o, e)
           new == [lists EXCEPT ![h] = u]
<1>1. /\ links \in Links /\ lists \in [Heads -> Seq(Entries)] /\ s \in Seq(Entries)
      /\ Distinct(s) /\ Ring(links, h, s) /\ Apart(lists) /\ Rep(links, lists)
  BY DEF Rep
<1>2. /\ k \in Nat /\ Len(s) \in Nat /\ h \in Nodes
      /\ o \in Entries /\ o \in Nodes /\ p \in Nodes /\ n \in Nodes
      /\ o # h /\ o # p /\ o # n /\ links.prev[o] = p /\ links.next[o] = n
      /\ p = h \/ \E j \in 1 .. Len(s) : p = s[j]
      /\ n = h \/ \E j \in 1 .. Len(s) : n = s[j]
  BY AroundIs
<1>3. e \in Nodes /\ e # h /\ \A j \in 1 .. Len(s) : s[j] # e
  BY ListsAssumption DEF Nodes, Absent, On
<1>4. /\ Len(u) = Len(s) /\ k \in 1 .. Len(s)
      /\ \A j \in 1 .. Len(s) : u[j] = IF j = k THEN e ELSE s[j]
  OBVIOUS
<1>5. \A i, j \in 1 .. Len(s) : s[i] = s[j] => i = j
  BY <1>1 DEF Distinct
<1> HIDE DEF s, o, p, n
<1>6. e # o /\ e # p /\ e # n
  BY <1>2, <1>3, <1>4 DEF o
<1>7. Distinct(u) /\ \A j \in 1 .. Len(u) : u[j] # o /\ (u[j] = e \/ \E i \in 1 .. Len(s) : u[j] = s[i])
  BY <1>2, <1>3, <1>4, <1>5, <1>6 DEF Distinct, o
<1>8. /\ m \in Links
      /\ \A x \in Nodes : m.next[x] = IF x = p THEN e ELSE IF x = e THEN n ELSE links.next[x]
      /\ \A x \in Nodes : m.prev[x] = IF x = e THEN p ELSE IF x = n THEN e ELSE links.prev[x]
  <2>1. /\ links \in Links /\ e \in Nodes /\ o \in Nodes /\ p \in Nodes /\ n \in Nodes
        /\ links.next[o] = n /\ links.prev[o] = p /\ e # o /\ e # p /\ e # n /\ n # o
    BY <1>1, <1>2, <1>3, <1>6
  <2>2. /\ m \in Links
        /\ m.next = [links.next EXCEPT ![e] = n, ![p] = e]
        /\ m.prev = [links.prev EXCEPT ![n] = e, ![e] = p]
    BY <2>1, ReplaceIs
  <2> HIDE DEF m
  <2> QED
    BY <2>1, <2>2, LinkFields
<1> HIDE DEF m
<1>9. Ring(m, h, u)
  <2>1. /\ h \in Heads /\ Distinct(s) /\ k \in 1 .. Len(s) /\ e \in Entries
        /\ \A j \in 1 .. Len(s) : s[j] # e
        /\ u \in Seq(Entries) /\ Len(u) = Len(s)
        /\ \A j \in 1 .. Len(s) : u[j] = IF j = k THEN e ELSE s[j]
        /\ Ring(links, h, s)
    BY <1>1, <1>3, <1>4
  <2>2. /\ m.next[e] = Node(h, s, k + 1) /\ m.prev[Node(h, s, k + 1)] = e
        /\ m.prev[e] = Node(h, s, k - 1) /\ m.next[Node(h, s, k - 1)] = e
        /\ \A x \in Nodes \ {e, s[k], Node(h, s, k - 1)} : m.next[x] = links.next[x]
        /\ \A x \in Nodes \ {e, s[k], Node(h, s, k + 1)} : m.prev[x] = links.prev[x]
    BY <1>2, <1>3, <1>6, <1>8 DEF p, n
  <2> QED
    BY <2>1, <2>2, RingReplace
<1>10. \A g \in Heads \ {h} : Same(links, m, g, lists[g])
  <2>1. \A g \in Heads \ {h} : /\ p # g /\ ~On(lists, g, p) /\ n # g /\ ~On(lists, g, n)
                               /\ e # g /\ ~On(lists, g, e)
    <3>1. \A g \in Heads \ {h} : p # g /\ ~On(lists, g, p) /\ n # g /\ ~On(lists, g, n)
      BY <1>1, <1>2, NotOn DEF s
    <3>2. \A g \in Heads \ {h} : e # g /\ ~On(lists, g, e)
      BY ListsAssumption DEF Absent
    <3> QED
      BY <3>1, <3>2
  <2> QED
    BY <1>1, <1>8, <2>1, OthersSame
<1>11. new \in [Heads -> Seq(Entries)] /\ new[h] = u /\ \A g \in Heads \ {h} : new[g] = lists[g]
  BY <1>1
<1> HIDE DEF new
<1>12. Apart(new) /\ Absent(new, o)
  <2>1. \A g \in Heads \ {h} : \A i \in 1 .. Len(lists[g]) :
           lists[g][i] # e /\ \A j \in 1 .. Len(s) : lists[g][i] # s[j]
    BY <1>1 DEF Apart, Absent, On, s
  <2>2. \A g \in Heads \ {h} : \A i \in 1 .. Len(lists[g]), j \in 1 .. Len(u) : lists[g][i] # u[j]
    BY <1>7, <2>1
  <2>3. \A g \in Heads \ {h} : ~On(new, g, o)
    BY <1>4, <1>11, <2>1 DEF On, o
  <2>4. ~On(new, h, o)
    BY <1>7, <1>11 DEF On
  <2>5. Apart(new)
    <3> SUFFICES ASSUME NEW f \in Heads, NEW g \in Heads, f # g,
                        NEW i \in 1 .. Len(new[f]), NEW j \in 1 .. Len(new[g])
                 PROVE  new[f][i] # new[g][j]
      BY DEF Apart
    <3>1. CASE f = h
      BY <1>11, <2>2, <3>1
    <3>2. CASE g = h
      BY <1>11, <2>2, <3>2
    <3>3. CASE f # h /\ g # h
      BY <1>1, <1>11, <3>3 DEF Apart
    <3> QED
      BY <3>1, <3>2, <3>3
  <2> QED
    BY <2>3, <2>4, <2>5 DEF Absent
<1>13. \A g \in Heads : \/ Distinct(new[g]) /\ Ring(m, g, new[g])
                        \/ new[g] = lists[g] /\ Same(links, m, g, lists[g])
  BY <1>7, <1>9, <1>10, <1>11
<1>14. Rep(m, new)
  BY <1>1, <1>8, <1>11, <1>12, <1>13, RepChange
<1> QED
  BY <1>12, <1>14 DEF m, new, o, s

-----------------------------------------------------------------------------
(* list_cut_position.                                                      *)

LEMMA CutAtIs ==
  ASSUME NEW links \in Links, NEW g \in Nodes, NEW h \in Nodes, NEW e \in Nodes,
         links.next[h] \in Nodes, links.next[e] \in Nodes, e # g,
         links.next[h] # g, links.next[e] # g, links.next[e] # links.next[h]
  PROVE  LET m == CutAt(links, g, h, e) IN
         /\ m \in Links
         /\ \A x \in Nodes :
              /\ m.next[x] = IF x = h THEN links.next[e] ELSE IF x = e THEN g
                             ELSE IF x = g THEN links.next[h] ELSE links.next[x]
              /\ m.prev[x] = IF x = links.next[e] THEN h ELSE IF x = g THEN e
                             ELSE IF x = links.next[h] THEN g ELSE links.prev[x]
<1> DEFINE f == links.next[h]
           n == links.next[e]
           a == SetNext(links, g, f)
           b == SetPrev(a, f, g)
           c == SetPrev(b, g, e)
           d == SetNext(c, e, g)
           i == SetNext(d, h, n)
           j == SetPrev(i, n, h)
<1>1. a \in Links /\ a.prev = links.prev /\ a.next = [links.next EXCEPT ![g] = f]
  BY SetNextIs
<1>2. b \in Links /\ b.next = a.next /\ b.prev = [a.prev EXCEPT ![f] = g]
  <2>1. a \in Links /\ f \in Nodes /\ g \in Nodes
    BY <1>1
  <2> HIDE DEF f, n, a
  <2> QED BY <2>1, SetPrevIs
<1>3. c \in Links /\ c.next = b.next /\ c.prev = [b.prev EXCEPT ![g] = e]
  <2>1. b \in Links /\ g \in Nodes /\ e \in Nodes
    BY <1>2
  <2> HIDE DEF f, n, a, b
  <2> QED BY <2>1, SetPrevIs
<1>4. d \in Links /\ d.prev = c.prev /\ d.next = [c.next EXCEPT ![e] = g]
  <2>1. c \in Links /\ e \in Nodes /\ g \in Nodes
    BY <1>3
  <2> HIDE DEF f, n, a, b, c
  <2> QED BY <2>1, SetNextIs
<1>5. i \in Links /\ i.prev = d.prev /\ i.next = [d.next EXCEPT ![h] = n]
  <2>1. d \in Links /\ h \in Nodes /\ n \in Nodes
    BY <1>4
  <2> HIDE DEF f, n, a, b, c, d
  <2> QED BY <2>1, SetNextIs
<1>6. j \in Links /\ j.next = i.next /\ j.prev = [i.prev EXCEPT ![n] = h]
  <2>1. i \in Links /\ h \in Nodes /\ n \in Nodes
    BY <1>5
  <2> HIDE DEF f, n, a, b, c, d, i
  <2> QED BY <2>1, SetPrevIs
<1>7. a.next[g] = f
  <2> HIDE DEF f, a
  <2> QED BY <1>1, LinkFields
<1>8. CutAt(links, g, h, e) = j
  BY <1>7 DEF CutAt
<1> HIDE DEF a, b, c, d, i, j
<1>9. /\ CutAt(links, g, h, e) \in Links
      /\ CutAt(links, g, h, e).next = [links.next EXCEPT ![g] = f, ![e] = g, ![h] = n]
      /\ CutAt(links, g, h, e).prev = [links.prev EXCEPT ![f] = g, ![g] = e, ![n] = h]
  <2> HIDE DEF f, n
  <2> QED BY <1>1, <1>2, <1>3, <1>4, <1>5, <1>6, <1>8
<1> HIDE DEF f, n
<1>10. f \in Nodes /\ n \in Nodes
  BY DEF f, n
<1>11. \A x \in Nodes :
         /\ CutAt(links, g, h, e).next[x] = IF x = h THEN n ELSE IF x = e THEN g
                                            ELSE IF x = g THEN f ELSE links.next[x]
         /\ CutAt(links, g, h, e).prev[x] = IF x = n THEN h ELSE IF x = g THEN e
                                            ELSE IF x = f THEN g ELSE links.prev[x]
  BY <1>9, <1>10, LinkFields
<1> QED
  BY <1>9, <1>11 DEF f, n

LEMMA CutRep ==
  ASSUME NEW links, NEW lists, Rep(links, lists), NEW h \in Heads, NEW k \in 1 .. Len(lists[h]),
         NEW g \in Heads, g # h, Len(lists[g]) = 0,
         NEW new \in [Heads -> Seq(Entries)], Parted(lists[h], k, new[g], new[h]),
         \A f \in Heads \ {g, h} : new[f] = lists[f]
  PROVE  Rep(CutAt(links, g, h, lists[h][k]), new)
<1> DEFINE u == new[g]
           v == new[h]
<1> new[g] = u /\ new[h] = v /\ Parted(lists[h], k, u, v)
  OBVIOUS
<1> HIDE DEF u, v
<1> DEFINE s == lists[h]
           e == s[k]
           n == Node(h, s, k + 1)
           m == CutAt(links, g, h, e)
<1>1. /\ links \in Links /\ lists \in [Heads -> Seq(Entries)] /\ s \in Seq(Entries)
      /\ Distinct(s) /\ Ring(links, h, s) /\ Apart(lists) /\ Rep(links, lists)
  BY DEF Rep
<1>2. /\ k \in Nat /\ Len(s) \in Nat /\ h \in Nodes
      /\ e \in Entries /\ e \in Nodes /\ n \in Nodes
      /\ e # h /\ e # n /\ links.next[e] = n
      /\ n = h \/ \E j \in 1 .. Len(s) : n = s[j]
  BY AroundIs
<1>3. /\ k \in 1 .. Len(s) /\ 1 \in 1 .. Len(s) /\ 1 <= k /\ k <= Len(s)
  BY <1>2
<1>4. /\ Parted(s, k, u, v) /\ u \in Seq(Entries) /\ v \in Seq(Entries)
      /\ Len(u) = k /\ \A j \in 1 .. k : u[j] = s[j]
      /\ Len(v) = Len(s) - k /\ \A j \in 1 .. Len(v) : v[j] = s[j + k]
  BY DEF Parted
<1>5. \A i, j \in 1 .. Len(s) : s[i] = s[j] => i = j
  BY <1>1 DEF Distinct
<1>6. (\A j \in 1 .. Len(s) : s[j] \in Entries /\ s[j] \in Nodes)
      /\ g \in Nodes /\ g \notin Entries /\ h \notin Entries
  BY <1>1, ListsAssumption DEF Nodes
<1>7. links.next[h] = s[1] /\ s[1] # n /\ n # g
  <2>1. \A j \in Int : Node(h, s, j) = IF 1 <= j /\ j <= Len(s) THEN s[j] ELSE h
    BY <1>1, NodeIs
  <2>2. 0 \in 0 .. Len(s) /\ Node(h, s, 0) = h /\ Node(h, s, 0 + 1) = s[1]
    BY <1>2, <1>3, <2>1
  <2>3. links.next[h] = s[1]
    BY <1>1, <2>2 DEF Ring
  <2> HIDE DEF s
  <2>4. n = IF k + 1 <= Len(s) THEN s[k + 1] ELSE h
    BY <1>2, <1>3, <2>1
  <2>5. s[1] # n
    BY <1>2, <1>3, <1>5, <1>6, <2>4
  <2> QED
    BY <1>2, <1>6, <2>3, <2>5
<1> HIDE DEF s, e, n
<1>8. /\ m \in Links
      /\ \A x \in Nodes : m.next[x] = IF x = h THEN n ELSE IF x = e THEN g
                                      ELSE IF x = g THEN s[1] ELSE links.next[x]
      /\ \A x \in Nodes : m.prev[x] = IF x = n THEN h ELSE IF x = g THEN e
                                      ELSE IF x = s[1] THEN g ELSE links.prev[x]
  <2> DEFINE f == s[1]
  <2>1. /\ links \in Links /\ g \in Nodes /\ h \in Nodes /\ e \in Nodes /\ f \in Nodes /\ n \in Nodes
        /\ links.next[h] = f /\ links.next[e] = n /\ f # g /\ e # g /\ e # h /\ n # g /\ n # f
    BY <1>1, <1>2, <1>3, <1>6, <1>7
  <2> HIDE DEF f
  <2>2. /\ m \in Links
        /\ \A x \in Nodes : m.next[x] = IF x = h THEN n ELSE IF x = e THEN g
                                        ELSE IF x = g THEN f ELSE links.next[x]
        /\ \A x \in Nodes : m.prev[x] = IF x = n THEN h ELSE IF x = g THEN e
                                        ELSE IF x = f THEN g ELSE links.prev[x]
    <3>1. /\ links \in Links /\ g \in Nodes /\ h \in Nodes /\ e \in Nodes
          /\ links.next[h] \in Nodes /\ links.next[e] \in Nodes /\ e # g
          /\ links.next[h] # g /\ links.next[e] # g /\ links.next[e] # links.next[h]
      BY <2>1
    <3>2. /\ m \in Links
          /\ \A x \in Nodes :
               /\ m.next[x] = IF x = h THEN links.next[e] ELSE IF x = e THEN g
                              ELSE IF x = g THEN links.next[h] ELSE links.next[x]
               /\ m.prev[x] = IF x = links.next[e] THEN h ELSE IF x = g THEN e
                              ELSE IF x = links.next[h] THEN g ELSE links.prev[x]
      BY <3>1, CutAtIs
    <3>3. links.next[h] = f /\ links.next[e] = n
      BY <2>1
    <3> HIDE DEF m
    <3> QED
      BY <3>2, <3>3
  <2> HIDE DEF m
  <2> QED
    BY <2>2 DEF f
<1> HIDE DEF m
<1>9. Ring(m, g, u) /\ Ring(m, h, v)
  <2>1. /\ h \in Heads /\ Distinct(s) /\ k \in 1 .. Len(s) /\ g \in Heads /\ g # h
        /\ Parted(s, k, u, v) /\ Ring(links, h, s)
    BY <1>1, <1>3, <1>4
  <2>2. CutLinks(links, m, g, h, s, k)
    BY <1>2, <1>3, <1>6, <1>7, <1>8 DEF e, n, CutLinks
  <2> QED
    BY <2>1, <2>2, RingCut
<1>10. \A f \in Heads \ {g, h} : Same(links, m, f, lists[f])
  <2>1. s[1] \in Nodes /\ \E j \in 1 .. Len(s) : s[1] = s[j]
    BY <1>3, <1>6
  <2>2. e \in Nodes /\ \E j \in 1 .. Len(s) : e = s[j]
    BY <1>3, <1>6 DEF e
  <2>3. \A f \in Heads \ {h} : /\ n # f /\ ~On(lists, f, n) /\ e # f /\ ~On(lists, f, e)
                               /\ s[1] # f /\ ~On(lists, f, s[1]) /\ h # f /\ ~On(lists, f, h)
    <3>1. \A f \in Heads \ {h} : n # f /\ ~On(lists, f, n)
      BY <1>1, <1>2, NotOn DEF s
    <3>2. \A f \in Heads \ {h} : e # f /\ ~On(lists, f, e)
      BY <1>1, <2>2, NotOn DEF s
    <3>3. \A f \in Heads \ {h} : s[1] # f /\ ~On(lists, f, s[1])
      BY <1>1, <2>1, NotOn DEF s
    <3>4. \A f \in Heads \ {h} : h # f /\ ~On(lists, f, h)
      BY <1>1, <1>2, NotOn
    <3> QED
      BY <3>1, <3>2, <3>3, <3>4
  <2>4. \A f \in Heads \ {g} : g # f /\ ~On(lists, f, g)
    BY <1>1, <1>6, NotOn
  <2> TAKE f \in Heads \ {g, h}
  <2> DEFINE first == s[1]
  <2>5. \A x \in {n, e, first, h, g} : x # f /\ ~On(lists, f, x)
    BY <2>3, <2>4
  <2> HIDE DEF first
  <2>6. \A x \in Nodes : \/ m.next[x] = links.next[x] /\ m.prev[x] = links.prev[x]
                         \/ x # f /\ ~On(lists, f, x)
    <3> TAKE x \in Nodes
    <3>1. CASE x \in {n, e, first, h, g}
      BY <2>5, <3>1
    <3>2. CASE x \notin {n, e, first, h, g}
      <4>1. x # n /\ x # e /\ x # s[1] /\ x # h /\ x # g
        BY <3>2 DEF first
      <4>2. m.next[x] = links.next[x]
        BY <1>8, <4>1
      <4>3. m.prev[x] = links.prev[x]
        BY <1>8, <4>1
      <4> QED
        BY <4>2, <4>3
    <3> QED
      BY <3>1, <3>2
  <2> QED
    BY <1>1, <2>6, OthersSame
<1>11. /\ Distinct(u) /\ Distinct(v)
       /\ \A j \in 1 .. Len(u) : \E i \in 1 .. Len(s) : u[j] = s[i]
       /\ \A j \in 1 .. Len(v) : \E i \in 1 .. Len(s) : v[j] = s[i]
       /\ \A i \in 1 .. Len(u), j \in 1 .. Len(v) : u[i] # v[j]
  <2> DEFINE size == Len(s)
  <2>1. size \in Nat /\ k \in Nat /\ 1 <= k /\ k <= size /\ Len(u) = k /\ Len(v) = size - k
    BY <1>2, <1>3, <1>4
  <2>2. \A i, j \in 1 .. size : s[i] = s[j] => i = j
    BY <1>5
  <2> HIDE DEF size
  <2>3. \A j \in 1 .. Len(u) : j \in Int /\ j <= k /\ j \in 1 .. size /\ u[j] = s[j]
    BY <1>4, <2>1
  <2>4. \A j \in 1 .. Len(v) : j \in Int /\ j + k > k /\ j + k \in 1 .. size /\ v[j] = s[j + k]
    BY <1>4, <2>1
  <2>5. \A i, j \in 1 .. Len(u) : u[i] = u[j] => i = j
    BY <2>2, <2>3
  <2>6. \A i, j \in 1 .. Len(v) : v[i] = v[j] => i = j
    <3> SUFFICES ASSUME NEW i \in 1 .. Len(v), NEW j \in 1 .. Len(v), v[i] = v[j] PROVE i = j
      OBVIOUS
    <3>1. i + k = j + k
      BY <2>2, <2>4
    <3> QED
      BY <2>1, <2>4, <3>1
  <2>7. \A i \in 1 .. Len(u), j \in 1 .. Len(v) : u[i] # v[j]
    <3> SUFFICES ASSUME NEW i \in 1 .. Len(u), NEW j \in 1 .. Len(v), u[i] = v[j] PROVE FALSE
      OBVIOUS
    <3>1. i = j + k
      <4>1. i \in 1 .. size /\ j + k \in 1 .. size /\ u[i] = s[i] /\ v[j] = s[j + k]
        BY <2>3, <2>4
      <4>2. u[i] = v[j]
        OBVIOUS
      <4> QED
        BY <2>2, <4>1, <4>2
    <3> QED
      BY <2>1, <2>3, <2>4, <3>1
  <2>8. /\ \A j \in 1 .. Len(u) : \E i \in 1 .. size : u[j] = s[i]
        /\ \A j \in 1 .. Len(v) : \E i \in 1 .. size : v[j] = s[i]
    BY <2>3, <2>4
  <2> QED
    BY <2>5, <2>6, <2>7, <2>8 DEF Distinct, size
<1>12. Apart(new)
  <2>1. \A f \in Heads \ {h} : \A i \in 1 .. Len(lists[f]), j \in 1 .. Len(s) : lists[f][i] # s[j]
    BY <1>1 DEF Apart, s
  <2>2. \A f \in Heads \ {g, h} :
          /\ \A i \in 1 .. Len(lists[f]), j \in 1 .. Len(u) : lists[f][i] # u[j]
          /\ \A i \in 1 .. Len(lists[f]), j \in 1 .. Len(v) : lists[f][i] # v[j]
    <3> TAKE f \in Heads \ {g, h}
    <3>1. \A i \in 1 .. Len(lists[f]), j \in 1 .. Len(s) : lists[f][i] # s[j]
      BY <2>1
    <3>2. \A i \in 1 .. Len(lists[f]), j \in 1 .. Len(u) : lists[f][i] # u[j]
      <4> TAKE i \in 1 .. Len(lists[f]), j \in 1 .. Len(u)
      <4>1. PICK p \in 1 .. Len(s) : u[j] = s[p]
        BY <1>11
      <4> QED
        BY <3>1, <4>1
    <3>3. \A i \in 1 .. Len(lists[f]), j \in 1 .. Len(v) : lists[f][i] # v[j]
      <4> TAKE i \in 1 .. Len(lists[f]), j \in 1 .. Len(v)
      <4>1. PICK p \in 1 .. Len(s) : v[j] = s[p]
        BY <1>11
      <4> QED
        BY <3>1, <4>1
    <3> QED
      BY <3>2, <3>3
  <2> SUFFICES ASSUME NEW f1 \in Heads, NEW f2 \in Heads, f1 # f2,
                      NEW i \in 1 .. Len(new[f1]), NEW j \in 1 .. Len(new[f2])
               PROVE  new[f1][i] # new[f2][j]
    BY DEF Apart
  <2>3. CASE f1 \notin {g, h} /\ f2 \notin {g, h}
    BY <1>1, <2>3 DEF Apart
  <2>4. CASE f1 \in {g, h} /\ f2 \in {g, h}
    BY <1>11, <2>4
  <2>5. CASE f1 \in {g, h} /\ f2 \notin {g, h}
    <3>1. new[f2] = lists[f2] /\ (new[f1] = u \/ new[f1] = v)
      BY <2>5
    <3> QED
      BY <2>2, <2>5, <3>1
  <2>6. CASE f1 \notin {g, h} /\ f2 \in {g, h}
    BY <2>2, <2>6
  <2> QED
    BY <2>3, <2>4, <2>5, <2>6
<1>13. \A f \in Heads : \/ Distinct(new[f]) /\ Ring(m, f, new[f])
                        \/ new[f] = lists[f] /\ Same(links, m, f, lists[f])
  BY <1>9, <1>10, <1>11
<1>14. Rep(m, new)
  BY <1>1, <1>8, <1>12, <1>13, RepChange
<1> QED
  BY <1>14 DEF m, e, s

-----------------------------------------------------------------------------
(* list_splice and its like.                                               *)

LEMMA SpliceIs ==
  ASSUME NEW links \in Links, NEW a \in Nodes, NEW p \in Nodes, NEW n \in Nodes,
         links.next[a] \in Nodes, links.prev[a] \in Nodes, p # links.prev[a], n # links.next[a]
  PROVE  LET m == SpliceBetween(links, a, p, n) IN
         /\ m \in Links
         /\ \A x \in Nodes :
              /\ m.next[x] = IF x = links.prev[a] THEN n ELSE IF x = p THEN links.next[a]
                             ELSE links.next[x]
              /\ m.prev[x] = IF x = n THEN links.prev[a] ELSE IF x = links.next[a] THEN p
                             ELSE links.prev[x]
<1> DEFINE first == links.next[a]
           last == links.prev[a]
           b == SetPrev(links, first, p)
           c == SetNext(b, p, first)
           d == SetNext(c, last, n)
           e == SetPrev(d, n, last)
<1>1. first \in Nodes /\ last \in Nodes
  OBVIOUS
<1>2. SpliceBetween(links, a, p, n) = e
  BY DEF SpliceBetween
<1> HIDE DEF first, last
<1>3. b \in Links /\ b.next = links.next /\ b.prev = [links.prev EXCEPT ![first] = p]
  BY <1>1, SetPrevIs
<1>4. c \in Links /\ c.prev = b.prev /\ c.next = [b.next EXCEPT ![p] = first]
  <2> HIDE DEF b
  <2> QED BY <1>1, <1>3, SetNextIs
<1>5. d \in Links /\ d.prev = c.prev /\ d.next = [c.next EXCEPT ![last] = n]
  <2>1. c \in Links /\ n \in Nodes /\ last \in Nodes
    BY <1>1, <1>4
  <2> HIDE DEF b, c
  <2> QED BY <2>1, SetNextIs
<1>6. e \in Links /\ e.next = d.next /\ e.prev = [d.prev EXCEPT ![n] = last]
  <2>1. d \in Links /\ n \in Nodes /\ last \in Nodes
    BY <1>1, <1>5
  <2> HIDE DEF b, c, d
  <2> QED BY <2>1, SetPrevIs
<1> HIDE DEF b, c, d, e
<1>7. e.next = [links.next EXCEPT ![p] = first, ![last] = n]
  BY <1>3, <1>4, <1>5, <1>6
<1>8. e.prev = [links.prev EXCEPT ![first] = p, ![n] = last]
  BY <1>3, <1>4, <1>5, <1>6
<1>9. \A x \in Nodes :
        /\ e.next[x] = IF x = last THEN n ELSE IF x = p THEN first ELSE links.next[x]
        /\ e.prev[x] = IF x = n THEN last ELSE IF x = first THEN p ELSE links.prev[x]
  BY <1>1, <1>7, <1>8, LinkFields
<1> QED
  BY <1>2, <1>6, <1>9 DEF first, last

LEMMA EndsAre ==
  ASSUME NEW links, NEW a \in Heads, NEW t \in Seq(Entries), Ring(links, a, t)
  PROVE  /\ Len(t) > 0 => /\ links.next[a] = t[1] /\ links.prev[a] = t[Len(t)]
                          /\ t[1] \in Entries /\ t[Len(t)] \in Entries
         /\ Len(t) = 0 => links.next[a] = a /\ links.prev[a] = a
         /\ Linkage(links, t)
<1>1. Len(t) \in Nat
  OBVIOUS
<1>2. \A j \in Int : Node(a, t, j) = IF 1 <= j /\ j <= Len(t) THEN t[j] ELSE a
  BY NodeIs
<1>3. \A j \in 0 .. Len(t) : /\ links.next[Node(a, t, j)] = Node(a, t, j + 1)
                             /\ links.prev[Node(a, t, j + 1)] = Node(a, t, j)
  BY DEF Ring
<1>4. Node(a, t, 0) = a /\ Node(a, t, 0 + 1) = Node(a, t, 1) /\ 0 \in 0 .. Len(t)
  BY <1>1, <1>2
<1>5. Len(t) \in 0 .. Len(t) /\ Node(a, t, Len(t) + 1) = a
  BY <1>1, <1>2
<1>6. links.next[a] = Node(a, t, 1) /\ links.prev[a] = Node(a, t, Len(t))
  BY <1>3, <1>4, <1>5
<1>7. Len(t) > 0 => Node(a, t, 1) = t[1] /\ Node(a, t, Len(t)) = t[Len(t)]
  BY <1>1, <1>2
<1>8. Len(t) = 0 => Node(a, t, 1) = a /\ Node(a, t, Len(t)) = a
  BY <1>1, <1>2
<1>9. Len(t) > 0 => t[1] \in Entries /\ t[Len(t)] \in Entries
  BY <1>1
<1>10. \A j \in 1 .. Len(t) - 1 : links.next[t[j]] = t[j + 1] /\ links.prev[t[j + 1]] = t[j]
  <2> TAKE j \in 1 .. Len(t) - 1
  <2>1. j \in 0 .. Len(t) /\ Node(a, t, j) = t[j] /\ Node(a, t, j + 1) = t[j + 1]
    BY <1>1, <1>2
  <2> QED
    BY <1>3, <2>1
<1> QED
  BY <1>6, <1>7, <1>8, <1>9, <1>10 DEF Linkage

LEMMA EmptyRing ==
  ASSUME NEW m, NEW a \in Heads, NEW z \in Seq(Entries), Len(z) = 0, m.next[a] = a, m.prev[a] = a
  PROVE  Ring(m, a, z) /\ Distinct(z)
<1>1. \A j \in Int : Node(a, z, j) = a
  <2>1. \A j \in Int : Node(a, z, j) = IF 1 <= j /\ j <= Len(z) THEN z[j] ELSE a
    BY NodeIs
  <2>2. \A j \in Int : ~(1 <= j /\ j <= Len(z))
    OBVIOUS
  <2> QED
    BY <2>1, <2>2
<1>2. \A k \in 0 .. Len(z) : k \in Int /\ k + 1 \in Int
  OBVIOUS
<1>3. Ring(m, a, z)
  BY <1>1, <1>2 DEF Ring
<1>4. Distinct(z)
  BY DEF Distinct
<1> QED
  BY <1>3, <1>4

\* t, the list of a, goes in after the k-th entry of b; a is made an empty list.
LEMMA SpliceRep ==
  ASSUME NEW links, NEW lists, Rep(links, lists), NEW a \in Heads, NEW b \in Heads, a # b,
         Len(lists[a]) > 0, NEW k \in 0 .. Len(lists[b]), NEW u,
         Inserted(lists[b], k, lists[a], u),
         NEW new \in [Heads -> Seq(Entries)], Len(new[a]) = 0, new[b] = u,
         \A f \in Heads \ {a, b} : new[f] = lists[f]
  PROVE  Rep(InitListHead(SpliceBetween(links, a, Node(b, lists[b], k), Node(b, lists[b], k + 1)), a),
             new)
<1> DEFINE s == lists[b]
           t == lists[a]
           p == Node(b, s, k)
           n == Node(b, s, k + 1)
           first == t[1]
           last == t[Len(t)]
           c == SpliceBetween(links, a, p, n)
           m == InitListHead(c, a)
<1>1. /\ links \in Links /\ lists \in [Heads -> Seq(Entries)] /\ s \in Seq(Entries) /\ t \in Seq(Entries)
      /\ Distinct(s) /\ Distinct(t) /\ Ring(links, b, s) /\ Ring(links, a, t)
      /\ Apart(lists) /\ Rep(links, lists)
  BY DEF Rep
<1>2. /\ links.next[a] = first /\ links.prev[a] = last /\ first \in Entries /\ last \in Entries
      /\ Linkage(links, t)
  BY <1>1, EndsAre
<1>3. \A i \in 1 .. Len(s), j \in 1 .. Len(t) : s[i] # t[j]
  BY <1>1 DEF Apart
<1>4. Inserted(s, k, t, u) /\ k \in 0 .. Len(s) /\ Len(t) > 0 /\ Len(t) \in Nat /\ Len(s) \in Nat
  BY <1>1
<1>5. (\A j \in 1 .. Len(s) : s[j] \in Entries) /\ (\A j \in 1 .. Len(t) : t[j] \in Entries)
      /\ a \in Nodes /\ a \notin Entries /\ b \in Nodes /\ b \notin Entries /\ Entries \subseteq Nodes
  BY <1>1, ListsAssumption DEF Nodes
<1> HIDE DEF s, t
<1>6. k \in Int /\ k + 1 \in Int
  BY <1>4
<1>7. \A i \in Int : /\ Node(b, s, i) \in Nodes
                     /\ Node(b, s, i) = b \/ \E j \in 1 .. Len(s) : Node(b, s, i) = s[j]
  BY <1>1, <1>4, NodeIs
<1>8. /\ p \in Nodes
      /\ n \in Nodes
      /\ p = b \/ \E j \in 1 .. Len(s) : p = s[j]
      /\ n = b \/ \E j \in 1 .. Len(s) : n = s[j]
  <2>1. p \in Nodes /\ n \in Nodes
    BY <1>6, <1>7
  <2>2. p = b \/ \E j \in 1 .. Len(s) : p = s[j]
    BY <1>6, <1>7
  <2>3. n = b \/ \E j \in 1 .. Len(s) : n = s[j]
    BY <1>6, <1>7
  <2> QED
    BY <2>1, <2>2, <2>3
<1>9. 1 \in 1 .. Len(t) /\ Len(t) \in 1 .. Len(t)
  BY <1>4
<1> HIDE DEF p, n
<1>10. p # last /\ n # first /\ p # a /\ n # a /\ p # first /\ n # last
  <2>1. \A j \in 1 .. Len(t) : b # t[j]
    BY <1>5
  <2>2. \A j \in 1 .. Len(t) : p # t[j] /\ n # t[j]
    BY <1>3, <1>8, <2>1
  <2>3. p # a /\ n # a
    BY <1>5, <1>8
  <2> QED
    BY <1>9, <2>2, <2>3
<1>11. /\ c \in Links
       /\ \A x \in Nodes :
            /\ c.next[x] = IF x = last THEN n ELSE IF x = p THEN first ELSE links.next[x]
            /\ c.prev[x] = IF x = n THEN last ELSE IF x = first THEN p ELSE links.prev[x]
  <2>1. /\ links \in Links /\ a \in Nodes /\ p \in Nodes /\ n \in Nodes
        /\ links.next[a] \in Nodes /\ links.prev[a] \in Nodes
        /\ p # links.prev[a] /\ n # links.next[a]
    BY <1>1, <1>2, <1>5, <1>8, <1>10
  <2>2. /\ c \in Links
        /\ \A x \in Nodes :
             /\ c.next[x] = IF x = links.prev[a] THEN n ELSE IF x = p THEN links.next[a]
                            ELSE links.next[x]
             /\ c.prev[x] = IF x = n THEN links.prev[a] ELSE IF x = links.next[a] THEN p
                            ELSE links.prev[x]
    BY <2>1, SpliceIs
  <2> HIDE DEF c, first, last
  <2> QED
    BY <1>2, <2>2
<1> HIDE DEF c
<1>12. /\ m \in Links /\ m.next[a] = a /\ m.prev[a] = a
       /\ \A o \in Nodes \ {a} : m.next[o] = c.next[o] /\ m.prev[o] = c.prev[o]
  BY <1>5, <1>11, SetBothIs DEF InitListHead
<1> HIDE DEF m
<1>13. Distinct(u) /\ \A j \in 1 .. Len(u) : \/ \E i \in 1 .. Len(s) : u[j] = s[i]
                                             \/ \E i \in 1 .. Len(t) : u[j] = t[i]
  <2>1. /\ Distinct(s) /\ Distinct(t) /\ k \in 0 .. Len(s) /\ Inserted(s, k, t, u)
        /\ \A i \in 1 .. Len(s), j \in 1 .. Len(t) : s[i] # t[j]
    BY <1>1, <1>3, <1>4
  <2> HIDE DEF first, last
  <2> QED
    BY ONLY <2>1, InsertedIs
<1>14. Ring(c, b, u)
  <2>1. /\ b \in Heads /\ Distinct(s) /\ Distinct(t) /\ Len(t) > 0 /\ k \in 0 .. Len(s)
        /\ Inserted(s, k, t, u) /\ \A i \in 1 .. Len(s), j \in 1 .. Len(t) : s[i] # t[j]
        /\ Ring(links, b, s) /\ Linkage(links, t)
    BY <1>1, <1>2, <1>3, <1>4
  <2>2. /\ c.next[p] = first /\ c.next[last] = n /\ c.prev[n] = last /\ c.prev[first] = p
        /\ \A x \in Nodes \ {p, last} : c.next[x] = links.next[x]
        /\ \A x \in Nodes \ {n, first} : c.prev[x] = links.prev[x]
    <3>1. first \in Nodes /\ last \in Nodes
      BY <1>2, <1>5
    <3> HIDE DEF first, last
    <3>2. c.next[p] = first /\ c.next[last] = n
      BY <1>8, <1>10, <1>11, <3>1
    <3>5. c.prev[n] = last /\ c.prev[first] = p
      BY <1>8, <1>10, <1>11, <3>1
    <3>3. \A x \in Nodes \ {p, last} : c.next[x] = links.next[x]
      BY <1>11
    <3>4. \A x \in Nodes \ {n, first} : c.prev[x] = links.prev[x]
      BY <1>11
    <3> QED
      BY <3>2, <3>3, <3>4, <3>5
  <2>3. /\ c.next[Node(b, s, k)] = t[1] /\ c.next[t[Len(t)]] = Node(b, s, k + 1)
        /\ c.prev[Node(b, s, k + 1)] = t[Len(t)] /\ c.prev[t[1]] = Node(b, s, k)
        /\ \A x \in Nodes \ {Node(b, s, k), t[Len(t)]} : c.next[x] = links.next[x]
        /\ \A x \in Nodes \ {Node(b, s, k + 1), t[1]} : c.prev[x] = links.prev[x]
    BY <2>2 DEF p, n
  <2> QED
    BY <2>1, <2>3, RingInsert
<1>15. Ring(m, b, u)
  <2>1. u \in Seq(Entries)
    BY <1>13 DEF Distinct
  <2>2. b \in Nodes \ {a} /\ \A i \in 1 .. Len(u) : u[i] \in Nodes \ {a}
    BY <1>5, <2>1
  <2>3. /\ m.next[b] = c.next[b] /\ m.prev[b] = c.prev[b]
        /\ \A i \in 1 .. Len(u) : m.next[u[i]] = c.next[u[i]] /\ m.prev[u[i]] = c.prev[u[i]]
    BY <1>12, <2>2
  <2> QED
    BY <1>14, <2>1, <2>3, RingFrame
<1>16. Ring(m, a, new[a]) /\ Distinct(new[a])
  <2>1. new[a] \in Seq(Entries) /\ Len(new[a]) = 0
    OBVIOUS
  <2> QED
    BY <1>12, <2>1, EmptyRing
<1>17. \A f \in Heads \ {a, b} : Same(links, m, f, lists[f])
  <2>1. first \in Nodes /\ (\E j \in 1 .. Len(t) : first = t[j])
    BY <1>2, <1>5, <1>9
  <2>2. last \in Nodes /\ (\E j \in 1 .. Len(t) : last = t[j])
    BY <1>2, <1>5, <1>9
  <2> HIDE DEF first, last
  <2>3. \A f \in Heads \ {a} : first # f /\ ~On(lists, f, first)
    BY <1>1, <2>1, NotOn DEF t
  <2>4. \A f \in Heads \ {a} : last # f /\ ~On(lists, f, last)
    BY <1>1, <2>2, NotOn DEF t
  <2>5. \A f \in Heads \ {a} : a # f /\ ~On(lists, f, a)
    BY <1>1, <1>5, NotOn
  <2>6. \A f \in Heads \ {b} : p # f /\ ~On(lists, f, p)
    <3>1. p \in Nodes /\ (p = b \/ \E j \in 1 .. Len(lists[b]) : p = lists[b][j])
      BY <1>8 DEF s
    <3>2. b \in Heads /\ Rep(links, lists)
      BY <1>1
    <3> QED
      BY ONLY <3>1, <3>2, NotOn
  <2>7. \A f \in Heads \ {b} : n # f /\ ~On(lists, f, n)
    <3>1. n \in Nodes /\ (n = b \/ \E j \in 1 .. Len(lists[b]) : n = lists[b][j])
      BY <1>8 DEF s
    <3>2. b \in Heads /\ Rep(links, lists)
      BY <1>1
    <3> QED
      BY ONLY <3>1, <3>2, NotOn
  <2> TAKE f \in Heads \ {a, b}
  <2>8. \A x \in {n, p, first, last, a} : x # f /\ ~On(lists, f, x)
    BY <2>3, <2>4, <2>5, <2>6, <2>7
  <2>9. \A x \in Nodes : \/ m.next[x] = links.next[x] /\ m.prev[x] = links.prev[x]
                         \/ x # f /\ ~On(lists, f, x)
    <3> TAKE x \in Nodes
    <3>1. CASE x \in {n, p, first, last, a}
      BY <2>8, <3>1
    <3>2. CASE x \notin {n, p, first, last, a}
      <4>1. x # n /\ x # p /\ x # first /\ x # last /\ x # a
        BY <3>2
      <4>2. m.next[x] = links.next[x]
        BY <1>11, <1>12, <4>1
      <4>3. m.prev[x] = links.prev[x]
        BY <1>11, <1>12, <4>1
      <4> QED
        BY <4>2, <4>3
    <3> QED
      BY <3>1, <3>2
  <2> QED
    BY <1>1, <2>9, OthersSame
<1>18. Apart(new)
  <2>1. \A f \in Heads \ {a, b} : \A i \in 1 .. Len(lists[f]), j \in 1 .. Len(u) : lists[f][i] # u[j]
    <3> TAKE f \in Heads \ {a, b}
    <3> TAKE i \in 1 .. Len(lists[f]), j \in 1 .. Len(u)
    <3>1. CASE \E o \in 1 .. Len(s) : u[j] = s[o]
      BY <1>1, <3>1 DEF Apart, s
    <3>2. CASE \E o \in 1 .. Len(t) : u[j] = t[o]
      BY <1>1, <3>2 DEF Apart, t
    <3> QED
      BY <1>13, <3>1, <3>2
  <2> SUFFICES ASSUME NEW f \in Heads, NEW g \in Heads, f # g,
                      NEW i \in 1 .. Len(new[f]), NEW j \in 1 .. Len(new[g])
               PROVE  new[f][i] # new[g][j]
    BY DEF Apart
  <2>2. f # a /\ g # a
    OBVIOUS
  <2>3. CASE f = b
    <3>1. g \in Heads \ {a, b} /\ new[g] = lists[g] /\ new[f] = u
      BY <2>2, <2>3
    <3> QED
      BY <2>1, <3>1
  <2>4. CASE g = b
    <3>1. f \in Heads \ {a, b} /\ new[f] = lists[f] /\ new[g] = u
      BY <2>2, <2>4
    <3> QED
      BY <2>1, <3>1
  <2>5. CASE f # b /\ g # b
    <3>1. new[f] = lists[f] /\ new[g] = lists[g]
      BY <2>2, <2>5
    <3> QED
      BY <1>1, <3>1 DEF Apart
  <2> QED
    BY <2>3, <2>4, <2>5
<1>19. \A f \in Heads : \/ Distinct(new[f]) /\ Ring(m, f, new[f])
                        \/ new[f] = lists[f] /\ Same(links, m, f, lists[f])
  BY <1>13, <1>15, <1>16, <1>17
<1>20. Rep(m, new)
  BY <1>1, <1>12, <1>18, <1>19, RepChange
<1> QED
  BY <1>20 DEF m, c, p, n, s

-----------------------------------------------------------------------------
(* The operations, on the lists as sequences.                              *)

\* The ends of a list are the neighbours of its head.
LEMMA NodeEnds ==
  ASSUME NEW links, NEW h \in Heads, NEW s \in Seq(Entries), Ring(links, h, s)
  PROVE  /\ Node(h, s, 0) = h /\ Node(h, s, 0 + 1) = links.next[h]
         /\ Node(h, s, Len(s)) = links.prev[h] /\ Node(h, s, Len(s) + 1) = h
         /\ 0 \in 0 .. Len(s) /\ Len(s) \in 0 .. Len(s)
<1>1. Len(s) \in Nat
  OBVIOUS
<1>2. \A j \in Int : Node(h, s, j) = IF 1 <= j /\ j <= Len(s) THEN s[j] ELSE h
  BY NodeIs
<1>3. 0 \in 0 .. Len(s) /\ Len(s) \in 0 .. Len(s)
  BY <1>1
<1>4. Node(h, s, 0) = h /\ Node(h, s, Len(s) + 1) = h
  BY <1>1, <1>2
<1>5. links.next[Node(h, s, 0)] = Node(h, s, 0 + 1)
  BY <1>3 DEF Ring
<1>6. links.prev[Node(h, s, Len(s) + 1)] = Node(h, s, Len(s))
  BY <1>3 DEF Ring
<1> QED
  BY <1>3, <1>4, <1>5, <1>6

\* One sequence before or behind another.
LEMMA PutIn ==
  ASSUME NEW s \in Seq(Entries), NEW t \in Seq(Entries)
  PROVE  Inserted(s, 0, t, t \o s) /\ Inserted(s, Len(s), t, s \o t)
<1> DEFINE a == Len(s)
           b == Len(t)
<1>1. /\ t \o s \in Seq(Entries) /\ Len(t \o s) = b + a
      /\ \A i \in 1 .. b + a : (t \o s)[i] = IF i <= b THEN t[i] ELSE s[i - b]
  BY ConcatProperties
<1>2. /\ s \o t \in Seq(Entries) /\ Len(s \o t) = a + b
      /\ \A i \in 1 .. a + b : (s \o t)[i] = IF i <= a THEN s[i] ELSE t[i - a]
  BY ConcatProperties
<1>3. a \in Nat /\ b \in Nat
  OBVIOUS
<1> DEFINE u == t \o s
           v == s \o t
<1> HIDE DEF a, b, u, v
<1>4. /\ u \in Seq(Entries) /\ Len(u) = a + b
      /\ \A j \in 1 .. Len(u) :
           u[j] = IF j <= 0 THEN s[j] ELSE IF j <= 0 + b THEN t[j - 0] ELSE s[j - b]
  BY <1>1, <1>3 DEF u
<1>5. /\ v \in Seq(Entries) /\ Len(v) = a + b
      /\ \A j \in 1 .. Len(v) :
           v[j] = IF j <= a THEN s[j] ELSE IF j <= a + b THEN t[j - a] ELSE s[j - b]
  BY <1>2, <1>3 DEF v
<1> QED
  BY <1>4, <1>5 DEF Inserted, a, b, u, v

\* list_add and list_add_tail put an entry that is on no list before, or behind, the others.
LEMMA AddStep ==
  ASSUME NEW links, NEW lists, Rep(links, lists), NEW e \in Entries, Absent(lists, e), NEW h \in Heads
  PROVE  /\ Rep(ListAdd(links, e, h), [lists EXCEPT ![h] = <<e>> \o @])
         /\ Rep(ListAddTail(links, e, h), [lists EXCEPT ![h] = Append(@, e)])
<1> DEFINE s == lists[h]
           t == <<e>>
<1>1. lists \in [Heads -> Seq(Entries)] /\ s \in Seq(Entries) /\ Ring(links, h, s) /\ t \in Seq(Entries)
  BY DEF Rep
<1>2. Inserted(s, 0, t, t \o s) /\ Inserted(s, Len(s), t, s \o t)
  BY <1>1, PutIn
<1>3. Append(s, e) = s \o t
  BY <1>1, AppendIsConcat
<1>4. /\ Node(h, s, 0) = h /\ Node(h, s, 0 + 1) = links.next[h]
      /\ Node(h, s, Len(s)) = links.prev[h] /\ Node(h, s, Len(s) + 1) = h
      /\ 0 \in 0 .. Len(s) /\ Len(s) \in 0 .. Len(s)
  BY <1>1, NodeEnds
<1>5. Rep(ListAddBetween(links, e, Node(h, lists[h], 0), Node(h, lists[h], 0 + 1)),
          [lists EXCEPT ![h] = t \o s])
  BY <1>2, <1>4, AddRep
<1>6. Rep(ListAddBetween(links, e, Node(h, lists[h], Len(s)), Node(h, lists[h], Len(s) + 1)),
          [lists EXCEPT ![h] = s \o t])
  BY <1>2, <1>4, AddRep
<1>7. /\ [lists EXCEPT ![h] = <<e>> \o @] = [lists EXCEPT ![h] = t \o s]
      /\ [lists EXCEPT ![h] = Append(@, e)] = [lists EXCEPT ![h] = s \o t]
  BY <1>1, <1>3
<1>8. /\ ListAdd(links, e, h) = ListAddBetween(links, e, Node(h, lists[h], 0), Node(h, lists[h], 0 + 1))
      /\ ListAddTail(links, e, h)
           = ListAddBetween(links, e, Node(h, lists[h], Len(s)), Node(h, lists[h], Len(s) + 1))
  BY <1>4 DEF ListAdd, ListAddTail
<1> QED
  BY <1>5, <1>6, <1>7, <1>8

LEMMA FreeIs ==
  ASSUME NEW e \in Entries, seq \in [Heads -> Seq(Entries)]
  PROVE  /\ Free(e) <=> Absent(seq, e)
         /\ \A h \in Heads : e \in ToSet(seq[h]) <=> On(seq, h, e)
<1>1. \A h \in Heads : DOMAIN seq[h] = 1 .. Len(seq[h])
  OBVIOUS
<1> QED
  BY <1>1 DEF Free, Absent, On, ToSet

\* What follows the k-th entry of s.
LEMMA RestIs ==
  ASSUME NEW s \in Seq(Entries), NEW k \in 0 .. Len(s)
  PROVE  LET b == SubSeq(s, k + 1, Len(s)) IN
         /\ b \in Seq(Entries) /\ Len(b) = Len(s) - k
         /\ \A i \in 1 .. Len(s) - k : b[i] = s[k + i] /\ b[i] = s[i + k]
<1> DEFINE n == Len(s)
           b == SubSeq(s, k + 1, n)
<1>1. n \in Nat /\ k \in Nat /\ k <= n
  OBVIOUS
<1>2. \A i \in k + 1 .. n : s[i] \in Entries
  <2>1. \A i \in 1 .. n : s[i] \in Entries
    OBVIOUS
  <2> HIDE DEF n
  <2>2. k + 1 .. n \subseteq 1 .. n
    BY <1>1
  <2> QED
    BY <2>1, <2>2
<1> HIDE DEF n
<1>3. k + 1 \in Int /\ n \in Int
  BY <1>1
<1>4. /\ b \in Seq(Entries)
      /\ Len(b) = IF k + 1 <= n THEN n - (k + 1) + 1 ELSE 0
      /\ \A i \in 1 .. n - (k + 1) + 1 : b[i] = s[(k + 1) + i - 1]
  BY <1>2, <1>3, SubSeqProperties
<1> HIDE DEF b
<1>5. n - (k + 1) + 1 = n - k /\ (IF k + 1 <= n THEN n - (k + 1) + 1 ELSE 0) = n - k
  BY <1>1
<1>6. \A i \in 1 .. n - k : (k + 1) + i - 1 = k + i /\ k + i = i + k
  BY <1>1
<1>7. \A i \in 1 .. n - k : b[i] = s[k + i] /\ b[i] = s[i + k]
  BY <1>4, <1>5, <1>6
<1> QED
  BY <1>4, <1>5, <1>7 DEF b, n

LEMMA PlaceIs ==
  ASSUME NEW s, Distinct(s), NEW e, NEW k \in 1 .. Len(s), s[k] = e
  PROVE  Place(s, e) = k /\ Removed(s, k, RemoveAt(s, k))
<1>1. s \in Seq(Entries) /\ DOMAIN s = 1 .. Len(s) /\ Len(s) \in Nat
  BY DEF Distinct
<1>2. Place(s, e) = k
  BY <1>1 DEF Place, Distinct
<1> DEFINE a == SubSeq(s, 1, k - 1)
           b == SubSeq(s, k + 1, Len(s))
           n == Len(s)
<1>3. a \in Seq(Entries) /\ Len(a) = k - 1 /\ \A i \in 1 .. k - 1 : a[i] = s[i]
  BY <1>1
<1>4. b \in Seq(Entries) /\ Len(b) = n - k /\ \A i \in 1 .. n - k : b[i] = s[k + i]
  <2>1. k \in 0 .. Len(s) /\ s \in Seq(Entries)
    BY <1>1
  <2>2. /\ SubSeq(s, k + 1, Len(s)) \in Seq(Entries) /\ Len(SubSeq(s, k + 1, Len(s))) = Len(s) - k
        /\ \A i \in 1 .. Len(s) - k : SubSeq(s, k + 1, Len(s))[i] = s[k + i]
    BY <2>1, RestIs
  <2> QED
    BY <2>2
<1>5. k \in Nat /\ n \in Nat /\ 1 <= k /\ k <= n
  BY <1>1
<1>6. RemoveAt(s, k) = a \o b
  BY DEF RemoveAt
<1> HIDE DEF a, b, n
<1> DEFINE u == a \o b
<1>7. /\ u \in Seq(Entries) /\ Len(u) = Len(a) + Len(b)
      /\ \A i \in 1 .. Len(a) + Len(b) : u[i] = IF i <= Len(a) THEN a[i] ELSE b[i - Len(a)]
  BY <1>3, <1>4, ConcatProperties
<1> HIDE DEF u
<1>8. u \in Seq(Entries) /\ Len(u) = n - 1
  BY <1>3, <1>4, <1>5, <1>7
<1>9. \A j \in 1 .. Len(u) : u[j] = IF j < k THEN s[j] ELSE s[j + 1]
  <2> TAKE j \in 1 .. Len(u)
  <2>1. u[j] = IF j <= k - 1 THEN a[j] ELSE b[j - (k - 1)]
    BY <1>3, <1>4, <1>5, <1>7, <1>8
  <2>2. j \in Int /\ 1 <= j /\ j <= n - 1
    BY <1>5, <1>8
  <2>3. CASE j <= k - 1
    BY <1>3, <1>5, <2>1, <2>2, <2>3
  <2>4. CASE j > k - 1
    <3>1. j - (k - 1) \in 1 .. n - k /\ k + (j - (k - 1)) = j + 1
      BY <1>5, <2>2, <2>4
    <3>2. b[j - (k - 1)] = s[k + (j - (k - 1))]
      BY <1>4, <3>1
    <3> QED
      BY <1>5, <2>1, <2>2, <2>4, <3>1, <3>2
  <2> QED
    BY <1>5, <2>2, <2>3, <2>4
<1> QED
  BY <1>2, <1>6, <1>8, <1>9 DEF Removed, u, n

\* An entry that is not free has one place, and Without takes it from there.
LEMMA WithoutIs ==
  ASSUME NEW links, Rep(links, seq), NEW e \in Entries, ~Free(e)
  PROVE  \E h \in Heads : \E k \in 1 .. Len(seq[h]) :
           /\ seq[h][k] = e
           /\ Removed(seq[h], k, RemoveAt(seq[h], k))
           /\ Without(e) = [seq EXCEPT ![h] = RemoveAt(seq[h], k)]
           /\ \A g \in Heads \ {h} : ~On(seq, g, e)
<1>1. seq \in [Heads -> Seq(Entries)] /\ \A h \in Heads : Distinct(seq[h])
  BY DEF Rep
<1>2. PICK h \in Heads : e \in ToSet(seq[h])
  BY DEF Free
<1>3. PICK k \in 1 .. Len(seq[h]) : seq[h][k] = e
  BY <1>1, <1>2, FreeIs DEF On
<1>4. Place(seq[h], e) = k /\ Removed(seq[h], k, RemoveAt(seq[h], k))
  BY <1>1, <1>3, PlaceIs
<1>5. e \in Nodes /\ (e = h \/ (\E j \in 1 .. Len(seq[h]) : e = seq[h][j]) \/ (e \in Entries /\ Absent(seq, e)))
  BY <1>3 DEF Nodes
<1>6. \A g \in Heads \ {h} : ~On(seq, g, e)
  BY <1>5, NotOn
<1>7. \A g \in Heads \ {h} : e \notin ToSet(seq[g])
  BY <1>1, <1>6, FreeIs
<1>8. Without(e) = [seq EXCEPT ![h] = RemoveAt(seq[h], k)]
  BY <1>1, <1>2, <1>4, <1>7 DEF Without
<1> QED
  BY <1>3, <1>4, <1>6, <1>8

\* Unlinking an entry takes it off its list.
LEMMA UnlinkStep ==
  ASSUME NEW links, Rep(links, seq), NEW e \in Entries, ~Free(e)
  PROVE  Rep(Unlink(links, e), Without(e)) /\ Absent(Without(e), e)
<1>1. PICK h \in Heads : \E k \in 1 .. Len(seq[h]) :
        /\ seq[h][k] = e
        /\ Removed(seq[h], k, RemoveAt(seq[h], k))
        /\ Without(e) = [seq EXCEPT ![h] = RemoveAt(seq[h], k)]
  BY WithoutIs
<1>2. PICK k \in 1 .. Len(seq[h]) :
        /\ seq[h][k] = e
        /\ Removed(seq[h], k, RemoveAt(seq[h], k))
        /\ Without(e) = [seq EXCEPT ![h] = RemoveAt(seq[h], k)]
  BY <1>1
<1> DEFINE u == RemoveAt(seq[h], k)
<1>3. Removed(seq[h], k, u)
  BY <1>2
<1> HIDE DEF u
<1>4. /\ Rep(Unlink(links, seq[h][k]), [seq EXCEPT ![h] = u])
      /\ Absent([seq EXCEPT ![h] = u], seq[h][k])
  BY <1>3, UnlinkRep
<1> QED
  BY <1>2, <1>4 DEF u

-----------------------------------------------------------------------------
(* What each action of the program keeps.                                  *)

LEMMA AddingStep ==
  ASSUME Rep(l, seq), NEW h \in Heads, NEW e \in Entries, Adding(h, e)
  PROVE  Rep(l, seq)'
<1>1. Absent(seq, e)
  BY FreeIs DEF Adding, Rep
<1> DEFINE front == [seq EXCEPT ![h] = <<e>> \o @]
           back == [seq EXCEPT ![h] = Append(@, e)]
<1>2. Rep(ListAdd(l, e, h), front) /\ Rep(ListAddTail(l, e, h), back)
  BY <1>1, AddStep
<1>3. \/ l' = ListAdd(l, e, h) /\ seq' = front
      \/ l' = ListAddTail(l, e, h) /\ seq' = back
  BY DEF Adding, Do
<1>4. Rep(l', seq')
  <2> HIDE DEF front, back
  <2> QED BY <1>2, <1>3
<1> QED
  BY <1>4 DEF Rep, Links, Ring, Apart, Distinct

LEMMA DeletingStep ==
  ASSUME Rep(l, seq), NEW e \in Entries, Deleting(e)
  PROVE  Rep(l, seq)'
<1>1. Rep(Unlink(l, e), Without(e)) /\ Absent(Without(e), e)
  BY UnlinkStep DEF Deleting
<1>2. Rep(ListDel(l, e), Without(e)) /\ Rep(ListDelInit(l, e), Without(e))
  BY <1>1, InitAbsent DEF ListDel, ListDelInit
<1>3. \/ l' = ListDel(l, e) /\ seq' = Without(e)
      \/ l' = ListDelInit(l, e) /\ seq' = Without(e)
  BY DEF Deleting, Do
<1>4. Rep(l', seq')
  BY <1>2, <1>3
<1> QED
  BY <1>4 DEF Rep, Links, Ring, Apart, Distinct

LEMMA MovingStep ==
  ASSUME Rep(l, seq), NEW e \in Entries, NEW h \in Heads, Moving(e, h)
  PROVE  Rep(l, seq)'
<1> DEFINE rest == Without(e)
           front == [rest EXCEPT ![h] = <<e>> \o @]
           back == [rest EXCEPT ![h] = Append(@, e)]
<1>1. Rep(Unlink(l, e), rest) /\ Absent(rest, e)
  BY UnlinkStep DEF Moving
<1>2. \/ l' = ListMove(l, e, h) /\ seq' = front
      \/ l' = ListMoveTail(l, e, h) /\ seq' = back
  BY DEF Moving, Do
<1> HIDE DEF rest
<1>3. Rep(ListAdd(Unlink(l, e), e, h), front) /\ Rep(ListAddTail(Unlink(l, e), e, h), back)
  BY <1>1, AddStep
<1>4. Rep(l', seq')
  <2> HIDE DEF front, back
  <2> QED BY <1>2, <1>3 DEF ListMove, ListMoveTail
<1> QED
  BY <1>4 DEF Rep, Links, Ring, Apart, Distinct

LEMMA ReplacingStep ==
  ASSUME Rep(l, seq), NEW e \in Entries, NEW newitem \in Entries, Replacing(e, newitem)
  PROVE  Rep(l, seq)'
<1>1. /\ seq \in [Heads -> Seq(Entries)] /\ ~Free(e) /\ Absent(seq, newitem)
      /\ \A h \in Heads : Distinct(seq[h])
  BY FreeIs DEF Replacing, Rep
<1>2. PICK h \in Heads : \E k \in 1 .. Len(seq[h]) :
        /\ seq[h][k] = e
        /\ \A g \in Heads \ {h} : ~On(seq, g, e)
  BY <1>1, WithoutIs
<1>3. PICK k \in 1 .. Len(seq[h]) : seq[h][k] = e
  BY <1>2
<1> DEFINE renamed == [g \in Heads |-> [i \in DOMAIN seq[g] |->
                                          IF seq[g][i] = e THEN newitem ELSE seq[g][i]]]
           u == [seq[h] EXCEPT ![k] = newitem]
<1>4. /\ u \in Seq(Entries) /\ Len(u) = Len(seq[h])
      /\ \A j \in 1 .. Len(seq[h]) : u[j] = IF j = k THEN newitem ELSE seq[h][j]
  BY <1>1, ExceptSeq
<1>5. \A g \in Heads : DOMAIN seq[g] = 1 .. Len(seq[g])
  BY <1>1
<1>6. renamed[h] = u
  <2>1. \A j \in 1 .. Len(seq[h]) : seq[h][j] = e <=> j = k
    BY <1>1, <1>3 DEF Distinct
  <2>2. u = [i \in DOMAIN seq[h] |-> IF i = k THEN newitem ELSE seq[h][i]]
    BY <1>1
  <2> HIDE DEF u
  <2> QED
    BY <1>5, <2>1, <2>2
<1>7. \A g \in Heads \ {h} : renamed[g] = seq[g]
  <2> TAKE g \in Heads \ {h}
  <2>1. \A i \in DOMAIN seq[g] : seq[g][i] # e
    BY <1>2, <1>5 DEF On
  <2>2. seq[g] = [i \in DOMAIN seq[g] |-> seq[g][i]]
    BY <1>1
  <2>3. renamed[g] = [i \in DOMAIN seq[g] |-> IF seq[g][i] = e THEN newitem ELSE seq[g][i]]
    OBVIOUS
  <2> QED
    BY <2>1, <2>2, <2>3
<1> HIDE DEF u
<1>8. renamed = [seq EXCEPT ![h] = u]
  BY <1>1, <1>6, <1>7
<1>9. Rep(ListReplace(l, seq[h][k], newitem), [seq EXCEPT ![h] = u])
      /\ Absent([seq EXCEPT ![h] = u], seq[h][k])
  BY <1>1, <1>4, ReplaceRep
<1>10. \/ l' = ListReplace(l, e, newitem) /\ seq' = renamed
       \/ l' = ListReplaceInit(l, e, newitem) /\ seq' = renamed
  BY DEF Replacing, Do
<1> HIDE DEF renamed
<1>11. Rep(ListReplace(l, e, newitem), renamed) /\ Absent(renamed, e)
  BY <1>3, <1>8, <1>9
<1>12. Rep(ListReplaceInit(l, e, newitem), renamed)
  BY <1>11, InitAbsent DEF ListReplaceInit
<1>13. Rep(l', seq')
  BY <1>10, <1>11, <1>12
<1> QED
  BY <1>13 DEF Rep, Links, Ring, Apart, Distinct

LEMMA InitEmpty ==
  ASSUME NEW links, NEW lists, Rep(links, lists), NEW a \in Heads, Len(lists[a]) = 0
  PROVE  Rep(InitListHead(links, a), lists)
<1> DEFINE m == InitListHead(links, a)
<1>1. /\ links \in Links /\ lists \in [Heads -> Seq(Entries)] /\ Apart(lists) /\ Rep(links, lists)
      /\ a \in Nodes
  BY DEF Rep, Nodes
<1>2. /\ m \in Links /\ m.next[a] = a /\ m.prev[a] = a
      /\ \A o \in Nodes \ {a} : m.next[o] = links.next[o] /\ m.prev[o] = links.prev[o]
  BY <1>1, SetBothIs DEF InitListHead
<1> HIDE DEF m
<1>3. Ring(m, a, lists[a]) /\ Distinct(lists[a])
  BY <1>1, <1>2, EmptyRing
<1>4. \A f \in Heads \ {a} : Same(links, m, f, lists[f])
  <2>1. \A f \in Heads \ {a} : a # f /\ ~On(lists, f, a)
    BY <1>1, NotOn
  <2> QED
    BY <1>1, <1>2, <2>1, OthersSame
<1>5. \A f \in Heads : \/ Distinct(lists[f]) /\ Ring(m, f, lists[f])
                       \/ lists[f] = lists[f] /\ Same(links, m, f, lists[f])
  <2> TAKE f \in Heads
  <2>1. CASE f = a
    BY <1>3, <2>1
  <2>2. CASE f # a
    BY <1>4, <2>2
  <2> QED
    BY <2>1, <2>2
<1>6. Rep(m, lists)
  BY <1>1, <1>2, <1>5, RepChange
<1> QED
  BY <1>6 DEF m

\* What the tests of a list tell.
LEMMA TestsAre ==
  ASSUME NEW links, NEW lists, Rep(links, lists), NEW h \in Heads
  PROVE  /\ ListEmpty(links, h) <=> Len(lists[h]) = 0
         /\ ListEmptyCareful(links, h) <=> Len(lists[h]) = 0
         /\ ListIsSingular(links, h) <=> Len(lists[h]) = 1
         /\ \A k \in 1 .. Len(lists[h]) :
              ListIsLast(links, lists[h][k], h) <=> k = Len(lists[h])
<1> DEFINE s == lists[h]
<1>1. s \in Seq(Entries) /\ Distinct(s) /\ Ring(links, h, s)
  BY DEF Rep
<1>2. /\ Len(s) > 0 => /\ links.next[h] = s[1] /\ links.prev[h] = s[Len(s)]
                       /\ s[1] \in Entries /\ s[Len(s)] \in Entries
      /\ Len(s) = 0 => links.next[h] = h /\ links.prev[h] = h
  BY <1>1, EndsAre
<1>3. Len(s) \in Nat /\ h \notin Entries
  BY <1>1, ListsAssumption
<1>4. \A i, j \in 1 .. Len(s) : s[i] = s[j] => i = j
  BY <1>1 DEF Distinct
<1>5. ListEmpty(links, h) <=> Len(s) = 0
  BY <1>2, <1>3 DEF ListEmpty
<1>6. ListEmptyCareful(links, h) <=> Len(s) = 0
  BY <1>2, <1>3 DEF ListEmptyCareful
<1>7. ListIsSingular(links, h) <=> Len(s) = 1
  <2>1. Len(s) > 0 => (s[1] = s[Len(s)] <=> Len(s) = 1)
    <3>1. Len(s) > 0 => 1 \in 1 .. Len(s) /\ Len(s) \in 1 .. Len(s)
      BY <1>3
    <3> QED
      BY <1>4, <3>1
  <2> HIDE DEF s
  <2> QED
    BY <1>2, <1>3, <1>5, <2>1 DEF ListIsSingular
<1>8. \A k \in 1 .. Len(s) : ListIsLast(links, s[k], h) <=> k = Len(s)
  <2> TAKE k \in 1 .. Len(s)
  <2>1. links.next[s[k]] = Node(h, s, k + 1)
    BY AroundIs
  <2>2. Node(h, s, k + 1) = IF k + 1 <= Len(s) THEN s[k + 1] ELSE h
    BY <1>1, <1>3, NodeIs
  <2>3. k + 1 <= Len(s) => s[k + 1] # h
    BY <1>1, <1>3
  <2> QED
    BY <1>3, <2>1, <2>2, <2>3 DEF ListIsLast
<1> QED
  BY <1>5, <1>6, <1>7, <1>8

\* list_for_each visits the entries of a list in their order.
LEMMA ForEachIs ==
  ASSUME NEW links, NEW lists, Rep(links, lists), NEW h \in Heads,
         NEW size \in Nat, Len(lists[h]) <= size
  PROVE  ListForEach(links, h, size) = lists[h]
<1> DEFINE s == lists[h]
           next == links.next
           at == [k \in 1 .. Len(s) + 1 |-> IF k <= Len(s) THEN s[k] ELSE h]
<1>1. /\ s \in Seq(Entries) /\ Len(s) \in Nat /\ Ring(links, h, s) /\ DOMAIN next = Nodes
      /\ h \notin Entries /\ NULL \notin Entries
  BY ListsAssumption, LinkFields DEF Rep
<1>2. \A k \in 1 .. Len(s) : s[k] \in Entries
  BY <1>1
<1>3. \A k \in 1 .. Len(s) + 1 : Node(h, s, k) = at[k]
  BY <1>1, NodeIs
<1>4. next[h] = at[1]
  <2>1. Node(h, s, 0) = h /\ 0 \in 0 .. Len(s) /\ 0 + 1 = 1 /\ 1 \in 1 .. Len(s) + 1
    BY <1>1, NodeIs
  <2> HIDE DEF s, next, at
  <2>2. links.next[Node(h, s, 0)] = Node(h, s, 0 + 1)
    BY <1>1, <2>1 DEF Ring
  <2> QED
    BY <1>3, <2>1, <2>2 DEF next
<1>5. ASSUME NEW k \in 1 .. Len(s)
      PROVE  s[k] \in DOMAIN next \ {h, NULL} /\ next[s[k]] = at[k + 1]
  <2>1. /\ s[k] \in Entries /\ k \in 0 .. Len(s) /\ k + 1 \in 1 .. Len(s) + 1
        /\ Node(h, s, k) = s[k] /\ k \in Int
    BY <1>1, <1>2, NodeIs
  <2>2. s[k] \in DOMAIN next \ {h, NULL}
    BY <1>1, <2>1 DEF Nodes
  <2> HIDE DEF s, next, at
  <2>3. links.next[Node(h, s, k)] = Node(h, s, k + 1)
    BY <1>1, <2>1 DEF Ring
  <2>4. next[s[k]] = at[k + 1]
    BY <1>3, <2>1, <2>3 DEF next
  <2> QED
    BY <2>2, <2>4
<1>6. h \in {h, NULL} /\ Len(s) <= size
  OBVIOUS
<1>7. at[Len(s) + 1] = h /\ \A k \in 1 .. Len(s) : at[k] = s[k]
  BY <1>1
<1> HIDE DEF s, next, at
<1> DEFINE stops == {h, NULL}
<1>8. s \in Seq(Entries) /\ Len(s) <= size /\ Way(next, h, stops, s, at)
  BY <1>1, <1>4, <1>5, <1>6, <1>7 DEF Way
<1> HIDE DEF stops
<1>9. Along(next, h, stops, size) = s
  BY <1>8, AlongIs, Zenon
<1> QED
  BY <1>9 DEF ListForEach, s, next, stops

LEMMA CuttingStep ==
  ASSUME Rep(l, seq), NEW list \in Heads, NEW head \in Heads, NEW entry \in Nodes,
         Cutting(list, head, entry)
  PROVE  Rep(l, seq)'
<1> DEFINE s == seq[head]
           k == IF entry = head THEN 0 ELSE Place(s, entry)
           new == [seq EXCEPT ![list] = SubSeq(seq[head], 1, k),
                              ![head] = SubSeq(@, k + 1, Len(@))]
<1>1. /\ seq \in [Heads -> Seq(Entries)] /\ s \in Seq(Entries) /\ Distinct(s)
      /\ list # head /\ seq[list] = << >> /\ Len(seq[list]) = 0
      /\ entry = head \/ entry \in ToSet(s)
      /\ l' = ListCutPosition(l, list, head, entry) /\ seq' = new
  BY DEF Cutting, Do, Rep
<1>2. Len(s) \in Nat /\ DOMAIN s = 1 .. Len(s)
  BY <1>1
<1>3. /\ new \in [Heads -> {SubSeq(s, 1, k), SubSeq(s, k + 1, Len(s))} \cup Seq(Entries)]
      /\ new[list] = SubSeq(s, 1, k) /\ new[head] = SubSeq(s, k + 1, Len(s))
      /\ \A f \in Heads \ {list, head} : new[f] = seq[f]
  BY <1>1
<1>4. Rep(l', seq')
  <2>1. CASE entry = head
    <3>1. k = 0
      BY <2>1
    <3>2. SubSeq(s, 1, 0) = << >> /\ SubSeq(s, 0 + 1, Len(s)) = s
      BY <1>1, <1>2
    <3> HIDE DEF k, new
    <3>3. \A f \in Heads : new[f] = seq[f]
      BY <1>1, <1>3, <3>1, <3>2
    <3>4. new \in [Heads -> Seq(Entries)]
      BY <1>1, <1>3, <3>1, <3>2
    <3>5. new = seq
      BY <1>1, <3>3, <3>4
    <3>6. l' = l \/ l' = InitListHead(l, list)
      BY <1>1, <2>1 DEF ListCutPosition
    <3>7. Rep(l, seq) /\ Rep(InitListHead(l, list), seq)
      BY <1>1, InitEmpty
    <3> QED
      BY <1>1, <3>5, <3>6, <3>7
  <2>2. CASE entry # head
    <3>1. PICK j \in 1 .. Len(s) : s[j] = entry
      BY <1>1, <1>2, <2>2 DEF ToSet
    <3>2. k = j
      BY <1>1, <2>2, <3>1, PlaceIs
    <3> HIDE DEF k, new
    <3>3. /\ SubSeq(s, 1, j) \in Seq(Entries) /\ Len(SubSeq(s, 1, j)) = j
          /\ \A i \in 1 .. j : SubSeq(s, 1, j)[i] = s[i]
      BY <1>1, <1>2
    <3>4. /\ SubSeq(s, j + 1, Len(s)) \in Seq(Entries) /\ Len(SubSeq(s, j + 1, Len(s))) = Len(s) - j
          /\ \A i \in 1 .. Len(s) - j : SubSeq(s, j + 1, Len(s))[i] = s[i + j]
      <4>1. j \in 0 .. Len(s) /\ s \in Seq(Entries)
        BY <1>1, <1>2
      <4> QED
        BY <4>1, RestIs
    <3> DEFINE u == SubSeq(s, 1, j)
               v == SubSeq(s, j + 1, Len(s))
    <3>5. Parted(s, j, u, v)
      BY <3>3, <3>4 DEF Parted
    <3>6. /\ new \in [Heads -> Seq(Entries)] /\ new[list] = u /\ new[head] = v
          /\ \A f \in Heads \ {list, head} : new[f] = seq[f]
      <4>1. u \in Seq(Entries) /\ v \in Seq(Entries)
        BY <3>3, <3>4
      <4>2. new[list] = u /\ new[head] = v
        BY <1>3, <3>2
      <4> HIDE DEF u, v
      <4>3. \A f \in Heads : new[f] \in Seq(Entries)
        <5> TAKE f \in Heads
        <5>1. CASE f \in {list, head}
          BY <4>1, <4>2, <5>1
        <5>2. CASE f \notin {list, head}
          BY <1>1, <1>3, <5>2
        <5> QED
          BY <5>1, <5>2
      <4>4. new = [f \in Heads |-> new[f]]
        BY <1>3
      <4>5. new \in [Heads -> Seq(Entries)]
        BY <4>3, <4>4
      <4> QED
        BY <1>3, <4>2, <4>5
    <3> HIDE DEF u, v
    <3>7. Rep(CutAt(l, list, head, seq[head][j]), new)
      <4>1. /\ Rep(l, seq) /\ head \in Heads /\ j \in 1 .. Len(seq[head])
            /\ list \in Heads /\ list # head /\ Len(seq[list]) = 0
            /\ Parted(seq[head], j, new[list], new[head])
            /\ new \in [Heads -> Seq(Entries)]
            /\ \A f \in Heads \ {list, head} : new[f] = seq[f]
        BY <1>1, <3>5, <3>6
      <4> QED
        BY ONLY <4>1, CutRep
    <3>8. ListCutPosition(l, list, head, entry) = CutAt(l, list, head, entry)
      <4>1. ~ListEmpty(l, head)
        BY <1>2, TestsAre
      <4>2. ListIsSingular(l, head) => l.next[head] = entry
        <5> SUFFICES ASSUME ListIsSingular(l, head) PROVE l.next[head] = entry
          OBVIOUS
        <5>1. Len(s) = 1
          BY TestsAre
        <5>2. l.next[head] = s[1]
          <6>1. head \in Heads /\ seq[head] \in Seq(Entries) /\ Ring(l, head, seq[head])
            BY DEF Rep
          <6> QED
            BY <5>1, <6>1, EndsAre
        <5> QED
          BY <3>1, <5>1, <5>2
      <4> QED
        BY <2>2, <4>1, <4>2 DEF ListCutPosition
    <3> QED
      BY <1>1, <3>1, <3>7, <3>8
  <2> QED
    BY <2>1, <2>2
<1> QED
  BY <1>4 DEF Rep, Links, Ring, Apart, Distinct

LEMMA TwoChanged ==
  ASSUME NEW f \in [Heads -> Seq(Entries)], NEW a \in Heads, NEW b \in Heads, a # b,
         NEW u \in Seq(Entries), NEW new, new = [f EXCEPT ![a] = << >>, ![b] = u]
  PROVE  /\ new \in [Heads -> Seq(Entries)] /\ new[a] = << >> /\ new[b] = u
         /\ \A h \in Heads \ {a, b} : new[h] = f[h]
<1> DEFINE e == << >>
<1>1. e \in Seq(Entries)
  OBVIOUS
<1>2. new = [f EXCEPT ![a] = e, ![b] = u]
  OBVIOUS
<1> HIDE DEF e
<1>3. /\ new \in [Heads -> Seq(Entries)] /\ new[a] = e /\ new[b] = u
      /\ \A h \in Heads \ {a, b} : new[h] = f[h]
  BY <1>1, <1>2
<1> QED
  BY <1>3 DEF e

\* The four ways to splice, by where the entries go.
LEMMA SpliceStep ==
  ASSUME Rep(l, seq), NEW list \in Heads, NEW head \in Heads, list # head
  PROVE  LET front == [seq EXCEPT ![list] = << >>, ![head] = seq[list] \o @]
             back == [seq EXCEPT ![list] = << >>, ![head] = @ \o seq[list]]
         IN  /\ Rep(ListSpliceInit(l, list, head), front)
             /\ Rep(InitListHead(ListSplice(l, list, head), list), front)
             /\ Rep(ListSpliceTailInit(l, list, head), back)
             /\ Rep(InitListHead(ListSpliceTail(l, list, head), list), back)
<1> DEFINE s == seq[head]
           t == seq[list]
           front == [seq EXCEPT ![list] = << >>, ![head] = t \o s]
           back == [seq EXCEPT ![list] = << >>, ![head] = s \o t]
<1>1. seq \in [Heads -> Seq(Entries)] /\ s \in Seq(Entries) /\ t \in Seq(Entries) /\ Ring(l, head, s)
  BY DEF Rep
<1>2. t \o s \in Seq(Entries) /\ s \o t \in Seq(Entries)
  BY <1>1, ConcatProperties
<1>3. /\ front \in [Heads -> Seq(Entries)] /\ front[list] = << >> /\ front[head] = t \o s
      /\ \A f \in Heads \ {list, head} : front[f] = seq[f]
  <2> DEFINE u == t \o s
  <2>1. u \in Seq(Entries) /\ seq \in [Heads -> Seq(Entries)] /\ list # head
    BY <1>1, <1>2
  <2>2. front = [seq EXCEPT ![list] = << >>, ![head] = u]
    OBVIOUS
  <2> HIDE DEF u, front
  <2>3. /\ front \in [Heads -> Seq(Entries)] /\ front[list] = << >> /\ front[head] = u
        /\ \A f \in Heads \ {list, head} : front[f] = seq[f]
    BY <2>1, <2>2, TwoChanged
  <2> QED
    BY <2>3 DEF u
<1>4. /\ back \in [Heads -> Seq(Entries)] /\ back[list] = << >> /\ back[head] = s \o t
      /\ \A f \in Heads \ {list, head} : back[f] = seq[f]
  <2> DEFINE u == s \o t
  <2>1. u \in Seq(Entries) /\ seq \in [Heads -> Seq(Entries)] /\ list # head
    BY <1>1, <1>2
  <2>2. back = [seq EXCEPT ![list] = << >>, ![head] = u]
    OBVIOUS
  <2> HIDE DEF u, back
  <2>3. /\ back \in [Heads -> Seq(Entries)] /\ back[list] = << >> /\ back[head] = u
        /\ \A f \in Heads \ {list, head} : back[f] = seq[f]
    BY <2>1, <2>2, TwoChanged
  <2> QED
    BY <2>3 DEF u
<1>5. /\ front = [seq EXCEPT ![list] = << >>, ![head] = seq[list] \o @]
      /\ back = [seq EXCEPT ![list] = << >>, ![head] = @ \o seq[list]]
  BY <1>1
<1>6. ListEmpty(l, list) <=> Len(t) = 0
  BY TestsAre
<1> HIDE DEF front, back
<1>7. CASE Len(t) = 0
  <2>1. t = << >> /\ t \o s = s /\ s \o t = s
    BY <1>1, <1>7
  <2>2. \A f \in Heads : front[f] = seq[f] /\ back[f] = seq[f]
    BY <1>3, <1>4, <2>1
  <2>3. front = seq /\ back = seq
    BY <1>1, <1>3, <1>4, <2>2
  <2>4. Rep(l, seq) /\ Rep(InitListHead(l, list), seq)
    BY <1>7, InitEmpty
  <2>5. /\ ListSpliceInit(l, list, head) = l /\ ListSpliceTailInit(l, list, head) = l
        /\ ListSplice(l, list, head) = l /\ ListSpliceTail(l, list, head) = l
    BY <1>6, <1>7 DEF ListSpliceInit, ListSpliceTailInit, ListSplice, ListSpliceTail
  <2> QED
    BY <1>5, <2>3, <2>4, <2>5
<1>8. CASE Len(t) > 0
  <2>1. Inserted(s, 0, t, t \o s) /\ Inserted(s, Len(s), t, s \o t)
    BY <1>1, PutIn
  <2>2. /\ Node(head, s, 0) = head /\ Node(head, s, 0 + 1) = l.next[head]
        /\ Node(head, s, Len(s)) = l.prev[head] /\ Node(head, s, Len(s) + 1) = head
        /\ 0 \in 0 .. Len(s) /\ Len(s) \in 0 .. Len(s)
    BY <1>1, NodeEnds
  <2>3. Rep(InitListHead(SpliceBetween(l, list, Node(head, seq[head], 0),
                                       Node(head, seq[head], 0 + 1)), list), front)
    <3>1. /\ Rep(l, seq) /\ list \in Heads /\ head \in Heads /\ list # head /\ Len(seq[list]) > 0
          /\ 0 \in 0 .. Len(seq[head]) /\ Inserted(seq[head], 0, seq[list], t \o s)
          /\ front \in [Heads -> Seq(Entries)] /\ Len(front[list]) = 0 /\ front[head] = t \o s
          /\ \A f \in Heads \ {list, head} : front[f] = seq[f]
      BY <1>3, <1>8, <2>1, <2>2
    <3> DEFINE u == t \o s
    <3> HIDE DEF u
    <3>2. Inserted(seq[head], 0, seq[list], u) /\ front[head] = u
      BY <3>1 DEF u
    <3> QED
      BY <3>1, <3>2, SpliceRep
  <2>4. Rep(InitListHead(SpliceBetween(l, list, Node(head, seq[head], Len(s)),
                                       Node(head, seq[head], Len(s) + 1)), list), back)
    <3>1. /\ Rep(l, seq) /\ list \in Heads /\ head \in Heads /\ list # head /\ Len(seq[list]) > 0
          /\ Len(s) \in 0 .. Len(seq[head]) /\ Inserted(seq[head], Len(s), seq[list], s \o t)
          /\ back \in [Heads -> Seq(Entries)] /\ Len(back[list]) = 0 /\ back[head] = s \o t
          /\ \A f \in Heads \ {list, head} : back[f] = seq[f]
      BY <1>4, <1>8, <2>1, <2>2
    <3> DEFINE u == s \o t
               k == Len(s)
    <3> HIDE DEF u, k
    <3>2. Inserted(seq[head], k, seq[list], u) /\ back[head] = u /\ k \in 0 .. Len(seq[head])
      BY <3>1 DEF u, k
    <3>3. Rep(InitListHead(SpliceBetween(l, list, Node(head, seq[head], k),
                                         Node(head, seq[head], k + 1)), list), back)
      BY <3>1, <3>2, SpliceRep
    <3> QED
      BY <3>3 DEF k
  <2>5. ~ListEmpty(l, list)
    BY <1>6, <1>8
  <2>6. /\ ListSplice(l, list, head)
             = SpliceBetween(l, list, Node(head, seq[head], 0), Node(head, seq[head], 0 + 1))
        /\ ListSpliceTail(l, list, head)
             = SpliceBetween(l, list, Node(head, seq[head], Len(s)), Node(head, seq[head], Len(s) + 1))
    BY <2>2, <2>5 DEF ListSplice, ListSpliceTail
  <2>7. /\ ListSpliceInit(l, list, head) = InitListHead(ListSplice(l, list, head), list)
        /\ ListSpliceTailInit(l, list, head) = InitListHead(ListSpliceTail(l, list, head), list)
    BY <2>5 DEF ListSpliceInit, ListSpliceTailInit
  <2> QED
    BY <1>5, <2>3, <2>4, <2>6, <2>7
<1> QED
  BY <1>1, <1>7, <1>8

LEMMA SplicingStep ==
  ASSUME Rep(l, seq), NEW list \in Heads, NEW head \in Heads, Splicing(list, head)
  PROVE  Rep(l, seq)'
<1> DEFINE front == [seq EXCEPT ![list] = << >>, ![head] = seq[list] \o @]
           back == [seq EXCEPT ![list] = << >>, ![head] = @ \o seq[list]]
<1>1. /\ Rep(ListSpliceInit(l, list, head), front)
      /\ Rep(InitListHead(ListSplice(l, list, head), list), front)
      /\ Rep(ListSpliceTailInit(l, list, head), back)
      /\ Rep(InitListHead(ListSpliceTail(l, list, head), list), back)
  BY SpliceStep DEF Splicing
<1>2. \/ /\ l' = ListSpliceInit(l, list, head) \/ l' = InitListHead(ListSplice(l, list, head), list)
         /\ seq' = front
      \/ /\ \/ l' = ListSpliceTailInit(l, list, head)
            \/ l' = InitListHead(ListSpliceTail(l, list, head), list)
         /\ seq' = back
  BY DEF Splicing
<1> HIDE DEF front, back
<1>3. Rep(l', seq')
  BY <1>1, <1>2
<1> QED
  BY <1>3 DEF Rep, Links, Ring, Apart, Distinct

-----------------------------------------------------------------------------
LEMMA InitStep == ListsInit => Rep(l, seq)
<1> SUFFICES ASSUME ListsInit PROVE Rep(l, seq)
  OBVIOUS
<1>1. l \in Links
  BY DEF ListsInit, Links, Nodes
<1>2. seq \in [Heads -> Seq(Entries)] /\ \A h \in Heads : seq[h] = << >> /\ Len(seq[h]) = 0
  BY DEF ListsInit
<1>3. \A h \in Heads : l.next[h] = h /\ l.prev[h] = h
  BY DEF ListsInit, Nodes
<1>4. \A h \in Heads : Ring(l, h, seq[h]) /\ Distinct(seq[h])
  BY <1>2, <1>3, EmptyRing
<1>5. Apart(seq)
  BY <1>2 DEF Apart
<1> QED
  BY <1>1, <1>2, <1>4, <1>5 DEF Rep

LEMMA NextStep == Rep(l, seq) /\ [ListsNext]_listVars => Rep(l, seq)'
<1> SUFFICES ASSUME Rep(l, seq), [ListsNext]_listVars PROVE Rep(l, seq)'
  OBVIOUS
<1>1. CASE \E h \in Heads, e \in Entries : Adding(h, e)
  BY <1>1, AddingStep
<1>2. CASE \E h \in Heads, e \in Entries : Moving(e, h)
  BY <1>2, MovingStep
<1>3. CASE \E e \in Entries : Deleting(e)
  BY <1>3, DeletingStep
<1>4. CASE \E e, newitem \in Entries : Replacing(e, newitem)
  BY <1>4, ReplacingStep
<1>5. CASE \E list, head \in Heads : Splicing(list, head)
  BY <1>5, SplicingStep
<1>6. CASE \E list, head \in Heads : \E entry \in Nodes : Cutting(list, head, entry)
  BY <1>6, CuttingStep
<1>7. CASE UNCHANGED listVars
  BY <1>7 DEF listVars, Rep, Links, Ring, Apart, Distinct
<1> QED
  BY <1>1, <1>2, <1>3, <1>4, <1>5, <1>6, <1>7 DEF ListsNext

LEMMA RepLinked == Rep(l, seq) => ListsLinked
<1> SUFFICES ASSUME Rep(l, seq), NEW h \in Heads
             PROVE  /\ \A k \in 0 .. Len(seq[h]) :
                         /\ l.next[Node(h, seq[h], k)] = Node(h, seq[h], k + 1)
                         /\ l.prev[Node(h, seq[h], k + 1)] = Node(h, seq[h], k)
                    /\ ListEmpty(l, h) <=> seq[h] = << >>
                    /\ ListEmptyCareful(l, h) <=> seq[h] = << >>
                    /\ ListIsSingular(l, h) <=> Len(seq[h]) = 1
                    /\ \A k \in DOMAIN seq[h] : ListIsLast(l, seq[h][k], h) <=> k = Len(seq[h])
  BY DEF ListsLinked
<1>1. Ring(l, h, seq[h]) /\ seq[h] \in Seq(Entries)
  BY DEF Rep
<1>2. DOMAIN seq[h] = 1 .. Len(seq[h]) /\ (seq[h] = << >> <=> Len(seq[h]) = 0)
  BY <1>1
<1> QED
  BY <1>1, <1>2, TestsAre DEF Ring

\* For any number of lists and entries, and whatever order the operations of linklist.h are
\* called in: the nodes of each list stay linked both ways in the order of its entries, and
\* list_empty, list_is_singular and list_is_last tell what is on it.
THEOREM ListsLinkedCorrect == ListsInit /\ [][ListsNext]_listVars => []ListsLinked
<1>1. ListsInit => Rep(l, seq)
  BY InitStep
<1>2. Rep(l, seq) /\ [ListsNext]_listVars => Rep(l, seq)'
  BY NextStep
<1>3. Rep(l, seq) => ListsLinked
  BY RepLinked
<1> QED
  BY <1>1, <1>2, <1>3, PTL

\* For any number of lists and entries, after any calls, list_for_each over a list visits
\* its entries, each once and in their order, however many it is allowed to visit.
THEOREM WalksCorrect ==
  ListsInit /\ [][ListsNext]_listVars =>
    [](\A h \in Heads : \A size \in Nat :
         Len(seq[h]) <= size => ListForEach(l, h, size) = seq[h])
<1>1. ListsInit => Rep(l, seq)
  BY InitStep
<1>2. Rep(l, seq) /\ [ListsNext]_listVars => Rep(l, seq)'
  BY NextStep
<1>3. Rep(l, seq) => \A h \in Heads : \A size \in Nat :
                       Len(seq[h]) <= size => ListForEach(l, h, size) = seq[h]
  BY ForEachIs
<1> QED
  BY <1>1, <1>2, <1>3, PTL
=============================================================================
