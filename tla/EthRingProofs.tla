---------------------------- MODULE EthRingProofs ----------------------------
(***************************************************************************)
(* The ring of net/eth_legacy.c is a list, ethact names the current device, *)
(* and a round of retries tries every device, for any number of devices and *)
(* of slots of the environment.                                            *)
(***************************************************************************)
EXTENDS EthRing, SequenceTheorems, TLAPS

\* What is known of walks and of sequences without repetition.
L == INSTANCE ListProofs WITH Heads <- {}, Entries <- Devs, l <- next, seq <- << >>

\* The devices of s point at each other in turn, the last at the first.
Loop(links, s) ==
  /\ L!Distinct(s) /\ Len(s) > 0
  /\ \A k \in 1 .. Len(s) : links[s[k]] = IF k = Len(s) THEN s[1] ELSE s[k + 1]

\* s is the ring with the first device first.
Shape(links, first, s) ==
  \/ first = NULL /\ s = << >>
  \/ first # NULL /\ Loop(links, s) /\ first = s[1]

LastSlot == Slots - 1

\* Only the last slot of the environment has ever been used.
Slim(e) ==
  /\ DOMAIN e = SlotIds /\ \A i \in SlotIds : e[i].val \in Values
  /\ \A i \in 0 .. Slots - 2 : e[i].var = NoVar

\* ethact, and nothing else: it names the current device if there is one.
Acts(e, cur) ==
  /\ Slim(e)
  /\ cur # NULL => e[LastSlot].var = EthAct /\ e[LastSlot].val = Name(cur)
  /\ cur = NULL => e[LastSlot].var \in {NoVar, EthAct} /\ e[LastSlot].val = Junk

\* The devices tried in a round are those from the first that failed to the current one.
Turns ==
  round => /\ first_failed \in tried \cap OnRing /\ eth_current \in tried
           /\ \A d \in tried : d # eth_current => next[d] \in tried

IInv ==
  /\ TypeOK
  /\ Shape(next, eth_devices, Ring)
  /\ Len(Ring) <= next_index /\ \A d \in OnRing : index[d] < next_index
  /\ IF eth_devices = NULL THEN eth_current = NULL ELSE eth_current \in OnRing
  /\ Slim(env) /\ (phase # "trap" => Acts(env, eth_current))
  /\ act \in {NoSlot, LastSlot}
  /\ Turns

-----------------------------------------------------------------------------
(* The ring.                                                               *)

LEMMA ListsGiven == L!ListsAssumption
BY RingAssumption DEF L!ListsAssumption

LEMMA LoopIs ==
  ASSUME NEW links, NEW s, Loop(links, s)
  PROVE  /\ s \in Seq(Devs) /\ Len(s) \in Nat /\ Len(s) > 0 /\ DOMAIN s = 1 .. Len(s)
         /\ \A k \in 1 .. Len(s) : s[k] \in Devs /\ s[k] \in ToSet(s)
         /\ \A d \in ToSet(s) : \E k \in 1 .. Len(s) : s[k] = d
         /\ ToSet(s) \subseteq Devs /\ s # << >>
         /\ \A j, k \in 1 .. Len(s) : s[j] = s[k] => j = k
         /\ \A k \in 1 .. Len(s) : links[s[k]] = IF k = Len(s) THEN s[1] ELSE s[k + 1]
BY DEF Loop, L!Distinct, ToSet

\* A walk along a loop visits its devices.
LEMMA LoopWalk ==
  ASSUME NEW links, DOMAIN links = Devs, NEW s, Loop(links, s), NEW size \in Nat, Len(s) <= size
  PROVE  <<s[1]>> \o Along(links, s[1], {s[1], NULL}, size) = s
<1> DEFINE r == SubSeq(s, 1 + 1, Len(s))
           stops == {s[1], NULL}
           at == [k \in 1 .. Len(s) |-> IF k < Len(s) THEN s[k + 1] ELSE s[1]]
<1>1. /\ s \in Seq(Devs) /\ Len(s) \in Nat /\ Len(s) > 0 /\ NULL \notin Devs
      /\ \A k \in 1 .. Len(s) : s[k] \in Devs
  BY LoopIs, RingAssumption
<1>2. /\ r \in Seq(Devs) /\ Len(r) = Len(s) - 1 /\ \A k \in 1 .. Len(s) - 1 : r[k] = s[k + 1]
  <2>1. s \in Seq(Devs) /\ 1 \in 0 .. Len(s)
    BY <1>1
  <2>2. LET b == SubSeq(s, 1 + 1, Len(s)) IN
        /\ b \in Seq(Devs) /\ Len(b) = Len(s) - 1
        /\ \A k \in 1 .. Len(s) - 1 : b[k] = s[1 + k] /\ b[k] = s[k + 1]
    BY ONLY <2>1, ListsGiven, L!RestIs
  <2> QED
    BY <2>2
<1>3. L!Way(links, s[1], stops, r, at)
  <2> HIDE DEF r
  <2>1. links[s[1]] = at[1]
    BY <1>1, LoopIs
  <2>2. at[Len(r) + 1] \in stops
    BY <1>1, <1>2
  <2>3. ASSUME NEW k \in 1 .. Len(r)
        PROVE  at[k] = r[k] /\ r[k] \in DOMAIN links \ stops /\ links[r[k]] = at[k + 1]
    <3>1. k + 1 \in 1 .. Len(s) /\ 1 \in 1 .. Len(s) /\ k \in 1 .. Len(s) - 1 /\ k < Len(s) /\ k \in 1 .. Len(s)
      BY <1>1, <1>2
    <3>2. at[k] = s[k + 1] /\ r[k] = s[k + 1]
      BY <1>2, <3>1
    <3>3. s[k + 1] # s[1] /\ s[k + 1] \in Devs
      BY <3>1, LoopIs
    <3>4. links[s[k + 1]] = IF k + 1 = Len(s) THEN s[1] ELSE s[k + 1 + 1]
      BY <3>1, LoopIs
    <3>5. at[k + 1] = IF k + 1 = Len(s) THEN s[1] ELSE s[k + 1 + 1]
      BY <1>1, <3>1
    <3> QED
      BY <1>1, <3>2, <3>3, <3>4, <3>5
  <2> QED
    BY <2>1, <2>2, <2>3 DEF L!Way
<1>4. r \in Seq(Devs) /\ Len(r) <= size
  BY <1>1, <1>2
<1>5. <<s[1]>> \o r = s
  <2>1. 1 \in 1 .. Len(s)
    BY <1>1
  <2>2. <<s[1]>> \o SubSeq(s, 1 + 1, Len(s)) = SubSeq(s, 1, Len(s))
    BY <1>1, <2>1, ListsGiven, L!RestOf
  <2>3. SubSeq(s, 1, Len(s)) = s
    BY <1>1
  <2> QED
    BY <2>1, <2>2, <2>3
<1> HIDE DEF r, at, stops
<1>6. L!Along(links, s[1], stops, size) = r
  BY <1>3, <1>4, ListsGiven, L!AlongIs, Zenon
<1>7. L!Along(links, s[1], stops, size) = Along(links, s[1], stops, size)
  BY Zenon DEF L!Along, Along
<1> QED
  BY <1>5, <1>6, <1>7 DEF stops

LEMMA RingIs ==
  ASSUME NEW links, DOMAIN links = Devs, NEW first, NEW s, Shape(links, first, s),
         Len(s) <= MaxIndex
  PROVE  (IF first = NULL THEN << >> ELSE <<first>> \o Along(links, first, {first, NULL}, MaxIndex)) = s
BY LoopWalk, RingAssumption DEF Shape

\* A device comes between the last and the first.
LEMMA LoopAdd ==
  ASSUME NEW links \in [Devs -> Devs \cup {NULL}], NEW s, Loop(links, s),
         NEW d \in Devs, d \notin ToSet(s), NEW e \in ToSet(s), links[e] = s[1],
         NEW m, m = [links EXCEPT ![e] = d, ![d] = s[1]]
  PROVE  Loop(m, Append(s, d)) /\ Append(s, d)[1] = s[1]
<1> DEFINE n == Len(s)
           u == Append(s, d)
<1>1. /\ s \in Seq(Devs) /\ n \in Nat /\ n > 0
      /\ \A k \in 1 .. n : s[k] \in Devs /\ s[k] \in ToSet(s)
      /\ \A j, k \in 1 .. n : s[j] = s[k] => j = k
      /\ \A k \in 1 .. n : links[s[k]] = IF k = n THEN s[1] ELSE s[k + 1]
  BY LoopIs
<1>2. PICK i \in 1 .. n : s[i] = e
  BY LoopIs
<1>3. i = n
  <2>1. CASE i # n
    <3>1. links[s[i]] = s[i + 1] /\ i + 1 \in 1 .. n /\ 1 \in 1 .. n /\ i + 1 # 1
      BY <1>1, <2>1
    <3> QED
      BY <1>1, <1>2, <3>1
  <2> QED
    BY <2>1
<1>4. u \in Seq(Devs) /\ Len(u) = n + 1 /\ \A k \in 1 .. n + 1 : u[k] = IF k = n + 1 THEN d ELSE s[k]
  BY <1>1
<1> HIDE DEF u
<1>5. \A j, k \in 1 .. Len(u) : u[j] = u[k] => j = k
  <2> HIDE DEF n
  <2>1. \A k \in 1 .. n + 1 : k = n + 1 \/ (k \in 1 .. n /\ u[k] = s[k] /\ s[k] # d)
    BY <1>1, <1>4
  <2> QED
    BY <1>1, <1>4, <2>1
<1>6. ASSUME NEW k \in 1 .. Len(u)
      PROVE  m[u[k]] = IF k = Len(u) THEN u[1] ELSE u[k + 1]
  <2>1. m[d] = s[1] /\ m[e] = d /\ \A x \in Devs \ {d, e} : m[x] = links[x]
    BY <1>1, <1>2
  <2>2. 1 \in 1 .. n + 1 /\ 1 # n + 1 /\ u[1] = s[1]
    BY <1>1, <1>4
  <2>3. CASE k = n + 1
    BY <1>4, <2>1, <2>2, <2>3
  <2>4. CASE k = n
    BY <1>1, <1>2, <1>3, <1>4, <2>1, <2>4
  <2>5. CASE k < n
    <3>1. k \in 1 .. n /\ k + 1 \in 1 .. n /\ k # n + 1 /\ k + 1 # n + 1 /\ k + 1 \in 1 .. n + 1
      BY <1>1, <1>4, <2>5
    <3>2. u[k] = s[k] /\ u[k + 1] = s[k + 1] /\ s[k] \in Devs /\ s[k] # d /\ s[k] # e
      BY <1>1, <1>2, <1>3, <1>4, <2>5, <3>1
    <3> QED
      BY <1>1, <1>4, <2>1, <2>5, <3>1, <3>2
  <2> QED
    BY <1>1, <1>4, <2>3, <2>4, <2>5
<1>7. u[1] = s[1]
  BY <1>1, <1>4
<1> QED
  BY <1>1, <1>4, <1>5, <1>6, <1>7 DEF Loop, L!Distinct, u

\* The first device once the k-th of s is out.
FirstWithout(links, s, k) ==
  IF k # 1 THEN s[1] ELSE IF links[s[k]] = s[1] THEN NULL ELSE links[s[k]]

\* The device e before the k-th is linked with the one after it.
Unlinked(links, s, k, e, m, v) ==
  /\ links \in [Devs -> Devs \cup {NULL}] /\ Loop(links, s)
  /\ k \in 1 .. Len(s) /\ e \in ToSet(s) /\ links[e] = s[k]
  /\ m = [links EXCEPT ![e] = links[s[k]]] /\ v = RemoveAt(s, k)

LEMMA LoopRemove ==
  ASSUME NEW links, NEW s, NEW k, NEW e, NEW m, NEW v,
         Unlinked(links, s, k, e, m, v)
  PROVE  /\ Shape(m, FirstWithout(links, s, k), v) /\ Len(v) = Len(s) - 1
         /\ ToSet(v) = ToSet(s) \ {s[k]}
<1> DEFINE n == Len(s)
           u == RemoveAt(s, k)
<1>   /\ links \in [Devs -> Devs \cup {NULL}] /\ Loop(links, s)
      /\ k \in 1 .. Len(s) /\ e \in ToSet(s) /\ links[e] = s[k]
      /\ m = [links EXCEPT ![e] = links[s[k]]] /\ v = RemoveAt(s, k)
  BY DEF Unlinked
<1>1. /\ s \in Seq(Devs) /\ n \in Nat /\ n > 0 /\ L!Distinct(s) /\ NULL \notin Devs
      /\ \A j \in 1 .. n : s[j] \in Devs /\ s[j] \in ToSet(s)
      /\ \A i, j \in 1 .. n : s[i] = s[j] => i = j
      /\ \A j \in 1 .. n : links[s[j]] = IF j = n THEN s[1] ELSE s[j + 1]
  BY LoopIs, RingAssumption DEF Loop
<1>2. PICK i \in 1 .. n : s[i] = e
  BY LoopIs
<1>3. IF k = 1 THEN i = n ELSE i = k - 1
  <2>1. CASE i = n
    <3>1. s[1] = s[k] /\ 1 \in 1 .. n
      BY <1>1, <1>2, <2>1
    <3> QED
      BY <1>1, <2>1, <3>1
  <2>2. CASE i # n
    <3>1. s[i + 1] = s[k] /\ i + 1 \in 1 .. n
      BY <1>1, <1>2, <2>2
    <3>2. i + 1 = k
      BY <1>1, <3>1
    <3> QED
      BY <1>1, <2>2, <3>2
  <2> QED
    BY <2>1, <2>2
<1>4. /\ u \in Seq(Devs) /\ Len(u) = n - 1
      /\ \A j \in 1 .. n - 1 : u[j] = IF j < k THEN s[j] ELSE s[j + 1]
      /\ L!Removed(s, k, u)
  <2>1. L!Removed(s, k, L!RemoveAt(s, k))
    BY <1>1, ListsGiven, L!PlaceIs
  <2>2. L!RemoveAt(s, k) = u
    BY DEF RemoveAt, L!RemoveAt
  <2> HIDE DEF u
  <2> QED
    BY <2>1, <2>2 DEF L!Removed
<1> HIDE DEF u
<1>5. /\ L!Distinct(u)
      /\ \A j \in 1 .. Len(u) : u[j] # s[k] /\ \E x \in 1 .. n : u[j] = s[x]
  BY <1>1, <1>4, ListsGiven, L!RemovedIs
<1>6. /\ m[e] = links[s[k]] /\ \A x \in Devs \ {e} : m[x] = links[x]
  BY <1>1, <1>2
<1>7. \A j \in 1 .. n : j # i => m[s[j]] = links[s[j]]
  BY <1>1, <1>2, <1>6
<1>8. ASSUME NEW j \in 1 .. n - 1
      PROVE  m[u[j]] = IF j = n - 1 THEN u[1] ELSE u[j + 1]
  <2> HIDE DEF n
  <2>1. /\ j \in 1 .. n /\ j + 1 \in 1 .. n /\ 1 \in 1 .. n - 1 /\ 1 \in 1 .. n /\ k \in 1 .. n /\ n > 1
        /\ j # n - 1 => j + 1 \in 1 .. n - 1 /\ j + 2 \in 1 .. n /\ j + 1 + 1 = j + 2
    <3>1. n \in Nat /\ j \in 1 .. n - 1 /\ k \in 1 .. n
      BY <1>1 DEF n
    <3> QED
      BY <3>1
  <2>2. u[1] = IF k = 1 THEN s[2] ELSE s[1]
    BY <1>1, <1>4, <2>1
  <2>3. CASE j < k /\ j = i
    <3>1. k = j + 1 \/ (k = 1 /\ j = n)
      BY <1>1, <1>3, <2>1, <2>3
    <3>2. k = j + 1 /\ k # 1
      BY <1>1, <2>1, <2>3, <3>1
    <3>3. u[j] = s[j] /\ m[u[j]] = links[s[k]]
      BY <1>2, <1>4, <1>6, <2>3
    <3>4. links[s[k]] = IF k = n THEN s[1] ELSE s[k + 1]
      BY <1>1, <2>1
    <3>5. j # n - 1 => u[j + 1] = s[k + 1]
      BY <1>4, <2>1, <3>2
    <3> QED
      BY <1>1, <2>1, <2>2, <3>2, <3>3, <3>4, <3>5
  <2>4. CASE j < k /\ j # i
    <3>1. k # 1 /\ i = k - 1 /\ j + 1 < k /\ j # n - 1
      BY <1>1, <1>3, <2>1, <2>4
    <3>2. u[j] = s[j] /\ m[u[j]] = links[s[j]] /\ u[j + 1] = s[j + 1]
      BY <1>4, <1>7, <2>1, <2>4, <3>1
    <3>3. links[s[j]] = s[j + 1]
      BY <1>1, <2>1
    <3> QED
      BY <3>1, <3>2, <3>3
  <2>5. CASE j >= k /\ j + 1 = i
    <3>1. k = 1 /\ i = n /\ j = n - 1
      BY <1>1, <1>3, <2>1, <2>5
    <3>2. u[j] = s[j + 1] /\ m[u[j]] = links[s[1]]
      BY <1>2, <1>4, <1>6, <2>5, <3>1
    <3>3. links[s[1]] = s[1 + 1]
      BY <1>1, <2>1
    <3> QED
      BY <2>2, <3>1, <3>2, <3>3
  <2>6. CASE j >= k /\ j + 1 # i
    <3>1. u[j] = s[j + 1] /\ m[u[j]] = links[s[j + 1]]
      BY <1>4, <1>7, <2>1, <2>6
    <3>2. links[s[j + 1]] = IF j + 1 = n THEN s[1] ELSE s[j + 1 + 1]
      BY <1>1, <2>1
    <3>3. j = n - 1 => k # 1
      BY <1>1, <1>3, <2>1, <2>6
    <3>4. j # n - 1 => u[j + 1] = s[j + 1 + 1]
      BY <1>4, <2>1, <2>6
    <3> QED
      BY <1>1, <2>1, <2>2, <3>1, <3>2, <3>3, <3>4
  <2> QED
    BY <1>1, <2>1, <2>3, <2>4, <2>5, <2>6
<1>9. ToSet(u) = ToSet(s) \ {s[k]}
  <2> HIDE DEF n
  <2>1. DOMAIN u = 1 .. n - 1 /\ DOMAIN s = 1 .. n
    BY <1>1, <1>4 DEF n
  <2>2. \A x \in ToSet(u) : x \in ToSet(s) \ {s[k]}
    BY <1>1, <1>4, <1>5, <2>1 DEF ToSet
  <2>3. ASSUME NEW j \in 1 .. n, j # k
        PROVE  s[j] \in ToSet(u)
    <3>1. CASE j < k
      <4>1. j \in 1 .. n - 1 /\ u[j] = s[j]
        BY <1>1, <1>4, <3>1 DEF n
      <4> QED
        BY <2>1, <4>1 DEF ToSet
    <3>2. CASE j > k
      <4>1. j - 1 \in 1 .. n - 1 /\ ~(j - 1 < k) /\ (j - 1) + 1 = j
        BY <1>1, <2>3, <3>2 DEF n
      <4>2. u[j - 1] = s[j]
        BY <1>4, <4>1
      <4> QED
        BY <2>1, <4>1, <4>2 DEF ToSet
    <3> QED
      BY <2>3, <3>1, <3>2 DEF n
  <2> QED
    BY <2>1, <2>2, <2>3 DEF ToSet
<1>10. CASE n = 1
  <2>1. k = 1 /\ links[s[k]] = s[1] /\ u = << >>
    BY <1>1, <1>4, <1>10
  <2> QED
    BY <1>4, <1>9, <2>1 DEF Shape, FirstWithout, u
<1>11. CASE n # 1
  <2>1. Loop(m, u)
    BY <1>1, <1>4, <1>5, <1>8, <1>11 DEF Loop
  <2>2. u[1] = IF k # 1 THEN s[1] ELSE links[s[k]]
    BY <1>1, <1>4, <1>11
  <2>3. links[s[1]] # s[1] /\ 1 \in 1 .. n - 1
    <3>1. 1 \in 1 .. n /\ 1 + 1 \in 1 .. n /\ 1 \in 1 .. n - 1 /\ 1 # n
      <4>1. n \in Nat /\ n > 0 /\ n # 1
        BY <1>1, <1>11
      <4> HIDE DEF n
      <4> QED
        BY <4>1
    <3>2. links[s[1]] = s[1 + 1] /\ s[1 + 1] # s[1]
      BY <1>1, <3>1
    <3> QED
      BY <3>1, <3>2
  <2>4. u[1] \in Devs
    BY <1>4, <2>3
  <2> QED
    BY <1>1, <1>4, <1>9, <2>1, <2>2, <2>3, <2>4 DEF Shape, FirstWithout, u
<1> QED
  BY <1>10, <1>11

-----------------------------------------------------------------------------
(* The environment.                                                        *)

LEMMA VarsDiffer ==
  /\ EthAct # NoVar /\ EthAct # EthPrime /\ EthAct # EthRotate
  /\ EthPrime # NoVar /\ EthRotate # NoVar
  /\ \A i : /\ EthAddr(i) # NoVar /\ EthAddr(i) # EthAct /\ EthAddr(i) # EthPrime
            /\ EthAddr(i) # EthRotate
  /\ \A i, j : EthAddr(i) = EthAddr(j) => i = j
BY DEF EthAct, EthPrime, EthRotate, EthAddr, NoVar

LEMMA SlotsAre == /\ LastSlot \in SlotIds /\ NoSlot \notin SlotIds
                  /\ \A i \in SlotIds : i = LastSlot \/ i \in 0 .. Slots - 2
                  /\ LastSlot \notin 0 .. Slots - 2
BY RingAssumption DEF LastSlot, SlotIds, NoSlot

LEMMA ValuesAre == /\ \A d \in Devs : Name(d) \in Values /\ Address(d) \in Values
                   /\ Junk \in Values
                   /\ \A d : Name(d).type = "name" /\ Name(d).of = d
                   /\ Junk.type # "name"
BY DEF Name, Address, Junk, Value, Values

\* env_set never finds the variable, and uses the last slot.
LEMMA EnvSetIs ==
  ASSUME NEW e, Slim(e), NEW var, var # NoVar, NEW val \in Values
  PROVE  LET f == EnvSet(e, var, val) IN
         Slim(f) /\ f[LastSlot].var = var /\ f[LastSlot].val = val
<1>1. SlotFor(e, var) = LastSlot
  BY DEF SlotFor, Slim, LastSlot
<1>2. EnvSet(e, var, val) = [e EXCEPT ![LastSlot] = [var |-> var, val |-> val]]
  BY <1>1 DEF EnvSet
<1>3. DOMAIN e = SlotIds
  BY DEF Slim
<1> DEFINE f == EnvSet(e, var, val)
<1>4. /\ DOMAIN f = SlotIds /\ f[LastSlot] = [var |-> var, val |-> val]
      /\ \A i \in SlotIds : i # LastSlot => f[i] = e[i]
  BY <1>2, <1>3, SlotsAre
<1> HIDE DEF f
<1>5. Slim(f)
  <2>1. \A i \in 0 .. Slots - 2 : i \in SlotIds /\ i # LastSlot
    BY RingAssumption DEF SlotIds, LastSlot
  <2> QED
    BY <1>4, <2>1 DEF Slim
<1> QED
  BY <1>4, <1>5 DEF f

\* A variable is found in the last slot or nowhere.
LEMMA EnvSlotIs ==
  ASSUME NEW e, Slim(e), NEW var, var # NoVar
  PROVE  EnvSlot(e, var) = IF e[LastSlot].var = var THEN LastSlot ELSE NoSlot
<1> DEFINE found == {i \in SlotIds : e[i].var = var}
<1>1. \A i \in found : i = LastSlot
  BY SlotsAre DEF Slim
<1>2. CASE e[LastSlot].var = var
  <2>1. found = {LastSlot}
    BY <1>1, <1>2, SlotsAre
  <2>2. Smallest({LastSlot}) = LastSlot
    BY RingAssumption DEF Smallest, LastSlot
  <2> HIDE DEF found
  <2>3. EnvSlot(e, var) = IF found = {} THEN NoSlot ELSE Smallest(found)
    BY DEF EnvSlot, found
  <2> QED
    BY <1>2, <2>1, <2>2, <2>3
<1>3. CASE e[LastSlot].var # var
  BY <1>1, <1>3 DEF EnvSlot
<1> QED
  BY <1>2, <1>3

LEMMA IsSetIs ==
  ASSUME NEW e, Slim(e), NEW var, var # NoVar
  PROVE  IsSet(e, var) <=> e[LastSlot].var = var
BY EnvSlotIs, SlotsAre DEF IsSet

LEMMA NameCurrentIs ==
  ASSUME NEW e, Slim(e), NEW cur \in Devs
  PROVE  Acts(NameCurrent(cur, e), cur)
<1>1. cur # NULL /\ Name(cur) \in Values /\ EthAct # NoVar
  BY RingAssumption, ValuesAre, VarsDiffer
<1>2. CASE IsSet(e, EthAct) /\ e[EnvSlot(e, EthAct)].val = Name(cur)
  <2>1. e[LastSlot].var = EthAct /\ EnvSlot(e, EthAct) = LastSlot
    BY <1>1, <1>2, IsSetIs, EnvSlotIs
  <2> QED
    BY <1>1, <1>2, <2>1 DEF NameCurrent, Acts
<1>3. CASE ~(IsSet(e, EthAct) /\ e[EnvSlot(e, EthAct)].val = Name(cur))
  <2>1. NameCurrent(cur, e) = EnvSet(e, EthAct, Name(cur))
    BY <1>3 DEF NameCurrent
  <2> QED
    BY <1>1, <2>1, EnvSetIs DEF Acts
<1> QED
  BY <1>2, <1>3

LEMMA RotateOn ==
  ASSUME NEW e, Slim(e), e[LastSlot].var # EthRotate
  PROVE  ~RotateOff(e)
BY IsSetIs, VarsDiffer DEF RotateOff

\* eth_current_changed leaves ethact as it should be, or ends the program.
LEMMA ChangedIs ==
  ASSUME NEW old, Acts(env, old), NEW cur \in Devs \cup {NULL}, EthCurrentChanged(cur, env)
  PROVE  /\ eth_current' = cur
         /\ \/ phase' = phase /\ Acts(env', cur)
            \/ cur = NULL /\ phase' = "trap" /\ env' = env
<1>1. Slim(env) /\ env[LastSlot].var \in {NoVar, EthAct}
  BY DEF Acts
<1>2. ~RotateOff(env)
  BY <1>1, RotateOn, VarsDiffer
<1>3. eth_current' = cur /\ Changed(cur, env)
  BY DEF EthCurrentChanged
<1>4. CASE cur # NULL
  <2>1. phase' = phase /\ env' = NameCurrent(cur, env)
    BY <1>2, <1>3, <1>4 DEF Changed
  <2> QED
    BY <1>1, <1>3, <1>4, <2>1, NameCurrentIs
<1>5. CASE cur = NULL /\ IsSet(env, EthAct)
  <2>1. \/ phase' = "trap" /\ env' = env
        \/ phase' = phase /\ env' = EnvSet(env, EthAct, Junk)
    BY <1>2, <1>3, <1>5 DEF Changed
  <2>2. Acts(EnvSet(env, EthAct, Junk), NULL)
    BY <1>1, EnvSetIs, ValuesAre, VarsDiffer DEF Acts
  <2> QED
    BY <1>3, <1>5, <2>1, <2>2
<1>6. CASE cur = NULL /\ ~IsSet(env, EthAct)
  <2>1. phase' = phase /\ env' = env
    BY <1>2, <1>3, <1>6 DEF Changed
  <2>2. env[LastSlot].var = NoVar
    BY <1>1, <1>6, IsSetIs, VarsDiffer
  <2>3. env[LastSlot].val = Junk
    BY <2>2, VarsDiffer DEF Acts
  <2> QED
    BY <1>1, <1>3, <1>6, <2>1, <2>2, <2>3 DEF Acts
<1> QED
  BY <1>4, <1>5, <1>6

-----------------------------------------------------------------------------
(* The loop of eth_initialize.                                             *)

\* The function of Written for the first m devices.
After(m, after) ==
  after = [k \in 0 .. m |->
             IF k = 0 THEN [mac |-> enetaddr, env |-> env]
             ELSE EthWriteHwaddr(after[k - 1], Ring[k])]

LEMMA AfterExists ==
  ASSUME NEW m \in Nat
  PROVE  \E after : After(m, after)
<1> DEFINE Row(k, f) == IF k = 0 THEN [mac |-> enetaddr, env |-> env]
                        ELSE EthWriteHwaddr(f[k - 1], Ring[k])
           T == {n \in Nat : ~ \E f : After(n, f)}
<1>1. ASSUME T # {}
      PROVE  FALSE
  <2>1. T \in SUBSET Nat
    OBVIOUS
  <2>2. PICK n \in T : \A i \in T : n <= i
    BY <1>1, <2>1, ListsGiven, L!Least
  <2>3. CASE n = 0
    <3> DEFINE f == [k \in 0 .. 0 |-> [mac |-> enetaddr, env |-> env]]
    <3>1. After(0, f)
      BY DEF After
    <3> QED
      BY <2>2, <2>3, <3>1
  <2>4. CASE n # 0
    <3>1. n \in Nat /\ n - 1 \in Nat /\ n - 1 \notin T
      BY <2>2, <2>4
    <3>2. PICK f : After(n - 1, f)
      BY <3>1
    <3> DEFINE g == [k \in 0 .. n |-> IF k = n THEN Row(n, f) ELSE f[k]]
    <3>3. ASSUME NEW k \in 0 .. n
          PROVE  g[k] = Row(k, g)
      <4>1. CASE k = n
        <5>1. g[k - 1] = f[k - 1]
          BY <3>1, <4>1, <2>4
        <5> QED
          BY <2>4, <4>1, <5>1
      <4>2. CASE k # n
        <5>1. k \in 0 .. n - 1 /\ g[k] = f[k]
          BY <3>1, <4>2
        <5>2. f[k] = Row(k, f)
          BY <3>2, <5>1 DEF After
        <5>3. k # 0 => g[k - 1] = f[k - 1]
          BY <3>1, <5>1
        <5>4. Row(k, f) = Row(k, g)
          BY <5>3
        <5> QED
          BY <5>1, <5>2, <5>4
      <4> QED
        BY <4>1, <4>2
    <3>4. After(n, g)
      <4>1. g = [k \in 0 .. n |-> g[k]]
        OBVIOUS
      <4>2. \A k \in 0 .. n : g[k] = Row(k, g)
        BY <3>3
      <4> HIDE DEF g
      <4>3. g = [k \in 0 .. n |-> Row(k, g)]
        BY <4>1, <4>2, Zenon
      <4> QED
        BY <4>3 DEF After
    <3> QED
      BY <2>2, <3>4
  <2> QED
    BY <2>3, <2>4
<1> QED
  BY <1>1

\* after[k] is what the first k devices leave, and Written what all of them do.
Following(after) ==
  /\ Written = after[Len(Ring)]
  /\ after[0] = [mac |-> enetaddr, env |-> env]
  /\ \A k \in 1 .. Len(Ring) : after[k] = EthWriteHwaddr(after[k - 1], Ring[k])

LEMMA AfterIs ==
  ASSUME Len(Ring) \in Nat
  PROVE  \E after : Following(after)
<1> DEFINE f == CHOOSE f : After(Len(Ring), f)
<1>1. After(Len(Ring), f)
  BY AfterExists
<1>2. Written = f[Len(Ring)]
  BY DEF Written, After
<1> HIDE DEF f
<1>3. \A k \in 0 .. Len(Ring) : f[k] = IF k = 0 THEN [mac |-> enetaddr, env |-> env]
                                       ELSE EthWriteHwaddr(f[k - 1], Ring[k])
  <2> DEFINE n == Len(Ring)
  <2>1. f = [k \in 0 .. n |-> IF k = 0 THEN [mac |-> enetaddr, env |-> env]
                              ELSE EthWriteHwaddr(f[k - 1], Ring[k])]
    BY <1>1 DEF After
  <2> HIDE DEF n
  <2>2. \A k \in 0 .. n : f[k] = IF k = 0 THEN [mac |-> enetaddr, env |-> env]
                                 ELSE EthWriteHwaddr(f[k - 1], Ring[k])
    BY <2>1
  <2> QED
    BY <2>2 DEF n
<1>4. Following(f)
  BY <1>2, <1>3 DEF Following
<1> QED
  BY <1>4

\* What is known after k devices: theirs are the addresses that have been settled, and
\* the last slot of the environment has one of these or what it had.
Settled(a, k) ==
  /\ a = [mac |-> a.mac, env |-> a.env]
  /\ a.mac \in [Devs -> Addresses]
  /\ \A j \in 1 .. Len(Ring) :
       a.mac[Ring[j]] = IF j <= k /\ enetaddr[Ring[j]] = "none" THEN "default"
                        ELSE enetaddr[Ring[j]]
  /\ Slim(a.env)
  /\ \/ a.env[LastSlot].var \in {NoVar, EthAct}
     \/ \E j \in 1 .. Len(Ring) : j <= k /\ a.env[LastSlot].var = EthAddr(index[Ring[j]])

LEMMA SettledStep ==
  ASSUME IInv, Loop(next, Ring), phase # "trap", NEW k \in 1 .. Len(Ring), NEW a, Settled(a, k - 1)
  PROVE  Settled(EthWriteHwaddr(a, Ring[k]), k)
<1> DEFINE d == Ring[k]
           var == EthAddr(index[d])
           n == Len(Ring)
           b == EthWriteHwaddr(a, d)
<1>1. /\ n \in Nat /\ d \in Devs /\ \A j \in 1 .. n : Ring[j] \in Devs /\ Ring[j] \in OnRing
      /\ \A i, j \in 1 .. n : Ring[i] = Ring[j] => i = j
  BY LoopIs DEF OnRing
<1>2. \A j \in 1 .. n : index[Ring[j]] = index[d] => j = k
  BY <1>1 DEF IInv, TypeOK
<1>3. var # NoVar /\ var # EthAct /\ \A j \in 1 .. n : EthAddr(index[Ring[j]]) = var => j = k
  BY <1>2, VarsDiffer
<1>4. ~IsSet(a.env, var)
  <2>1. Slim(a.env) /\ a.env[LastSlot].var # var
    BY <1>3 DEF Settled
  <2> QED
    BY <1>3, <2>1, IsSetIs
<1>5. \A j \in 1 .. n : (j <= k <=> (j <= k - 1 \/ j = k))
  BY <1>1
<1>6. /\ a = [mac |-> a.mac, env |-> a.env] /\ a.mac \in [Devs -> Addresses] /\ Slim(a.env)
      /\ a.mac[d] = enetaddr[d]
      /\ \A j \in 1 .. n : j # k => (j <= k - 1 <=> j <= k)
  BY <1>1, <1>5 DEF Settled
<1> HIDE DEF var
<1>7. CASE a.mac[d] = "valid"
  <2>1. b = [a EXCEPT !.env = EnvSet(@, var, Address(d))]
    BY <1>4, <1>7 DEF EthWriteHwaddr, var
  <2> DEFINE f == EnvSet(a.env, var, Address(d))
  <2>2. Slim(f) /\ f[LastSlot].var = var
    BY <1>1, <1>3, <1>6, EnvSetIs, ValuesAre
  <2> HIDE DEF f
  <2>3. b.mac = a.mac /\ b.env = f /\ b = [mac |-> b.mac, env |-> b.env]
    <3>1. b = [mac |-> a.mac, env |-> f]
      BY <1>6, <2>1 DEF f
    <3> QED
      BY <3>1
  <2> HIDE DEF b
  <2>4. \A j \in 1 .. n :
          a.mac[Ring[j]] = IF j <= k /\ enetaddr[Ring[j]] = "none" THEN "default"
                           ELSE enetaddr[Ring[j]]
    BY <1>6, <1>7 DEF Settled
  <2>5. \E j \in 1 .. Len(Ring) : j <= k /\ b.env[LastSlot].var = EthAddr(index[Ring[j]])
    BY <1>1, <1>5, <2>2, <2>3 DEF var
  <2>6. Settled(b, k)
    BY <1>6, <2>2, <2>3, <2>4, <2>5 DEF Settled
  <2> QED
    BY <2>6 DEF b
<1>8. CASE a.mac[d] # "valid"
  <2>1. b = [mac |-> b.mac, env |-> a.env]
        /\ b.mac = IF a.mac[d] = "none" THEN [a.mac EXCEPT ![d] = "default"] ELSE a.mac
    <3>1. CASE a.mac[d] = "none"
      <4>1. b = [a EXCEPT !.mac[d] = "default"]
        BY <1>4, <3>1 DEF EthWriteHwaddr, var
      <4>2. b = [mac |-> [a.mac EXCEPT ![d] = "default"], env |-> a.env]
        BY <1>6, <4>1
      <4> QED
        BY <3>1, <4>2
    <3>2. CASE a.mac[d] # "none"
      <4>1. b = a
        BY <1>4, <1>8, <3>2 DEF EthWriteHwaddr, var
      <4> QED
        BY <1>6, <3>2, <4>1
    <3> QED
      BY <3>1, <3>2
  <2> HIDE DEF b
  <2>2. b.mac \in [Devs -> Addresses] /\ b = [mac |-> b.mac, env |-> b.env] /\ b.env = a.env
    BY <1>1, <1>6, <2>1 DEF Addresses
  <2>3. ASSUME NEW j \in 1 .. n
        PROVE  b.mac[Ring[j]] = IF j <= k /\ enetaddr[Ring[j]] = "none" THEN "default"
                                ELSE enetaddr[Ring[j]]
    <3>1. CASE j = k
      BY <1>1, <1>5, <1>6, <2>1, <3>1
    <3>2. CASE j # k
      <4>1. Ring[j] # d /\ Ring[j] \in Devs
        BY <1>1, <3>2
      <4>2. b.mac[Ring[j]] = a.mac[Ring[j]]
        BY <1>1, <1>6, <2>1, <4>1
      <4> QED
        BY <1>6, <3>2, <4>2 DEF Settled
    <3> QED
      BY <3>1, <3>2
  <2>4. \/ b.env[LastSlot].var \in {NoVar, EthAct}
        \/ \E j \in 1 .. Len(Ring) : j <= k /\ b.env[LastSlot].var = EthAddr(index[Ring[j]])
    BY <1>5, <2>2 DEF Settled
  <2>5. Settled(b, k)
    BY <1>6, <2>2, <2>3, <2>4 DEF Settled
  <2> QED
    BY <2>5 DEF b
<1> QED
  BY <1>7, <1>8

LEMMA WrittenIs ==
  ASSUME IInv, Loop(next, Ring), phase = "boot"
  PROVE  Settled(Written, Len(Ring))
<1>1. Len(Ring) \in Nat /\ \A k \in 1 .. Len(Ring) : Ring[k] \in Devs
  BY LoopIs
<1>2. PICK after : Following(after)
  BY <1>1, AfterIs
<1>3. Settled(after[0], 0)
  <2>1. after[0] = [mac |-> enetaddr, env |-> env]
    BY <1>2 DEF Following
  <2>2. after[0].mac = enetaddr /\ after[0].env = env /\ enetaddr \in [Devs -> Addresses]
        /\ Slim(env) /\ env[LastSlot].var \in {NoVar, EthAct}
    BY <2>1 DEF IInv, TypeOK, Acts
  <2>3. \A j \in 1 .. Len(Ring) : ~(j <= 0)
    BY <1>1
  <2> QED
    BY <2>1, <2>2, <2>3 DEF Settled
<1> DEFINE Bad == {k \in 0 .. Len(Ring) : ~Settled(after[k], k)}
<1>4. ASSUME Bad # {}
      PROVE  FALSE
  <2>1. Bad \in SUBSET Nat
    BY <1>1
  <2>2. PICK k \in Bad : \A i \in Bad : k <= i
    BY <1>4, <2>1, ListsGiven, L!Least
  <2>3. k \in 1 .. Len(Ring) /\ k - 1 \in 0 .. Len(Ring)
    BY <1>1, <1>3, <2>2
  <2>4. k - 1 \notin Bad
    <3>1. k - 1 \in Bad => k <= k - 1
      BY <2>2
    <3> QED
      BY <1>1, <2>3, <3>1
  <2>5. Settled(after[k - 1], k - 1)
    BY <2>3, <2>4
  <2>6. Settled(EthWriteHwaddr(after[k - 1], Ring[k]), k)
    BY <2>3, <2>5, SettledStep
  <2>7. after[k] = EthWriteHwaddr(after[k - 1], Ring[k])
    BY <1>2, <2>3 DEF Following
  <2> QED
    BY <2>2, <2>6, <2>7
<1> QED
  BY <1>1, <1>2, <1>4 DEF Following

-----------------------------------------------------------------------------
(* The actions.                                                            *)

Steps == [List!ListNext]_(List!listVars)

LEMMA SameSequences ==
  ASSUME NEW s, NEW k
  PROVE  List!ToSet(s) = ToSet(s) /\ List!RemoveAt(s, k) = RemoveAt(s, k)
BY DEF ToSet, RemoveAt, List!ToSet, List!RemoveAt

LEMMA RingNext ==
  ASSUME NEW s, Shape(next', eth_devices', s), DOMAIN next' = Devs, Len(s) <= MaxIndex
  PROVE  Ring' = s
BY RingIs DEF Ring

LEMMA RingSame ==
  ASSUME UNCHANGED <<eth_devices, next>>
  PROVE  Ring' = Ring /\ OnRing' = OnRing
BY DEF Ring, OnRing

\* The ring is empty just when there is no first device.
LEMMA RingKnown ==
  ASSUME IInv
  PROVE  /\ Ring \in Seq(Devs) /\ OnRing \subseteq Devs /\ NULL \notin Devs
         /\ eth_devices = NULL => Ring = << >> /\ OnRing = {} /\ eth_current = NULL
         /\ eth_devices # NULL => /\ Loop(next, Ring) /\ eth_devices = Ring[1] /\ Ring # << >>
                                  /\ eth_devices \in OnRing /\ eth_current \in OnRing
         /\ eth_current # NULL => eth_devices # NULL
         /\ Len(Ring) \in Nat
<1>1. NULL \notin Devs
  BY RingAssumption
<1>2. CASE eth_devices = NULL
  BY <1>1, <1>2 DEF IInv, Shape, OnRing, ToSet
<1>3. CASE eth_devices # NULL
  <2>1. Loop(next, Ring) /\ eth_devices = Ring[1] /\ eth_current \in OnRing
    BY <1>3 DEF IInv, Shape
  <2>2. 1 \in 1 .. Len(Ring)
    BY <2>1, LoopIs
  <2> QED
    BY <1>1, <1>3, <2>1, <2>2, LoopIs DEF OnRing
<1> QED
  BY <1>2, <1>3

LEMMA InitHolds == Init => IInv /\ List!ListInit
<1> SUFFICES ASSUME Init PROVE IInv /\ List!ListInit
  OBVIOUS
<1>1. Ring = << >> /\ OnRing = {} /\ Len(Ring) = 0
  BY DEF Init, Ring, OnRing, ToSet
<1>2. Slim(env) /\ Acts(env, eth_current)
  <2>1. env = [i \in SlotIds |-> [var |-> NoVar, val |-> Junk]] /\ eth_current = NULL
    BY DEF Init
  <2>2. /\ DOMAIN env = SlotIds
        /\ \A i \in SlotIds : env[i].var = NoVar /\ env[i].val = Junk
    BY <2>1
  <2>3. \A i \in 0 .. Slots - 2 : i \in SlotIds
    BY RingAssumption DEF SlotIds
  <2> QED
    BY <2>1, <2>2, <2>3, SlotsAre, ValuesAre DEF Slim, Acts
<1>3. TypeOK
  <2>1. enetaddr \in [Devs -> Addresses]
    BY RingAssumption DEF Init, Addresses
  <2>2. /\ phase \in {"boot", "up", "trap"} /\ eth_devices = NULL /\ eth_current = NULL
        /\ next \in [Devs -> Devs \cup {NULL}] /\ first_failed = NULL
        /\ net_restart_wrap \in BOOLEAN /\ tried \subseteq Devs /\ round \in BOOLEAN
        /\ act = NoSlot
    BY DEF Init
  <2>3. index \in [Devs -> 0 .. MaxIndex] /\ next_index \in 0 .. MaxIndex
    BY RingAssumption DEF Init
  <2>4. \A i \in SlotIds : env[i].val \in Values
    BY <1>2 DEF Slim
  <2> QED
    BY <1>1, <2>1, <2>2, <2>3, <2>4 DEF TypeOK
<1>4. /\ Shape(next, eth_devices, Ring) /\ Len(Ring) <= next_index /\ Turns /\ act = NoSlot
      /\ eth_devices = NULL /\ eth_current = NULL
  BY <1>1 DEF Init, Shape, Turns
<1> QED
  BY <1>1, <1>2, <1>3, <1>4 DEF IInv, List!ListInit

LEMMA StutterStep == IInv /\ UNCHANGED vars => IInv'
<1> SUFFICES ASSUME IInv, UNCHANGED vars PROVE IInv'
  OBVIOUS
<1>1. Ring' = Ring /\ OnRing' = OnRing
  BY RingSame DEF vars, ringVars
<1> QED
  BY <1>1 DEF vars, ringVars, failVars, IInv, TypeOK, Turns

\* The new device is the last of the ring.
LEMMA Registered ==
  ASSUME IInv, NEW dev \in Devs, EthRegister(dev)
  PROVE  /\ Ring' = Append(Ring, dev) /\ Shape(next', eth_devices', Ring')
         /\ next' \in [Devs -> Devs \cup {NULL}] /\ eth_devices' \in Devs
         /\ OnRing' = OnRing \cup {dev} /\ Len(Ring') = Len(Ring) + 1
<1>1. /\ next \in [Devs -> Devs \cup {NULL}] /\ next_index \in Nat /\ next_index < MaxIndex
      /\ MaxIndex \in Nat /\ Len(Ring) <= next_index /\ dev \notin OnRing /\ NULL \notin Devs
      /\ Ring \in Seq(Devs) /\ Len(Ring) \in Nat
  BY RingAssumption, RingKnown DEF IInv, TypeOK, EthRegister
<1> DEFINE s == Append(Ring, dev)
<1>2. /\ s \in Seq(Devs) /\ Len(s) = Len(Ring) + 1 /\ Len(s) <= MaxIndex
      /\ DOMAIN s = 1 .. Len(Ring) + 1 /\ DOMAIN Ring = 1 .. Len(Ring)
      /\ \A k \in 1 .. Len(Ring) + 1 : s[k] = IF k = Len(Ring) + 1 THEN dev ELSE Ring[k]
  BY <1>1
<1>3. ToSet(s) = OnRing \cup {dev}
  <2> HIDE DEF s
  <2>1. 1 .. Len(Ring) + 1 = (1 .. Len(Ring)) \cup {Len(Ring) + 1}
    BY <1>1
  <2> QED
    BY <1>1, <1>2, <2>1 DEF ToSet, OnRing
<1>4. /\ Shape(next', eth_devices', s) /\ next' \in [Devs -> Devs \cup {NULL}]
      /\ eth_devices' \in Devs
  <2>1. CASE eth_devices = NULL
    <3>1. eth_devices' = dev /\ next' = [next EXCEPT ![dev] = dev]
      BY <2>1 DEF EthRegister
    <3>2. Ring = << >> /\ s = <<dev>>
      BY <2>1, RingKnown
    <3>3. next'[dev] = dev /\ next' \in [Devs -> Devs \cup {NULL}]
      BY <1>1, <3>1
    <3>4. Loop(next', <<dev>>)
      BY <3>3 DEF Loop, L!Distinct
    <3> QED
      BY <1>1, <3>1, <3>2, <3>3, <3>4 DEF Shape
  <2>2. CASE eth_devices # NULL
    <3>1. PICK e \in OnRing : next[e] = eth_devices
                              /\ next' = [next EXCEPT ![e] = dev, ![dev] = eth_devices]
      BY <2>2 DEF EthRegister
    <3>2. eth_devices' = eth_devices
      BY <2>2 DEF EthRegister
    <3>3. Loop(next, Ring) /\ eth_devices = Ring[1] /\ OnRing = ToSet(Ring)
      BY <2>2, RingKnown DEF OnRing
    <3> HIDE DEF s
    <3>4. Loop(next', Append(Ring, dev)) /\ Append(Ring, dev)[1] = Ring[1]
      <4>1. e \in ToSet(Ring) /\ dev \notin ToSet(Ring) /\ next[e] = Ring[1]
            /\ next' = [next EXCEPT ![e] = dev, ![dev] = Ring[1]]
        BY <1>1, <3>1, <3>3
      <4> QED
        BY <1>1, <3>3, <4>1, LoopAdd
    <3>5. next' \in [Devs -> Devs \cup {NULL}] /\ eth_devices \in Devs
      BY <1>1, <2>2, <3>1, RingKnown
    <3> QED
      BY <2>2, <3>2, <3>3, <3>4, <3>5 DEF Shape, s
  <2> QED
    BY <2>1, <2>2
<1>5. Ring' = s
  BY <1>2, <1>4, RingNext
<1> QED
  BY <1>2, <1>3, <1>4, <1>5 DEF OnRing

LEMMA EthRegisterStep ==
  ASSUME IInv, NEW dev \in Devs, EthRegister(dev)
  PROVE  IInv' /\ Steps
<1>1. /\ Ring' = Append(Ring, dev) /\ Shape(next', eth_devices', Ring')
      /\ next' \in [Devs -> Devs \cup {NULL}] /\ eth_devices' \in Devs
      /\ OnRing' = OnRing \cup {dev} /\ Len(Ring') = Len(Ring) + 1
  BY Registered
<1>2. /\ phase # "trap" /\ dev \notin OnRing /\ next_index \in Nat /\ next_index < MaxIndex
      /\ index' = [index EXCEPT ![dev] = next_index] /\ next_index' = next_index + 1
      /\ round' = FALSE /\ UNCHANGED <<enetaddr, act, first_failed, net_restart_wrap, tried>>
      /\ index \in [Devs -> 0 .. MaxIndex] /\ MaxIndex \in Nat
  BY RingAssumption DEF EthRegister, RingMayChange, IndexAfter, IInv, TypeOK
<1>3. NULL \notin Devs /\ OnRing \subseteq Devs /\ Len(Ring) \in Nat
  BY RingKnown
<1>4. /\ eth_current' = IF eth_devices = NULL THEN dev ELSE eth_current
      /\ phase' = phase /\ Acts(env', eth_current')
  <2>1. CASE eth_devices = NULL
    <3>1. EthCurrentChanged(dev, env)
      BY <2>1 DEF EthRegister
    <3>2. Acts(env, eth_current)
      BY <1>2 DEF IInv
    <3> QED
      BY <1>3, <2>1, <3>1, <3>2, ChangedIs
  <2>2. CASE eth_devices # NULL
    <3>1. UNCHANGED <<eth_current, env, phase>>
      BY <2>2 DEF EthRegister
    <3> QED
      BY <1>2, <2>2, <3>1 DEF IInv
  <2> QED
    BY <2>1, <2>2
<1>5. eth_current' \in OnRing'
  BY <1>1, <1>4, RingKnown
<1>6. Slim(env')
  BY <1>4 DEF Acts
<1>7. /\ index' \in [Devs -> 0 .. MaxIndex] /\ next_index' \in 0 .. MaxIndex
      /\ \A d \in OnRing' : index'[d] < next_index'
      /\ \A d, e \in OnRing' : index'[d] = index'[e] => d = e
  <2>1. index' \in [Devs -> 0 .. MaxIndex] /\ next_index' \in 0 .. MaxIndex
    BY <1>2
  <2>2. \A d \in OnRing : d \in Devs /\ index'[d] = index[d] /\ index[d] < next_index /\ index[d] \in Nat
    BY <1>2, <1>3 DEF IInv
  <2>3. index'[dev] = next_index
    BY <1>2
  <2>4. \A d, e \in OnRing : index[d] = index[e] => d = e
    BY DEF IInv, TypeOK
  <2> QED
    BY <1>1, <1>2, <2>1, <2>2, <2>3, <2>4
<1>8. TypeOK'
  BY <1>1, <1>2, <1>3, <1>4, <1>5, <1>6, <1>7 DEF IInv, TypeOK, Slim
<1>9. IInv'
  <2>1. Len(Ring') <= next_index'
    BY <1>1, <1>2, <1>3 DEF IInv
  <2>2. eth_devices' # NULL
    BY <1>1, <1>3
  <2>3. act' \in {NoSlot, LastSlot} /\ Turns'
    BY <1>2 DEF IInv, Turns
  <2> QED
    BY <1>1, <1>4, <1>5, <1>6, <1>7, <1>8, <2>1, <2>2, <2>3 DEF IInv
<1>10. List!Add(dev)
  <2>1. Ring = << >> <=> eth_devices = NULL
    BY RingKnown
  <2>2. dev \notin List!ToSet(Ring)
    BY <1>2, SameSequences DEF OnRing
  <2> QED
    BY <1>1, <1>4, <2>1, <2>2 DEF List!Add
<1> QED
  BY <1>9, <1>10 DEF Steps, List!ListNext

\* The device is taken out of the ring, wherever it is.
LEMMA Unregistered ==
  ASSUME IInv, NEW dev \in Devs, EthUnregister(dev)
  PROVE  \E k \in DOMAIN Ring :
           /\ Ring[k] = dev /\ Ring' = RemoveAt(Ring, k)
           /\ Shape(next', HeadWithout(dev), Ring') /\ OnRing' = OnRing \ {dev}
           /\ next' \in [Devs -> Devs \cup {NULL}] /\ HeadWithout(dev) \in Devs \cup {NULL}
           /\ Len(Ring') = Len(Ring) - 1
<1>1. /\ next \in [Devs -> Devs \cup {NULL}] /\ Len(Ring) <= next_index /\ Len(Ring) \in Nat
      /\ next_index \in Nat /\ next_index <= MaxIndex /\ MaxIndex \in Nat
      /\ eth_devices' = HeadWithout(dev) /\ dev \in OnRing /\ OnRing = ToSet(Ring)
  BY RingAssumption, RingKnown DEF IInv, TypeOK, EthUnregister, OnRing
<1>2. Loop(next, Ring) /\ eth_devices = Ring[1]
  BY <1>1, RingKnown
<1>3. PICK k \in 1 .. Len(Ring) : Ring[k] = dev
  BY <1>1, <1>2, LoopIs
<1>4. PICK e \in OnRing : next[e] = dev /\ next' = [next EXCEPT ![e] = next[dev]]
  BY DEF EthUnregister
<1> DEFINE u == RemoveAt(Ring, k)
           first == FirstWithout(next, Ring, k)
<1>5. Shape(next', first, u) /\ Len(u) = Len(Ring) - 1 /\ ToSet(u) = ToSet(Ring) \ {Ring[k]}
  <2>1. e \in ToSet(Ring) /\ next[e] = Ring[k] /\ next' = [next EXCEPT ![e] = next[Ring[k]]]
    BY <1>1, <1>3, <1>4
  <2>2. next \in [Devs -> Devs \cup {NULL}] /\ u = RemoveAt(Ring, k)
    BY <1>1
  <2> DEFINE m == next'
  <2>3. m = [next EXCEPT ![e] = next[Ring[k]]]
    BY <2>1
  <2>4. Unlinked(next, Ring, k, e, m, u)
    BY <1>2, <1>3, <2>1, <2>2, <2>3 DEF Unlinked
  <2> HIDE DEF u, first, m
  <2>5. /\ Shape(m, FirstWithout(next, Ring, k), u) /\ Len(u) = Len(Ring) - 1
        /\ ToSet(u) = ToSet(Ring) \ {Ring[k]}
    BY ONLY <2>4, LoopRemove
  <2> QED
    BY <2>5 DEF m, first
<1>6. first = HeadWithout(dev)
  <2>1. 1 \in 1 .. Len(Ring) /\ (Ring[1] = dev <=> k = 1)
    BY <1>2, <1>3, LoopIs
  <2>2. CASE k = 1
    <3>1. dev = Ring[1] /\ eth_devices = dev /\ Ring[k] = dev
      BY <1>2, <1>3, <2>2
    <3> QED
      BY <2>2, <3>1 DEF HeadWithout, FirstWithout
  <2>3. CASE k # 1
    <3>1. eth_devices # dev
      BY <1>2, <2>1, <2>3
    <3>2. HeadWithout(dev) = eth_devices
      BY <3>1 DEF HeadWithout
    <3> QED
      BY <1>2, <2>3, <3>2 DEF FirstWithout
  <2> QED
    BY <2>2, <2>3
<1>7. next' \in [Devs -> Devs \cup {NULL}] /\ HeadWithout(dev) \in Devs \cup {NULL}
  <2>1. eth_devices \in Devs \cup {NULL}
    BY DEF IInv, TypeOK
  <2>2. next' \in [Devs -> Devs \cup {NULL}]
    BY <1>1, <1>4
  <2> QED
    BY <1>1, <2>1, <2>2 DEF HeadWithout
<1> HIDE DEF u, first
<1>8. Len(u) <= MaxIndex
  BY <1>1, <1>5
<1>9. Ring' = u
  <2>1. Shape(next', eth_devices', u) /\ DOMAIN next' = Devs
    BY <1>1, <1>5, <1>6, <1>7
  <2> QED
    BY <1>8, <2>1, RingNext
<1>10. DOMAIN Ring = 1 .. Len(Ring)
  BY <1>2, LoopIs
<1>11. OnRing' = OnRing \ {dev}
  BY <1>3, <1>5, <1>9 DEF OnRing
<1> QED
  BY <1>3, <1>5, <1>6, <1>7, <1>9, <1>10, <1>11 DEF u

LEMMA EthUnregisterStep ==
  ASSUME IInv, NEW dev \in Devs, EthUnregister(dev)
  PROVE  IInv' /\ Steps
<1>1. PICK k \in DOMAIN Ring :
           /\ Ring[k] = dev /\ Ring' = RemoveAt(Ring, k)
           /\ Shape(next', HeadWithout(dev), Ring') /\ OnRing' = OnRing \ {dev}
           /\ next' \in [Devs -> Devs \cup {NULL}] /\ HeadWithout(dev) \in Devs \cup {NULL}
           /\ Len(Ring') = Len(Ring) - 1
  BY Unregistered
<1>2. /\ phase # "trap" /\ dev \in OnRing /\ eth_devices' = HeadWithout(dev)
      /\ IF eth_current = dev THEN EthCurrentChanged(HeadWithout(dev), env)
         ELSE UNCHANGED <<eth_current, env, phase>>
      /\ round' = FALSE
      /\ UNCHANGED <<index, next_index, enetaddr, act, first_failed, net_restart_wrap, tried>>
  BY DEF EthUnregister, RingMayChange
<1>3. NULL \notin Devs /\ OnRing \subseteq Devs /\ Len(Ring) \in Nat /\ eth_current \in OnRing
  BY <1>2, RingKnown
<1>4. /\ eth_current' = IF eth_current = dev THEN HeadWithout(dev) ELSE eth_current
      /\ phase' \in {phase, "trap"} /\ (phase' # "trap" => Acts(env', eth_current'))
      /\ Slim(env')
  <2>1. Acts(env, eth_current) /\ Slim(env)
    BY <1>2 DEF IInv
  <2>2. CASE eth_current = dev
    <3>1. EthCurrentChanged(HeadWithout(dev), env)
      BY <1>2, <2>2
    <3>2. /\ eth_current' = HeadWithout(dev)
          /\ \/ phase' = phase /\ Acts(env', HeadWithout(dev))
             \/ HeadWithout(dev) = NULL /\ phase' = "trap" /\ env' = env
      BY <1>1, <2>1, <3>1, ChangedIs
    <3> QED
      BY <2>1, <2>2, <3>2 DEF Acts
  <2>3. CASE eth_current # dev
    BY <1>2, <2>1, <2>3
  <2> QED
    BY <2>2, <2>3
<1>5. IF eth_devices' = NULL THEN Ring' = << >> /\ OnRing' = {}
      ELSE Ring' # << >> /\ eth_devices' \in OnRing' /\ eth_devices' = Head(Ring')
  <2>1. CASE eth_devices' = NULL
    BY <1>1, <1>2, <2>1 DEF Shape, OnRing, ToSet
  <2>2. CASE eth_devices' # NULL
    <3>1. Loop(next', Ring') /\ eth_devices' = Ring'[1]
      BY <1>1, <1>2, <2>2 DEF Shape
    <3>2. Ring' \in Seq(Devs) /\ 1 \in 1 .. Len(Ring') /\ Ring'[1] \in ToSet(Ring') /\ Ring' # << >>
      BY <3>1, LoopIs
    <3>3. Head(Ring') = Ring'[1]
      BY <3>2
    <3> QED
      BY <2>2, <3>1, <3>2, <3>3 DEF OnRing
  <2> QED
    BY <2>1, <2>2
<1>6. IF eth_devices' = NULL THEN eth_current' = NULL ELSE eth_current' \in OnRing'
  <2>1. CASE eth_current = dev
    BY <1>2, <1>4, <1>5, <2>1
  <2>2. CASE eth_current # dev
    BY <1>1, <1>3, <1>4, <1>5, <2>2
  <2> QED
    BY <2>1, <2>2
<1>7. OnRing' \subseteq OnRing
  BY <1>1
<1>8. TypeOK'
  <2>1. eth_current' \in Devs \cup {NULL} /\ phase' \in {"boot", "up", "trap"}
    BY <1>1, <1>3, <1>4 DEF IInv, TypeOK
  <2>2. \A d, e \in OnRing' : index'[d] = index'[e] => d = e
    BY <1>2, <1>7 DEF IInv, TypeOK
  <2>3. \A i \in SlotIds : env'[i].val \in Values
    BY <1>4 DEF Slim
  <2>4. round' \in BOOLEAN
    BY <1>2
  <2> QED
    BY <1>1, <1>2, <2>1, <2>2, <2>3, <2>4 DEF IInv, TypeOK
<1>9. IInv'
  <2>1. Len(Ring') <= next_index' /\ \A d \in OnRing' : index'[d] < next_index'
    BY <1>1, <1>2, <1>3, <1>7 DEF IInv, TypeOK
  <2>2. act' \in {NoSlot, LastSlot} /\ Turns' /\ Shape(next', eth_devices', Ring')
    BY <1>1, <1>2 DEF IInv, Turns
  <2> QED
    BY <1>4, <1>6, <1>8, <2>1, <2>2 DEF IInv
<1>10. List!Withdraw(dev)
  <2>1. \A j : List!RemoveAt(Ring, j) = RemoveAt(Ring, j)
    BY SameSequences
  <2>2. dev \in List!ToSet(Ring)
    BY <1>2, SameSequences DEF OnRing
  <2>3. eth_current' = IF eth_current # dev THEN eth_current
                       ELSE IF Ring' = << >> THEN NULL ELSE Head(Ring')
    BY <1>2, <1>4, <1>5
  <2>4. \E j \in DOMAIN Ring : Ring[j] = dev /\ Ring' = List!RemoveAt(Ring, j)
    BY <1>1, <2>1
  <2> QED
    BY <2>2, <2>3, <2>4 DEF List!Withdraw
<1> QED
  BY <1>9, <1>10 DEF Steps, List!ListNext

\* ethprime is never set.
LEMMA PreferredIs ==
  ASSUME IInv, phase # "trap"
  PROVE  EnvSlot(env, EthPrime) = NoSlot /\ Preferred(env) = eth_current
<1>1. Slim(env) /\ env[LastSlot].var \in {NoVar, EthAct}
  BY DEF IInv, Acts
<1>2. EnvSlot(env, EthPrime) = NoSlot
  BY <1>1, EnvSlotIs, VarsDiffer
<1> QED
  BY <1>2 DEF Preferred

LEMMA Initialized ==
  ASSUME IInv, EthInitialize
  PROVE  /\ Ring' = Ring /\ OnRing' = OnRing /\ eth_current' = eth_current /\ Acts(env', eth_current)
         /\ enetaddr' \in [Devs -> Addresses]
         /\ \A d \in OnRing : enetaddr'[d] = IF enetaddr[d] = "none" THEN "default" ELSE enetaddr[d]
<1>1. /\ Ring' = Ring /\ OnRing' = OnRing /\ phase = "boot" /\ Acts(env, eth_current)
      /\ enetaddr' = Written.mac
  BY RingSame DEF EthInitialize, ringVars, IInv
<1>2. CASE Ring = << >>
  <2>1. eth_current' = eth_current /\ env' = env
    BY <1>2 DEF EthInitialize
  <2>2. OnRing = {}
    BY <1>2, RingKnown
  <2>3. PICK after : Following(after)
    BY <1>2, AfterIs
  <2>4. Written = [mac |-> enetaddr, env |-> env]
    BY <1>2, <2>3 DEF Following
  <2>5. enetaddr' = enetaddr
    BY <1>1, <2>4
  <2> QED
    BY <1>1, <2>1, <2>2, <2>5 DEF IInv, TypeOK
<1>3. CASE Ring # << >>
  <2>1. Loop(next, Ring) /\ eth_current \in OnRing /\ OnRing \subseteq Devs
    BY <1>3, RingKnown
  <2>2. Settled(Written, Len(Ring)) /\ Len(Ring) \in Nat
    BY <1>1, <2>1, WrittenIs, RingKnown
  <2>3. Slim(Written.env) /\ Written.env[LastSlot].var # EthRotate
    BY <2>2, VarsDiffer DEF Settled
  <2>4. eth_current' = eth_current /\ env' = NameCurrent(eth_current, Written.env)
    BY <1>1, <1>3, <2>3, PreferredIs, RotateOn DEF EthInitialize
  <2>5. Acts(env', eth_current)
    BY <2>1, <2>3, <2>4, NameCurrentIs
  <2>6. ASSUME NEW d \in OnRing
        PROVE  enetaddr'[d] = IF enetaddr[d] = "none" THEN "default" ELSE enetaddr[d]
    <3>1. PICK j \in 1 .. Len(Ring) : Ring[j] = d
      BY <2>1, LoopIs DEF OnRing
    <3> QED
      BY <1>1, <2>2, <3>1 DEF Settled
  <2> QED
    BY <1>1, <2>2, <2>4, <2>5, <2>6 DEF Settled
<1> QED
  BY <1>2, <1>3

LEMMA EthInitializeStep ==
  ASSUME IInv, EthInitialize
  PROVE  IInv' /\ Steps
<1>1. /\ Ring' = Ring /\ OnRing' = OnRing /\ eth_current' = eth_current /\ Acts(env', eth_current)
      /\ enetaddr' \in [Devs -> Addresses]
  BY Initialized
<1>2. phase' = "up" /\ UNCHANGED <<eth_devices, next, index, next_index, act, first_failed,
                                   net_restart_wrap, tried, round>>
  BY DEF EthInitialize, ringVars, failVars
<1>3. Slim(env') /\ \A i \in SlotIds : env'[i].val \in Values
  BY <1>1 DEF Acts, Slim
<1>4. TypeOK'
  BY <1>1, <1>2, <1>3 DEF IInv, TypeOK
<1>5. IInv'
  BY <1>1, <1>2, <1>3, <1>4 DEF IInv, Turns
<1> QED
  BY <1>1, <1>5 DEF Steps, List!listVars

\* The pointer act leads to the name of the current device, when there is one.
LEMMA Chosen ==
  ASSUME IInv, EthSetCurrent
  PROVE  act' \in {NoSlot, LastSlot} /\ EthCurrentChanged(eth_current, env)
<1> DEFINE a     == IF act = NoSlot THEN EnvSlot(env, EthAct) ELSE act
           prime == EnvSlot(env, EthPrime)
           chosen == CASE a # NoSlot                  -> Named(a)
                       [] a = NoSlot /\ prime # NoSlot -> Named(prime)
                       [] OTHER                        -> NULL
<1>1. act' = a /\ EthCurrentChanged(chosen, env) /\ phase = "up"
  BY DEF EthSetCurrent
<1>2. Acts(env, eth_current) /\ Slim(env) /\ act \in {NoSlot, LastSlot} /\ LastSlot # NoSlot
  BY <1>1, SlotsAre DEF IInv
<1>3. prime = NoSlot
  BY <1>1, PreferredIs
<1>4. a \in {NoSlot, LastSlot}
  BY <1>2, EnvSlotIs, VarsDiffer
<1>5. eth_current # NULL => a = LastSlot
  BY <1>2, EnvSlotIs, VarsDiffer DEF Acts
<1>6. Named(LastSlot) = eth_current
  <2>1. CASE eth_current # NULL
    <3>1. eth_current \in OnRing /\ eth_current \in Devs
      BY <2>1, RingKnown
    <3>2. env[LastSlot].val = Name(eth_current)
      BY <1>2, <2>1 DEF Acts
    <3> QED
      BY <3>1, <3>2, ValuesAre DEF Named
  <2>2. CASE eth_current = NULL
    <3>1. env[LastSlot].val.type # "name"
      BY <1>2, <2>2, ValuesAre DEF Acts
    <3> QED
      BY <2>2, <3>1 DEF Named
  <2> QED
    BY <2>1, <2>2
<1> HIDE DEF a, prime
<1>7. chosen = eth_current
  <2>1. CASE a = LastSlot
    BY <1>2, <1>6, <2>1
  <2>2. CASE a = NoSlot
    BY <1>2, <1>3, <1>5, <2>2
  <2> QED
    BY <1>4, <2>1, <2>2
<1> QED
  BY <1>1, <1>4, <1>7

LEMMA EthSetCurrentStep ==
  ASSUME IInv, EthSetCurrent
  PROVE  IInv' /\ Steps /\ eth_current' = eth_current
<1>1. /\ phase = "up" /\ tried' = {eth_current'} \ {NULL} /\ round' = FALSE
      /\ UNCHANGED <<eth_devices, next, index, next_index, enetaddr, first_failed, net_restart_wrap>>
  BY DEF EthSetCurrent, ringVars
<1>2. act' \in {NoSlot, LastSlot} /\ EthCurrentChanged(eth_current, env)
  BY Chosen
<1>3. Ring' = Ring /\ OnRing' = OnRing
  BY <1>1, RingSame
<1>4. eth_current \in Devs \cup {NULL} /\ Acts(env, eth_current) /\ Slim(env)
  BY <1>1 DEF IInv, TypeOK
<1>5. /\ eth_current' = eth_current
      /\ \/ phase' = phase /\ Acts(env', eth_current)
         \/ phase' = "trap" /\ env' = env
  BY <1>2, <1>4, ChangedIs
<1>6. Slim(env') /\ (phase' # "trap" => Acts(env', eth_current')) /\ phase' \in {"up", "trap"}
  BY <1>1, <1>4, <1>5 DEF Acts
<1>7. TypeOK'
  <2>1. \A i \in SlotIds : env'[i].val \in Values
    BY <1>6 DEF Slim
  <2>2. act' \in SlotIds \cup {NoSlot} /\ tried' \subseteq Devs /\ round' \in BOOLEAN
    BY <1>1, <1>2, <1>4, <1>5, SlotsAre
  <2> QED
    BY <1>1, <1>3, <1>4, <1>5, <1>6, <2>1, <2>2 DEF IInv, TypeOK
<1>8. IInv'
  BY <1>1, <1>2, <1>3, <1>5, <1>6, <1>7 DEF IInv, Turns
<1> QED
  BY <1>3, <1>5, <1>8 DEF Steps, List!listVars

\* The next device of the ring is the successor in the list.
LEMMA NextOnRing ==
  ASSUME Loop(next, Ring), NEW d \in OnRing
  PROVE  next[d] \in OnRing /\ List!Successor(d) = next[d]
<1> DEFINE n == Len(Ring)
<1>1. /\ n \in Nat /\ n > 0 /\ \A k \in 1 .. n : Ring[k] \in OnRing
      /\ \A j, k \in 1 .. n : Ring[j] = Ring[k] => j = k
      /\ \A k \in 1 .. n : next[Ring[k]] = IF k = n THEN Ring[1] ELSE Ring[k + 1]
  BY LoopIs DEF OnRing
<1>2. PICK i \in 1 .. n : Ring[i] = d
  BY LoopIs DEF OnRing
<1> HIDE DEF n
<1>3. (CHOOSE j \in 1 .. n : Ring[j] = d) = i
  BY <1>1, <1>2
<1>4. i % n = IF i = n THEN 0 ELSE i
  BY <1>1
<1>5. List!Successor(d) = Ring[(i % n) + 1]
  BY <1>3 DEF List!Successor, n
<1>6. next[d] = IF i = n THEN Ring[1] ELSE Ring[i + 1]
  BY <1>1, <1>2
<1>7. 1 \in 1 .. n /\ (i # n => i + 1 \in 1 .. n)
  BY <1>1
<1> QED
  BY <1>1, <1>4, <1>5, <1>6, <1>7

LEMMA EthTryAnotherStep ==
  ASSUME IInv, NEW first_restart \in BOOLEAN, EthTryAnother(first_restart)
  PROVE  IInv' /\ Steps
<1>1. /\ phase = "up" /\ eth_current # NULL /\ EthCurrentChanged(next[eth_current], env)
      /\ first_failed' = IF first_restart THEN eth_current ELSE first_failed
      /\ net_restart_wrap' = (net_restart_wrap \/ first_failed' = eth_current')
      /\ tried' = IF first_restart THEN {eth_current, eth_current'}
                  ELSE tried \cup {eth_current'}
      /\ round' = (round \/ first_restart)
      /\ UNCHANGED <<eth_devices, next, index, next_index, enetaddr, act>>
  BY DEF EthTryAnother, ToNext, WrappedAround, ringVars
<1>2. Ring' = Ring /\ OnRing' = OnRing
  BY <1>1, RingSame
<1>3. /\ Loop(next, Ring) /\ eth_current \in OnRing /\ eth_devices # NULL
      /\ OnRing \subseteq Devs /\ NULL \notin Devs
  BY <1>1, RingKnown
<1>4. next[eth_current] \in OnRing /\ List!Successor(eth_current) = next[eth_current]
  BY <1>3, NextOnRing
<1>5. Acts(env, eth_current)
  BY <1>1 DEF IInv
<1>6. eth_current' = next[eth_current] /\ phase' = "up" /\ Acts(env', eth_current')
  BY <1>1, <1>3, <1>4, <1>5, ChangedIs
<1>7. Slim(env') /\ \A i \in SlotIds : env'[i].val \in Values
  BY <1>6 DEF Acts, Slim
<1>8. TypeOK'
  <2>1. /\ first_failed' \in Devs \cup {NULL} /\ net_restart_wrap' \in BOOLEAN
        /\ tried' \subseteq Devs /\ round' \in BOOLEAN /\ eth_current' \in Devs
    BY <1>1, <1>3, <1>4, <1>6 DEF IInv, TypeOK
  <2> QED
    BY <1>1, <1>2, <1>6, <1>7, <2>1 DEF IInv, TypeOK
<1>9. Turns'
  <2>1. CASE first_restart
    <3>1. first_failed' = eth_current /\ tried' = {eth_current, next[eth_current]}
      BY <1>1, <1>6, <2>1
    <3> QED
      BY <1>1, <1>2, <1>3, <1>6, <3>1 DEF Turns
  <2>2. CASE ~first_restart
    <3>1. first_failed' = first_failed /\ tried' = tried \cup {eth_current'} /\ round' = round
      BY <1>1, <2>2 DEF IInv, TypeOK
    <3>2. CASE round
      <4>1. /\ first_failed \in tried \cap OnRing
            /\ \A d \in tried : d # eth_current => next[d] \in tried
        BY <3>2 DEF IInv, Turns
      <4> QED
        BY <1>1, <1>2, <1>6, <3>1, <4>1 DEF Turns
    <3> QED
      BY <3>1, <3>2 DEF Turns
  <2> QED
    BY <2>1, <2>2
<1>10. IInv'
  BY <1>1, <1>2, <1>4, <1>6, <1>7, <1>8, <1>9 DEF IInv
<1>11. List!Rotate
  BY <1>1, <1>2, <1>4, <1>6 DEF List!Rotate
<1> QED
  BY <1>10, <1>11 DEF Steps, List!ListNext

LEMMA WrapSeenStep ==
  ASSUME IInv, WrapSeen
  PROVE  IInv' /\ Steps
<1>1. /\ UNCHANGED <<phase, eth_devices, next, index, next_index, eth_current, enetaddr, env,
                     act, first_failed, tried, round>>
      /\ net_restart_wrap' = FALSE
  BY DEF WrapSeen, ringVars
<1>2. Ring' = Ring /\ OnRing' = OnRing
  BY <1>1, RingSame
<1> QED
  BY <1>1, <1>2 DEF IInv, TypeOK, Turns, Steps, List!listVars

LEMMA NextStep == IInv /\ [Next]_vars => IInv' /\ Steps
<1> SUFFICES ASSUME IInv, [Next]_vars PROVE IInv' /\ Steps
  OBVIOUS
<1>1. CASE EthInitialize
  BY <1>1, EthInitializeStep
<1>2. CASE EthSetCurrent
  BY <1>2, EthSetCurrentStep
<1>3. CASE WrapSeen
  BY <1>3, WrapSeenStep
<1>4. ASSUME NEW dev \in Devs, EthRegister(dev)
      PROVE  IInv' /\ Steps
  BY <1>4, EthRegisterStep
<1>5. ASSUME NEW dev \in Devs, EthUnregister(dev)
      PROVE  IInv' /\ Steps
  BY <1>5, EthUnregisterStep
<1>6. ASSUME NEW first_restart \in BOOLEAN, EthTryAnother(first_restart)
      PROVE  IInv' /\ Steps
  BY <1>6, EthTryAnotherStep
<1>7. CASE UNCHANGED vars
  <2>1. UNCHANGED <<eth_devices, next, eth_current>>
    BY <1>7 DEF vars, ringVars
  <2>2. Steps
    BY <2>1, RingSame DEF Steps, List!listVars
  <2> QED
    BY <1>7, <2>2, StutterStep
<1> QED
  BY <1>1, <1>2, <1>3, <1>4, <1>5, <1>6, <1>7 DEF Next

LEMMA Inductive == Spec => []IInv
<1>1. Init => IInv
  BY InitHolds
<1>2. IInv /\ [Next]_vars => IInv'
  BY NextStep
<1> QED
  BY <1>1, <1>2, PTL DEF Spec

-----------------------------------------------------------------------------
(* What holds.                                                             *)

\* The state is well formed; two devices on the ring never have the same index,
\* by which eth_get_dev_by_index and the variables eth<n>addr tell them apart.
THEOREM TypeCorrect == Spec => []TypeOK
<1>1. IInv => TypeOK
  BY DEF IInv
<1> QED
  BY <1>1, Inductive, PTL

\* The linked ring of eth_register and eth_unregister is a list in the order of
\* registration, and the current device goes round it.
THEOREM IsListCorrect == Spec => IsList
<1>1. Init => List!ListInit
  BY InitHolds
<1>2. IInv /\ [Next]_vars => [List!ListNext]_(List!listVars)
  BY NextStep DEF Steps
<1> QED
  BY <1>1, <1>2, Inductive, PTL DEF Spec, IsList, List!ListSpec

\* ethact names the current device whenever the program runs, however many slots
\* the environment has.
THEOREM EthactNamesCurrentCorrect == Spec => []EthactNamesCurrent
<1>1. IInv => EthactNamesCurrent
  <2> SUFFICES ASSUME IInv, phase = "up", eth_current # NULL
               PROVE  IsSet(env, EthAct) /\ env[EnvSlot(env, EthAct)].val = Name(eth_current)
    BY DEF EthactNamesCurrent
  <2>1. /\ Slim(env) /\ env[LastSlot].var = EthAct /\ env[LastSlot].val = Name(eth_current)
    BY DEF IInv, Acts
  <2>2. EnvSlot(env, EthAct) = LastSlot /\ IsSet(env, EthAct)
    BY <2>1, EnvSlotIs, IsSetIs, VarsDiffer
  <2> QED
    BY <2>1, <2>2
<1> QED
  BY <1>1, Inductive, PTL

\* eth_set_current keeps the current device, for all that its static pointer into the
\* environment is never read again.
THEOREM CurrentKeptCorrect == Spec => CurrentKept
<1>1. IInv /\ [Next]_vars => [EthSetCurrent => eth_current' = eth_current]_vars
  BY EthSetCurrentStep
<1> QED
  BY <1>1, Inductive, PTL DEF Spec, CurrentKept

\* eth_initialize leaves every device of the ring with an address, its own if it had one.
THEOREM AddressedCorrect == Spec => Addressed
<1> DEFINE Done == \A d \in OnRing : enetaddr'[d] = IF enetaddr[d] = "none" THEN "default"
                                                     ELSE enetaddr[d]
<1>1. ASSUME IInv, [Next]_vars, phase = "boot", phase' = "up"
      PROVE  Done
  <2>1. EthInitialize
    <3>1. ASSUME NEW cur, EthCurrentChanged(cur, env)
          PROVE  FALSE
      <4>1. Changed(cur, env)
        BY <3>1 DEF EthCurrentChanged
      <4>2. phase' = phase \/ phase' = "trap"
        BY <4>1 DEF Changed
      <4> QED
        BY <1>1, <4>2
    <3>2. ASSUME NEW dev \in Devs, EthRegister(dev)
          PROVE  FALSE
      BY <1>1, <3>1, <3>2 DEF EthRegister
    <3>3. ASSUME NEW dev \in Devs, EthUnregister(dev)
          PROVE  FALSE
      BY <1>1, <3>1, <3>3 DEF EthUnregister
    <3>4. ~(UNCHANGED vars) /\ ~EthSetCurrent /\ ~WrapSeen
          /\ \A first_restart \in BOOLEAN : ~EthTryAnother(first_restart)
      BY <1>1 DEF vars, EthSetCurrent, WrapSeen, EthTryAnother
    <3> QED
      BY <1>1, <3>2, <3>3, <3>4 DEF Next
  <2> QED
    BY <1>1, <2>1, Initialized
<1>2. IInv /\ [Next]_vars => [phase = "boot" /\ phase' = "up" => Done]_vars
  BY <1>1
<1> QED
  BY <1>2, Inductive, PTL DEF Spec, Addressed

\* From a device on, a set closed under the links has all devices to the end of the ring.
LEMMA ClosedFrom ==
  ASSUME NEW links, NEW s, Loop(links, s), NEW T, \A d \in T : links[d] \in T,
         NEW i \in 1 .. Len(s), s[i] \in T
  PROVE  \A k \in i .. Len(s) : s[k] \in T
<1> DEFINE Bad == {k \in i .. Len(s) : s[k] \notin T}
<1>1. /\ Len(s) \in Nat
      /\ \A k \in 1 .. Len(s) : links[s[k]] = IF k = Len(s) THEN s[1] ELSE s[k + 1]
  BY LoopIs
<1>2. ASSUME Bad # {}
      PROVE  FALSE
  <2>1. Bad \in SUBSET Nat
    BY <1>1
  <2>2. PICK k \in Bad : \A j \in Bad : k <= j
    BY <1>2, <2>1, ListsGiven, L!Least
  <2>3. k # i /\ k - 1 \in i .. Len(s) /\ k - 1 \in 1 .. Len(s) /\ k - 1 # Len(s)
        /\ (k - 1) + 1 = k /\ ~(k <= k - 1)
    BY <1>1, <2>2
  <2>4. k - 1 \notin Bad
    BY <2>2, <2>3
  <2>5. s[k - 1] \in T
    BY <2>3, <2>4
  <2>6. s[k] = links[s[k - 1]]
    BY <1>1, <2>3
  <2> QED
    BY <2>2, <2>5, <2>6
<1> QED
  BY <1>2

\* A set of devices that is closed under the links and meets the ring has all of it.
LEMMA ClosedIsAll ==
  ASSUME NEW links, NEW s, Loop(links, s), NEW T, \A d \in T : links[d] \in T,
         NEW d \in T, d \in ToSet(s)
  PROVE  ToSet(s) \subseteq T
<1>1. /\ Len(s) \in Nat /\ Len(s) > 0 /\ \A x \in ToSet(s) : \E k \in 1 .. Len(s) : s[k] = x
      /\ \A k \in 1 .. Len(s) : links[s[k]] = IF k = Len(s) THEN s[1] ELSE s[k + 1]
  BY LoopIs
<1>2. PICK i \in 1 .. Len(s) : s[i] = d
  BY <1>1
<1>3. s[Len(s)] \in T
  BY <1>1, <1>2, ClosedFrom
<1>4. s[1] \in T /\ 1 \in 1 .. Len(s)
  BY <1>1, <1>3
<1>5. \A k \in 1 .. Len(s) : s[k] \in T
  BY <1>4, ClosedFrom
<1> QED
  BY <1>1, <1>5

\* A round of retries that comes back to the device that failed first has been to all.
THEOREM RoundTriesAllCorrect == Spec => RoundTriesAll
<1>1. ASSUME IInv, [Next]_vars, ~net_restart_wrap, net_restart_wrap', round'
      PROVE  OnRing \subseteq tried'
  <2>1. PICK first_restart \in BOOLEAN : EthTryAnother(first_restart)
    <3>1. ~EthInitialize /\ ~EthSetCurrent /\ ~WrapSeen /\ ~(UNCHANGED vars)
      BY <1>1 DEF EthInitialize, EthSetCurrent, WrapSeen, vars, failVars
    <3>2. \A dev \in Devs : ~EthRegister(dev) /\ ~EthUnregister(dev)
      BY <1>1 DEF EthRegister, EthUnregister
    <3> QED
      BY <1>1, <3>1, <3>2 DEF Next
  <2>2. /\ phase = "up" /\ eth_current # NULL /\ eth_current' = next[eth_current]
        /\ first_failed' = IF first_restart THEN eth_current ELSE first_failed
        /\ first_failed' = eth_current'
        /\ tried' = IF first_restart THEN {eth_current, eth_current'}
                    ELSE tried \cup {eth_current'}
        /\ round \/ first_restart
    BY <1>1, <2>1 DEF EthTryAnother, EthCurrentChanged, ToNext, WrappedAround
  <2>3. Loop(next, Ring) /\ eth_current \in OnRing /\ OnRing = ToSet(Ring)
    BY <1>1, <2>2, RingKnown DEF OnRing
  <2>4. CASE first_restart
    <3>1. next[eth_current] = eth_current /\ tried' = {eth_current}
      BY <2>2, <2>4
    <3> DEFINE T == {eth_current}
    <3>2. (\A d \in T : next[d] \in T) /\ eth_current \in T /\ eth_current \in ToSet(Ring)
      BY <2>3, <3>1
    <3> HIDE DEF T
    <3>3. ToSet(Ring) \subseteq T
      BY <2>3, <3>2, ClosedIsAll
    <3> QED
      BY <2>3, <3>1, <3>3 DEF T
  <2>5. CASE ~first_restart
    <3>1. /\ first_failed \in tried /\ first_failed \in OnRing /\ eth_current \in tried
          /\ \A d \in tried : d # eth_current => next[d] \in tried
      BY <1>1, <2>2, <2>5 DEF IInv, Turns
    <3>2. \A d \in tried : next[d] \in tried
      BY <2>2, <2>5, <3>1
    <3>3. ToSet(Ring) \subseteq tried
      BY <2>3, <3>1, <3>2, ClosedIsAll
    <3> QED
      BY <2>2, <2>3, <2>5, <3>3
  <2> QED
    BY <2>4, <2>5
<1>2. IInv /\ [Next]_vars =>
        [~net_restart_wrap /\ net_restart_wrap' /\ round' => OnRing \subseteq tried']_vars
  BY <1>1
<1> QED
  BY <1>2, Inductive, PTL DEF Spec, RoundTriesAll
=============================================================================
