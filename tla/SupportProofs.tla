--------------------------- MODULE SupportProofs ---------------------------
(***************************************************************************)
(* The parts below the driver: the waits of Timer last as long as they       *)
(* should, with the exceptions that WaitsInTime names and no others; the    *)
(* blocks of Alloc stay apart; the decimal digits of Decimal are right; and  *)
(* the checksums of IpChecksum find what they should and add up.            *)
(***************************************************************************)
EXTENDS Timer, Alloc, Decimal, IpChecksum, SequenceTheorems, WellFoundedInduction, TLAPS

-----------------------------------------------------------------------------
(* Division with remainder.                                                *)

LEMMA Parts ==
  ASSUME NEW d \in Nat \ {0}, NEW x \in Int
  PROVE  x = d * (x \div d) + (x % d) /\ x \div d \in Int /\ x % d \in 0 .. d - 1
OBVIOUS

LEMMA NatParts ==
  ASSUME NEW d \in Nat \ {0}, NEW x \in Nat
  PROVE  x = d * (x \div d) + (x % d) /\ x \div d \in Nat /\ x % d \in 0 .. d - 1
OBVIOUS

LEMMA Unique ==
  ASSUME NEW d \in Nat \ {0}, NEW q \in Int, NEW r \in 0 .. d - 1
  PROVE  (d * q + r) \div d = q /\ (d * q + r) % d = r
OBVIOUS

\* A number below the modulus is its own remainder, and a multiple does not change it.
LEMMA Shifted ==
  ASSUME NEW d \in Nat \ {0}, NEW x \in 0 .. d - 1
  PROVE  x % d = x /\ (x - d) % d = x /\ (x + d) % d = x
<1>1. x % d = x
  <2>1. x = d * 0 + x
    OBVIOUS
  <2> QED
    BY <2>1, Unique
<1>2. (x - d) % d = x
  <2>1. x - d = d * (-1) + x
    OBVIOUS
  <2> QED
    BY <2>1, Unique
<1>3. (x + d) % d = x
  <2>1. x + d = d * 1 + x
    OBVIOUS
  <2> QED
    BY <2>1, Unique
<1> QED
  BY <1>1, <1>2, <1>3

\* Division keeps the order, and one more makes at most one more.
LEMMA DivMonotone ==
  ASSUME NEW d \in Nat \ {0}, NEW x \in Int, NEW y \in Int, x <= y
  PROVE  x \div d <= y \div d
<1> DEFINE a == x \div d
           b == y \div d
<1>1. a \in Int /\ b \in Int /\ d * a <= x /\ y < d * b + d
  BY Parts
<1> HIDE DEF a, b
<1>2. d * a < d * (b + 1)
  BY <1>1
<1>3. a < b + 1
  BY <1>1, <1>2
<1> QED
  BY <1>1, <1>3 DEF a, b

LEMMA DivStep ==
  ASSUME NEW d \in Nat \ {0}, NEW x \in Int
  PROVE  (x + 1) \div d <= (x \div d) + 1
<1> DEFINE a == x \div d
           b == (x + 1) \div d
<1>1. a \in Int /\ b \in Int /\ d * b <= x + 1 /\ x + 1 <= d * a + d
  BY Parts
<1> HIDE DEF a, b
<1>2. d * b <= d * (a + 1)
  BY <1>1
<1>3. b <= a + 1
  BY <1>1, <1>2
<1> QED
  BY <1>1, <1>3 DEF a, b

-----------------------------------------------------------------------------
(* Induction.                                                              *)

\* Induction up to n, for the set of the numbers at which something holds.
LEMMA FromZero ==
  ASSUME NEW n \in Nat, NEW G, 0 \in G, \A k \in 1 .. n : k - 1 \in G => k \in G
  PROVE  0 .. n \subseteq G
<1> DEFINE T == {k \in 0 .. n : k \notin G}
<1>1. ASSUME T # {}
      PROVE  FALSE
  <2>1. T \in SUBSET Nat
    OBVIOUS
  <2>2. \E x \in T : \A y \in T : ~ (<<y, x>> \in OpToRel(<, Nat))
    BY <1>1, <2>1, NatLessThanWellFounded, WFMin
  <2>3. PICK x \in T : \A y \in T : ~ (<<y, x>> \in OpToRel(<, Nat))
    BY <2>2
  <2>4. x \in 1 .. n /\ x - 1 \in 0 .. n /\ x - 1 \in Nat /\ x - 1 < x /\ x \in Nat
    <3>1. x \in 0 .. n /\ x # 0
      BY <2>3
    <3> QED
      BY <3>1
  <2>5. <<x - 1, x>> \in OpToRel(<, Nat)
    BY <2>4 DEF OpToRel
  <2>6. x - 1 \notin T
    BY <2>3, <2>5
  <2> QED
    BY <2>3, <2>4, <2>6
<1> QED
  BY <1>1

-----------------------------------------------------------------------------
(* The widths.                                                             *)

Half == IntRange \div 2

LEMMA Widths ==
  /\ IntRange \in Nat \ {0} /\ UlongRange \in Nat \ {0} /\ Half \in Nat
  /\ IntRange = 2 * Half /\ UlongRange >= 2 * IntRange
<1>1. IntRange \in Nat \ {0} /\ UlongRange \in Nat \ {0}
  BY TimerAssumption
<1>2. IntRange = 2 * Half /\ Half \in Nat
  BY TimerAssumption DEF Half
<1>3. UlongRange >= 2 * IntRange
  <2> DEFINE k == UlongRange \div IntRange
  <2>1. UlongRange = IntRange * k /\ k \in Int
    BY <1>1, Parts, TimerAssumption
  <2> HIDE DEF k
  <2>2. k > 1
    <3>1. IntRange * k > IntRange * 1
      BY <1>1, <2>1, TimerAssumption
    <3> QED
      BY <1>1, <2>1, <3>1
  <2>3. IntRange * k >= IntRange * 2
    BY <1>1, <2>1, <2>2
  <2> QED
    BY <1>1, <2>1, <2>3
<1> QED
  BY <1>1, <1>2, <1>3

\* The signed value that an int has for n, and the unsigned long it becomes.
SignedValue(n) == ((n + Half) % IntRange) - Half

LEMMA SignedIs ==
  ASSUME NEW n \in Int
  PROVE  /\ SignedValue(n) \in Int /\ SignedValue(n) >= -Half /\ SignedValue(n) < Half
         /\ Signed(n) = IF SignedValue(n) < 0 THEN SignedValue(n) + UlongRange ELSE SignedValue(n)
         /\ Signed(n) \in 0 .. UlongRange - 1
<1> DEFINE q == n \div IntRange
           low == n % IntRange
<1>1. n = IntRange * q + low /\ q \in Int /\ low \in 0 .. IntRange - 1
  BY Widths, Parts
<1> HIDE DEF q, low
<1>2. SignedValue(n) = IF low < Half THEN low ELSE low - IntRange
  <2>1. CASE low < Half
    <3>1. n + Half = IntRange * q + (low + Half) /\ low + Half \in 0 .. IntRange - 1
      BY <1>1, <2>1, Widths
    <3>2. (n + Half) % IntRange = low + Half
      <4>1. (IntRange * q + (low + Half)) % IntRange = low + Half
        BY <1>1, <3>1, Unique, Widths
      <4> QED
        BY <3>1, <4>1
    <3> QED
      BY <1>1, <2>1, <3>2, Widths DEF SignedValue
  <2>2. CASE low >= Half
    <3>1. /\ n + Half = IntRange * (q + 1) + (low - Half) /\ low - Half \in 0 .. IntRange - 1
      BY <1>1, <2>2, Widths
    <3>2. (n + Half) % IntRange = low - Half
      <4>1. q + 1 \in Int
        BY <1>1
      <4>2. (IntRange * (q + 1) + (low - Half)) % IntRange = low - Half
        BY <3>1, <4>1, Unique, Widths
      <4> QED
        BY <3>1, <4>2
    <3> QED
      BY <1>1, <2>2, <3>2, Widths DEF SignedValue
  <2> QED
    BY <1>1, <2>1, <2>2, Widths
<1>3. Signed(n) = IF low < Half THEN low ELSE low + UlongRange - IntRange
  BY DEF Signed, Half, low
<1> QED
  BY <1>1, <1>2, <1>3, Widths

\* Adding a multiple of the modulus.
LEMMA ModAdd ==
  ASSUME NEW d \in Nat \ {0}, NEW x \in Int, NEW j \in Int
  PROVE  (x + d * j) % d = x % d
<1> DEFINE q == x \div d
           r == x % d
<1>1. x = d * q + r /\ q \in Int /\ r \in 0 .. d - 1
  BY Parts
<1> HIDE DEF q, r
<1>2. x + d * j = d * (q + j) + r /\ q + j \in Int
  BY <1>1
<1>3. (d * (q + j) + r) % d = r
  BY <1>1, <1>2, Unique
<1> QED
  BY <1>2, <1>3 DEF r

\* The int has the value of what it was made of, up to multiples of its range.
LEMMA SignedOfSum ==
  ASSUME NEW m \in Int, NEW len \in Int
  PROVE  Signed(Signed(m) + len) = Signed(m + len)
<1> DEFINE q == m \div IntRange
           low == m % IntRange
           k == UlongRange \div IntRange
<1>1. m = IntRange * q + low /\ q \in Int /\ low \in 0 .. IntRange - 1
  BY Widths, Parts
<1>2. UlongRange = IntRange * k /\ k \in Int
  <2>1. UlongRange % IntRange = 0 /\ UlongRange \in Int /\ IntRange \in Nat \ {0}
    BY TimerAssumption
  <2> QED
    BY <2>1, Parts
<1>3. Signed(m) = IF low < Half THEN low ELSE low + UlongRange - IntRange
  BY DEF Signed, Half
<1> HIDE DEF q, low, k
<1>4. CASE low < Half
  <2>1. Signed(m) + len = (m + len) + IntRange * (-q) /\ -q \in Int
    BY <1>1, <1>3, <1>4, Widths
  <2>2. (Signed(m) + len) % IntRange = (m + len) % IntRange
    <3> DEFINE j == -q
               x == m + len
    <3>1. j \in Int /\ x \in Int /\ Signed(m) + len = x + IntRange * j
      BY <2>1
    <3> HIDE DEF j, x
    <3>2. (x + IntRange * j) % IntRange = x % IntRange
      BY <3>1, ModAdd, Widths
    <3> QED
      BY <3>1, <3>2 DEF x
  <2> QED
    BY <2>2 DEF Signed
<1>5. CASE ~ (low < Half)
  <2>1. Signed(m) + len = (m + len) + IntRange * (k - 1 - q) /\ k - 1 - q \in Int
    BY <1>1, <1>2, <1>3, <1>5, Widths
  <2>2. (Signed(m) + len) % IntRange = (m + len) % IntRange
    <3> DEFINE j == k - 1 - q
               x == m + len
    <3>1. j \in Int /\ x \in Int /\ Signed(m) + len = x + IntRange * j
      BY <2>1
    <3> HIDE DEF j, x
    <3>2. (x + IntRange * j) % IntRange = x % IntRange
      BY <3>1, ModAdd, Widths
    <3> QED
      BY <3>1, <3>2 DEF x
  <2> QED
    BY <2>2 DEF Signed
<1> QED
  BY <1>4, <1>5

\* How far the value moves in less than half the range: as far as the number, or, when it
\* passes the largest, that much less the range.
LEMMA ValueMoves ==
  ASSUME NEW m \in Int, NEW n \in Int, m <= n, n - m < Half
  PROVE  SignedValue(n) - SignedValue(m) = IF Between(m + Half, n + Half, IntRange) THEN n - m - IntRange
                               ELSE n - m
<1> DEFINE a == (m + Half) \div IntRange
           b == (n + Half) \div IntRange
           s == (m + Half) % IntRange
           t == (n + Half) % IntRange
<1>1. /\ m + Half = IntRange * a + s /\ a \in Int /\ s \in 0 .. IntRange - 1
      /\ n + Half = IntRange * b + t /\ b \in Int /\ t \in 0 .. IntRange - 1
  <2>1. m + Half \in Int /\ n + Half \in Int /\ IntRange \in Nat \ {0}
    BY Widths
  <2>2. m + Half = IntRange * a + s /\ a \in Int /\ s \in 0 .. IntRange - 1
    BY <2>1, Parts
  <2>3. n + Half = IntRange * b + t /\ b \in Int /\ t \in 0 .. IntRange - 1
    BY <2>1, Parts
  <2> QED
    BY <2>2, <2>3
<1>2. a <= b
  BY Widths, DivMonotone
<1>3. SignedValue(m) = s - Half /\ SignedValue(n) = t - Half
  BY DEF SignedValue
<1>4. Between(m + Half, n + Half, IntRange) <=> a # b
  BY DEF Between
<1> HIDE DEF a, b, s, t
<1>5. b < a + 2
  <2>1. IntRange * b < IntRange * (a + 2)
    BY <1>1, Widths
  <2> QED
    BY <1>1, <2>1, Widths
<1>6. CASE a = b
  BY <1>1, <1>3, <1>4, <1>6, Widths
<1>7. CASE b = a + 1
  BY <1>1, <1>3, <1>4, <1>7, Widths
<1> QED
  BY <1>1, <1>2, <1>5, <1>6, <1>7

\* What get_timer measures.
LEMMA IntervalIs ==
  ASSUME NEW m \in Int, NEW n \in Int, m <= n, n - m < Half
  PROVE  (Signed(n) - Signed(m)) % UlongRange
           = IF Between(m + Half, n + Half, IntRange) THEN n - m + UlongRange - IntRange
             ELSE n - m
<1> DEFINE D == Signed(n) - Signed(m)
           passed == Between(m + Half, n + Half, IntRange)
           x == IF passed THEN n - m + UlongRange - IntRange ELSE n - m
<1>1. /\ SignedValue(m) \in Int /\ SignedValue(m) >= -Half /\ SignedValue(m) < Half
      /\ Signed(m) = IF SignedValue(m) < 0 THEN SignedValue(m) + UlongRange ELSE SignedValue(m)
  BY SignedIs
<1>2. /\ SignedValue(n) \in Int /\ SignedValue(n) >= -Half /\ SignedValue(n) < Half
      /\ Signed(n) = IF SignedValue(n) < 0 THEN SignedValue(n) + UlongRange ELSE SignedValue(n)
  BY SignedIs
<1>3. SignedValue(n) - SignedValue(m) = IF passed THEN n - m - IntRange ELSE n - m
  BY ValueMoves
<1> HIDE DEF passed
<1>4. x \in 0 .. UlongRange - 1
  BY Widths
<1>5. D \in {x, x - UlongRange, x + UlongRange}
  <2>1. CASE passed
    BY <1>1, <1>2, <1>3, <2>1, Widths
  <2>2. CASE ~ passed
    BY <1>1, <1>2, <1>3, <2>2, Widths
  <2> QED
    BY <2>1, <2>2
<1> HIDE DEF x, D
<1>6. D % UlongRange = x
  BY <1>4, <1>5, Shifted, Widths
<1> QED
  BY <1>6 DEF x, D, passed

\* Between two multiples of the range of an int, what get_timer returns grows.
LEMMA DeadlineOrder ==
  ASSUME NEW m \in Int, NEW n \in Int, m \div IntRange = n \div IntRange
  PROVE  Signed(m) > Signed(n) <=> m > n
<1> DEFINE q == m \div IntRange
           s == m % IntRange
           t == n % IntRange
<1>1. /\ m = IntRange * q + s /\ q \in Int /\ s \in 0 .. IntRange - 1
      /\ n = IntRange * q + t /\ t \in 0 .. IntRange - 1
  BY Widths, Parts
<1>2. /\ Signed(m) = IF s < Half THEN s ELSE s + UlongRange - IntRange
      /\ Signed(n) = IF t < Half THEN t ELSE t + UlongRange - IntRange
  BY DEF Signed, Half
<1> HIDE DEF q, s, t
<1>3. m > n <=> s > t
  BY <1>1, Widths
<1> QED
  BY <1>1, <1>2, <1>3, Widths

-----------------------------------------------------------------------------
(* The invariant.                                                          *)

TimerType ==
  /\ now \in Nat /\ left \in Nat /\ ended \in BOOLEAN
  /\ wait \in [kind : {"none", "interval", "deadline", "udelay"}, start : Nat, length : Nat,
               stored : Int]
  /\ wait.start <= now

\* What each wait has stored, and that less than half the range of an int has passed.
Stored ==
  /\ wait.kind = "interval" => wait.stored = Signed(Ms(wait.start))
  /\ wait.kind = "deadline" => wait.stored = Signed(Ms(wait.start) + wait.length)
  /\ wait.kind # "none" /\ ~ ended => Elapsed < Half
  /\ wait.kind = "none" => ~ ended

\* udelay: the pieces waited for so far have passed when the one under way ends.
Pieces ==
  wait.kind = "udelay" =>
    /\ left <= wait.length
    /\ ~ ended => wait.stored >= wait.start + (wait.length - left) * TicksPerUs
    /\ ended => now - wait.start > wait.length * TicksPerUs

LEMMA MsType ==
  /\ TicksPerMs \in Nat \ {0}
  /\ \A t \in Nat : Ms(t) \in Int
  /\ \A t \in Nat, u \in Nat : t <= u => Ms(t) <= Ms(u)
  /\ \A t \in Nat : Ms(t + 1) <= Ms(t) + 1
<1>1. TicksPerMs \in Nat \ {0}
  <2>1. TicksPerUs \in Nat \ {0} /\ UsPerMs \in Nat \ {0}
    BY TimerAssumption
  <2> QED
    BY <2>1 DEF TicksPerMs
<1> QED
  BY <1>1, DivMonotone, DivStep, Parts DEF Ms

LEMMA GetTimerIs ==
  ASSUME NEW t \in Nat
  PROVE  GetTimer(t, 0) = Signed(Ms(t))
<1>1. Signed(Ms(t)) \in 0 .. UlongRange - 1
  BY MsType, SignedIs
<1>2. Signed(Ms(t)) % UlongRange = Signed(Ms(t))
  BY <1>1, Shifted, Widths
<1> QED
  BY <1>1, <1>2 DEF GetTimer, RuntimeTick

TInv == TimerType /\ Stored /\ Pieces

\* A wait begins: no time has passed.
LEMMA BeginsStored ==
  ASSUME TInv, NEW kind \in {"interval", "deadline", "udelay"}, NEW length \in Nat,
         NEW stored \in Int, Wait(kind, length, stored), UNCHANGED <<now, ended>>, left' \in Nat,
         kind = "interval" => stored = Signed(Ms(now)),
         kind = "deadline" => stored = Signed(Ms(now) + length)
  PROVE  TimerType' /\ Stored' /\ wait'.kind = kind /\ wait'.start = now /\ wait'.length = length
         /\ wait'.stored = stored /\ ~ ended
<1>1. wait' = [kind |-> kind, start |-> now, length |-> length, stored |-> stored] /\ ~ ended
  BY DEF Wait, TInv, Stored
<1>2. TimerType'
  BY <1>1 DEF TInv, TimerType
<1>3. 0 < Half
  BY Widths
<1>4. Ms(now) \in Int
  BY MsType DEF TInv, TimerType
<1>5. Elapsed' = 0
  BY <1>1, <1>4 DEF Elapsed, Ms
<1>6. Stored'
  BY <1>1, <1>3, <1>5 DEF Stored, Ms, Signed, TicksPerMs
<1> QED
  BY <1>1, <1>2, <1>6

LEMMA IntervalStep ==
  ASSUME TInv, NEW ms \in Delays, Interval(ms)
  PROVE  TInv'
<1>1. ms \in Nat /\ now \in Nat /\ GetTimer(now, 0) = Signed(Ms(now))
  BY TimerAssumption, GetTimerIs DEF TInv, TimerType
<1>2. Signed(Ms(now)) \in Int
  BY <1>1, MsType, SignedIs, Widths
<1>3. TimerType' /\ Stored' /\ wait'.kind = "interval"
  BY <1>1, <1>2, BeginsStored DEF Interval, TInv, TimerType
<1> QED
  BY <1>3 DEF TInv, Pieces

LEMMA DeadlineStep ==
  ASSUME TInv, NEW ms \in Delays, Deadline(ms)
  PROVE  TInv'
<1>1. ms \in Nat /\ now \in Nat /\ GetTimer(now, 0) = Signed(Ms(now)) /\ Ms(now) \in Int
  BY TimerAssumption, GetTimerIs, MsType DEF TInv, TimerType
<1>2. Signed(GetTimer(now, 0) + ms) = Signed(Ms(now) + ms)
  BY <1>1, SignedOfSum
<1>3. Signed(Ms(now) + ms) \in Int
  BY <1>1, SignedIs, Widths
<1>4. TimerType' /\ Stored' /\ wait'.kind = "deadline"
  BY <1>1, <1>2, <1>3, BeginsStored DEF Deadline, TInv, TimerType
<1> QED
  BY <1>4 DEF TInv, Pieces

LEMMA ChunkIs ==
  ASSUME NEW us \in Nat
  PROVE  Chunk(us) \in Nat /\ Chunk(us) <= us /\ Chunk(us) * TicksPerUs \in Nat
<1>1. Chunk(us) \in Nat /\ Chunk(us) <= us /\ TicksPerUs \in Nat
  BY TimerAssumption DEF Chunk
<1> QED
  BY <1>1

LEMMA UdelayStep ==
  ASSUME TInv, NEW us \in Delays, Udelay(us)
  PROVE  TInv'
<1>1. us \in Nat /\ now \in Nat /\ Chunk(us) \in Nat /\ Chunk(us) <= us
      /\ Chunk(us) * TicksPerUs \in Nat
  BY TimerAssumption, ChunkIs DEF TInv, TimerType
<1>2. left' = us - Chunk(us) /\ left' \in Nat /\ UNCHANGED <<now, ended>>
  BY <1>1 DEF Udelay
<1>3. Wait("udelay", us, now + Chunk(us) * TicksPerUs)
  BY DEF Udelay
<1>4. /\ TimerType' /\ Stored' /\ wait'.kind = "udelay" /\ wait'.start = now
      /\ wait'.length = us /\ wait'.stored = now + Chunk(us) * TicksPerUs /\ ~ ended
  BY <1>1, <1>2, <1>3, BeginsStored
<1>5. us - left' = Chunk(us)
  BY <1>1, <1>2
<1>6. Pieces'
  BY <1>1, <1>2, <1>4, <1>5 DEF Pieces
<1> QED
  BY <1>4, <1>6 DEF TInv

LEMMA PollStep ==
  ASSUME TInv, Poll
  PROVE  TInv'
<1>1. /\ wait' = wait /\ left' = left /\ now' = now /\ ended' = Expired /\ ~ ended
      /\ wait.kind = "interval" \/ wait.kind = "deadline"
  BY DEF Poll, Running
<1>2. ended' \in BOOLEAN
  <2>1. CASE wait.kind = "interval"
    <3>1. Expired = ((GetTimer(now, 0) - wait.stored) % UlongRange > wait.length)
      BY <2>1, Zenon DEF Expired
    <3> QED
      BY <1>1, <3>1
  <2>2. CASE wait.kind = "deadline"
    <3>1. Expired = (GetTimer(now, 0) > wait.stored)
      BY <2>2 DEF Expired
    <3> QED
      BY <1>1, <3>1
  <2> QED
    BY <1>1, <2>1, <2>2
<1>3. TimerType'
  BY <1>1, <1>2 DEF TInv, TimerType
<1>4. Stored'
  BY <1>1 DEF TInv, Stored, Elapsed, Ms
<1>5. Pieces'
  BY <1>1 DEF Pieces
<1> QED
  BY <1>3, <1>4, <1>5 DEF TInv

LEMMA UdelayPollStep ==
  ASSUME TInv, UdelayPoll
  PROVE  TInv'
<1>1. /\ wait.kind = "udelay" /\ ~ ended /\ now > wait.stored /\ now' = now
      /\ wait.length \in Nat /\ wait.start \in Nat /\ wait.stored \in Int /\ now \in Nat
      /\ left \in Nat /\ left <= wait.length
      /\ wait.stored >= wait.start + (wait.length - left) * TicksPerUs
  BY DEF UdelayPoll, Running, TInv, TimerType, Pieces
<1>2. CASE left = 0
  <2>1. ended' = TRUE /\ wait' = wait /\ left' = left
    BY <1>2 DEF UdelayPoll
  <2>2. wait.length - left = wait.length
    BY <1>1, <1>2
  <2>3. wait.length * TicksPerUs \in Int
    BY <1>1, TimerAssumption
  <2>4. now - wait.start > wait.length * TicksPerUs
    BY <1>1, <2>2, <2>3
  <2>5. TimerType' /\ Stored'
    BY <1>1, <2>1 DEF TInv, TimerType, Stored
  <2> QED
    BY <1>1, <2>1, <2>4, <2>5 DEF TInv, Pieces
<1>3. CASE left # 0
  <2> DEFINE c == Chunk(left)
  <2>1. c \in Nat /\ c <= left /\ c * TicksPerUs \in Nat
    BY <1>1, ChunkIs
  <2>2. /\ wait' = [wait EXCEPT !.stored = now + c * TicksPerUs]
        /\ left' = left - c /\ ended' = ended
    BY <1>3 DEF UdelayPoll
  <2> HIDE DEF c
  <2>3. /\ wait'.kind = "udelay" /\ wait'.start = wait.start /\ wait'.length = wait.length
        /\ wait'.stored = now + c * TicksPerUs
    BY <1>1, <2>2 DEF TInv, TimerType
  <2>4. TimerType'
    BY <1>1, <2>1, <2>2 DEF TInv, TimerType
  <2>5. Stored'
    BY <1>1, <2>2, <2>3 DEF TInv, Stored, Elapsed, Ms, TicksPerMs
  <2>6. (wait.length - left) * TicksPerUs + c * TicksPerUs = (wait.length - (left - c)) * TicksPerUs
    <3>1. TicksPerUs \in Nat
      BY TimerAssumption
    <3> QED
      BY <1>1, <2>1, <3>1
  <2>7. /\ (wait.length - left) * TicksPerUs \in Int
        /\ (wait.length - (left - c)) * TicksPerUs \in Int
    BY <1>1, <2>1, TimerAssumption
  <2>8. now + c * TicksPerUs >= wait.start + (wait.length - (left - c)) * TicksPerUs
    BY <1>1, <2>1, <2>6, <2>7
  <2>9. Pieces'
    BY <1>1, <2>1, <2>2, <2>3, <2>8 DEF Pieces
  <2> QED
    BY <2>4, <2>5, <2>9 DEF TInv
<1> QED
  BY <1>2, <1>3

\* A tick makes at most one millisecond.
LEMMA PassStep ==
  ASSUME TInv, Pass
  PROVE  TInv'
<1>1. /\ now \in Nat /\ now' = now + 1 /\ wait' = wait /\ left' = left /\ ended' = ended
      /\ wait.kind # "none" /\ ~ ended /\ Elapsed < Half - 1 /\ wait.start \in Nat
      /\ wait.start <= now
  BY DEF TInv, TimerType, Pass, Half
<1>2. TimerType'
  BY <1>1 DEF TInv, TimerType
<1>3. Elapsed' < Half
  <2>1. Ms(now + 1) <= Ms(now) + 1 /\ Ms(now) \in Int /\ Ms(now + 1) \in Int
        /\ Ms(wait.start) \in Int
    BY <1>1, MsType
  <2>2. Elapsed' = Ms(now + 1) - Ms(wait.start)
    BY <1>1 DEF Elapsed, Ms, TicksPerMs
  <2> QED
    BY <1>1, <2>1, <2>2, Widths DEF Elapsed
<1>4. Stored'
  BY <1>1, <1>3 DEF TInv, Stored, Ms, TicksPerMs, Signed
<1> QED
  BY <1>1, <1>2, <1>4 DEF TInv, Pieces

LEMMA TInvariant == TimerSpec => []TInv
<1>1. TimerInit => TInv
  <2> SUFFICES ASSUME TimerInit PROVE TInv
    OBVIOUS
  <2>1. /\ now \in Nat /\ left = 0 /\ ended = FALSE
        /\ wait = [kind |-> "none", start |-> now, length |-> 0, stored |-> 0]
    BY TimerAssumption DEF TimerInit
  <2>2. /\ wait.kind = "none" /\ wait.start = now /\ wait.length = 0 /\ wait.stored = 0
    BY <2>1
  <2>3. TimerType
    <3>1. /\ wait \in [kind : {"none", "interval", "deadline", "udelay"}, start : Nat, length : Nat,
                       stored : Int]
      BY <2>1
    <3>2. wait.start <= now
      BY <2>1, <2>2
    <3> QED
      BY <2>1, <3>1, <3>2 DEF TimerType
  <2>4. Stored /\ Pieces
    BY <2>1, <2>2, Widths DEF Stored, Pieces, Elapsed
  <2> QED
    BY <2>3, <2>4 DEF TInv
<1>2. TInv /\ [TimerNext]_timerVars => TInv'
  <2>1. TInv /\ UNCHANGED timerVars => TInv'
    BY DEF TInv, TimerType, Stored, Pieces, timerVars, Elapsed, Ms, TicksPerMs, Signed
  <2> QED
    BY <2>1, IntervalStep, DeadlineStep, UdelayStep, PollStep, UdelayPollStep, PassStep
       DEF TimerNext
<1> QED
  BY <1>1, <1>2, PTL DEF TimerSpec

\* A wait of net_loop, ARP or ping, of geth_xmit, or of udelay takes the time it should
\* but across the wraps that are named.
THEOREM WaitsTakeTheirTime == TimerSpec => []WaitsInTime
<1>1. TInv => WaitsInTime
  <2> SUFFICES ASSUME TInv PROVE WaitsInTime
    OBVIOUS
  <2> DEFINE m == Ms(wait.start)
             n == Ms(now)
  <2>1. /\ wait.start \in Nat /\ now \in Nat /\ wait.start <= now /\ wait.length \in Nat
        /\ GetTimer(now, 0) = Signed(n)
    BY GetTimerIs DEF TInv, TimerType
  <2>2. m \in Int /\ n \in Int /\ m <= n /\ Elapsed = n - m
    BY <2>1, MsType DEF Elapsed
  <2>3. ASSUME Running("interval")
        PROVE  /\ Elapsed > wait.length => Expired
               /\ ~PastMaxInt => (Expired <=> Elapsed > wait.length)
    <3>1. n - m < Half /\ wait.stored = Signed(m) /\ wait.kind = "interval"
      BY <2>2, <2>3 DEF TInv, Stored, Running
    <3>2. Expired <=> (Signed(n) - Signed(m)) % UlongRange > wait.length
      BY <2>1, <3>1 DEF Expired
    <3>3. PastMaxInt <=> Between(m + Half, n + Half, IntRange)
      BY DEF PastMaxInt, Half
    <3> HIDE DEF m, n
    <3>4. (Signed(n) - Signed(m)) % UlongRange
            = IF PastMaxInt THEN n - m + UlongRange - IntRange ELSE n - m
      BY <2>2, <3>1, <3>3, IntervalIs
    <3> QED
      BY <2>1, <2>2, <3>2, <3>4, Widths
  <2>4. ASSUME Running("deadline"), ~PastMinusOne, ~Between(Ms(wait.start), Ms(now), IntRange)
        PROVE  Expired <=> Elapsed > wait.length
    <3>1. wait.stored = Signed(m + wait.length) /\ wait.kind = "deadline"
      BY <2>4 DEF TInv, Stored, Running
    <3>2. Expired <=> Signed(n) > Signed(m + wait.length)
      BY <2>1, <3>1 DEF Expired
    <3>3. n \div IntRange = (m + wait.length) \div IntRange
      BY <2>4 DEF PastMinusOne, Between
    <3> HIDE DEF m, n
    <3>4. Expired <=> n > m + wait.length
      BY <2>1, <2>2, <3>2, <3>3, DeadlineOrder
    <3> QED
      BY <2>1, <2>2, <3>4
  <2>5. wait.kind = "udelay" /\ ended => now - wait.start > wait.length * TicksPerUs
    BY DEF TInv, Pieces
  <2> QED
    BY <2>3, <2>4, <2>5 DEF WaitsInTime
<1> QED
  BY <1>1, TInvariant, PTL

-----------------------------------------------------------------------------
(* Memory.                                                                 *)

LEMMA Remainder ==
  ASSUME NEW d \in Nat \ {0}, NEW x \in Nat
  PROVE  x = d * (x \div d) + (x % d) /\ x \div d \in Nat /\ x % d \in 0 .. d - 1
OBVIOUS
\* A multiple of a multiple of a cache line begins a cache line.
LEMMA OnLine ==
  ASSUME NEW d \in Nat \ {0}, NEW e \in Nat \ {0}, NEW x \in Nat, e % d = 0, x % e = 0
  PROVE  x % d = 0
<1> DEFINE k == x \div e
           m == e \div d
<1>1. k \in Nat /\ x = e * k
  BY Remainder
<1>2. m \in Nat /\ e = d * m
  BY Remainder
<1> HIDE DEF k, m
<1>3. m * k \in Int /\ x = d * (m * k) + 0
  BY <1>1, <1>2
<1>4. 0 \in 0 .. d - 1
  OBVIOUS
<1> QED
  BY <1>3, <1>4, Unique

\* Below a multiple of a cache line lie other lines than from there on.
LEMMA LinesBelow ==
  ASSUME NEW d \in Nat \ {0}, NEW x \in Nat, NEW y \in Nat, NEW z \in Nat,
         z % d = 0, x < z, z <= y
  PROVE  x \div d < y \div d
<1>1. x = d * (x \div d) + (x % d) /\ x \div d \in Nat /\ x % d \in Nat
  BY Remainder
<1>2. y = d * (y \div d) + (y % d) /\ y \div d \in Nat /\ y % d \in 0 .. d - 1
  BY Remainder
<1>3. z = d * (z \div d) /\ z \div d \in Nat
  BY Remainder
<1> DEFINE a == x \div d
           b == y \div d
           c == z \div d
<1> HIDE DEF a, b, c
<1>4. a < c
  <2>1. d * a < d * c
    BY <1>1, <1>3 DEF a, c
  <2>2. a \in Nat /\ c \in Nat
    BY <1>1, <1>3 DEF a, c
  <2> QED
    BY <2>1, <2>2
<1>5. c <= b
  <2>1. b \in Nat /\ c \in Nat /\ d * c < d * (b + 1)
    BY <1>2, <1>3 DEF b, c
  <2> QED
    BY <2>1
<1> QED
  BY <1>1, <1>2, <1>3, <1>4, <1>5 DEF a, b, c

\* memalign_roundup: the next aligned address.
LEMMA RoundedUp ==
  ASSUME NEW alignment \in Nat \ {0}, NEW addr \in Nat
  PROVE  /\ MemalignRoundup(alignment, addr) \in Nat
         /\ MemalignRoundup(alignment, addr) >= addr
         /\ MemalignRoundup(alignment, addr) % alignment = 0
<1> DEFINE q == addr \div alignment
           r == addr % alignment
<1>1. addr = alignment * q + r /\ q \in Nat /\ r \in 0 .. alignment - 1
  BY Remainder
<1>2. CASE r = 0
  BY <1>2 DEF MemalignRoundup
<1>3. CASE r # 0
  <2>1. MemalignRoundup(alignment, addr) = alignment + addr - r
    BY <1>3 DEF MemalignRoundup
  <2> HIDE DEF q, r
  <2>2. alignment + addr - r = alignment * (q + 1) + 0
    BY <1>1
  <2>3. (alignment + addr - r) % alignment = 0
    BY <1>1, <2>2, Unique
  <2> QED
    BY <1>1, <2>1, <2>3
<1> QED
  BY <1>2, <1>3

-----------------------------------------------------------------------------
(* What holds besides: every block lies between the start of its area and    *)
(* what the area has used, and of two blocks one ends where the other begins *)
(* or before.                                                              *)

Block == [by : DOMAIN AreaAt, at : Nat, size : Nat, align : Nat \ {0}]

Placed(b) ==
  /\ AreaAt[b.by] <= b.at /\ b.at + b.size <= AreaAt[b.by] + sz[b.by]
  /\ b.at % b.align = 0

Ordered(b, c) == b.at + b.size <= c.at \/ c.at + c.size <= b.at

Bumped ==
  /\ sz \in [DOMAIN AreaAt -> Nat]
  /\ blocks \subseteq Block
  /\ \A b \in blocks : Placed(b)
  /\ \A b \in blocks, c \in blocks : b # c /\ b.by = c.by => Ordered(b, c)

\* A block cut at or after the end of what has been used keeps the order.
LEMMA CutKeepsBumped ==
  ASSUME Bumped, NEW by \in DOMAIN AreaAt, NEW at \in Nat, NEW size \in Nat,
         NEW align \in Nat \ {0},
         at >= AreaAt[by] + sz[by], at % align = 0, Cut(by, at, size, align)
  PROVE  Bumped'
<1> DEFINE n == [by |-> by, at |-> at, size |-> size, align |-> align]
<1>0. AreaAt[by] \in Nat /\ sz[by] \in Nat /\ DOMAIN AreaAt = {"malloc", "calloc", "memalign"}
  BY AllocAssumption DEF Bumped
<1>1. n \in Block /\ n.by = by /\ n.at = at /\ n.size = size /\ n.align = align
  BY DEF Block
<1> HIDE DEF n
<1>2. blocks' = blocks \cup {n} /\ sz' = [sz EXCEPT ![by] = at - AreaAt[by] + size]
  BY DEF Cut, Used, n
<1>3. sz' \in [DOMAIN AreaAt -> Nat]
  BY <1>0, <1>2 DEF Bumped
<1>4. sz'[by] = at - AreaAt[by] + size /\ sz'[by] >= sz[by]
  BY <1>0, <1>2 DEF Bumped
<1>5. \A f \in DOMAIN AreaAt : f # by => sz'[f] = sz[f]
  BY <1>2 DEF Bumped
<1>6. \A b \in blocks : b \in Block /\ b.by \in DOMAIN AreaAt /\ b.at \in Nat /\ b.size \in Nat
                        /\ AreaAt[b.by] \in Nat /\ sz[b.by] \in Nat /\ Placed(b)
  BY AllocAssumption DEF Bumped, Block
<1>7. \A b \in blocks' : Placed(b)'
  <2>1. ASSUME NEW b \in blocks PROVE Placed(b)'
    <3>1. sz'[b.by] >= sz[b.by] /\ sz'[b.by] \in Nat
      BY <1>0, <1>3, <1>4, <1>5, <1>6
    <3> QED
      BY <1>6, <3>1 DEF Placed
  <2>2. Placed(n)'
    BY <1>0, <1>1, <1>4 DEF Placed
  <2> QED
    BY <1>2, <2>1, <2>2
<1>8. \A b \in blocks', c \in blocks' : b # c /\ b.by = c.by => Ordered(b, c)'
  <2>1. ASSUME NEW b \in blocks, b.by = by PROVE Ordered(b, n) /\ Ordered(n, b)
    BY <1>0, <1>1, <1>6, <2>1 DEF Placed, Ordered
  <2>2. \A b \in blocks', c \in blocks' : b # c /\ b.by = c.by => Ordered(b, c)
    BY <1>1, <1>2, <2>1 DEF Bumped
  <2> QED
    BY <2>2 DEF Ordered
<1>9. blocks' \subseteq Block
  BY <1>1, <1>2 DEF Bumped
<1> QED
  BY <1>3, <1>7, <1>8, <1>9 DEF Bumped

\* malloc and calloc cut at the end, memalign at the next aligned address.
LEMMA AllocStep == Bumped /\ [AllocNext]_allocVars => Bumped'
<1> SUFFICES ASSUME Bumped, [AllocNext]_allocVars PROVE Bumped'
  OBVIOUS
<1>1. /\ DOMAIN AreaAt = {"malloc", "calloc", "memalign"}
      /\ \A f \in DOMAIN AreaAt : AreaAt[f] + sz[f] \in Nat
      /\ \A k \in Sizes : k \in Nat
      /\ \A k \in Aligns : k \in Nat \ {0}
  BY AllocAssumption DEF Bumped
<1>2. ASSUME NEW x \in Nat PROVE x % 1 = 0
  OBVIOUS
<1>3. ASSUME NEW size \in Sizes, Malloc(size) PROVE Bumped'
  <2>1. (AreaAt["malloc"] + sz["malloc"]) % 1 = 0
    BY <1>1, <1>2
  <2> QED
    BY <1>1, <1>3, <2>1, CutKeepsBumped DEF Malloc
<1>4. ASSUME NEW size \in Sizes, NEW nelem \in Sizes, Calloc(nelem, size) PROVE Bumped'
  <2>1. (AreaAt["calloc"] + sz["calloc"]) % 1 = 0
    BY <1>1, <1>2
  <2>2. nelem * size \in Nat
    BY <1>1
  <2> QED
    BY <1>1, <1>4, <2>1, <2>2, CutKeepsBumped DEF Calloc
<1>5. ASSUME NEW size \in Sizes, NEW alignment \in Aligns, Memalign(alignment, size) PROVE Bumped'
  <2> DEFINE addr == AreaAt["memalign"] + sz["memalign"]
             at == MemalignRoundup(alignment, addr)
  <2>1. at \in Nat /\ at >= addr /\ at % alignment = 0
    BY <1>1, RoundedUp
  <2>2. Cut("memalign", at, size, alignment)
    BY <1>5 DEF Memalign
  <2> QED
    BY <1>1, <2>1, <2>2, CutKeepsBumped
<1>6. CASE UNCHANGED allocVars
  BY <1>6 DEF allocVars, Bumped, Placed, Ordered
<1> QED
  BY <1>3, <1>4, <1>5, <1>6 DEF AllocNext

\* The property follows from the order of the blocks.
LEMMA BumpedApart == Bumped => BlocksApart
<1> SUFFICES ASSUME Bumped, NEW by \in DOMAIN AreaAt, NEW b \in Of(by)
             PROVE  /\ b.at % b.align = 0
                    /\ \A c \in Of(by) : b # c =>
                         /\ Extent(b) \cap Extent(c) = {}
                         /\ b.align % Line = 0 /\ c.align % Line = 0 =>
                              Lines(b) \cap Lines(c) = {}
                    /\ sz[by] <= AreaSize =>
                         Extent(b) \subseteq AreaAt[by] .. AreaAt[by] + AreaSize - 1
  BY DEF BlocksApart
<1>0. \A c \in Of(by) : /\ c \in blocks /\ c.by = by /\ c.at \in Nat /\ c.size \in Nat
                        /\ c.align \in Nat \ {0} /\ Placed(c)
  BY DEF Of, Bumped, Block
<1>1. b.at % b.align = 0
  BY <1>0 DEF Placed
<1>2. AreaAt[by] \in Nat /\ AreaSize \in Nat /\ Line \in Nat \ {0} /\ sz[by] \in Nat
  BY AllocAssumption DEF Bumped
<1>3. sz[by] <= AreaSize => Extent(b) \subseteq AreaAt[by] .. AreaAt[by] + AreaSize - 1
  BY <1>0, <1>2 DEF Placed, Extent
<1>4. ASSUME NEW c \in Of(by), b # c
      PROVE  /\ Extent(b) \cap Extent(c) = {}
             /\ b.align % Line = 0 /\ c.align % Line = 0 => Lines(b) \cap Lines(c) = {}
  <2>1. Ordered(b, c)
    BY <1>0, <1>4 DEF Bumped
  <2>2. Extent(b) \cap Extent(c) = {}
    BY <1>0, <2>1 DEF Ordered, Extent
  <2>3. ASSUME b.align % Line = 0, c.align % Line = 0, NEW x \in Extent(b), NEW y \in Extent(c)
        PROVE  x \div Line # y \div Line
    <3>1. b.at % Line = 0 /\ c.at % Line = 0
      BY <1>0, <1>2, <2>3, OnLine DEF Placed
    <3>2. x \in Nat /\ y \in Nat /\ b.at <= x /\ x < b.at + b.size /\ c.at <= y /\ y < c.at + c.size
      BY <1>0 DEF Extent
    <3>3. x \div Line \in Int /\ y \div Line \in Int
      BY <1>2, <3>2
    <3>4. CASE b.at + b.size <= c.at
      <4>1. x < c.at
        BY <1>0, <3>2, <3>4
      <4> QED
        BY <1>0, <1>2, <3>1, <3>2, <3>3, <4>1, LinesBelow
    <3>5. CASE c.at + c.size <= b.at
      <4>1. y < b.at
        BY <1>0, <3>2, <3>5
      <4> QED
        BY <1>0, <1>2, <3>1, <3>2, <3>3, <4>1, LinesBelow
    <3> QED
      BY <2>1, <3>4, <3>5 DEF Ordered
  <2> QED
    BY <2>2, <2>3 DEF Lines
<1> QED
  BY <1>1, <1>3, <1>4

\* malloc, calloc and memalign hand out blocks that do not overlap, lie as they were
\* asked to, share no cache line where they are aligned to one, and stay in their area
\* as long as what is used is no more than the area.
THEOREM BlocksStayApart == AllocSpec => []BlocksApart
<1>1. AllocInit => Bumped
  BY AllocAssumption DEF AllocInit, Bumped
<1> QED
  BY <1>1, AllocStep, BumpedApart, PTL DEF AllocSpec

-----------------------------------------------------------------------------
(* Decimal digits.                                                         *)

\* How far the sums can go, of which the digits are taken.
Sums == 0 .. 1023
SmallSums == 0 .. 68

\* The multiplications divide by ten that far.
LEMMA TenthDivides ==
  ASSUME NEW x \in Sums
  PROVE  Tenth(x) = x \div 10
<1> USE DEF Sums
<1>1. PICK k \in Int, r \in 0 .. 9 : x = 10 * k + r
  <2>1. x = 10 * (x \div 10) + (x % 10) /\ x \div 10 \in Int /\ x % 10 \in 0 .. 9
    BY DEF Sums
  <2> QED
    BY <2>1
<1>2. k \in 0 .. 102
  BY <1>1 DEF Sums
<1>3. x \div 10 = k
  BY <1>1, <1>2
<1>4. 2048 * k <= x * 205 /\ x * 205 < 2048 * k + 2048
  BY <1>1, <1>2
<1> QED
  BY <1>3, <1>4 DEF Tenth

LEMMA SmallTenthDivides ==
  ASSUME NEW x \in SmallSums
  PROVE  SmallTenth(x) = x \div 10
BY DEF SmallTenth, SmallSums

\* The carries of the five steps cancel.
LEMMA Telescope ==
  ASSUME NEW d0 \in Int, NEW d1 \in Int, NEW d2 \in Int, NEW d3 \in Int,
         NEW t0 \in Int, NEW t1 \in Int, NEW t2 \in Int,
         NEW s0 \in Int, NEW s1 \in Int, NEW s2 \in Int, NEW s3 \in Int,
         s0 = 6 * (d3 + d2 + d1) + d0, s1 = t0 + 9 * d3 + 5 * d2 + d1,
         s2 = t1 + 2 * d2, s3 = t2 + 4 * d3
  PROVE  d0 + 16 * d1 + 256 * d2 + 4096 * d3
           = s0 + 10 * (s1 - t0) + 100 * (s2 - t1) + 1000 * (s3 - t2)
OBVIOUS

LEMMA Below ==
  ASSUME NEW n \in Nat, NEW x \in 0 .. n - 1
  PROVE  x \in Nat /\ x < n
OBVIOUS

LEMMA FiveDigitsIs == FiveDigits \in Nat
<1>1. 100 * 1000 \in Nat
  BY SMT
<1> QED
  BY <1>1, Zenon DEF FiveDigits

LEMMA FiveDigitsFit ==
  ASSUME NEW q \in Nat, q < FiveDigits
  PROVE  q < 25 * 4096 /\ q < 10 * (10 * 1000)
BY SMT DEF FiveDigits

LEMMA FiveDigitsBelow ==
  ASSUME NEW q \in 0 .. FiveDigits - 1
  PROVE  q \in Nat /\ q < 25 * 4096 /\ q < 10 * (10 * 1000)
<1>1. q \in Nat /\ q < FiveDigits
  BY FiveDigitsIs, Below, Zenon
<1> QED
  BY <1>1, FiveDigitsFit, SMT

\* What the five steps leave behind: every sum is small enough, and together they are q.
StepsFit(q, s0, s1, s2, s3) ==
  /\ s0 \in Sums /\ s1 \in Sums /\ s3 \in Sums /\ s2 \in SmallSums
  /\ q = s0 + 10 * (s1 - Tenth(s0)) + 100 * (s2 - Tenth(s1)) + 1000 * (s3 - SmallTenth(s2))

LEMMA StepsType ==
  ASSUME NEW q \in 0 .. FiveDigits - 1
  PROVE  StepsFit(q, Steps(q).s0, Steps(q).s1, Steps(q).s2, Steps(q).s3)
<1> DEFINE d0 == q % 16
           d1 == (q \div 16) % 16
           d2 == (q \div 256) % 16
           d3 == q \div 4096
           s0 == 6 * (d3 + d2 + d1) + d0
           s1 == Tenth(s0) + 9 * d3 + 5 * d2 + d1
           s2 == Tenth(s1) + 2 * d2
           s3 == SmallTenth(s2) + 4 * d3
<1>1. /\ d0 \in 0 .. 15 /\ q = 16 * (q \div 16) + d0
      /\ d1 \in 0 .. 15 /\ q \div 16 = 16 * (q \div 256) + d1
      /\ d2 \in 0 .. 15 /\ q \div 256 = 16 * d3 + d2
      /\ d3 \in 0 .. 24
  <2>1. q \in Nat /\ q < 25 * 4096
    BY FiveDigitsBelow
  <2>2. /\ d0 \in 0 .. 15 /\ q = 16 * (q \div 16) + d0
        /\ d1 \in 0 .. 15 /\ q \div 16 = 16 * (q \div 256) + d1
        /\ d2 \in 0 .. 15 /\ q \div 256 = 16 * d3 + d2
    BY <2>1
  <2>3. d3 \in 0 .. 24
    BY <2>1
  <2> QED
    BY <2>2, <2>3
<1>2. q = d0 + 16 * d1 + 256 * d2 + 4096 * d3
  <2> DEFINE a == q \div 16
             b == q \div 256
  <2>1. a \in Int /\ b \in Int /\ q = 16 * a + d0 /\ a = 16 * b + d1 /\ b = 16 * d3 + d2
    BY <1>1
  <2> HIDE DEF a, b, d0, d1, d2, d3
  <2> QED
    BY <1>1, <2>1
<1>3. d0 \in 0 .. 15 /\ d1 \in 0 .. 15 /\ d2 \in 0 .. 15 /\ d3 \in 0 .. 24
  BY <1>1
<1> HIDE DEF d0, d1, d2, d3
<1>4. s0 \in 0 .. 339 /\ Tenth(s0) \in 0 .. 33
  <2>1. s0 \in 0 .. 339
    BY <1>3
  <2> HIDE DEF s0
  <2> QED
    BY <2>1, TenthDivides DEF Sums
<1> HIDE DEF s0
<1>5. s1 \in 0 .. 339 /\ Tenth(s1) \in 0 .. 33
  <2> DEFINE t0 == Tenth(s0)
  <2>1. t0 \in 0 .. 33
    BY <1>4
  <2>2. s1 = t0 + 9 * d3 + 5 * d2 + d1
    OBVIOUS
  <2> HIDE DEF t0, s1
  <2>3. s1 \in 0 .. 339
    BY <1>3, <2>1, <2>2
  <2> QED
    BY <2>3, TenthDivides DEF Sums
<1>6. s1 = Tenth(s0) + 9 * d3 + 5 * d2 + d1
  OBVIOUS
<1> HIDE DEF s1
<1>7. s2 \in 0 .. 63 /\ SmallTenth(s2) \in 0 .. 6 /\ s2 = Tenth(s1) + 2 * d2
  <2>1. s2 \in 0 .. 63
    BY <1>3, <1>5
  <2>2. s2 = Tenth(s1) + 2 * d2
    OBVIOUS
  <2> HIDE DEF s2
  <2> QED
    BY <2>1, <2>2, SmallTenthDivides DEF SmallSums
<1> HIDE DEF s2
<1>8. s3 \in 0 .. 102 /\ s3 = SmallTenth(s2) + 4 * d3
  BY <1>3, <1>7
<1>9. Steps(q) = [d3 |-> d3, s0 |-> s0, s1 |-> s1, s2 |-> s2, s3 |-> s3]
  BY DEF Steps, d0, d1, d2, d3, s0, s1, s2
<1>10. s0 = 6 * (d3 + d2 + d1) + d0
  BY DEF s0
<1> HIDE DEF s3
<1>11. q = s0 + 10 * (s1 - Tenth(s0)) + 100 * (s2 - Tenth(s1)) + 1000 * (s3 - SmallTenth(s2))
  <2>1. d0 \in Int /\ d1 \in Int /\ d2 \in Int /\ d3 \in Int
    BY <1>3
  <2>2. s0 \in Int /\ Tenth(s0) \in Int
    BY <1>4
  <2>3. s1 \in Int /\ Tenth(s1) \in Int
    BY <1>5
  <2>4. s2 \in Int /\ SmallTenth(s2) \in Int
    BY <1>7
  <2>5. s3 \in Int
    BY <1>8
  <2> QED
    BY <1>2, <1>6, <1>7, <1>8, <1>10, <2>1, <2>2, <2>3, <2>4, <2>5, Telescope
<1>12. s0 \in Sums
  BY <1>4 DEF Sums
<1>13. s1 \in Sums
  BY <1>5 DEF Sums
<1>14. s2 \in SmallSums
  BY <1>7 DEF SmallSums
<1>15. s3 \in Sums
  BY <1>8 DEF Sums
<1>17. Steps(q).s0 = s0 /\ Steps(q).s1 = s1 /\ Steps(q).s2 = s2 /\ Steps(q).s3 = s3
  BY <1>9
<1>18. StepsFit(q, s0, s1, s2, s3)
  BY <1>11, <1>12, <1>13, <1>14, <1>15 DEF StepsFit
<1> QED
  BY <1>17, <1>18

\* The digit that a step writes and what it carries on.
LEMMA DigitIs ==
  ASSUME NEW x \in Sums
  PROVE  x - 10 * Tenth(x) \in 0 .. 9 /\ Tenth(x) \in Nat
<1>1. Tenth(x) = x \div 10
  BY TenthDivides
<1> QED
  BY <1>1 DEF Sums

LEMMA SmallDigitIs ==
  ASSUME NEW x \in SmallSums
  PROVE  x - 10 * SmallTenth(x) \in 0 .. 9 /\ SmallTenth(x) \in Nat
<1>1. SmallTenth(x) = x \div 10
  BY SmallTenthDivides
<1> QED
  BY <1>1 DEF SmallSums

\* put_dec_full: "Formats correctly any integer in [0,99999]" (vsnprintf.c:55), always
\* with five digits.
THEOREM PutDecFullValue ==
  ASSUME NEW q \in 0 .. FiveDigits - 1
  PROVE  LET p == PutDecFull(q)
         IN  /\ p \in Seq(0 .. 9) /\ Len(p) = 5
             /\ q = p[1] + 10 * p[2] + 100 * p[3] + 1000 * p[4] + 10 * 1000 * p[5]
<1> DEFINE s0 == Steps(q).s0
           s1 == Steps(q).s1
           s2 == Steps(q).s2
           s3 == Steps(q).s3
<1>1. StepsFit(q, s0, s1, s2, s3)
  BY StepsType
<1> DEFINE a == s0 - 10 * Tenth(s0)
           b == s1 - 10 * Tenth(s1)
           c == s2 - 10 * SmallTenth(s2)
           d == s3 - 10 * Tenth(s3)
           e == Tenth(s3)
<1>2. PutDecFull(q) = <<a, b, c, d, e>>
  BY DEF PutDecFull
<1> HIDE DEF s0, s1, s2, s3
<1>3. /\ a \in 0 .. 9 /\ Tenth(s0) \in Nat /\ b \in 0 .. 9 /\ Tenth(s1) \in Nat
      /\ c \in 0 .. 9 /\ SmallTenth(s2) \in Nat /\ d \in 0 .. 9 /\ e \in Nat
  <2>1. s0 \in Sums /\ s1 \in Sums /\ s3 \in Sums /\ s2 \in SmallSums
    BY <1>1 DEF StepsFit
  <2>2. a \in 0 .. 9 /\ Tenth(s0) \in Nat
    BY <2>1, DigitIs, Zenon
  <2>3. b \in 0 .. 9 /\ Tenth(s1) \in Nat
    BY <2>1, DigitIs, Zenon
  <2>4. c \in 0 .. 9 /\ SmallTenth(s2) \in Nat
    BY <2>1, SmallDigitIs, Zenon
  <2>5. d \in 0 .. 9 /\ e \in Nat
    BY <2>1, DigitIs, Zenon
  <2> QED
    BY <2>2, <2>3, <2>4, <2>5
<1>4. q = a + 10 * b + 100 * c + 1000 * d + 10 * 1000 * e
  <2> DEFINE t0 == Tenth(s0)
             t1 == Tenth(s1)
             t2 == SmallTenth(s2)
             t3 == Tenth(s3)
  <2>1. s0 \in Int /\ s1 \in Int /\ s2 \in Int /\ s3 \in Int
    BY <1>1 DEF StepsFit, Sums, SmallSums
  <2>2. t0 \in Int /\ t1 \in Int /\ t2 \in Int /\ t3 \in Int
    BY <1>3
  <2>3. q = s0 + 10 * (s1 - t0) + 100 * (s2 - t1) + 1000 * (s3 - t2)
    BY <1>1 DEF StepsFit
  <2>4. a = s0 - 10 * t0 /\ b = s1 - 10 * t1 /\ c = s2 - 10 * t2 /\ d = s3 - 10 * t3 /\ e = t3
    OBVIOUS
  <2> HIDE DEF t0, t1, t2, t3, a, b, c, d, e
  <2> QED
    BY <2>1, <2>2, <2>3, <2>4
<1> HIDE DEF a, b, c, d, e
<1>5. e \in 0 .. 9
  <2>1. q < 10 * (10 * 1000)
    BY FiveDigitsBelow, SMT
  <2> QED
    BY <1>3, <1>4, <2>1
<1> DEFINE p == PutDecFull(q)
<1>6. p \in Seq(0 .. 9) /\ Len(p) = 5
  BY <1>2, <1>3, <1>5
<1>7. p[1] = a /\ p[2] = b /\ p[3] = c /\ p[4] = d /\ p[5] = e
  BY <1>2
<1> QED
  BY <1>4, <1>6, <1>7

\* What the sums of put_dec_trunc say of the digits that are left, when one is zero.
LEMMA NoneLeft ==
  ASSUME NEW q \in 0 .. FiveDigits - 1
  PROVE  LET w == Steps(q)
         IN  /\ w.d3 \in Nat
             /\ w.s1 = 0 => w.s2 = 0 /\ w.d3 = 0
             /\ w.s2 = 0 /\ w.d3 = 0 => w.s3 = 0
             /\ Tenth(w.s0) # 0 => w.s1 # 0
             /\ Tenth(w.s1) # 0 => w.s2 # 0
             /\ SmallTenth(w.s2) # 0 => w.s3 # 0
             /\ w.d3 # 0 => w.s3 # 0
<1> DEFINE d1 == (q \div 16) % 16
           d2 == (q \div 256) % 16
           d3 == q \div 4096
           w == Steps(q)
           t0 == Tenth(w.s0)
           t1 == Tenth(w.s1)
           t2 == SmallTenth(w.s2)
<1>1. d1 \in Nat /\ d2 \in Nat /\ d3 \in Nat
  <2>1. q \in Nat
    BY FiveDigitsBelow
  <2> HIDE DEF w
  <2> QED
    BY <2>1
<1> HIDE DEF d1, d2, d3
<1>2. w.d3 = d3 /\ w.s1 = t0 + 9 * d3 + 5 * d2 + d1 /\ w.s2 = t1 + 2 * d2 /\ w.s3 = t2 + 4 * d3
  BY DEF Steps, d1, d2, d3
<1>3. t0 \in Nat /\ t1 \in Nat /\ t2 \in Nat
  <2>1. w.s0 \in Sums /\ w.s1 \in Sums /\ w.s2 \in SmallSums
    BY StepsType DEF StepsFit
  <2> HIDE DEF w
  <2> QED
    BY <2>1, DigitIs, SmallDigitIs, Zenon
<1>4. w.s1 = 0 => t1 = 0
  <2>1. Tenth(0) = 0
    BY DEF Tenth
  <2> QED
    BY <2>1, Zenon
<1>5. w.s2 = 0 => t2 = 0
  <2>1. SmallTenth(0) = 0
    BY DEF SmallTenth
  <2> QED
    BY <2>1, Zenon
<1> HIDE DEF w, t0, t1, t2
<1>6. /\ w.d3 \in Nat
      /\ w.s1 = 0 => w.s2 = 0 /\ w.d3 = 0
      /\ w.s2 = 0 /\ w.d3 = 0 => w.s3 = 0
      /\ t0 # 0 => w.s1 # 0
      /\ t1 # 0 => w.s2 # 0
      /\ t2 # 0 => w.s3 # 0
      /\ w.d3 # 0 => w.s3 # 0
  BY <1>1, <1>2, <1>3, <1>4, <1>5
<1> QED
  BY <1>6 DEF w, t0, t1, t2

\* NumberOf, once more: f[k] is what the last k digits stand for.
Read(s, m, f) == f = [k \in 0 .. m |-> IF k = 0 THEN 0 ELSE 10 * f[k - 1] + s[Len(s) + 1 - k]]

LEMMA ReadExists ==
  ASSUME NEW s, NEW n \in Nat
  PROVE  \E f : Read(s, n, f)
<1> DEFINE Row(k, f) == IF k = 0 THEN 0 ELSE 10 * f[k - 1] + s[Len(s) + 1 - k]
           G == {m \in 0 .. n : \E f : Read(s, m, f)}
<1>1. 0 \in G
  <2> DEFINE f == [k \in 0 .. 0 |-> 0]
  <2>1. Read(s, 0, f)
    BY DEF Read
  <2> QED
    BY <2>1
<1>2. ASSUME NEW m \in 1 .. n, m - 1 \in G
      PROVE  m \in G
  <2>1. PICK f : Read(s, m - 1, f)
    BY <1>2
  <2> DEFINE g == [k \in 0 .. m |-> IF k = m THEN Row(m, f) ELSE f[k]]
  <2>2. ASSUME NEW k \in 0 .. m
        PROVE  g[k] = Row(k, g)
    <3>1. CASE k = m
      <4>1. g[k - 1] = f[k - 1]
        BY <3>1
      <4> QED
        BY <3>1, <4>1
    <3>2. CASE k # m
      <4>1. k \in 0 .. m - 1 /\ g[k] = f[k]
        BY <3>2
      <4>2. f[k] = Row(k, f)
        BY <2>1, <4>1 DEF Read
      <4>3. k # 0 => g[k - 1] = f[k - 1]
        BY <4>1
      <4> QED
        BY <4>1, <4>2, <4>3
    <3> QED
      BY <3>1, <3>2
  <2>3. Read(s, m, g)
    <3>1. g = [k \in 0 .. m |-> g[k]]
      OBVIOUS
    <3>2. \A k \in 0 .. m : g[k] = Row(k, g)
      BY <2>2
    <3> HIDE DEF g
    <3>3. g = [k \in 0 .. m |-> Row(k, g)]
      BY <3>1, <3>2, Zenon
    <3> QED
      BY <3>3 DEF Read
  <2> QED
    BY <2>3
<1> HIDE DEF G
<1>3. n \in G
  <2>1. 0 .. n \subseteq G
    BY <1>1, <1>2, FromZero
  <2> QED
    BY <2>1
<1> QED
  BY <1>3 DEF G

Digits == 0 .. 9

\* f reads the digits of s.
Reading(s, f) ==
  /\ f[0] = 0 /\ NumberOf(s) = f[Len(s)]
  /\ \A k \in 1 .. Len(s) : f[k] = 10 * f[k - 1] + s[Len(s) + 1 - k]

LEMMA ReadingIs ==
  ASSUME NEW s \in Seq(Digits)
  PROVE  \E f : Reading(s, f)
<1> DEFINE n == Len(s)
           f == CHOOSE f : Read(s, n, f)
<1>1. n \in Nat
  OBVIOUS
<1>2. NumberOf(s) = f[n]
  BY DEF NumberOf, Read
<1> HIDE DEF n
<1>3. Read(s, n, f)
  BY <1>1, ReadExists
<1> HIDE DEF f
<1>4. \A k \in 0 .. n : f[k] = IF k = 0 THEN 0 ELSE 10 * f[k - 1] + s[Len(s) + 1 - k]
  BY <1>3 DEF Read
<1>5. Reading(s, f)
  BY <1>1, <1>2, <1>4 DEF Reading, n
<1> QED
  BY <1>5

LEMMA NoDigits == NumberOf(<< >>) = 0
<1>1. << >> \in Seq(Digits) /\ Len(<< >>) = 0
  OBVIOUS
<1> QED
  BY <1>1, ReadingIs DEF Reading

LEMMA ValueIsNat ==
  ASSUME NEW s \in Seq(Digits), NEW f, Reading(s, f)
  PROVE  \A k \in 0 .. Len(s) : f[k] \in Nat
<1> DEFINE n == Len(s)
           G == {k \in 0 .. n : f[k] \in Nat}
<1>1. n \in Nat
  OBVIOUS
<1>2. 0 \in G
  BY <1>1 DEF Reading
<1>3. ASSUME NEW k \in 1 .. n, k - 1 \in G
      PROVE  k \in G
  <2>1. f[k] = 10 * f[k - 1] + s[n + 1 - k]
    BY DEF Reading
  <2>2. n + 1 - k \in 1 .. n
    BY <1>1
  <2>3. s[n + 1 - k] \in Nat
    BY <2>2 DEF Digits
  <2> QED
    BY <1>3, <2>1, <2>3
<1> HIDE DEF G
<1>4. 0 .. n \subseteq G
  BY <1>1, <1>2, <1>3, FromZero
<1> QED
  BY <1>4 DEF G

\* One more digit in front, where the lowest is.
OneBefore(s, d, t) ==
  /\ t \in Seq(Digits) /\ Len(t) = Len(s) + 1 /\ t[Len(t)] = IF s = << >> THEN d ELSE s[Len(s)]
  /\ NumberOf(s) \in Nat /\ NumberOf(t) = d + 10 * NumberOf(s)

LEMMA OneMoreDigit ==
  ASSUME NEW s \in Seq(Digits), NEW d \in Digits, NEW t, t = <<d>> \o s
  PROVE  OneBefore(s, d, t)
<1> DEFINE n == Len(s)
<1>1. /\ n \in Nat /\ t \in Seq(Digits) /\ Len(t) = n + 1 /\ t[1] = d
      /\ \A j \in 1 .. n : t[j + 1] = s[j]
  OBVIOUS
<1>2. PICK f : Reading(s, f)
  BY ReadingIs
<1>3. PICK g : Reading(t, g)
  BY <1>1, ReadingIs
<1>4. \A k \in 0 .. n : f[k] \in Nat
  BY <1>2, ValueIsNat
<1>5. \A k \in 1 .. n : f[k] = 10 * f[k - 1] + s[n + 1 - k]
  BY <1>2 DEF Reading
<1>6. \A k \in 1 .. n + 1 : g[k] = 10 * g[k - 1] + t[n + 2 - k]
  BY <1>1, <1>3 DEF Reading
<1>7. f[0] = 0 /\ g[0] = 0 /\ NumberOf(s) = f[n] /\ NumberOf(t) = g[n + 1]
  BY <1>1, <1>2, <1>3 DEF Reading
<1>8. t[Len(t)] = IF s = << >> THEN d ELSE s[Len(s)]
  OBVIOUS
<1> HIDE DEF n
<1> DEFINE G == {k \in 0 .. n : g[k] = f[k]}
<1>9. 0 \in G
  BY <1>1, <1>7
<1>10. ASSUME NEW k \in 1 .. n, k - 1 \in G
       PROVE  k \in G
  <2>1. n + 1 - k \in 1 .. n /\ (n + 1 - k) + 1 = n + 2 - k /\ k \in 1 .. n + 1
    BY <1>1
  <2>2. t[n + 2 - k] = s[n + 1 - k]
    BY <1>1, <2>1
  <2>3. g[k - 1] = f[k - 1] /\ k \in 0 .. n
    BY <1>1, <1>10
  <2>4. g[k] = 10 * g[k - 1] + t[n + 2 - k]
    BY <1>6, <2>1
  <2>5. f[k] = 10 * f[k - 1] + s[n + 1 - k]
    BY <1>5
  <2>6. g[k] = f[k]
    BY <2>2, <2>3, <2>4, <2>5
  <2> QED
    BY <2>3, <2>6
<1> HIDE DEF G
<1>11. 0 .. n \subseteq G
  BY <1>1, <1>9, <1>10, FromZero
<1>12. g[n] = f[n]
  <2>1. n \in 0 .. n
    BY <1>1
  <2> QED
    BY <1>11, <2>1 DEF G
<1>13. g[n + 1] = 10 * g[n] + t[1]
  <2>1. n + 1 \in 1 .. n + 1 /\ (n + 1) - 1 = n /\ n + 2 - (n + 1) = 1
    BY <1>1
  <2> QED
    BY <1>6, <2>1
<1>14. f[n] \in Nat
  BY <1>1, <1>4
<1>15. NumberOf(t) = d + 10 * NumberOf(s)
  <2>1. NumberOf(t) = 10 * f[n] + d
    BY <1>1, <1>7, <1>12, <1>13
  <2>2. d \in Int
    BY DEF Digits
  <2> QED
    BY <1>7, <1>14, <2>1, <2>2
<1>16. NumberOf(s) \in Nat
  BY <1>7, <1>14
<1>17. t \in Seq(Digits) /\ Len(t) = n + 1
  BY <1>1
<1> QED
  BY <1>8, <1>15, <1>16, <1>17 DEF n, OneBefore

FiveBefore(s, a, b, c, d, e, t) ==
  /\ t \in Seq(Digits) /\ Len(t) = Len(s) + 5
  /\ t[Len(t)] = IF s = << >> THEN e ELSE s[Len(s)]
  /\ NumberOf(s) \in Nat
  /\ NumberOf(t) = a + 10 * b + 100 * c + 1000 * d + 10 * 1000 * e + FiveDigits * NumberOf(s)

LEMMA FiveMore ==
  ASSUME NEW s \in Seq(Digits), NEW a \in Digits, NEW b \in Digits, NEW c \in Digits,
         NEW d \in Digits, NEW e \in Digits, NEW t, t = <<a, b, c, d, e>> \o s
  PROVE  FiveBefore(s, a, b, c, d, e, t)
<1> DEFINE u1 == <<e>> \o s
           u2 == <<d>> \o u1
           u3 == <<c>> \o u2
           u4 == <<b>> \o u3
           u5 == <<a>> \o u4
           v == NumberOf(s)
<1>0. t = u5
  <2>1. /\ u1 \in Seq(Digits) /\ u2 \in Seq(Digits) /\ u3 \in Seq(Digits)
        /\ u4 \in Seq(Digits) /\ u5 \in Seq(Digits) /\ t \in Seq(Digits)
    OBVIOUS
  <2>2. Len(t) = Len(s) + 5 /\ Len(u5) = Len(s) + 5 /\ Len(s) \in Nat
    OBVIOUS
  <2>3. ASSUME NEW k \in 1 .. Len(s) + 5
        PROVE  t[k] = u5[k]
    <3>1. CASE k \in {1, 2, 3, 4, 5}
      BY <3>1
    <3>2. CASE k > 5
      <4>1. t[k] = s[k - 5]
        BY <3>2
      <4>2. u5[k] = u4[k - 1] /\ u4[k - 1] = u3[k - 2]
        BY <3>2
      <4>3. u3[k - 2] = u2[k - 3] /\ u2[k - 3] = u1[k - 4] /\ u1[k - 4] = s[k - 5]
        BY <3>2
      <4> QED
        BY <4>1, <4>2, <4>3
    <3> QED
      BY <3>1, <3>2
  <2> HIDE DEF u1, u2, u3, u4, u5
  <2> QED
    BY <2>1, <2>2, <2>3, SeqEqual
<1>1. /\ u1 \in Seq(Digits) /\ Len(u1) = Len(s) + 1 /\ u1[Len(u1)] = IF s = << >> THEN e ELSE s[Len(s)]
      /\ v \in Nat /\ NumberOf(u1) = e + 10 * v
  <2>1. OneBefore(s, e, u1)
    BY OneMoreDigit
  <2> HIDE DEF u1
  <2> QED
    BY <2>1 DEF OneBefore
<1> HIDE DEF v, u1
<1>2. u1 # << >> /\ Len(s) \in Nat
  BY <1>1
<1>3. u2 \in Seq(Digits) /\ Len(u2) = Len(u1) + 1 /\ u2[Len(u2)] = u1[Len(u1)]
      /\ NumberOf(u1) \in Nat /\ NumberOf(u2) = d + 10 * NumberOf(u1)
  <2>1. OneBefore(u1, d, u2)
    BY <1>1, OneMoreDigit
  <2> HIDE DEF u2
  <2> QED
    BY <1>1, <1>2, <2>1 DEF OneBefore
<1> HIDE DEF u2
<1>4. u2 # << >>
  BY <1>1, <1>2, <1>3
<1>5. u3 \in Seq(Digits) /\ Len(u3) = Len(u2) + 1 /\ u3[Len(u3)] = u2[Len(u2)]
      /\ NumberOf(u2) \in Nat /\ NumberOf(u3) = c + 10 * NumberOf(u2)
  <2>1. OneBefore(u2, c, u3)
    BY <1>3, OneMoreDigit
  <2> HIDE DEF u3
  <2> QED
    BY <1>3, <1>4, <2>1 DEF OneBefore
<1> HIDE DEF u3
<1>6. u3 # << >>
  BY <1>1, <1>2, <1>3, <1>5
<1>7. u4 \in Seq(Digits) /\ Len(u4) = Len(u3) + 1 /\ u4[Len(u4)] = u3[Len(u3)]
      /\ NumberOf(u3) \in Nat /\ NumberOf(u4) = b + 10 * NumberOf(u3)
  <2>1. OneBefore(u3, b, u4)
    BY <1>5, OneMoreDigit
  <2> HIDE DEF u4
  <2> QED
    BY <1>5, <1>6, <2>1 DEF OneBefore
<1> HIDE DEF u4
<1>8. u4 # << >>
  BY <1>1, <1>2, <1>3, <1>5, <1>7
<1>9. u5 \in Seq(Digits) /\ Len(u5) = Len(u4) + 1 /\ u5[Len(u5)] = u4[Len(u4)]
      /\ NumberOf(u4) \in Nat /\ NumberOf(u5) = a + 10 * NumberOf(u4)
  <2>1. OneBefore(u4, a, u5)
    BY <1>7, OneMoreDigit
  <2> HIDE DEF u5
  <2> QED
    BY <1>7, <1>8, <2>1 DEF OneBefore
<1> HIDE DEF u5
<1>10. Len(u5) = Len(s) + 5
  BY <1>1, <1>2, <1>3, <1>5, <1>7, <1>9
<1>11. NumberOf(u5) = a + 10 * b + 100 * c + 1000 * d + 10 * 1000 * e + FiveDigits * v
  <2> DEFINE v1 == NumberOf(u1)
             v2 == NumberOf(u2)
             v3 == NumberOf(u3)
             v4 == NumberOf(u4)
             v5 == NumberOf(u5)
  <2>1. /\ v1 = e + 10 * v /\ v2 = d + 10 * v1 /\ v3 = c + 10 * v2 /\ v4 = b + 10 * v3
        /\ v5 = a + 10 * v4
        /\ v \in Int /\ v1 \in Int /\ v2 \in Int /\ v3 \in Int /\ v4 \in Int
    BY <1>1, <1>3, <1>5, <1>7, <1>9
  <2>2. a \in Int /\ b \in Int /\ c \in Int /\ d \in Int /\ e \in Int
    BY DEF Digits
  <2> HIDE DEF v1, v2, v3, v4, v5
  <2>3. v5 = a + 10 * b + 100 * c + 1000 * d + 10 * 1000 * e + (100 * 1000) * v
    BY <2>1, <2>2, SMT
  <2> QED
    BY <2>3 DEF FiveDigits, v5
<1>12. u5[Len(u5)] = IF s = << >> THEN e ELSE s[Len(s)]
  <2>1. u5[Len(u5)] = u1[Len(u1)]
    BY <1>3, <1>5, <1>7, <1>9
  <2> QED
    BY <1>1, <2>1
<1>13. u5 \in Seq(Digits) /\ v \in Nat
  BY <1>1, <1>9
<1>14. FiveBefore(s, a, b, c, d, e, u5)
  BY <1>10, <1>11, <1>12, <1>13 DEF v, FiveBefore
<1> QED
  BY <1>0, <1>14

LEMMA ValueOf1 ==
  ASSUME NEW a \in Digits
  PROVE  NumberOf(<<a>>) = a
<1> DEFINE t == <<a>>
           s == << >>
<1>1. t = <<a>> \o s /\ s \in Seq(Digits)
  <2>1. <<a>> = <<a>> \o << >>
    BY SMT
  <2>2. << >> \in Seq(Digits)
    BY SMT
  <2> QED
    BY <2>1, <2>2
<1> HIDE DEF t, s
<1>2. NumberOf(t) = a + 10 * NumberOf(s)
  <2>1. OneBefore(s, a, t)
    BY <1>1, OneMoreDigit
  <2> QED
    BY <2>1 DEF OneBefore
<1> QED
  BY <1>2, NoDigits DEF Digits, t, s

LEMMA ValueOf2 ==
  ASSUME NEW a \in Digits, NEW b \in Digits
  PROVE  NumberOf(<<a, b>>) = a + 10 * b
<1> DEFINE t == <<a, b>>
           s == <<b>>
<1>1. t = <<a>> \o s /\ s \in Seq(Digits)
  <2>1. <<a, b>> = <<a>> \o <<b>>
    <3> DEFINE u == <<a>> \o <<b>>
               x == <<a, b>>
    <3>1. u \in Seq(Digits) /\ Len(u) = 2 /\ u[1] = a /\ u[2] = b
      OBVIOUS
    <3>2. x \in Seq(Digits) /\ Len(x) = 2 /\ x[1] = a /\ x[2] = b
      OBVIOUS
    <3> HIDE DEF u, x
    <3>3. \A k \in 1 .. Len(u) : u[k] = x[k]
      BY <3>1, <3>2
    <3>4. u = x
      BY <3>1, <3>2, <3>3, SeqEqual
    <3> QED
      BY <3>4 DEF u, x
  <2>2. <<b>> \in Seq(Digits)
    BY SMT
  <2> QED
    BY <2>1, <2>2
<1> HIDE DEF t, s
<1>2. NumberOf(t) = a + 10 * NumberOf(s)
  <2>1. OneBefore(s, a, t)
    BY <1>1, OneMoreDigit
  <2> QED
    BY <2>1 DEF OneBefore
<1> QED
  BY <1>2, ValueOf1 DEF t, s

LEMMA ValueOf3 ==
  ASSUME NEW a \in Digits, NEW b \in Digits, NEW c \in Digits
  PROVE  NumberOf(<<a, b, c>>) = a + 10 * b + 100 * c
<1> DEFINE t == <<a, b, c>>
           s == <<b, c>>
<1>1. t = <<a>> \o s /\ s \in Seq(Digits)
  <2>1. <<a, b, c>> = <<a>> \o <<b, c>>
    BY SMT
  <2>2. <<b, c>> \in Seq(Digits)
    BY SMT
  <2> QED
    BY <2>1, <2>2
<1> HIDE DEF t, s
<1>2. NumberOf(t) = a + 10 * NumberOf(s)
  <2>1. OneBefore(s, a, t)
    BY <1>1, OneMoreDigit
  <2> QED
    BY <2>1 DEF OneBefore
<1>3. NumberOf(s) = b + 10 * c
  BY ValueOf2 DEF s
<1> QED
  BY <1>2, <1>3 DEF t, Digits

LEMMA ValueOf4 ==
  ASSUME NEW a \in Digits, NEW b \in Digits, NEW c \in Digits, NEW d \in Digits
  PROVE  NumberOf(<<a, b, c, d>>) = a + 10 * b + 100 * c + 1000 * d
<1> DEFINE t == <<a, b, c, d>>
           s == <<b, c, d>>
<1>1. t = <<a>> \o s /\ s \in Seq(Digits)
  <2>1. <<a, b, c, d>> = <<a>> \o <<b, c, d>>
    BY SMT
  <2>2. <<b, c, d>> \in Seq(Digits)
    BY SMT
  <2> QED
    BY <2>1, <2>2
<1> HIDE DEF t, s
<1>2. NumberOf(t) = a + 10 * NumberOf(s)
  <2>1. OneBefore(s, a, t)
    BY <1>1, OneMoreDigit
  <2> QED
    BY <2>1 DEF OneBefore
<1>3. NumberOf(s) = b + 10 * c + 100 * d
  BY ValueOf3 DEF s
<1> QED
  BY <1>2, <1>3 DEF t, Digits

LEMMA ValueOf5 ==
  ASSUME NEW a \in Digits, NEW b \in Digits, NEW c \in Digits, NEW d \in Digits, NEW e \in Digits
  PROVE  NumberOf(<<a, b, c, d, e>>) = a + 10 * b + 100 * c + 1000 * d + 10 * 1000 * e
<1> DEFINE t == <<a, b, c, d, e>>
           s == << >>
<1>1. t = <<a, b, c, d, e>> \o s /\ s \in Seq(Digits)
  <2>1. <<a, b, c, d, e>> = <<a, b, c, d, e>> \o << >>
    BY SMT
  <2>2. << >> \in Seq(Digits)
    BY SMT
  <2> QED
    BY <2>1, <2>2
<1> HIDE DEF t, s
<1>2. NumberOf(t) = a + 10 * b + 100 * c + 1000 * d + 10 * 1000 * e + FiveDigits * NumberOf(s)
  <2>1. FiveBefore(s, a, b, c, d, e, t)
    BY <1>1, FiveMore
  <2> QED
    BY <2>1 DEF FiveBefore
<1>3. FiveDigits * NumberOf(s) = 0
  BY NoDigits, FiveDigitsIs DEF s
<1>4. NumberOf(t) = a + 10 * b + 100 * c + 1000 * d + 10 * 1000 * e
  BY <1>2, <1>3 DEF Digits
<1> QED
  BY <1>4 DEF t

\* put_dec_trunc leaves out leading zeros.
Told(r, n) ==
  /\ r \in Seq(Digits) /\ Len(r) # 0 /\ NumberOf(r) = n
  /\ n # 0 => r[Len(r)] # 0

LEMMA FirstDigits ==
  ASSUME NEW p \in Seq(Digits), NEW k \in 0 .. Len(p), NEW u, u = SubSeq(p, 1, k)
  PROVE  u \in Seq(Digits) /\ Len(u) = k /\ \A j \in 1 .. k : u[j] = p[j]
OBVIOUS

LEMMA FirstOfFive ==
  ASSUME NEW p \in Seq(Digits), Len(p) = 5, NEW k \in 1 .. 5, NEW t \in Seq(Digits), Len(t) = k,
         \A j \in 1 .. k : t[j] = p[j]
  PROVE  SubSeq(p, 1, k) = t
<1> DEFINE u == SubSeq(p, 1, k)
<1>1. k \in 0 .. Len(p)
  OBVIOUS
<1>2. u \in Seq(Digits) /\ Len(u) = k /\ \A j \in 1 .. k : u[j] = p[j]
  BY <1>1, FirstDigits
<1> HIDE DEF u
<1>3. u = t
  BY <1>2, SeqEqual
<1> QED
  BY <1>3 DEF u

\* With the sums s1, s2 and s3 and the nibble d3: how many digits, and which.
TruncTo(s1, s2, s3, d3) ==
  CASE s1 = 0 -> 1
    [] s1 # 0 /\ s2 = 0 /\ d3 = 0 -> 2
    [] s1 # 0 /\ (s2 # 0 \/ d3 # 0) /\ s3 = 0 -> 3
    [] OTHER -> IF Tenth(s3) = 0 THEN 4 ELSE 5

LastDigits(a, b, c, d, e, s1, s2, s3) ==
  /\ b = s1 - 10 * Tenth(s1) /\ c = s2 - 10 * SmallTenth(s2)
  /\ d = s3 - 10 * Tenth(s3) /\ e = Tenth(s3)

Spent(s1, s2, s3, d3) ==
  /\ s1 = 0 => s2 = 0 /\ d3 = 0
  /\ s2 = 0 /\ d3 = 0 => s3 = 0
  /\ Tenth(s1) # 0 => s2 # 0
  /\ SmallTenth(s2) # 0 => s3 # 0
  /\ d3 # 0 => s3 # 0

FiveOf(p, q, a, b, c, d, e) ==
  /\ p \in Seq(Digits) /\ Len(p) = 5
  /\ a = p[1] /\ b = p[2] /\ c = p[3] /\ d = p[4] /\ e = p[5]
  /\ q = a + 10 * b + 100 * c + 1000 * d + 10 * 1000 * e

FirstOf(r, p, k) == r = SubSeq(p, 1, k)

LEMMA Truncated ==
  ASSUME NEW q, NEW p, NEW a, NEW b, NEW c, NEW d, NEW e, FiveOf(p, q, a, b, c, d, e),
         NEW s1 \in Nat, NEW s2 \in Nat, NEW s3 \in Nat, NEW d3 \in Nat,
         LastDigits(a, b, c, d, e, s1, s2, s3), Spent(s1, s2, s3, d3),
         NEW r, FirstOf(r, p, TruncTo(s1, s2, s3, d3))
  PROVE  Told(r, q)
<1>9. /\ p \in Seq(Digits) /\ Len(p) = 5
      /\ a = p[1] /\ b = p[2] /\ c = p[3] /\ d = p[4] /\ e = p[5]
  BY DEF FiveOf
<1>10. q = a + 10 * b + 100 * c + 1000 * d + 10 * 1000 * e
  BY DEF FiveOf
<1>1. a \in Digits /\ b \in Digits /\ c \in Digits /\ d \in Digits /\ e \in Digits
  <2>1. \A k \in 1 .. 5 : p[k] \in Digits
    <3>1. p \in Seq(Digits) /\ Len(p) = 5
      BY DEF FiveOf
    <3>2. \A k \in 1 .. Len(p) : p[k] \in Digits
      BY <3>1, ElementOfSeq
    <3> QED
      BY <3>1, <3>2, Zenon
  <2>2. 1 \in 1 .. 5 /\ 2 \in 1 .. 5 /\ 3 \in 1 .. 5 /\ 4 \in 1 .. 5 /\ 5 \in 1 .. 5
    OBVIOUS
  <2> QED
    BY <1>9, <2>1, <2>2, Zenon
<1>2. a \in Int /\ b \in Int /\ c \in Int /\ d \in Int /\ e \in Int
  BY <1>1 DEF Digits
<1>3. Tenth(0) = 0 /\ SmallTenth(0) = 0
  BY DEF Tenth, SmallTenth
<1>4. CASE s1 = 0
  <2>1. s2 = 0 /\ d3 = 0 /\ s3 = 0
    BY <1>4 DEF Spent
  <2>2. b = 0 - 10 * 0 /\ c = 0 - 10 * 0 /\ d = 0 - 10 * 0 /\ e = 0
    BY <1>3, <1>4, <2>1 DEF LastDigits
  <2>3. q = a
    BY <1>2, <2>2, <1>10
  <2> DEFINE t == <<a>>
  <2>4. t \in Seq(Digits) /\ Len(t) = 1 /\ t[1] = a /\ \A j \in 1 .. 1 : t[j] = p[j]
    BY <1>1, <1>9
  <2>5. NumberOf(t) = q
    BY <1>1, <2>3, ValueOf1
  <2> HIDE DEF t
  <2>6. r = t
    <3>1. TruncTo(s1, s2, s3, d3) = 1
      BY <1>4 DEF TruncTo
    <3> QED
      BY <1>9, <2>4, <3>1, FirstOfFive DEF FirstOf
  <2>7. Told(t, q)
    BY <2>3, <2>4, <2>5 DEF Told
  <2> QED
    BY <2>6, <2>7, Zenon
<1>5. CASE s1 # 0 /\ s2 = 0 /\ d3 = 0
  <2>1. s3 = 0 /\ Tenth(s1) = 0
    BY <1>5 DEF Spent
  <2>2. b = s1 - 10 * 0 /\ c = 0 - 10 * 0 /\ d = 0 - 10 * 0 /\ e = 0
    BY <1>3, <1>5, <2>1 DEF LastDigits
  <2>3. b # 0 /\ q = a + 10 * b
    BY <1>2, <1>5, <2>2, <1>10
  <2> DEFINE t == <<a, b>>
  <2>4. t \in Seq(Digits) /\ Len(t) = 2 /\ t[2] = b /\ \A j \in 1 .. 2 : t[j] = p[j]
    BY <1>1, <1>9
  <2>5. NumberOf(t) = q
    BY <1>1, <2>3, ValueOf2
  <2> HIDE DEF t
  <2>6. r = t
    <3>1. TruncTo(s1, s2, s3, d3) = 2
      BY <1>5 DEF TruncTo
    <3> QED
      BY <1>9, <2>4, <3>1, FirstOfFive DEF FirstOf
  <2>7. Told(t, q)
    BY <2>3, <2>4, <2>5 DEF Told
  <2> QED
    BY <2>6, <2>7, Zenon
<1>6. CASE s1 # 0 /\ (s2 # 0 \/ d3 # 0) /\ s3 = 0
  <2>1. s2 # 0 /\ SmallTenth(s2) = 0
    BY <1>6 DEF Spent
  <2>2. c = s2 - 10 * 0 /\ d = 0 - 10 * 0 /\ e = 0
    BY <1>3, <1>6, <2>1 DEF LastDigits
  <2>3. c # 0 /\ q = a + 10 * b + 100 * c
    BY <1>2, <2>1, <2>2, <1>10
  <2> DEFINE t == <<a, b, c>>
  <2>4. t \in Seq(Digits) /\ Len(t) = 3 /\ t[3] = c /\ \A j \in 1 .. 3 : t[j] = p[j]
    BY <1>1, <1>9
  <2>5. NumberOf(t) = q
    BY <1>1, <2>3, ValueOf3
  <2> HIDE DEF t
  <2>6. r = t
    <3>1. TruncTo(s1, s2, s3, d3) = 3
      BY <1>6 DEF TruncTo
    <3> QED
      BY <1>9, <2>4, <3>1, FirstOfFive DEF FirstOf
  <2>7. Told(t, q)
    BY <2>3, <2>4, <2>5 DEF Told
  <2> QED
    BY <2>6, <2>7, Zenon
<1>7. CASE s1 # 0 /\ (s2 # 0 \/ d3 # 0) /\ s3 # 0 /\ Tenth(s3) = 0
  <2>1. d = s3 - 10 * 0 /\ e = 0
    BY <1>7 DEF LastDigits
  <2>3. d # 0 /\ q = a + 10 * b + 100 * c + 1000 * d
    BY <1>2, <1>7, <2>1, <1>10
  <2> DEFINE t == <<a, b, c, d>>
  <2>4. t \in Seq(Digits) /\ Len(t) = 4 /\ t[4] = d /\ \A j \in 1 .. 4 : t[j] = p[j]
    BY <1>1, <1>9
  <2>5. NumberOf(t) = q
    BY <1>1, <2>3, ValueOf4
  <2> HIDE DEF t
  <2>6. r = t
    <3>1. TruncTo(s1, s2, s3, d3) = 4
      BY <1>7 DEF TruncTo
    <3> QED
      BY <1>9, <2>4, <3>1, FirstOfFive DEF FirstOf
  <2>7. Told(t, q)
    BY <2>3, <2>4, <2>5 DEF Told
  <2> QED
    BY <2>6, <2>7, Zenon
<1>8. CASE s1 # 0 /\ (s2 # 0 \/ d3 # 0) /\ s3 # 0 /\ Tenth(s3) # 0
  <2>3. e # 0 /\ q = a + 10 * b + 100 * c + 1000 * d + 10 * 1000 * e
    BY <1>8, <1>10 DEF LastDigits
  <2> DEFINE t == <<a, b, c, d, e>>
  <2>4. t \in Seq(Digits) /\ Len(t) = 5 /\ t[5] = e /\ \A j \in 1 .. 5 : t[j] = p[j]
    BY <1>1, <1>9
  <2>5. NumberOf(t) = q
    BY <1>1, <2>3, ValueOf5
  <2> HIDE DEF t
  <2>6. r = t
    <3>1. TruncTo(s1, s2, s3, d3) = 5
      BY <1>8 DEF TruncTo
    <3> QED
      BY <1>9, <2>4, <3>1, FirstOfFive DEF FirstOf
  <2>7. Told(t, q)
    BY <2>3, <2>4, <2>5 DEF Told
  <2> QED
    BY <2>6, <2>7, Zenon
<1> QED
  BY <1>4, <1>5, <1>6, <1>7, <1>8, Zenon

LEMMA PutDecTruncTells ==
  ASSUME NEW q \in 0 .. FiveDigits - 1
  PROVE  Told(PutDecTrunc(q), q)
<1> DEFINE w == Steps(q)
           p == PutDecFull(q)
<1>1. FiveOf(p, q, p[1], p[2], p[3], p[4], p[5])
  BY PutDecFullValue DEF Digits, FiveOf
<1>2. LastDigits(p[1], p[2], p[3], p[4], p[5], w.s1, w.s2, w.s3)
  BY DEF PutDecFull, LastDigits
<1>3. Spent(w.s1, w.s2, w.s3, w.d3) /\ w.d3 \in Nat
  BY NoneLeft DEF Spent
<1>4. w.s1 \in Nat /\ w.s2 \in Nat /\ w.s3 \in Nat
  <2>1. w.s1 \in Sums /\ w.s2 \in SmallSums /\ w.s3 \in Sums
    BY StepsType DEF StepsFit
  <2>2. (\A x \in Sums : x \in Nat) /\ (\A x \in SmallSums : x \in Nat)
    BY DEF Sums, SmallSums
  <2> QED
    BY <2>1, <2>2, Zenon
<1>5. FirstOf(PutDecTrunc(q), p, TruncTo(w.s1, w.s2, w.s3, w.d3))
  BY DEF PutDecTrunc, TruncTo, FirstOf
<1> HIDE DEF p, w
<1> QED
  BY <1>1, <1>2, <1>3, <1>4, <1>5, Truncated

\* put_dec, five digits a round: one round, given what the later rounds write.
Round(n, f) ==
  IF n < FiveDigits THEN PutDecTrunc(n) ELSE PutDecFull(n % FiveDigits) \o f[n \div FiveDigits]

Rounds(m, f) == f = [n \in 0 .. m |-> Round(n, f)]

Less(n, h, l) ==
  h \in Nat /\ h < n /\ h # 0 /\ l \in 0 .. FiveDigits - 1 /\ n = FiveDigits * h + l

LEMMA FewerLeft ==
  ASSUME NEW n \in Nat, ~(n < FiveDigits)
  PROVE  Less(n, n \div FiveDigits, n % FiveDigits)
<1> DEFINE F == FiveDigits
           h == n \div F
           l == n % F
<1>1. F \in Nat /\ F > 1
  <2>1. 100 * 1000 > 1
    BY SMT
  <2> QED
    BY <2>1, FiveDigitsIs DEF FiveDigits
<1> HIDE DEF F
<1>2. n = F * h + l /\ h \in Nat /\ l \in 0 .. F - 1
  <2>1. F \in Nat \ {0}
    BY <1>1
  <2> QED
    BY <2>1, NatParts
<1> HIDE DEF h, l
<1>3. h # 0
  <2>1. ASSUME h = 0
        PROVE  FALSE
    <3>1. n = F * 0 + l
      BY <1>2, <2>1
    <3>2. n < F
      BY <1>1, <1>2, <3>1
    <3> QED
      BY <3>2 DEF F
  <2> QED
    BY <2>1
<1>4. h < n
  <2>1. F * h >= 2 * h
    BY <1>1, <1>2
  <2> QED
    BY <1>1, <1>2, <1>3, <2>1
<1>5. Less(n, h, l)
  BY <1>2, <1>3, <1>4 DEF Less, F
<1> QED
  BY <1>5 DEF F, h, l

LEMMA RoundsExist ==
  ASSUME NEW n \in Nat
  PROVE  \E f : Rounds(n, f)
<1> DEFINE G == {m \in 0 .. n : \E f : Rounds(m, f)}
<1>1. \A m \in Nat : \A f, g : (\A k \in 0 .. m - 1 : f[k] = g[k]) => Round(m, f) = Round(m, g)
  <2>1. ASSUME NEW m \in Nat, NEW f, NEW g, \A k \in 0 .. m - 1 : f[k] = g[k]
        PROVE  Round(m, f) = Round(m, g)
    <3>1. CASE m < FiveDigits
      BY <3>1 DEF Round
    <3>2. CASE ~(m < FiveDigits)
      <4>1. m \div FiveDigits \in 0 .. m - 1
        BY <3>2, FewerLeft DEF Less
      <4>2. f[m \div FiveDigits] = g[m \div FiveDigits]
        BY <2>1, <4>1
      <4> QED
        BY <3>2, <4>2 DEF Round
    <3> QED
      BY <3>1, <3>2
  <2> QED
    BY <2>1
<1>2. 0 \in G
  <2> DEFINE f == [k \in 0 .. 0 |-> Round(0, << >>)]
  <2>1. Round(0, f) = Round(0, << >>)
    BY <1>1
  <2>2. f = [k \in 0 .. 0 |-> f[k]] /\ \A k \in 0 .. 0 : f[k] = Round(k, f)
    BY <2>1
  <2> HIDE DEF f
  <2>3. f = [k \in 0 .. 0 |-> Round(k, f)]
    BY <2>2, Zenon
  <2> QED
    BY <2>3 DEF Rounds
<1>3. ASSUME NEW m \in 1 .. n, m - 1 \in G
      PROVE  m \in G
  <2>1. PICK f : Rounds(m - 1, f)
    BY <1>3
  <2> DEFINE g == [k \in 0 .. m |-> IF k = m THEN Round(m, f) ELSE f[k]]
  <2>2. ASSUME NEW k \in 0 .. m
        PROVE  g[k] = Round(k, g)
    <3>1. \A j \in 0 .. k - 1 : f[j] = g[j]
      OBVIOUS
    <3>2. Round(k, f) = Round(k, g)
      <4> HIDE DEF g
      <4> QED
        BY <1>1, <3>1
    <3>3. CASE k = m
      BY <3>2, <3>3
    <3>4. CASE k # m
      <4>1. k \in 0 .. m - 1 /\ g[k] = f[k]
        BY <3>4
      <4>2. f[k] = Round(k, f)
        BY <2>1, <4>1 DEF Rounds
      <4> QED
        BY <3>2, <4>1, <4>2
    <3> QED
      BY <3>3, <3>4
  <2>3. Rounds(m, g)
    <3>1. g = [k \in 0 .. m |-> g[k]]
      OBVIOUS
    <3>2. \A k \in 0 .. m : g[k] = Round(k, g)
      BY <2>2
    <3> HIDE DEF g
    <3>3. g = [k \in 0 .. m |-> Round(k, g)]
      BY <3>1, <3>2, Zenon
    <3> QED
      BY <3>3 DEF Rounds
  <2> QED
    BY <2>3
<1> HIDE DEF G
<1>4. 0 .. n \subseteq G
  BY <1>2, <1>3, FromZero
<1> QED
  BY <1>4 DEF G

LEMMA RoundsAgree ==
  ASSUME NEW m \in Nat, NEW n \in Nat, m <= n, NEW f, NEW g, Rounds(m, f), Rounds(n, g)
  PROVE  f[m] = g[m]
<1> DEFINE Same(k) == \A j \in 0 .. k : f[j] = g[j]
           G == {k \in 0 .. m : Same(k)}
<1>1. \A k \in 0 .. m : f[k] = Round(k, f) /\ g[k] = Round(k, g)
  <2>1. \A k \in 0 .. m : f[k] = Round(k, f)
    BY DEF Rounds
  <2>2. \A k \in 0 .. n : g[k] = Round(k, g)
    BY DEF Rounds
  <2>3. \A k \in 0 .. m : k \in 0 .. n
    OBVIOUS
  <2> QED
    BY <2>1, <2>2, <2>3
<1>2. 0 \in G
  <2>1. Round(0, f) = Round(0, g)
    <3>1. 0 < FiveDigits
      <4>1. 0 < 100 * 1000
        BY SMT
      <4> QED
        BY <4>1 DEF FiveDigits
    <3> QED
      BY <3>1 DEF Round
  <2> QED
    BY <1>1, <2>1
<1>3. ASSUME NEW k \in 1 .. m, k - 1 \in G
      PROVE  k \in G
  <2>1. \A j \in 0 .. k - 1 : f[j] = g[j]
    BY <1>3
  <2>2. Round(k, f) = Round(k, g)
    <3>1. CASE k < FiveDigits
      BY <3>1 DEF Round
    <3>2. CASE ~(k < FiveDigits)
      <4>1. k \div FiveDigits \in 0 .. k - 1
        BY <3>2, FewerLeft DEF Less
      <4>2. f[k \div FiveDigits] = g[k \div FiveDigits]
        BY <2>1, <4>1
      <4> QED
        BY <3>2, <4>2 DEF Round
    <3> QED
      BY <3>1, <3>2
  <2>3. f[k] = g[k]
    BY <1>1, <2>2
  <2>4. \A j \in 0 .. k : j \in 0 .. k - 1 \/ j = k
    OBVIOUS
  <2> QED
    BY <2>1, <2>3, <2>4
<1> HIDE DEF G
<1>4. 0 .. m \subseteq G
  BY <1>2, <1>3, FromZero
<1>5. m \in G
  BY <1>4
<1> QED
  BY <1>5 DEF G

LEMMA PutDecIs ==
  ASSUME NEW n \in Nat
  PROVE  PutDec[n] = Round(n, PutDec)
<1> DEFINE R(k) == CHOOSE f : Rounds(k, f)
           h == [k \in Nat |-> R(k)[k]]
           Whole(f) == f = [k \in Nat |-> Round(k, f)]
<1>1. \A k \in Nat : Rounds(k, R(k))
  BY RoundsExist
<1> HIDE DEF R
<1>2. ASSUME NEW k \in Nat
      PROVE  h[k] = Round(k, h)
  <2> DEFINE f == R(k)
  <2>1. Rounds(k, f) /\ h[k] = f[k]
    BY <1>1
  <2> HIDE DEF f
  <2>2. f[k] = Round(k, f)
    BY <2>1 DEF Rounds
  <2>3. CASE k < FiveDigits
    BY <2>1, <2>2, <2>3 DEF Round
  <2>4. CASE ~(k < FiveDigits)
    <3> DEFINE j == k \div FiveDigits
    <3>1. j \in Nat /\ j <= k
      BY <2>4, FewerLeft DEF Less
    <3> HIDE DEF j
    <3>2. Rounds(j, R(j)) /\ h[j] = R(j)[j]
      BY <1>1, <3>1
    <3>3. R(j)[j] = f[j]
      BY <2>1, <3>1, <3>2, RoundsAgree
    <3>4. f[j] = h[j]
      BY <3>2, <3>3
    <3>5. Round(k, f) = Round(k, h)
      <4> HIDE DEF h
      <4> QED
        BY <2>4, <3>4 DEF Round, j
    <3> QED
      BY <2>1, <2>2, <3>5
  <2> QED
    BY <2>3, <2>4
<1>3. Whole(h)
  <2>1. h = [k \in Nat |-> h[k]]
    OBVIOUS
  <2> HIDE DEF h
  <2> QED
    BY <1>2, <2>1, Zenon
<1> HIDE DEF h
<1>4. PutDec = CHOOSE f : Whole(f)
  BY DEF PutDec, Round
<1>5. Whole(PutDec)
  <2> HIDE DEF Whole
  <2> QED
    BY <1>3, <1>4
<1> QED
  BY <1>5

\* A full round in front of what the later rounds write.
LEMMA FullTells ==
  ASSUME NEW p, NEW l \in Nat, FiveOf(p, l, p[1], p[2], p[3], p[4], p[5]),
         NEW h \in Nat \ {0}, NEW s, Told(s, h), NEW k, k = FiveDigits * h + l
  PROVE  Told(p \o s, k)
<1> DEFINE a == p[1]
           b == p[2]
           c == p[3]
           d == p[4]
           e == p[5]
           t == p \o s
<1>1. p \in Seq(Digits) /\ Len(p) = 5
  BY DEF FiveOf
<1>2. \A j \in 1 .. Len(p) : p[j] \in Digits
  BY <1>1, ElementOfSeq
<1>3. a \in Digits /\ b \in Digits /\ c \in Digits /\ d \in Digits /\ e \in Digits
  BY <1>1, <1>2
<1>4. l = a + 10 * b + 100 * c + 1000 * d + 10 * 1000 * e
  BY DEF FiveOf
<1>5. s \in Seq(Digits) /\ Len(s) # 0 /\ NumberOf(s) = h /\ s[Len(s)] # 0
  BY DEF Told
<1>6. p = <<a, b, c, d, e>>
  <2> DEFINE u == <<a, b, c, d, e>>
  <2>1. u \in Seq(Digits) /\ Len(u) = 5 /\ \A j \in 1 .. 5 : u[j] = p[j]
    BY <1>3
  <2> HIDE DEF u
  <2>2. p = u
    BY <1>1, <2>1, SeqEqual
  <2> QED
    BY <2>2 DEF u
<1> HIDE DEF a, b, c, d, e
<1>7. t = <<a, b, c, d, e>> \o s
  BY <1>6
<1> HIDE DEF t
<1>8. FiveBefore(s, a, b, c, d, e, t)
  BY <1>3, <1>5, <1>7, FiveMore
<1>9. t \in Seq(Digits) /\ Len(t) = Len(s) + 5 /\ NumberOf(t) = l + FiveDigits * h
  BY <1>4, <1>5, <1>8 DEF FiveBefore
<1>10. t[Len(t)] = s[Len(s)]
  <2>1. s # << >>
    BY <1>5
  <2> QED
    BY <1>8, <2>1 DEF FiveBefore
<1>11. NumberOf(t) = k /\ Len(t) # 0 /\ t[Len(t)] # 0
  <2>1. FiveDigits * h \in Int /\ Len(s) \in Nat
    BY <1>5, FiveDigitsIs
  <2> QED
    BY <1>5, <1>9, <1>10, <2>1
<1>12. Told(t, k)
  BY <1>9, <1>11 DEF Told
<1> QED
  BY <1>12 DEF t

\* put_dec, to which every number printed and every byte of an address comes: the digits
\* stand for the number, each is one, and the last is not zero.
LEMMA PutDecTells ==
  ASSUME NEW n \in Nat
  PROVE  Told(PutDec[n], n)
<1> DEFINE Good(k) == \A j \in 0 .. k : Told(PutDec[j], j)
           G == {k \in 0 .. n : Good(k)}
<1>1. 0 \in G
  <2>1. 0 < FiveDigits /\ 0 \in 0 .. FiveDigits - 1
    <3>1. 0 < 100 * 1000
      BY SMT
    <3> QED
      BY <3>1, FiveDigitsIs DEF FiveDigits
  <2>2. PutDec[0] = PutDecTrunc(0)
    BY <2>1, PutDecIs DEF Round
  <2>3. Told(PutDec[0], 0)
    BY <2>1, <2>2, PutDecTruncTells
  <2>4. Good(0)
    BY <2>3
  <2> QED
    BY <2>4
<1>2. ASSUME NEW k \in 1 .. n, k - 1 \in G
      PROVE  k \in G
  <2>1. Told(PutDec[k], k)
    <3>1. CASE k < FiveDigits
      <4>1. k \in 0 .. FiveDigits - 1
        BY <3>1, FiveDigitsIs
      <4>2. PutDec[k] = PutDecTrunc(k)
        BY <3>1, PutDecIs DEF Round
      <4> QED
        BY <4>1, <4>2, PutDecTruncTells
    <3>2. CASE ~(k < FiveDigits)
      <4> DEFINE h == k \div FiveDigits
                 l == k % FiveDigits
                 p == PutDecFull(l)
                 s == PutDec[h]
                 t == PutDec[k]
      <4>1. h \in Nat /\ h < k /\ h # 0 /\ l \in 0 .. FiveDigits - 1 /\ k = FiveDigits * h + l
        <5>1. k \in Nat
          OBVIOUS
        <5>2. Less(k, h, l)
          BY <3>2, <5>1, FewerLeft
        <5> HIDE DEF h, l
        <5> QED
          BY <5>2 DEF Less
      <4>2. t = p \o s
        <5>1. PutDec[k] = Round(k, PutDec)
          BY PutDecIs
        <5> QED
          BY <3>2, <5>1, Zenon DEF Round
      <4> HIDE DEF h, l
      <4>3. Told(s, h)
        BY <1>2, <4>1
      <4>4. FiveOf(p, l, p[1], p[2], p[3], p[4], p[5])
        BY <4>1, PutDecFullValue DEF Digits, FiveOf
      <4> HIDE DEF p, s, t
      <4>5. Told(t, k)
        BY <4>1, <4>2, <4>3, <4>4, FullTells
      <4> QED
        BY <4>5 DEF t
    <3> QED
      BY <3>1, <3>2
  <2>2. \A j \in 0 .. k : j \in 0 .. k - 1 \/ j = k
    OBVIOUS
  <2> QED
    BY <1>2, <2>1, <2>2
<1> HIDE DEF G
<1>3. 0 .. n \subseteq G
  BY <1>1, <1>2, FromZero
<1>4. n \in G
  BY <1>3
<1> QED
  BY <1>4 DEF G

THEOREM PutDecCorrect == \A num \in Nat : DigitsRight(num)
BY PutDecTells DEF Told, DigitsRight


-----------------------------------------------------------------------------
(* Sums up to multiples of n = Word - 1: r stands for the sum x.           *)

Stands(r, x, n) == r \in 0 .. n /\ (r = 0 <=> x = 0) /\ \E q \in Int : x = r + q * n

LEMMA SmallMultiple ==
  ASSUME NEW n \in Nat \ {0}, NEW d \in Int, -n < d * n, d * n < n
  PROVE  d = 0
<1>1. CASE d >= 1
  <2>1. d * n >= n
    BY <1>1
  <2> QED
    BY <2>1
<1>2. CASE d <= -1
  <2>1. d * n <= -n
    BY <1>2
  <2> QED
    BY <2>1
<1> QED
  BY <1>1, <1>2

LEMMA StandsOne ==
  ASSUME NEW n \in Nat \ {0}, NEW x \in Nat, NEW r, NEW t, Stands(r, x, n), Stands(t, x, n)
  PROVE  r = t
<1>1. PICK q \in Int : x = r + q * n
  BY DEF Stands
<1>2. PICK p \in Int : x = t + p * n
  BY DEF Stands
<1>3. r \in 0 .. n /\ t \in 0 .. n /\ (r = 0 <=> t = 0)
  BY DEF Stands
<1>4. (p - q) * n = r - t
  BY <1>1, <1>2, <1>3
<1>5. -n < r - t /\ r - t < n
  BY <1>3
<1>6. p - q = 0
  BY <1>4, <1>5, SmallMultiple
<1> QED
  BY <1>3, <1>4, <1>6

\* The end-around carry.
Wrapped(sum, n) == IF sum > n THEN sum - n ELSE sum

LEMMA StandsSum ==
  ASSUME NEW n \in Nat \ {0}, NEW x \in Nat, NEW y \in Nat, NEW r, NEW t,
         Stands(r, x, n), Stands(t, y, n)
  PROVE  Stands(Wrapped(r + t, n), x + y, n)
<1>1. PICK q \in Int : x = r + q * n
  BY DEF Stands
<1>2. PICK p \in Int : y = t + p * n
  BY DEF Stands
<1>3. r \in 0 .. n /\ t \in 0 .. n /\ (r = 0 <=> x = 0) /\ (t = 0 <=> y = 0)
  BY DEF Stands
<1>4. \E m \in Int : x + y = (r + t) + m * n
  <2>1. p + q \in Int /\ x + y = (r + t) + (p + q) * n
    BY <1>1, <1>2, <1>3
  <2> QED
    BY <2>1
<1>5. \E m \in Int : x + y = (r + t - n) + m * n
  <2>1. p + q + 1 \in Int /\ x + y = (r + t - n) + (p + q + 1) * n
    BY <1>1, <1>2, <1>3
  <2> QED
    BY <2>1
<1>6. CASE r + t > n
  <2>1. Stands(r + t - n, x + y, n)
    <3>1. r + t - n \in 0 .. n /\ r + t - n # 0 /\ x + y # 0
      BY <1>3, <1>6
    <3> QED
      BY <1>5, <3>1 DEF Stands
  <2>2. Wrapped(r + t, n) = r + t - n
    BY <1>3, <1>6 DEF Wrapped
  <2> QED
    BY <2>1, <2>2
<1>7. CASE ~(r + t > n)
  <2>1. Stands(r + t, x + y, n)
    <3>1. r + t \in 0 .. n /\ (r + t = 0 <=> x + y = 0)
      BY <1>3, <1>7
    <3> QED
      BY <1>4, <3>1 DEF Stands
  <2> QED
    BY <1>7, <2>1 DEF Wrapped
<1> QED
  BY <1>6, <1>7

\* The numbers of the code are those of two bytes.
LEMMA WordIs ==
  /\ Word \in Nat /\ Word > 2 * Byte /\ Word - 1 \in Nat \ {0} /\ Word = Byte * Byte
  /\ Byte \in Nat /\ Byte > 2
<1>1. Byte \in Nat /\ Byte > 2
  BY ChecksumAssumption
<1>2. Byte * Byte >= 3 * Byte
  BY <1>1
<1>3. Byte * Byte \in Nat
  BY <1>1
<1> QED
  BY <1>1, <1>2, <1>3 DEF Word

LEMMA DivSmall ==
  ASSUME NEW d \in Nat \ {0}, NEW x \in Nat, NEW m \in Nat, x < d * m
  PROVE  x \div d < m
<1>1. x = d * (x \div d) + (x % d) /\ x \div d \in Nat /\ x % d \in 0 .. d - 1
  BY NatParts
<1> DEFINE h == x \div d
<1> HIDE DEF h
<1>2. h >= m => d * h >= d * m
  BY <1>1 DEF h
<1> QED
  BY <1>1, <1>2 DEF h

\* Adding the carries takes the sum modulo Word - 1.
LEMMA FoldedStands ==
  ASSUME NEW x \in Nat, x < Word * Word
  PROVE  Stands(Folded(x), x, Word - 1)
<1> DEFINE w == Word
           h == x \div w
           l == x % w
           once == h + l
<1>1. w \in Nat \ {0, 1} /\ w - 1 \in Nat
  BY WordIs
<1> HIDE DEF w
<1>2. x = w * h + l /\ h \in Nat /\ l \in 0 .. w - 1
  BY <1>1, NatParts
<1>3. h < w
  BY <1>1, DivSmall DEF w
<1>4. Folded(x) = (once + (once \div w)) % w
  BY DEF Folded, w
<1> HIDE DEF h, l
<1>5. x = once + h * (w - 1)
  BY <1>1, <1>2
<1>6. CASE once < w
  <2>1. once \div w = 0 /\ once % w = once
    <3>1. once = w * 0 + once /\ once \in 0 .. w - 1
      BY <1>1, <1>2, <1>6
    <3> HIDE DEF once
    <3> QED
      BY <1>1, <3>1, Unique
  <2>2. Folded(x) = once
    BY <1>2, <1>4, <2>1
  <2>3. once \in 0 .. w - 1 /\ (once = 0 <=> x = 0)
    BY <1>1, <1>2, <1>6
  <2> HIDE DEF once
  <2>4. Stands(once, x, w - 1)
    BY <1>2, <1>5, <2>3 DEF Stands
  <2> QED
    BY <2>2, <2>4 DEF w
<1>7. CASE once >= w
  <2> DEFINE r == once - w
  <2>1. r \in 0 .. w - 2 /\ r \in 0 .. w - 1 /\ r + 1 \in 0 .. w - 1 /\ once = w * 1 + r
        /\ once + 1 = w * 1 + (r + 1)
    BY <1>1, <1>2, <1>3, <1>7
  <2> HIDE DEF once, r
  <2>2. once \div w = 1 /\ (once + 1) % w = r + 1
    <3> DEFINE t == r + 1
    <3>0. w \in Nat \ {0} /\ r \in 0 .. w - 1 /\ t \in 0 .. w - 1 /\ 1 \in Int
      BY <1>1, <2>1
    <3> HIDE DEF t
    <3>1. (w * 1 + r) \div w = 1
      BY <3>0, Unique
    <3>2. (w * 1 + t) % w = t
      BY <3>0, Unique
    <3> QED
      BY <2>1, <3>1, <3>2 DEF t
  <2>3. Folded(x) = r + 1
    BY <1>4, <2>2
  <2>4. x = (r + 1) + (h + 1) * (w - 1) /\ h + 1 \in Int
    BY <1>1, <1>2, <1>5, <2>1
  <2>5. x # 0 /\ r + 1 # 0
    BY <1>1, <1>2, <1>7, <2>1 DEF once
  <2>6. Stands(r + 1, x, w - 1)
    BY <2>1, <2>4, <2>5 DEF Stands
  <2> QED
    BY <2>3, <2>6 DEF w
<1> QED
  BY <1>1, <1>2, <1>6, <1>7

\* Exchanging the bytes multiplies by Byte.
LEMMA SwappedIs ==
  ASSUME NEW w \in 0 .. Word - 1
  PROVE  /\ Swapped(w) \in 0 .. Word - 1 /\ (Swapped(w) = 0 <=> w = 0)
         /\ \E q \in Int : Byte * w = Swapped(w) + q * (Word - 1)
<1> DEFINE b == Byte
           h == w \div b
           l == w % b
<1>1. b \in Nat \ {0} /\ Word = b * b /\ w \in Nat /\ w < b * b
  BY WordIs
<1> HIDE DEF b
<1>2. w = b * h + l /\ h \in Nat /\ l \in 0 .. b - 1
  BY <1>1, NatParts
<1>3. h < b
  BY <1>1, DivSmall
<1>4. Swapped(w) = h + b * l
  BY DEF Swapped, b
<1> HIDE DEF h, l
<1>5. b * l <= b * (b - 1) /\ b * (b - 1) = b * b - b /\ b * l >= 0
  BY <1>1, <1>2
<1>6. h + b * l \in 0 .. Word - 1
  BY <1>1, <1>2, <1>3, <1>5
<1>7. h + b * l = 0 <=> w = 0
  BY <1>1, <1>2, <1>5
<1>8. b * w = (h + b * l) + h * (Word - 1)
  <2>1. b * w = b * b * h + b * l
    BY <1>1, <1>2
  <2> QED
    BY <1>1, <1>2, <2>1
<1> QED
  BY <1>2, <1>4, <1>6, <1>7, <1>8 DEF b

-----------------------------------------------------------------------------
(* The sum of a packet.                                                    *)

LEMMA BytesIs == 0 \in Bytes /\ \A b \in Bytes : b \in Nat /\ b <= Byte - 1
BY ChecksumAssumption DEF Bytes

LEMMA PacketIs ==
  ASSUME NEW n \in Nat, NEW p \in [1 .. n -> Bytes]
  PROVE  p \in Seq(Bytes) /\ Len(p) = n
OBVIOUS

LEMMA WorthIs ==
  ASSUME NEW p \in Seq(Bytes), NEW k \in 1 .. Len(p)
  PROVE  Worth(p, k) \in Nat /\ Worth(p, k) <= Word - 1 /\ (Worth(p, k) = 0 <=> p[k] = 0)
<1>1. p[k] \in Nat /\ p[k] <= Byte - 1
  BY BytesIs
<1>2. Byte * p[k] \in Nat /\ Byte * p[k] <= Byte * (Byte - 1) /\ Byte * (Byte - 1) = Byte * Byte - Byte
      /\ (Byte * p[k] = 0 <=> p[k] = 0)
  BY <1>1, WordIs
<1> QED
  BY <1>1, <1>2, WordIs DEF Worth

\* f[k] is the sum of the first k bytes.
RunningSum(p, f) ==
  /\ f[0] = 0 /\ WordSum(p) = f[Len(p)]
  /\ \A k \in 1 .. Len(p) : f[k] = f[k - 1] + Worth(p, k)

Upto(p, m, f) == f = [k \in 0 .. m |-> IF k = 0 THEN 0 ELSE f[k - 1] + Worth(p, k)]

LEMMA UptoExists ==
  ASSUME NEW p, NEW n \in Nat
  PROVE  \E f : Upto(p, n, f)
<1> DEFINE Row(k, f) == IF k = 0 THEN 0 ELSE f[k - 1] + Worth(p, k)
           G == {m \in 0 .. n : \E f : Upto(p, m, f)}
<1>1. 0 \in G
  <2> DEFINE f == [k \in 0 .. 0 |-> 0]
  <2>1. Upto(p, 0, f)
    BY DEF Upto
  <2> QED
    BY <2>1
<1>2. ASSUME NEW m \in 1 .. n, m - 1 \in G
      PROVE  m \in G
  <2>1. PICK f : Upto(p, m - 1, f)
    BY <1>2
  <2> DEFINE g == [k \in 0 .. m |-> IF k = m THEN Row(m, f) ELSE f[k]]
  <2>2. ASSUME NEW k \in 0 .. m
        PROVE  g[k] = Row(k, g)
    <3>1. CASE k = m
      <4>1. g[k - 1] = f[k - 1]
        BY <3>1
      <4> QED
        BY <3>1, <4>1
    <3>2. CASE k # m
      <4>1. k \in 0 .. m - 1 /\ g[k] = f[k]
        BY <3>2
      <4>2. f[k] = Row(k, f)
        BY <2>1, <4>1 DEF Upto
      <4>3. k # 0 => g[k - 1] = f[k - 1]
        BY <4>1
      <4> QED
        BY <4>1, <4>2, <4>3
    <3> QED
      BY <3>1, <3>2
  <2>3. Upto(p, m, g)
    <3>1. g = [k \in 0 .. m |-> g[k]]
      OBVIOUS
    <3>2. \A k \in 0 .. m : g[k] = Row(k, g)
      BY <2>2
    <3> HIDE DEF g
    <3>3. g = [k \in 0 .. m |-> Row(k, g)]
      BY <3>1, <3>2, Zenon
    <3> QED
      BY <3>3 DEF Upto
  <2> QED
    BY <2>3
<1> HIDE DEF G
<1>3. n \in G
  <2>1. 0 .. n \subseteq G
    BY <1>1, <1>2, FromZero
  <2> QED
    BY <2>1
<1> QED
  BY <1>3 DEF G

LEMMA RunningSumIs ==
  ASSUME NEW p \in Seq(Bytes)
  PROVE  \E f : RunningSum(p, f)
<1> DEFINE n == Len(p)
           f == CHOOSE f : Upto(p, n, f)
<1>1. n \in Nat
  OBVIOUS
<1>2. WordSum(p) = f[n]
  BY DEF WordSum, Upto
<1> HIDE DEF n
<1>3. Upto(p, n, f)
  BY <1>1, UptoExists
<1> HIDE DEF f
<1>4. \A k \in 0 .. n : f[k] = IF k = 0 THEN 0 ELSE f[k - 1] + Worth(p, k)
  BY <1>3 DEF Upto
<1>5. RunningSum(p, f)
  BY <1>1, <1>2, <1>4 DEF RunningSum, n
<1> QED
  BY <1>5

LEMMA SumBound ==
  ASSUME NEW p \in Seq(Bytes), NEW f, RunningSum(p, f)
  PROVE  /\ \A k \in 0 .. Len(p) : f[k] \in Nat /\ f[k] <= k * (Word - 1)
         /\ WordSum(p) \in Nat /\ WordSum(p) <= Len(p) * (Word - 1)
<1> DEFINE n == Len(p)
           w == Word - 1
           G == {k \in 0 .. n : f[k] \in Nat /\ f[k] <= k * w}
<1>1. n \in Nat /\ w \in Nat
  BY WordIs
<1>2. 0 \in G
  BY <1>1 DEF RunningSum
<1>3. ASSUME NEW k \in 1 .. n, k - 1 \in G
      PROVE  k \in G
  <2>1. f[k] = f[k - 1] + Worth(p, k) /\ Worth(p, k) \in Nat /\ Worth(p, k) <= w
    BY WorthIs DEF RunningSum
  <2>2. f[k - 1] \in Nat /\ f[k - 1] <= (k - 1) * w
    BY <1>3
  <2> HIDE DEF n, w
  <2>3. (k - 1) * w + w = k * w
    BY <1>1
  <2> QED
    BY <1>1, <2>1, <2>2, <2>3
<1> HIDE DEF G
<1>4. 0 .. n \subseteq G
  BY <1>1, <1>2, <1>3, FromZero
<1>5. \A k \in 0 .. n : f[k] \in Nat /\ f[k] <= k * w
  BY <1>4 DEF G
<1>6. n \in 0 .. n /\ WordSum(p) = f[n]
  BY <1>1 DEF RunningSum
<1> QED
  BY <1>5, <1>6

\* Another value of one byte.
LEMMA SumOfChange ==
  ASSUME NEW p \in Seq(Bytes), NEW k \in 1 .. Len(p), NEW b \in Bytes,
         NEW r, r = [p EXCEPT ![k] = b]
  PROVE  /\ r \in Seq(Bytes) /\ Len(r) = Len(p)
         /\ WordSum(r) = WordSum(p) + (IF k % 2 = 1 THEN b - p[k] ELSE Byte * (b - p[k]))
<1> DEFINE n == Len(p)
           d == IF k % 2 = 1 THEN b - p[k] ELSE Byte * (b - p[k])
<1>1. /\ n \in Nat /\ r \in Seq(Bytes) /\ Len(r) = n
      /\ \A j \in 1 .. n : r[j] = IF j = k THEN b ELSE p[j]
  BY ExceptSeq
<1>2. PICK f : RunningSum(p, f)
  BY RunningSumIs
<1>3. PICK g : RunningSum(r, g)
  BY <1>1, RunningSumIs
<1>4. \A j \in 0 .. n : f[j] \in Int
  BY <1>2, SumBound
<1>5. b \in Int /\ p[k] \in Int /\ Byte \in Int
  BY BytesIs, WordIs
<1>6. d \in Int /\ Worth(r, k) = Worth(p, k) + d /\ \A j \in 1 .. n : j # k => Worth(r, j) = Worth(p, j)
  <2>1. Byte * b = Byte * p[k] + Byte * (b - p[k])
    BY <1>5
  <2> QED
    BY <1>1, <1>5, <2>1 DEF Worth
<1>7. \A j \in 1 .. n : f[j] = f[j - 1] + Worth(p, j) /\ g[j] = g[j - 1] + Worth(r, j)
                        /\ Worth(p, j) \in Int
  <2>1. \A j \in 1 .. n : f[j] = f[j - 1] + Worth(p, j)
    BY <1>2 DEF RunningSum
  <2>2. \A j \in 1 .. n : g[j] = g[j - 1] + Worth(r, j)
    BY <1>1, <1>3 DEF RunningSum
  <2>3. \A j \in 1 .. n : Worth(p, j) \in Int
    BY WorthIs
  <2> QED
    BY <2>1, <2>2, <2>3
<1> DEFINE G == {j \in 0 .. n : g[j] = IF j < k THEN f[j] ELSE f[j] + d}
<1> HIDE DEF d
<1>8. 0 \in G
  BY <1>1, <1>2, <1>3 DEF RunningSum
<1>9. ASSUME NEW j \in 1 .. n, j - 1 \in G
      PROVE  j \in G
  <2>1. g[j - 1] = IF j - 1 < k THEN f[j - 1] ELSE f[j - 1] + d
    BY <1>9
  <2>2. f[j - 1] \in Int /\ Worth(p, j) \in Int
    BY <1>1, <1>4, <1>7
  <2>3. f[j] = f[j - 1] + Worth(p, j) /\ g[j] = g[j - 1] + Worth(r, j)
    BY <1>7
  <2> HIDE DEF n
  <2>4. CASE j = k
    <3>1. j - 1 < k /\ ~(j < k) /\ Worth(r, j) = Worth(p, j) + d
      BY <1>6, <2>4
    <3> QED
      BY <1>6, <2>1, <2>2, <2>3, <3>1
  <2>5. CASE j # k
    <3>1. (j - 1 < k <=> j < k) /\ Worth(r, j) = Worth(p, j)
      <4>1. j \in Int /\ k \in Int
        BY <1>1
      <4> QED
        <5>1. j - 1 < k <=> j < k
          BY <2>5, <4>1
        <5>2. Worth(r, j) = Worth(p, j)
          BY <1>6, <2>5
        <5> QED
          BY <5>1, <5>2
    <3> QED
      BY <1>6, <2>1, <2>2, <2>3, <3>1
  <2> QED
    BY <2>4, <2>5
<1> HIDE DEF G
<1>10. 0 .. n \subseteq G
  BY <1>1, <1>8, <1>9, FromZero
<1>11. n \in 0 .. n /\ ~(n < k) /\ WordSum(p) = f[n] /\ WordSum(r) = g[n]
  BY <1>1, <1>2, <1>3 DEF RunningSum
<1>12. g[n] = f[n] + d
  BY <1>10, <1>11 DEF G
<1> QED
  BY <1>1, <1>11, <1>12 DEF d

LEMMA EvenPlus ==
  ASSUME NEW c \in Nat, c % 2 = 0, NEW j \in Nat
  PROVE  (c + j) % 2 = j % 2
<1>1. c = 2 * (c \div 2) + (c % 2) /\ c \div 2 \in Nat
  BY NatParts
<1>2. j = 2 * (j \div 2) + (j % 2) /\ j \div 2 \in Nat /\ j % 2 \in 0 .. 2 - 1
  BY NatParts
<1> DEFINE i == c \div 2
           h == j \div 2
           t == j % 2
<1> HIDE DEF i, h, t
<1>3. c + j = 2 * (i + h) + t /\ i + h \in Int /\ t \in 0 .. 2 - 1
  BY <1>1, <1>2 DEF i, h, t
<1>4. (2 * (i + h) + t) % 2 = t
  BY <1>3, Unique
<1> QED
  BY <1>3, <1>4 DEF t

LEMMA OddPlus ==
  ASSUME NEW c \in Nat, c % 2 = 1, NEW j \in Nat
  PROVE  (c + j) % 2 = 1 <=> j % 2 # 1
<1>1. PICK i \in Nat : c = 2 * i + 1
  OBVIOUS
<1>2. PICK h \in Nat : j = 2 * h \/ j = 2 * h + 1
  <2>1. j = 2 * (j \div 2) + (j % 2) /\ j \div 2 \in Nat /\ j % 2 \in 0 .. 2 - 1
    BY NatParts
  <2> QED
    BY <2>1
<1>3. CASE j = 2 * h
  <2>1. j = 2 * h + 0 /\ c + j = 2 * (i + h) + 1 /\ 0 \in 0 .. 2 - 1 /\ 1 \in 0 .. 2 - 1
    BY <1>1, <1>3
  <2>2. (2 * h + 0) % 2 = 0 /\ (2 * (i + h) + 1) % 2 = 1
    BY <2>1, Unique
  <2> QED
    BY <2>1, <2>2
<1>4. CASE j = 2 * h + 1
  <2>1. c + j = 2 * (i + h + 1) + 0 /\ 0 \in 0 .. 2 - 1 /\ 1 \in 0 .. 2 - 1
    BY <1>1, <1>4
  <2>2. (2 * h + 1) % 2 = 1 /\ (2 * (i + h + 1) + 0) % 2 = 0
    BY <2>1, Unique
  <2> QED
    BY <1>4, <2>1, <2>2
<1> QED
  BY <1>2, <1>3, <1>4

LEMMA Twice ==
  ASSUME NEW b \in Nat, NEW x \in Nat
  PROVE  b * (b * x) = x + x * (b * b - 1)
<1>1. b * (b * x) = (b * b) * x
  OBVIOUS
<1> DEFINE y == b * b
<1>2. y \in Nat
  OBVIOUS
<1> HIDE DEF y
<1>3. x + x * (y - 1) = y * x
  BY <1>2
<1> QED
  BY <1>1, <1>3 DEF y

\* A packet in two parts: the second counts with its bytes exchanged after an odd cut.
Parted(p, cut, a, c) ==
  /\ a \in Seq(Bytes) /\ c \in Seq(Bytes) /\ Len(a) = cut /\ Len(c) = Len(p) - cut
  /\ \E rest \in Nat :
       /\ WordSum(p) = WordSum(a) + rest
       /\ IF cut % 2 = 0 THEN rest = WordSum(c)
          ELSE /\ rest = 0 <=> WordSum(c) = 0
               /\ \E q \in Int : Byte * WordSum(c) = rest + q * (Word - 1)

LEMMA SumOfParts ==
  ASSUME NEW p \in Seq(Bytes), NEW cut \in 0 .. Len(p),
         NEW a, a = SubSeq(p, 1, cut), NEW c, c = SubSeq(p, cut + 1, Len(p))
  PROVE  Parted(p, cut, a, c)
<1> DEFINE n == Len(p)
           m == n - cut
<1>1. /\ n \in Nat /\ m \in Nat /\ cut \in Nat /\ cut + m = n
      /\ a \in Seq(Bytes) /\ Len(a) = cut /\ \A j \in 1 .. cut : a[j] = p[j]
      /\ c \in Seq(Bytes) /\ Len(c) = m /\ \A j \in 1 .. m : c[j] = p[cut + j]
  <2>1. n \in Nat /\ m \in Nat /\ cut \in Nat /\ cut + m = n
    OBVIOUS
  <2>2. a \in Seq(Bytes) /\ Len(a) = cut /\ \A j \in 1 .. cut : a[j] = p[j]
    OBVIOUS
  <2>3. c \in Seq(Bytes)
    OBVIOUS
  <2>4. Len(c) = m
    OBVIOUS
  <2>5. ASSUME NEW j \in 1 .. m
        PROVE  c[j] = p[cut + j]
    <3>1. n \in Int /\ cut + 1 \in Int /\ j \in 1 .. n - (cut + 1) + 1 /\ cut + 1 + j - 1 = cut + j
      BY <2>1
    <3>2. \A i \in cut + 1 .. n : p[i] \in Bytes
      BY <2>1
    <3>3. \A i \in 1 .. n - (cut + 1) + 1 : SubSeq(p, cut + 1, n)[i] = p[cut + 1 + i - 1]
      <4> HIDE DEF n
      <4> QED
        BY <3>1, <3>2, SubSeqProperties
    <3> QED
      BY <3>1, <3>3
  <2> QED
    BY <2>1, <2>2, <2>3, <2>4, <2>5
<1>2. PICK f : RunningSum(p, f)
  BY RunningSumIs
<1>3. PICK g : RunningSum(a, g)
  BY <1>1, RunningSumIs
<1>4. PICK h : RunningSum(c, h)
  BY <1>1, RunningSumIs
<1>5. /\ \A j \in 0 .. n : f[j] \in Nat
      /\ \A j \in 1 .. n : f[j] = f[j - 1] + Worth(p, j) /\ Worth(p, j) \in Nat
                          /\ p[j] \in Nat /\ (Worth(p, j) = 0 <=> p[j] = 0)
  <2>1. \A j \in 1 .. n : f[j] = f[j - 1] + Worth(p, j)
    BY <1>2 DEF RunningSum
  <2>2. \A j \in 1 .. n : Worth(p, j) \in Nat /\ p[j] \in Nat /\ (Worth(p, j) = 0 <=> p[j] = 0)
    BY WorthIs, BytesIs
  <2> QED
    BY <1>2, <2>1, <2>2, SumBound
<1>6. /\ \A j \in 0 .. m : h[j] \in Nat
      /\ \A j \in 1 .. m : h[j] = h[j - 1] + Worth(c, j) /\ Worth(c, j) \in Nat
                          /\ (Worth(c, j) = 0 <=> c[j] = 0)
  <2>1. \A j \in 1 .. m : h[j] = h[j - 1] + Worth(c, j)
    BY <1>1, <1>4 DEF RunningSum
  <2>2. \A j \in 1 .. m : Worth(c, j) \in Nat /\ (Worth(c, j) = 0 <=> c[j] = 0)
    BY <1>1, WorthIs
  <2> QED
    BY <1>1, <1>4, <2>1, <2>2, SumBound
<1> HIDE DEF n, m
<1>7. g[cut] = f[cut]
  <2> DEFINE G == {j \in 0 .. cut : g[j] = f[j]}
  <2>1. 0 \in G
    BY <1>1, <1>2, <1>3 DEF RunningSum
  <2>2. ASSUME NEW j \in 1 .. cut, j - 1 \in G
        PROVE  j \in G
    <3>1. g[j] = g[j - 1] + Worth(a, j) /\ f[j] = f[j - 1] + Worth(p, j)
      BY <1>1, <1>3, <1>5 DEF RunningSum
    <3>2. Worth(a, j) = Worth(p, j)
      BY <1>1 DEF Worth
    <3> QED
      BY <2>2, <3>1, <3>2
  <2> HIDE DEF G
  <2>3. 0 .. cut \subseteq G /\ cut \in 0 .. cut
    <3>1. cut \in Nat /\ cut \in 0 .. cut
      BY <1>1
    <3>2. 0 .. cut \subseteq G
      BY <2>1, <2>2, <3>1, FromZero
    <3> QED
      BY <3>1, <3>2
  <2> QED
    BY <2>3 DEF G
<1>8. WordSum(p) = f[cut + m] /\ WordSum(a) = f[cut] /\ WordSum(c) = h[m] /\ h[0] = 0
  BY <1>1, <1>2, <1>3, <1>4, <1>7 DEF RunningSum, n
<1>9. CASE cut % 2 = 0
  <2> DEFINE G == {j \in 0 .. m : f[cut + j] = f[cut] + h[j]}
  <2>1. 0 \in G
    <3>1. cut + 0 = cut /\ cut \in 0 .. n /\ 0 \in 0 .. m
      BY <1>1
    <3>2. f[cut] + 0 = f[cut]
      BY <1>5, <3>1
    <3> QED
      BY <1>8, <3>1, <3>2
  <2>2. ASSUME NEW j \in 1 .. m, j - 1 \in G
        PROVE  j \in G
    <3>1. cut + j \in 1 .. n /\ (cut + j) - 1 = cut + (j - 1) /\ cut \in 0 .. n /\ j - 1 \in 0 .. m
      BY <1>1
    <3>2. (cut + j) % 2 = j % 2
      <4>1. cut \in Nat /\ j \in Nat
        BY <1>1
      <4> QED
        BY <1>9, <4>1, EvenPlus
    <3>3. Worth(p, cut + j) = Worth(c, j)
      BY <1>1, <3>2 DEF Worth
    <3>4. f[cut + j] = f[cut + (j - 1)] + Worth(p, cut + j) /\ h[j] = h[j - 1] + Worth(c, j)
      BY <1>5, <1>6, <3>1
    <3>5. f[cut] \in Nat /\ h[j - 1] \in Nat /\ Worth(c, j) \in Nat
      BY <1>5, <1>6, <3>1
    <3> QED
      BY <2>2, <3>3, <3>4, <3>5
  <2> HIDE DEF G
  <2>3. 0 .. m \subseteq G /\ m \in 0 .. m
    <3>1. m \in Nat /\ m \in 0 .. m
      BY <1>1
    <3>2. 0 .. m \subseteq G
      BY <2>1, <2>2, <3>1, FromZero
    <3> QED
      BY <3>1, <3>2
  <2>4. f[cut + m] = f[cut] + h[m] /\ h[m] \in Nat
    BY <1>6, <2>3 DEF G
  <2> QED
    BY <1>1, <1>8, <1>9, <2>4 DEF n, m, Parted
<1>10. CASE cut % 2 # 0
  <2> DEFINE Exchanged(j) == /\ f[cut + j] - f[cut] \in Nat
                             /\ f[cut + j] - f[cut] = 0 <=> h[j] = 0
                             /\ \E q \in Int : Byte * h[j] = (f[cut + j] - f[cut]) + q * (Word - 1)
             G == {j \in 0 .. m : Exchanged(j)}
  <2>1. 0 \in G
    <3>0. cut + 0 = cut /\ cut \in 0 .. n
      BY <1>1
    <3>1. f[cut + 0] - f[cut] = 0 /\ Byte * h[0] = (f[cut + 0] - f[cut]) + 0 * (Word - 1)
      <4>1. f[cut] - f[cut] = 0
        BY <1>5, <3>0
      <4>2. Byte * 0 = 0 /\ 0 * (Word - 1) = 0
        BY WordIs
      <4> QED
        BY <1>8, <3>0, <4>1, <4>2
    <3> QED
      BY <1>1, <1>8, <3>1
  <2>2. ASSUME NEW j \in 1 .. m, j - 1 \in G
        PROVE  j \in G
    <3>1. cut + j \in 1 .. n /\ (cut + j) - 1 = cut + (j - 1) /\ cut \in 0 .. n /\ j - 1 \in 0 .. m
          /\ cut + (j - 1) \in 0 .. n
      BY <1>1
    <3>2. (cut + j) % 2 = 1 <=> j % 2 # 1
      <4>1. cut \in Nat /\ j \in Nat /\ cut % 2 = 1
        BY <1>1, <1>10
      <4> QED
        BY <4>1, OddPlus
    <3> DEFINE x == c[j]
               u == Worth(p, cut + j)
               v == Worth(c, j)
               old == f[cut + (j - 1)] - f[cut]
    <3>3. x \in Nat /\ x = p[cut + j] /\ u \in Nat /\ v \in Nat /\ (u = 0 <=> v = 0)
      BY <1>1, <1>5, <1>6, <3>1
    <3>4. \E q \in Int : Byte * v = u + q * (Word - 1)
      <4>1. CASE j % 2 = 1
        <5>1. v = x /\ u = Byte * x
          BY <3>2, <3>3, <4>1 DEF Worth
        <5>2. Byte * x \in Int /\ 0 * (Word - 1) = 0
          <6> HIDE DEF x
          <6> QED
            BY <3>3, WordIs
        <5> HIDE DEF u, v, x
        <5>3. Byte * v = u + 0 * (Word - 1)
          BY <5>1, <5>2
        <5> QED
          BY <5>3
      <4>2. CASE j % 2 # 1
        <5>1. v = Byte * x /\ u = x
          BY <3>2, <3>3, <4>2 DEF Worth
        <5>2. Byte * (Byte * x) = x + x * (Byte * Byte - 1)
          BY <3>3, WordIs, Twice
        <5> HIDE DEF u, v, x
        <5>3. Byte * v = u + x * (Word - 1)
          BY <5>1, <5>2, WordIs
        <5> QED
          BY <3>3, <5>3
      <4> QED
        BY <4>1, <4>2
    <3>5. f[cut + j] = f[cut + (j - 1)] + u /\ h[j] = h[j - 1] + v
      BY <1>5, <1>6, <3>1
    <3>6. f[cut] \in Nat /\ f[cut + (j - 1)] \in Nat /\ h[j - 1] \in Nat
      BY <1>5, <1>6, <3>1
    <3>7. Exchanged(j - 1)
      BY <2>2
    <3>8. PICK q \in Int : Byte * h[j - 1] = old + q * (Word - 1)
      BY <3>7
    <3>9. PICK t \in Int : Byte * v = u + t * (Word - 1)
      BY <3>4
    <3>10. old \in Nat /\ (old = 0 <=> h[j - 1] = 0)
      BY <3>7
    <3> HIDE DEF u, v, x
    <3>11. f[cut + j] - f[cut] = old + u
      BY <3>3, <3>5, <3>6
    <3>12. Byte * h[j] = (old + u) + (q + t) * (Word - 1) /\ q + t \in Int
      <4>1. Byte * h[j] = Byte * h[j - 1] + Byte * v
        BY <3>3, <3>5, <3>6, WordIs
      <4>2. (q + t) * (Word - 1) = q * (Word - 1) + t * (Word - 1)
        BY WordIs
      <4> HIDE DEF old
      <4>3. q * (Word - 1) \in Int /\ t * (Word - 1) \in Int
        BY WordIs
      <4> QED
        BY <3>3, <3>8, <3>9, <3>10, <4>1, <4>2, <4>3
    <3> HIDE DEF old
    <3>13. old + u \in Nat /\ (old + u = 0 <=> h[j] = 0)
      BY <3>3, <3>5, <3>6, <3>10
    <3> QED
      BY <3>11, <3>12, <3>13
  <2> HIDE DEF G
  <2>3. 0 .. m \subseteq G /\ m \in 0 .. m
    <3>1. m \in Nat /\ m \in 0 .. m
      BY <1>1
    <3>2. 0 .. m \subseteq G
      BY <2>1, <2>2, <3>1, FromZero
    <3> QED
      BY <3>1, <3>2
  <2>4. Exchanged(m)
    BY <2>3 DEF G
  <2> DEFINE rest == f[cut + m] - f[cut]
  <2>5. WordSum(p) = WordSum(a) + rest
    <3>1. f[cut] \in Nat /\ f[cut + m] \in Nat
      BY <1>1, <1>5
    <3> QED
      BY <1>8, <3>1
  <2> QED
    BY <1>1, <1>8, <1>10, <2>4, <2>5 DEF n, m, Parted
<1> QED
  BY <1>9, <1>10

-----------------------------------------------------------------------------
(* The checksum.                                                           *)

\* For packets as long as those at hand the sum does not run over.
LEMMA FoldedSum ==
  ASSUME NEW p \in Seq(Bytes), Len(p) <= Octets
  PROVE  WordSum(p) \in Nat /\ Stands(Folded(WordSum(p)), WordSum(p), Word - 1)
<1>1. PICK f : RunningSum(p, f)
  BY RunningSumIs
<1>2. WordSum(p) \in Nat /\ WordSum(p) <= Len(p) * (Word - 1)
  BY <1>1, SumBound
<1>3. Len(p) * (Word - 1) < Word * Word
  <2> DEFINE n == Len(p)
             w == Word
  <2>1. n \in Nat /\ w \in Nat /\ w > 0 /\ n <= w
    BY WordIs, ChecksumAssumption DEF Word
  <2> HIDE DEF n, w
  <2>2. n * (w - 1) <= w * (w - 1) /\ w * (w - 1) = w * w - w
    BY <2>1
  <2>3. n * (w - 1) \in Int /\ w * w \in Int
    BY <2>1
  <2> QED
    BY <2>1, <2>2, <2>3 DEF n, w
<1>4. WordSum(p) < Word * Word
  <2> DEFINE x == WordSum(p)
             y == Len(p) * (Word - 1)
             z == Word * Word
  <2>1. x \in Int /\ y \in Int /\ z \in Int /\ x <= y /\ y < z
    BY <1>2, <1>3, WordIs
  <2> HIDE DEF x, y, z
  <2>2. x < z
    BY <2>1
  <2> QED
    BY <2>2 DEF x, z
<1> QED
  BY <1>2, <1>4, FoldedStands

LEMMA ComplementIs ==
  ASSUME NEW r \in 0 .. Word - 1
  PROVE  Complement(r) \in 0 .. Word - 1 /\ Complement(Complement(r)) = r
BY WordIs DEF Complement

\* The checksums of two parts add up to that of the whole, wherever it is cut.
LEMMA PartsAddUp ==
  ASSUME NEW p \in Seq(Bytes), Len(p) = Octets, NEW cut \in 0 .. Octets
  PROVE  AddIpChecksums(cut, ComputeIpChecksum(SubSeq(p, 1, cut)),
                        ComputeIpChecksum(SubSeq(p, cut + 1, Octets))) = ComputeIpChecksum(p)
<1> DEFINE a == SubSeq(p, 1, cut)
           c == SubSeq(p, cut + 1, Octets)
           n == Word - 1
           x == WordSum(a)
           y == WordSum(c)
           z == WordSum(p)
           r == Folded(x)
           t == Folded(y)
<1>1. Octets \in Nat /\ n \in Nat \ {0} /\ cut \in Nat /\ cut <= Octets /\ Byte \in Nat
  BY ChecksumAssumption, WordIs
<1>2. /\ a \in Seq(Bytes) /\ c \in Seq(Bytes) /\ Len(a) = cut /\ Len(c) = Octets - cut
      /\ \E rest \in Nat :
           /\ z = x + rest
           /\ IF cut % 2 = 0 THEN rest = y
              ELSE /\ rest = 0 <=> y = 0
                   /\ \E q \in Int : Byte * y = rest + q * n
  <2>1. a = SubSeq(p, 1, cut) /\ c = SubSeq(p, cut + 1, Len(p)) /\ cut \in 0 .. Len(p)
    OBVIOUS
  <2> HIDE DEF a, c
  <2>2. Parted(p, cut, a, c)
    BY <2>1, SumOfParts
  <2> QED
    BY <2>2 DEF Parted
<1> HIDE DEF a, c
<1>3. x \in Nat /\ Stands(r, x, n)
  BY <1>1, <1>2, FoldedSum
<1>4. y \in Nat /\ Stands(t, y, n)
  <2>1. Len(c) <= Octets
    BY <1>1, <1>2
  <2> QED
    BY <1>2, <2>1, FoldedSum
<1>5. z \in Nat /\ Stands(Folded(z), z, n)
  BY <1>1, FoldedSum
<1> HIDE DEF n, x, y, z, r, t
<1>6. r \in 0 .. n /\ t \in 0 .. n
  BY <1>3, <1>4 DEF Stands
<1> DEFINE added == IF cut % 2 = 1 THEN Swapped(t) ELSE t
           total == r + added
<1>7. PICK rest \in Nat : z = x + rest /\ Stands(added, rest, n)
  <2>1. PICK rest \in Nat :
           /\ z = x + rest
           /\ IF cut % 2 = 0 THEN rest = y
              ELSE /\ rest = 0 <=> y = 0
                   /\ \E q \in Int : Byte * y = rest + q * n
    BY <1>2
  <2>2. CASE cut % 2 = 0
    <3>1. rest = y /\ added = t
      BY <2>1, <2>2
    <3> QED
      BY <1>4, <2>1, <3>1
  <2>3. CASE cut % 2 # 0
    <3>1. cut % 2 = 1
      BY <1>1, <2>3
    <3>2. Swapped(t) \in 0 .. n /\ (Swapped(t) = 0 <=> t = 0)
      BY <1>6, SwappedIs DEF n
    <3>3. PICK s \in Int : Byte * t = Swapped(t) + s * n
      BY <1>6, SwappedIs DEF n
    <3>4. PICK q \in Int : Byte * y = rest + q * n
      BY <2>1, <2>3
    <3>5. PICK k \in Int : y = t + k * n
      BY <1>4 DEF Stands
    <3>6. rest = Swapped(t) + (s + Byte * k - q) * n /\ s + Byte * k - q \in Int
      <4> DEFINE w == Swapped(t)
      <4>1. w \in Int /\ t \in Int
        BY <1>1, <1>6, <3>2
      <4>2. Byte * y = Byte * t + (Byte * k) * n
        BY <1>1, <3>5, <4>1
      <4>3. (s + Byte * k - q) * n = s * n + (Byte * k) * n - q * n
        BY <1>1
      <4>4. s * n \in Int /\ (Byte * k) * n \in Int /\ q * n \in Int /\ Byte * t \in Int
        BY <1>1, <4>1
      <4> DEFINE sn == s * n
                 kn == (Byte * k) * n
                 qn == q * n
                 bt == Byte * t
                 by == Byte * y
                 all == (s + Byte * k - q) * n
      <4>5. bt = w + sn /\ by = rest + qn /\ by = bt + kn /\ all = sn + kn - qn
        BY <3>3, <3>4, <4>2, <4>3
      <4>6. w \in Int /\ sn \in Int /\ kn \in Int /\ qn \in Int /\ bt \in Int
        BY <4>1, <4>4
      <4> HIDE DEF w, sn, kn, qn, bt, by, all
      <4>7. rest = w + all
        BY <4>5, <4>6
      <4> QED
        BY <1>1, <4>7 DEF w, all
    <3>7. Swapped(t) = 0 <=> rest = 0
      BY <1>4, <2>1, <2>3, <3>2 DEF Stands
    <3>8. Stands(Swapped(t), rest, n)
      BY <3>2, <3>6, <3>7 DEF Stands
    <3> QED
      BY <2>1, <3>1, <3>8
  <2> QED
    BY <2>2, <2>3
<1> HIDE DEF added
<1> DEFINE whole == Wrapped(total, n)
<1>8. Stands(whole, z, n)
  <2>1. Stands(Wrapped(r + added, n), x + rest, n)
    BY <1>1, <1>3, <1>7, StandsSum
  <2> QED
    BY <1>7, <2>1
<1>9. Folded(z) = whole
  BY <1>1, <1>5, <1>8, StandsOne
<1>10. Complement(Complement(r)) = r /\ Complement(Complement(t)) = t
  BY <1>6, ComplementIs DEF n
<1>11. AddIpChecksums(cut, Complement(r), Complement(t)) = Complement(whole)
  BY <1>10 DEF AddIpChecksums, Wrapped, added, n
<1>12. /\ ComputeIpChecksum(a) = Complement(r) /\ ComputeIpChecksum(c) = Complement(t)
       /\ ComputeIpChecksum(p) = Complement(Folded(z))
  BY DEF ComputeIpChecksum, r, t, x, y, z
<1> QED
  BY <1>9, <1>11, <1>12 DEF a, c

\* What the checksum of a packet tells: 0, that the sum is a multiple of Word - 1; and
\* what ip_checksum_ok takes for good, that it is one or one less.
Multiple(x) == x # 0 /\ \E m \in Int : x = m * (Word - 1)
OneLess(x) == \E m \in Int : x + 1 = m * (Word - 1)

LEMMA OkIs ==
  ASSUME NEW p \in Seq(Bytes), Len(p) <= Octets
  PROVE  /\ IpChecksumOk(p) <=> Multiple(WordSum(p)) \/ OneLess(WordSum(p))
         /\ ComputeIpChecksum(p) = 0 <=> Multiple(WordSum(p))
<1> DEFINE n == Word - 1
           x == WordSum(p)
           r == Folded(x)
<1>1. x \in Nat /\ Stands(r, x, n)
  BY FoldedSum
<1>2. n \in Nat /\ n > 1
  BY WordIs
<1>3. IpChecksumOk(p) <=> n - r = 0 \/ n - r = 1
  BY DEF IpChecksumOk, ComputeIpChecksum, Complement
<1>13. ComputeIpChecksum(p) = 0 <=> n - r = 0
  BY DEF ComputeIpChecksum, Complement
<1>4. Multiple(x) <=> x # 0 /\ \E m \in Int : x = m * n
  BY DEF Multiple
<1>5. OneLess(x) <=> \E m \in Int : x + 1 = m * n
  BY DEF OneLess
<1> HIDE DEF n, x, r
<1>6. r \in 0 .. n /\ (r = 0 <=> x = 0)
  BY <1>1 DEF Stands
<1>7. PICK q \in Int : x = r + q * n
  BY <1>1 DEF Stands
<1>8. ASSUME r = n
      PROVE  Multiple(x)
  <2>1. x = (q + 1) * n /\ q + 1 \in Int /\ x # 0
    BY <1>2, <1>6, <1>7, <1>8
  <2> QED
    BY <1>4, <2>1
<1>9. ASSUME r = n - 1
      PROVE  OneLess(x)
  <2>1. x + 1 = (q + 1) * n /\ q + 1 \in Int
    BY <1>2, <1>6, <1>7, <1>9
  <2> QED
    BY <1>5, <2>1
<1>10. ASSUME Multiple(x)
       PROVE  r = n
  <2>1. PICK m \in Int : x = m * n
    BY <1>4, <1>10
  <2>2. r - 0 = (m - q) * n /\ x # 0 /\ r # 0
    BY <1>2, <1>4, <1>6, <1>7, <1>10, <2>1
  <2>3. CASE r < n
    <3>1. -n < (m - q) * n /\ (m - q) * n < n /\ n \in Nat \ {0} /\ m - q \in Int
      BY <1>2, <1>6, <2>2, <2>3
    <3>2. m - q = 0
      BY <3>1, SmallMultiple
    <3>3. (m - q) * n = 0
      BY <1>2, <3>2
    <3> QED
      BY <1>6, <2>2, <3>3
  <2> QED
    BY <1>2, <1>6, <2>3
<1>11. ASSUME OneLess(x)
       PROVE  r = n - 1
  <2>1. PICK m \in Int : x + 1 = m * n
    BY <1>5, <1>11
  <2>2. r - (n - 1) = (m - q - 1) * n
    BY <1>2, <1>6, <1>7, <2>1
  <2>3. CASE r = n
    <3>1. -n < (m - q - 1) * n /\ (m - q - 1) * n < n /\ n \in Nat \ {0} /\ m - q - 1 \in Int
      BY <1>2, <2>2, <2>3
    <3>2. m - q - 1 = 0
      BY <3>1, SmallMultiple
    <3> QED
      BY <1>2, <2>2, <2>3, <3>2
  <2>4. CASE r < n
    <3>1. -n < (m - q - 1) * n /\ (m - q - 1) * n < n /\ n \in Nat \ {0} /\ m - q - 1 \in Int
      BY <1>2, <1>6, <2>2, <2>4
    <3>2. m - q - 1 = 0
      BY <3>1, SmallMultiple
    <3> QED
      BY <1>2, <1>6, <2>2, <3>2
  <2> QED
    BY <1>2, <1>6, <2>3, <2>4
<1>12. n - r = 0 \/ n - r = 1 <=> r = n \/ r = n - 1
  BY <1>2, <1>6
<1>14. n - r = 0 <=> r = n
  BY <1>2, <1>6
<1> QED
  BY <1>3, <1>8, <1>9, <1>10, <1>11, <1>12, <1>13, <1>14 DEF x

-----------------------------------------------------------------------------
(* A packet on its way.                                                    *)

Packets == [1 .. Octets -> Bytes]

\* What damage leaves of s: one byte is another.
DamagedFrom(s, p) ==
  \E k \in 1 .. Octets, b \in Bytes : b # s[k] /\ p = [s EXCEPT ![k] = b]

CInv ==
  /\ packet \in Packets /\ stage \in {"built", "sent", "arrived"}
  /\ stage = "sent" => sent = packet /\ Multiple(WordSum(packet))
  /\ stage = "arrived" => sent \in Packets /\ Multiple(WordSum(sent)) /\ DamagedFrom(sent, packet)

LEMMA OctetsIs == Octets \in Nat /\ Field \in 1 .. Octets /\ Field + 1 \in 1 .. Octets
                  /\ Field % 2 = 1 /\ (Field + 1) % 2 # 1
<1>1. Octets \in Nat /\ Field \in Nat /\ Field % 2 = 1 /\ Field < Octets
  BY ChecksumAssumption
<1>2. Field # 0
  BY <1>1
<1>3. (Field + 1) % 2 # 1
  <2>1. 1 \in Nat /\ 1 % 2 = 1
    OBVIOUS
  <2> QED
    BY <1>1, <2>1, OddPlus
<1> QED
  BY <1>1, <1>2, <1>3

LEMMA InPackets ==
  ASSUME NEW p \in Packets
  PROVE  /\ p \in Seq(Bytes) /\ Len(p) = Octets /\ Len(p) <= Octets /\ DOMAIN p = 1 .. Octets
         /\ \A k \in 1 .. Octets : p[k] \in Bytes
BY OctetsIs, PacketIs DEF Packets

\* The checksum makes the sum a multiple of Word - 1.
LEMMA FillInStep ==
  ASSUME packet \in Packets, FillIn
  PROVE  packet' \in Packets /\ Multiple(WordSum(packet'))
<1> DEFINE zeroed == [packet EXCEPT ![Field] = 0]
           r == [zeroed EXCEPT ![Field + 1] = 0]
           sum == ComputeIpChecksum(r)
           low == sum % Byte
           high == sum \div Byte
           half == [r EXCEPT ![Field] = low]
           full == [half EXCEPT ![Field + 1] = high]
<1>1. zeroed \in Packets /\ r \in Packets
  BY OctetsIs, BytesIs DEF Packets
<1>2. r \in Seq(Bytes) /\ Len(r) = Octets /\ r[Field] = 0 /\ r[Field + 1] = 0
  <2>1. Field # Field + 1
    BY OctetsIs
  <2> QED
    BY <1>1, <2>1, OctetsIs, InPackets DEF Packets
<1>3. packet' = full
  <2>1. r = [packet EXCEPT ![Field] = 0, ![Field + 1] = 0]
    OBVIOUS
  <2>2. packet' = [packet EXCEPT ![Field] = low, ![Field + 1] = high]
    BY <2>1 DEF FillIn
  <2> HIDE DEF sum, low, high
  <2> QED
    BY <2>2, OctetsIs DEF Packets
<1> HIDE DEF zeroed, r
<1> DEFINE x == WordSum(r)
           n == Word - 1
<1>4. x \in Nat /\ Stands(Folded(x), x, n) /\ sum = n - Folded(x)
  <2>1. Len(r) <= Octets
    BY <1>2, OctetsIs
  <2> QED
    BY <1>2, <2>1, FoldedSum DEF ComputeIpChecksum, Complement
<1> HIDE DEF sum, x, n
<1>5. Folded(x) \in 0 .. n /\ n \in Nat \ {0} /\ sum \in 0 .. n
  <2>1. Folded(x) \in 0 .. n /\ n \in Nat \ {0}
    BY <1>4, WordIs DEF Stands, n
  <2> QED
    BY <1>4, <2>1
<1>6. sum = Byte * high + low /\ high \in Nat /\ low \in 0 .. Byte - 1
  <2>1. sum \in Nat /\ Byte \in Nat \ {0}
    BY <1>5, WordIs
  <2> QED
    BY <2>1, NatParts
<1>7. high < Byte
  <2>1. sum \in Nat /\ sum < Byte * Byte
    BY <1>5, WordIs DEF n
  <2> QED
    BY <2>1, WordIs, DivSmall
<1>8. low \in Bytes /\ high \in Bytes
  BY <1>6, <1>7, WordIs DEF Bytes
<1> HIDE DEF low, high
<1>9. half \in Seq(Bytes) /\ Len(half) = Octets /\ WordSum(half) = x + (low - 0)
      /\ half[Field + 1] = 0
  <2>1. Field \in 1 .. Len(r) /\ Field % 2 = 1
    BY <1>2, OctetsIs
  <2>2. half[Field + 1] = 0
    <3>1. Field # Field + 1
      BY OctetsIs
    <3> QED
      BY <1>1, <1>2, <3>1 DEF Packets
  <2>3. half = [r EXCEPT ![Field] = low]
    OBVIOUS
  <2> DEFINE k == Field
  <2> HIDE DEF half, k
  <2>4. /\ half \in Seq(Bytes) /\ Len(half) = Len(r)
        /\ WordSum(half) = WordSum(r) + (IF k % 2 = 1 THEN low - r[k] ELSE Byte * (low - r[k]))
    <3>1. k \in 1 .. Len(r) /\ half = [r EXCEPT ![k] = low]
      BY <2>1, <2>3 DEF k
    <3>2. r \in Seq(Bytes) /\ low \in Bytes
      BY <1>2, <1>8
    <3> HIDE DEF r
    <3> QED
      BY ONLY <3>1, <3>2, SumOfChange
  <2> QED
    BY <1>2, <2>1, <2>2, <2>4 DEF x, k
<1>10. full \in Seq(Bytes) /\ Len(full) = Octets /\ WordSum(full) = WordSum(half) + Byte * (high - 0)
  <2>1. Field + 1 \in 1 .. Len(half) /\ (Field + 1) % 2 # 1
    BY <1>9, OctetsIs
  <2>2. full = [half EXCEPT ![Field + 1] = high]
    OBVIOUS
  <2> DEFINE k == Field + 1
  <2> HIDE DEF half, full, k
  <2>3. /\ full \in Seq(Bytes) /\ Len(full) = Len(half)
        /\ WordSum(full) = WordSum(half) + (IF k % 2 = 1 THEN high - half[k] ELSE Byte * (high - half[k]))
    <3>1. k \in 1 .. Len(half) /\ full = [half EXCEPT ![k] = high]
      BY <2>1, <2>2 DEF k
    <3> QED
      BY <1>8, <1>9, <3>1, SumOfChange
  <2> QED
    BY <1>9, <2>1, <2>3 DEF k
<1>11. WordSum(full) = x + sum
  <2>1. Byte * (high - 0) = Byte * high /\ Byte * high \in Int
    BY <1>6, WordIs
  <2> HIDE DEF half, full
  <2> QED
    BY <1>4, <1>6, <1>9, <1>10, <2>1
<1>12. PICK q \in Int : x = Folded(x) + q * n
  BY <1>4 DEF Stands
<1>13. x + sum = (q + 1) * n /\ q + 1 \in Int /\ x + sum # 0
  <2> DEFINE f == Folded(x)
  <2>1. f \in 0 .. n /\ n \in Nat \ {0} /\ sum = n - f /\ x = f + q * n /\ x \in Nat
        /\ (f = 0 <=> x = 0)
    BY <1>4, <1>5, <1>12 DEF Stands
  <2> HIDE DEF f
  <2>2. (q + 1) * n = q * n + n /\ q * n \in Int
    BY <2>1
  <2> QED
    BY <2>1, <2>2
<1>14. full \in Packets
  BY <1>1, <1>8 DEF Packets
<1> QED
  BY <1>3, <1>11, <1>13, <1>14 DEF Multiple, n

\* One byte that is another: the checksum is not 0 any more, and ip_checksum_ok still
\* accepts only if the byte is the low one of its word and one lower.
LEMMA DamageFound ==
  ASSUME NEW s \in Packets, Multiple(WordSum(s)), NEW p, DamagedFrom(s, p)
  PROVE  /\ p \in Packets
         /\ ComputeIpChecksum(p) # 0
         /\ IpChecksumOk(p) <=> \E k \in DOMAIN s : k % 2 = 1 /\ p[k] = s[k] - 1
<1>1. PICK k \in 1 .. Octets, b \in Bytes : b # s[k] /\ p = [s EXCEPT ![k] = b]
  BY DEF DamagedFrom
<1>2. /\ p \in Packets /\ p \in Seq(Bytes) /\ Len(p) <= Octets /\ DOMAIN s = 1 .. Octets
      /\ \A j \in 1 .. Octets : p[j] = IF j = k THEN b ELSE s[j]
  <2>1. p \in Packets
    BY <1>1 DEF Packets
  <2> QED
    BY <1>1, <2>1, InPackets DEF Packets
<1> DEFINE n == Word - 1
           x == WordSum(s)
           c == b - s[k]
           d == IF k % 2 = 1 THEN c ELSE Byte * c
<1>3. x \in Nat /\ WordSum(p) = x + d
  <2>1. s \in Seq(Bytes) /\ k \in 1 .. Len(s) /\ Len(s) <= Octets
    BY InPackets
  <2> QED
    BY <1>1, <2>1, SumOfChange, FoldedSum
<1>4. n \in Nat /\ n = Byte * Byte - 1 /\ Byte \in Nat /\ Byte > 2
  BY WordIs
<1>5. c \in Int /\ c # 0 /\ -Byte < c /\ c < Byte /\ s[k] \in Nat /\ b \in Nat
  <2>1. s[k] \in Bytes
    BY InPackets
  <2>2. s[k] \in Nat /\ s[k] <= Byte - 1 /\ b \in Nat /\ b <= Byte - 1 /\ b # s[k]
    BY <1>1, <2>1, BytesIs
  <2> QED
    BY <1>4, <2>2
<1>6. /\ IpChecksumOk(p) <=> Multiple(x + d) \/ OneLess(x + d)
      /\ ComputeIpChecksum(p) = 0 <=> Multiple(x + d)
  BY <1>2, <1>3, OkIs
<1>7. PICK m \in Int : x = m * n
  BY DEF Multiple
<1>8. x # 0
  BY DEF Multiple
<1> HIDE DEF n, x, c
<1>9. /\ d \in Int /\ d # 0 /\ -(n - 1) <= d /\ d < n - 1
      /\ d = -1 <=> k % 2 = 1 /\ c = -1
  <2>1. Byte * c \in Int /\ Byte * c <= Byte * (Byte - 1) /\ -(Byte * (Byte - 1)) <= Byte * c
        /\ (c >= 1 => Byte * c >= Byte) /\ (c <= -1 => Byte * c <= -Byte)
    BY <1>4, <1>5
  <2>2. Byte * (Byte - 1) = Byte * Byte - Byte /\ Byte * Byte \in Int /\ Byte * Byte >= 3 * Byte
    BY <1>4
  <2> DEFINE y == Byte * c
             z == Byte * Byte
  <2>3. /\ y \in Int /\ z \in Int /\ y <= z - Byte /\ -(z - Byte) <= y /\ z >= 3 * Byte
        /\ c >= 1 => y >= Byte
        /\ c <= -1 => y <= -Byte
        /\ n = z - 1
    BY <1>4, <2>1, <2>2
  <2>4. d = IF k % 2 = 1 THEN c ELSE y
    OBVIOUS
  <2> HIDE DEF y, z, d
  <2> QED
    BY <1>4, <1>5, <2>3, <2>4
<1> HIDE DEF d
<1>10. ~Multiple(x + d)
  <2> SUFFICES ASSUME Multiple(x + d) PROVE FALSE
    OBVIOUS
  <2>1. PICK q \in Int : x + d = q * n
    BY DEF Multiple, n
  <2>2. d = (q - m) * n
    BY <1>3, <1>4, <1>7, <1>9, <2>1
  <2>3. q - m \in Int /\ n \in Nat \ {0} /\ -n < d /\ d < n
    BY <1>4, <1>9
  <2>4. q - m = 0
    BY <2>2, <2>3, SmallMultiple
  <2>5. (q - m) * n = 0
    BY <1>4, <2>4
  <2> QED
    BY <1>9, <2>2, <2>5
<1>11. OneLess(x + d) <=> d = -1
  <2>1. ASSUME OneLess(x + d)
        PROVE  d = -1
    <3>1. PICK q \in Int : x + d + 1 = q * n
      BY <2>1 DEF OneLess, n
    <3>2. d + 1 = (q - m) * n
      BY <1>3, <1>4, <1>7, <1>9, <3>1
    <3>3. q - m \in Int /\ n \in Nat \ {0} /\ -n < d + 1 /\ d + 1 < n
      BY <1>4, <1>9
    <3>4. q - m = 0
      BY <3>2, <3>3, SmallMultiple
    <3>5. (q - m) * n = 0
      BY <1>4, <3>4
    <3> QED
      BY <1>9, <3>2, <3>5
  <2>2. ASSUME d = -1
        PROVE  OneLess(x + d)
    <3>1. (x + d) + 1 = m * n
      BY <1>3, <1>7, <2>2
    <3> QED
      BY <3>1 DEF OneLess, n
  <2> QED
    BY <2>1, <2>2
<1>12. (\E j \in DOMAIN s : j % 2 = 1 /\ p[j] = s[j] - 1) <=> k % 2 = 1 /\ c = -1
  <2>1. \A j \in 1 .. Octets : j # k => p[j] = s[j] /\ s[j] \in Nat
    BY <1>2, BytesIs, InPackets
  <2>2. p[k] = b /\ (b = s[k] - 1 <=> c = -1)
    BY <1>2, <1>5 DEF c
  <2>3. \A j \in 1 .. Octets : p[j] = s[j] - 1 => j = k
    BY <2>1
  <2> QED
    BY <1>2, <2>2, <2>3
<1> QED
  BY <1>2, <1>6, <1>9, <1>10, <1>11, <1>12

LEMMA CStep == CInv /\ [ChecksumNext]_checksumVars => CInv'
<1> SUFFICES ASSUME CInv, [ChecksumNext]_checksumVars PROVE CInv'
  OBVIOUS
<1>1. CASE FillIn
  <2>1. packet' \in Packets /\ Multiple(WordSum(packet'))
    BY <1>1, FillInStep DEF CInv
  <2> QED
    BY <1>1, <2>1 DEF CInv, FillIn
<1>2. CASE Damage
  <2>1. packet \in Packets /\ stage = "sent" /\ stage' = "arrived" /\ sent' = sent /\ sent = packet
        /\ Multiple(WordSum(packet))
    BY <1>2 DEF Damage, CInv
  <2>2. DamagedFrom(packet, packet')
    <3>1. DOMAIN packet = 1 .. Octets
      BY <2>1, InPackets
    <3> QED
      BY <1>2, <3>1 DEF Damage, DamagedFrom
  <2>3. packet' \in Packets
    BY <2>1, <2>2, DamageFound
  <2> QED
    BY <2>1, <2>2, <2>3 DEF CInv
<1>3. CASE UNCHANGED checksumVars
  BY <1>3 DEF CInv, checksumVars
<1> QED
  BY <1>1, <1>2, <1>3 DEF ChecksumNext

LEMMA CInvariant == ChecksumSpec => []CInv
<1>1. ChecksumInit => CInv
  BY DEF ChecksumInit, CInv, Packets
<1> QED
  BY <1>1, CStep, PTL DEF ChecksumSpec

\* compute_ip_checksum and add_ip_checksums, for packets of any content and of any length
\* up to 64 kbytes: of a packet as it was sent the checksum is 0, of one with a damaged
\* byte it is not, and the checksums of parts add up.
THEOREM ChecksumSoundCorrect == ChecksumSpec => []ChecksumSound
<1>1. CInv => ChecksumSound
  <2> SUFFICES ASSUME CInv PROVE ChecksumSound
    OBVIOUS
  <2>1. packet \in Packets /\ packet \in Seq(Bytes) /\ Len(packet) = Octets /\ Len(packet) <= Octets
    BY InPackets DEF CInv
  <2>2. stage = "sent" => ComputeIpChecksum(packet) = 0 /\ IpChecksumOk(packet)
    BY <2>1, OkIs DEF CInv
  <2>3. stage = "arrived" => ComputeIpChecksum(packet) # 0
    BY DamageFound DEF CInv
  <2> QED
    BY <2>1, <2>2, <2>3, PartsAddUp DEF ChecksumSound
<1> QED
  BY <1>1, CInvariant, PTL

\* Which damage ip_checksum_ok does not notice, although the checksum shows it: exactly
\* the low byte of a word that has become lower by one.
THEOREM DamageAccepted ==
  ChecksumSpec => [](stage = "arrived" =>
    (IpChecksumOk(packet) <=> \E k \in DOMAIN sent : k % 2 = 1 /\ packet[k] = sent[k] - 1))
<1> DEFINE Accepted ==
      stage = "arrived" =>
        (IpChecksumOk(packet) <=> \E k \in DOMAIN sent : k % 2 = 1 /\ packet[k] = sent[k] - 1)
<1>1. CInv => Accepted
  BY DamageFound DEF CInv
<1> QED
  BY <1>1, CInvariant, PTL
=============================================================================
