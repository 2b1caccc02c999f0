------------------------------- MODULE Timer --------------------------------
(***************************************************************************)
(* misc/timer.c, the part of misc/time.c that is built, and their users: the *)
(* waits that net_loop, arp_timeout_check and geth_xmit time with get_timer, *)
(* and udelay.  The counter of the processor never wraps, but the           *)
(* milliseconds pass through an int on their way to the unsigned long of    *)
(* get_timer, whose difference is taken modulo the width of that.           *)
(***************************************************************************)
EXTENDS Integers

CONSTANTS
  TicksPerUs, UsPerMs,
  IntRange,             \* 2^32 and
  UlongRange,           \* 2^64 in the code
  WdPeriod,             \* CONFIG_WD_PERIOD
  Delays,               \* milliseconds or microseconds waited for
  Starts,               \* ticks at which a wait may begin
  Horizon               \* and at which the model ends

ASSUME TimerAssumption ==
  /\ {TicksPerUs, UsPerMs, IntRange, UlongRange, WdPeriod} \subseteq Nat \ {0}
  /\ IntRange % 2 = 0 /\ UlongRange % IntRange = 0 /\ IntRange < UlongRange
  /\ Delays \subseteq Nat /\ Starts \subseteq Nat /\ Horizon \in Nat

VARIABLES
  now,          \* rdtime
  wait,         \* the wait: its kind, "interval", "deadline" or "udelay", its first
                \* tick, its length, and what it has stored: time_start, tmo or t2
  left,         \* udelay: microseconds after the present __udelay
  ended         \* it is over

timerVars == <<now, wait, left, ended>>

TicksPerMs == TicksPerUs * UsPerMs
Ms(t) == t \div TicksPerMs

\* The value an int of that bit pattern has when it is made an unsigned long.
Signed(n) ==
  LET low == n % IntRange
  IN  IF low < IntRange \div 2 THEN low ELSE low + UlongRange - IntRange

\* The milliseconds as an unsigned int.
RuntimeTickUnsigned(t) == Ms(t) % IntRange

RuntimeTick(t) == Signed(Ms(t))

GetTimer(t, base) == (RuntimeTick(t) - base) % UlongRange

TimerInit ==
  /\ now \in Starts
  /\ wait = [kind |-> "none", start |-> now, length |-> 0, stored |-> 0]
  /\ left = 0 /\ ended = FALSE

Wait(kind, length, stored) ==
  /\ wait.kind = "none"
  /\ wait' = [kind |-> kind, start |-> now, length |-> length, stored |-> stored]

\* net_set_timeout_handler and ping_send store when they began.
Interval(ms) == Wait("interval", ms, GetTimer(now, 0)) /\ UNCHANGED <<now, left, ended>>

\* geth_xmit stores when it will give up, in an int.
Deadline(ms) == Wait("deadline", ms, Signed(GetTimer(now, 0) + ms)) /\ UNCHANGED <<now, left, ended>>

Chunk(us) == IF us > WdPeriod THEN WdPeriod ELSE us

Udelay(us) ==
  /\ Wait("udelay", us, now + Chunk(us) * TicksPerUs)
  /\ left' = us - Chunk(us)
  /\ UNCHANGED <<now, ended>>

Running(kind) == wait.kind = kind /\ ~ended

Expired ==
  CASE wait.kind = "interval" -> (GetTimer(now, 0) - wait.stored) % UlongRange > wait.length
    [] wait.kind = "deadline" -> GetTimer(now, 0) > wait.stored
    [] OTHER -> FALSE

Poll ==
  /\ Running("interval") \/ Running("deadline")
  /\ ended' = Expired
  /\ UNCHANGED <<now, wait, left>>

\* __udelay: out when the counter has passed t2; udelay goes on with the next piece.
UdelayPoll ==
  /\ Running("udelay") /\ now > wait.stored
  /\ IF left = 0 THEN ended' = TRUE /\ UNCHANGED <<wait, left>>
     ELSE /\ wait' = [wait EXCEPT !.stored = now + Chunk(left) * TicksPerUs]
          /\ left' = left - Chunk(left)
          /\ UNCHANGED ended
  /\ UNCHANGED now

\* n, not m, has a multiple of period at or below it.
Between(m, n, period) == m \div period # n \div period

Elapsed == Ms(now) - Ms(wait.start)

\* The time that passes between two polls, far less than half the range of an int.
Pass ==
  /\ now < Horizon /\ wait.kind # "none" /\ ~ended
  /\ Elapsed < IntRange \div 2 - 1
  /\ now' = now + 1
  /\ UNCHANGED <<wait, left, ended>>

TimerNext ==
  \/ \E d \in Delays : Interval(d) \/ Deadline(d) \/ Udelay(d)
  \/ Poll \/ UdelayPoll \/ Pass

TimerSpec == TimerInit /\ [][TimerNext]_timerVars

-----------------------------------------------------------------------------
\* Between the start and the end of a wait the milliseconds go through the largest int,
\* or (for the end that geth_xmit works out) from -1 to 0.
PastMaxInt == Between(Ms(wait.start) + IntRange \div 2, Ms(now) + IntRange \div 2, IntRange)
PastMinusOne == Between(Ms(wait.start), Ms(wait.start) + wait.length, IntRange)

\* A wait is timed out neither before nor after it has taken as long as it should: the
\* one net_loop measures, as long as the milliseconds do not become negative on the
\* way, and then it is only too short; the one of geth_xmit, as long as they do not
\* come back from there.  udelay waits for all of its time.
WaitsInTime ==
  /\ Running("interval") =>
       /\ Elapsed > wait.length => Expired
       /\ ~PastMaxInt => (Expired <=> Elapsed > wait.length)
  /\ Running("deadline") /\ ~PastMinusOne /\ ~Between(Ms(wait.start), Ms(now), IntRange) =>
       (Expired <=> Elapsed > wait.length)
  /\ wait.kind = "udelay" /\ ended => now - wait.start > wait.length * TicksPerUs
=============================================================================
