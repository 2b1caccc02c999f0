------------------------------ MODULE Decimal -------------------------------
(***************************************************************************)
(* The decimal conversion of misc/vsnprintf.c, by which every number that is *)
(* printed, and every address ip_to_string writes, gets its digits without  *)
(* dividing by ten.  Digits are a sequence, the last one first, as in the    *)
(* buffer of number.                                                       *)
(***************************************************************************)
EXTENDS Integers, Sequences

\* x / 10, by a multiplication and a shift.
Tenth(x) == (x * 205) \div 2048
SmallTenth(x) == (x * 13) \div 128

\* What is kept of q while its digits come out: the nibbles above the lowest, the sum
\* each digit is taken from, and the carry into the next.
Steps(q) ==
  LET d1 == (q \div 16) % 16
      d2 == (q \div 256) % 16
      d3 == q \div 4096
      s0 == 6 * (d3 + d2 + d1) + (q % 16)
      s1 == Tenth(s0) + 9 * d3 + 5 * d2 + d1
      s2 == Tenth(s1) + 2 * d2
      s3 == SmallTenth(s2) + 4 * d3
  IN  [d3 |-> d3, s0 |-> s0, s1 |-> s1, s2 |-> s2, s3 |-> s3]

PutDecFull(q) ==
  LET s == Steps(q)
  IN  << s.s0 - 10 * Tenth(s.s0), s.s1 - 10 * Tenth(s.s1), s.s2 - 10 * SmallTenth(s.s2),
         s.s3 - 10 * Tenth(s.s3), Tenth(s.s3) >>

PutDecTrunc(q) ==
  LET s == Steps(q)
      digits == CASE s.s1 = 0 -> 1
                  [] s.s1 # 0 /\ s.s2 = 0 /\ s.d3 = 0 -> 2
                  [] s.s1 # 0 /\ (s.s2 # 0 \/ s.d3 # 0) /\ s.s3 = 0 -> 3
                  [] OTHER -> IF Tenth(s.s3) = 0 THEN 4 ELSE 5
  IN  SubSeq(PutDecFull(q), 1, digits)

\* Five digits at a time.
FiveDigits == 100 * 1000

PutDec[num \in Nat] ==
  IF num < FiveDigits THEN PutDecTrunc(num)
  ELSE PutDecFull(num % FiveDigits) \o PutDec[num \div FiveDigits]

\* The number that digits stand for.
NumberOf(digits) ==
  LET upto[k \in 0 .. Len(digits)] ==
        IF k = 0 THEN 0 ELSE 10 * upto[k - 1] + digits[Len(digits) + 1 - k]
  IN  upto[Len(digits)]

\* The digits printed for num stand for it, and there are no leading zeros.
DigitsRight(num) ==
  LET digits == PutDec[num]
  IN  /\ NumberOf(digits) = num
      /\ num # 0 => digits[Len(digits)] # 0
=============================================================================
