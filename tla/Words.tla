------------------------------- MODULE Words -------------------------------
(***************************************************************************)
(* Machine words of one, two and four bytes, in two's complement. The size *)
(* of a byte is a parameter, so that a small one shows every overflow; the *)
(* code's bytes have 2^8 values.                                           *)
(***************************************************************************)
EXTENDS Integers

CONSTANT ByteSize       \* the number of values of a byte

ASSUME ByteSizeAssumption == ByteSize \in Nat \ {0} /\ ByteSize % 2 = 0

\* The number of values of so many bytes.
Power(bytes) == ByteSize ^ bytes

HalfSize == Power(2)
WordSize == Power(4)

ByteValue == 0 .. ByteSize - 1
Word == 0 .. WordSize - 1

Wrap(n) == n % WordSize

\* The number a word stands for.
Signed(x) == IF x < WordSize \div 2 THEN x ELSE x - WordSize

\* The word whose bits all equal the sign of x.
SignWord(x) == IF Signed(x) < 0 THEN WordSize - 1 ELSE 0

Magnitude(n) == IF n < 0 THEN -n ELSE n

\* Division as the machine and the language do it: towards zero.
Truncated(n, d) ==
    LET q == Magnitude(n) \div Magnitude(d)
    IN  IF (n < 0) = (d < 0) THEN q ELSE -q

Bit(b) == IF b THEN 1 ELSE 0

Compare(op, m, n) ==
    CASE op = "gt" -> m > n
      [] op = "ge" -> m >= n
      [] op = "lt" -> m < n
      [] op = "le" -> m <= n
      [] op = "equ" -> m = n
      [] op = "ne" -> m # n
=============================================================================
