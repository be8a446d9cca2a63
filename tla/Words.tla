------------------------------- MODULE Words -------------------------------
(***************************************************************************)
(* Unsigned words of the width the C++ code gives them: sequences of       *)
(* bytes, the lowest first, as they lie in memory.  Arithmetic on words of *)
(* n bytes is modulo 2^(8 * n), and never leaves the integers of TLC.      *)
(***************************************************************************)
EXTENDS Integers, Sequences

Bits(x) == 8 * Len(x)

ZeroWord(n) == [i \in 1 .. n |-> 0]

\* The word with the given columns: what does not fit in one is carried on.
Carried(columns) ==
  LET carry[i \in 0 .. Len(columns)] ==
        IF i = 0 THEN [bytes |-> <<>>, over |-> 0]
        ELSE LET below  == carry[i - 1]
                 column == columns[i] + below.over
             IN  [bytes |-> Append(below.bytes, column % 256), over |-> column \div 256]
  IN  carry[Len(columns)].bytes

\* A number, at most one byte short of TLC's integers, as a word of n bytes.
Word(number, n) == Carried([i \in 1 .. n |-> IF i = 1 THEN number ELSE 0])

Plus(x, y) == Carried([i \in 1 .. Len(x) |-> x[i] + y[i]])

\* Column i of the product: all pairs of bytes whose places add up to it.
Column(x, y, i) ==
  LET sum[j \in 0 .. i] == IF j = 0 THEN 0 ELSE sum[j - 1] + x[j] * y[i + 1 - j]
  IN  sum[i]
Times(x, y) == Carried([i \in 1 .. Len(x) |-> Column(x, y, i)])

Complement(x) == [i \in 1 .. Len(x) |-> 255 - x[i]]
Minus(x, y) == Plus(Plus(x, Complement(y)), Word(1, Len(x)))

-----------------------------------------------------------------------------
XorBit(a, b, w)  == IF (a \div w) % 2 = (b \div w) % 2 THEN 0 ELSE w
XorNibble        ==
  [p \in (0 .. 15) \X (0 .. 15) |->
     XorBit(p[1], p[2], 1) + XorBit(p[1], p[2], 2) + XorBit(p[1], p[2], 4) + XorBit(p[1], p[2], 8)]
XorByte(a, b)    == 16 * XorNibble[<<a \div 16, b \div 16>>] + XorNibble[<<a % 16, b % 16>>]
Xor(x, y)        == [i \in 1 .. Len(x) |-> XorByte(x[i], y[i])]

Pow2 == <<1, 2, 4, 8, 16, 32, 64, 128>>

\* x << k and x >> k for k below the width.
ShiftLeft(x, k) ==
  LET low == k \div 8
      w   == Pow2[(k % 8) + 1]
      at(i) == IF i \in 1 .. Len(x) THEN x[i] ELSE 0
  IN  [i \in 1 .. Len(x) |-> ((at(i - low) * w) % 256) + ((at(i - low - 1) * w) \div 256)]
ShiftRight(x, k) ==
  LET low == k \div 8
      w   == 256 \div Pow2[(k % 8) + 1]
      at(i) == IF i \in 1 .. Len(x) THEN x[i] ELSE 0
  IN  [i \in 1 .. Len(x) |-> ((at(i + low) * w) \div 256) + ((at(i + low + 1) * w) % 256)]
\* The two halves share no bit.
Rot(x, k) == IF k = 0 THEN x ELSE Plus(ShiftLeft(x, k), ShiftRight(x, Bits(x) - k))

XorShift(x, k) == Xor(x, ShiftRight(x, k))

-----------------------------------------------------------------------------
\* Conversions: to fewer bytes, to more with zeros, to more with the sign.
Narrowed(x, n)     == SubSeq(x, 1, n)
ZeroExtended(x, n) == x \o ZeroWord(n - Len(x))
SignExtended(x, n) ==
  x \o [i \in 1 .. n - Len(x) |-> IF x[Len(x)] >= 128 THEN 255 ELSE 0]
=============================================================================
