--------------------------- MODULE SpookyHashWords ---------------------------
(***************************************************************************)
(* The arithmetic of class SpookyHash (velox_/SpookyV2.h, SpookyV2.cpp):   *)
(* the 64-bit value of a digest.  Which bytes a digest is made of is said  *)
(* by the module SpookyHash.                                               *)
(***************************************************************************)
EXTENDS Words

S == INSTANCE SpookyHash
       WITH Seeds <- {0}, Fragments <- <<>>, Stale <- {},
            m_data <- <<>>, m_state <- 0, m_length <- 0, m_remainder <- 0,
            seed <- 0, message <- <<>>, digest <- 0

sc_const == <<\hef, \hbe, \had, \hde, \hef, \hbe, \had, \hde>>

WordAt(bytes, k) == SubSeq(bytes, 8 * k + 1, 8 * k + 8)

-----------------------------------------------------------------------------
\* A round of ShortMix: x = Rot64(x, k), x += y, z ^= x, where x, y and z are
\* words of h with these indices.
ShortMixRound(h, k, x, y, z) ==
  LET turned == Plus(Rot(h[x], k), h[y])
  IN  [h EXCEPT ![x] = turned, ![z] = Xor(@, turned)]
\* A round of ShortEnd: y ^= x, x = Rot64(x, k), y += x.
ShortEndRound(h, k, x, y) ==
  LET turned == Rot(h[x], k)
  IN  [h EXCEPT ![x] = turned, ![y] = Plus(Xor(@, h[x]), turned)]

\* Four words h0 .. h3; the rounds go around them, by the amounts given.
ShortMix(h) ==
  LET amounts == <<50, 52, 30, 41, 54, 48, 38, 37, 62, 34, 5, 36>>
      after[i \in 0 .. 12] ==
        IF i = 0 THEN h
        ELSE LET x == ((i + 1) % 4) + 1
             IN  ShortMixRound(after[i - 1], amounts[i], x, (x % 4) + 1, ((x + 1) % 4) + 1)
  IN  after[12]
ShortEnd(h) ==
  LET amounts == <<15, 52, 26, 51, 28, 9, 47, 54, 32, 25, 63>>
      after[i \in 0 .. 11] ==
        IF i = 0 THEN h
        ELSE LET x == ((i + 1) % 4) + 1
             IN  ShortEndRound(after[i - 1], amounts[i], x, (x % 4) + 1)
  IN  after[11]

\* A pair of words goes into c and d, and is mixed; the next into a and b.
TakePair(h, pairs, p) ==
  LET first == WordAt(pairs, 2 * p) second == WordAt(pairs, 2 * p + 1)
  IN  IF p % 2 = 0
        THEN ShortMix([h EXCEPT ![3] = Plus(@, first), ![4] = Plus(@, second)])
        ELSE [h EXCEPT ![1] = Plus(@, first), ![2] = Plus(@, second)]

\* The value of a digest of Short.
ShortValue(digest) ==
  LET s == Word(digest.words.seed, 8)
      after[p \in 0 .. Len(digest.pairs) \div 16] ==
        IF p = 0 THEN <<s, s, sc_const, sc_const>>
        ELSE TakePair(after[p - 1], digest.pairs, p - 1)
      mixed  == after[Len(digest.pairs) \div 16]
      length == ZeroWord(7) \o <<digest.length>>
      cd     == IF digest.length = Len(digest.pairs) THEN <<sc_const, sc_const>>
                ELSE <<SubSeq(digest.cd, 1, 8), SubSeq(digest.cd, 9, 15) \o <<0>>>>
  IN  ShortEnd([mixed EXCEPT ![3] = Plus(@, cd[1]),
                             ![4] = Plus(Plus(@, length), cd[2])])[1]
-----------------------------------------------------------------------------
\* Line i of Mix: of the twelve words, five take part.
MixLine(h, i, data, k) ==
  LET at(j) == ((i + j) % 12) + 1
      s0  == Plus(h[at(0)], data)
      s11 == Xor(h[at(11)], s0)
  IN  [h EXCEPT ![at(2)] = Xor(@, h[at(10)]), ![at(0)] = Rot(s0, k),
                ![at(11)] = Plus(s11, h[at(1)])]
Mix(h, block) ==
  LET amounts == <<11, 32, 43, 31, 17, 28, 39, 57, 55, 54, 22, 46>>
      after[i \in 0 .. 12] ==
        IF i = 0 THEN h
        ELSE MixLine(after[i - 1], i - 1, WordAt(block, i - 1), amounts[i])
  IN  after[12]

\* Line i of EndPartial.
EndLine(h, i, k) ==
  LET at(j) == ((i + j) % 12) + 1
      h11 == Plus(h[at(11)], h[at(1)])
  IN  [h EXCEPT ![at(11)] = h11, ![at(2)] = Xor(@, h11), ![at(1)] = Rot(@, k)]
EndPartial(h) ==
  LET amounts == <<44, 15, 34, 21, 38, 33, 10, 13, 38, 53, 42, 54>>
      after[i \in 0 .. 12] ==
        IF i = 0 THEN h ELSE EndLine(after[i - 1], i - 1, amounts[i])
  IN  after[12]
End(h, block) ==
  EndPartial(EndPartial(EndPartial([i \in 1 .. 12 |-> Plus(h[i], WordAt(block, i - 1))])))

\* The value of a digest that Mix was used for.
LongValue(digest) ==
  LET state == digest.words.head
      s     == Word(state.seed, 8)
      after[b \in 0 .. Len(state.mixed) \div 96] ==
        IF b = 0 THEN <<s, s, sc_const, s, s, sc_const, s, s, sc_const, s, s, sc_const>>
        ELSE Mix(after[b - 1], SubSeq(state.mixed, 96 * b - 95, 96 * b))
  IN  End(after[Len(state.mixed) \div 96], digest.last)[1]
-----------------------------------------------------------------------------
\* Hash64: both seeds of Hash128 are the one given, and of its two words the
\* first is returned.
Hash64(bytes, seed) ==
  LET digest == S!Hash128(seed, bytes)
  IN  IF "last" \in DOMAIN digest THEN LongValue(digest) ELSE ShortValue(digest)
\* Hash32: the lower half of it.
Hash32(bytes, seed) == Narrowed(Hash64(bytes, seed), 4)
=============================================================================
