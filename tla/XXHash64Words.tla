---------------------------- MODULE XXHash64Words ----------------------------
(***************************************************************************)
(* The arithmetic of class XXHash64 (velox_/xxhash64.h): the 64-bit value  *)
(* of a digest.  Which bytes a digest is made of, and how a message is cut *)
(* into blocks and a tail, is said by the module XXHash64.                 *)
(***************************************************************************)
EXTENDS Words

X == INSTANCE XXHash64
       WITH Seeds <- {0}, Fragments <- <<>>, Garbage <- {ZeroWord(32)},
            hasher <- 0, seed <- 0, message <- <<>>, digest <- 0

Prime1 == <<\h87, \hca, \heb, \h85, \hb1, \h79, \h37, \h9e>>
Prime2 == <<\h4f, \heb, \hd4, \h27, \h3d, \hae, \hb2, \hc2>>
Prime3 == <<\hf9, \h79, \h37, \h9e, \hb1, \h67, \h56, \h16>>
Prime4 == <<\h63, \hae, \hb2, \hc2, \h77, \hca, \heb, \h85>>
Prime5 == <<\hc5, \h67, \h56, \h16, \h2f, \heb, \hd4, \h27>>

processSingle(previous, input) ==
  Times(Rot(Plus(previous, Times(input, Prime2)), 31), Prime1)

mix(current, value) == processSingle(current, value)

\* The constructor's state[0] to state[3].
StartOf(seed) ==
  LET s == Word(seed, 8)
  IN  <<Plus(Plus(s, Prime1), Prime2), Plus(s, Prime2), s, Minus(s, Prime1)>>

\* The same four words after process() on the blocks; each takes one word of
\* each block.
Lane(start, j, blocks) ==
  LET after[k \in 0 .. Len(blocks) \div 32] ==
        IF k = 0 THEN start
        ELSE processSingle(after[k - 1],
                           SubSeq(blocks, 32 * (k - 1) + 8 * j - 7, 32 * (k - 1) + 8 * j))
  IN  after[Len(blocks) \div 32]
Lanes(state) == [j \in 1 .. 4 |-> Lane(StartOf(state.seed)[j], j, state.processed)]

Fold(result, lane) ==
  Plus(Times(Xor(result, processSingle(ZeroWord(8), lane)), Prime1), Prime4)

\* 256 bits of state as one value.
Folded(lanes) ==
  LET sum == Plus(Plus(Rot(lanes[1], 1), Rot(lanes[2], 7)),
                  Plus(Rot(lanes[3], 12), Rot(lanes[4], 18)))
  IN  Fold(Fold(Fold(Fold(sum, lanes[1]), lanes[2]), lanes[3]), lanes[4])

updateTail(result, word) ==
  Plus(Times(Rot(Xor(result, mix(ZeroWord(8), word)), 27), Prime1), Prime4)
EatInt(result, word) ==
  Plus(Times(Rot(Xor(result, Times(ZeroExtended(word, 8), Prime1)), 23), Prime2), Prime3)
EatByte(result, byte) ==
  Times(Rot(Xor(result, Times(Word(byte, 8), Prime5)), 11), Prime1)

\* The last loops of hash().
Eaten(result, tail) ==
  LET eights[k \in 0 .. Len(tail.eights)] ==
        IF k = 0 THEN result ELSE updateTail(eights[k - 1], tail.eights[k])
      fours[k \in 0 .. Len(tail.fours)] ==
        IF k = 0 THEN eights[Len(tail.eights)] ELSE EatInt(fours[k - 1], tail.fours[k])
      ones[k \in 0 .. Len(tail.ones)] ==
        IF k = 0 THEN fours[Len(tail.fours)] ELSE EatByte(ones[k - 1], tail.ones[k])
  IN  ones[Len(tail.ones)]

finalShuffle(result) ==
  XorShift(Times(XorShift(Times(XorShift(result, 33), Prime2), 29), Prime3), 32)

\* hash(): the value of a digest.  One that is not folded starts from state[2].
ValueOf(digest) ==
  LET lanes == Lanes(digest.state)
      start == IF digest.folded THEN Folded(lanes) ELSE Plus(lanes[3], Prime5)
  IN  finalShuffle(Eaten(Plus(start, Word(digest.length, 8)), digest.tail))

\* hash(input, length, seed) and hash(long value).
XXHash64OfBytes(bytes, seed) == ValueOf(X!OneShot(seed, bytes))
XXHash64OfLong(word) == ValueOf(X!HashLong(word))
=============================================================================
