---------------------------- MODULE PrestoHasher ----------------------------
(***************************************************************************)
(* presto::hash (velox_/presto_hasher.hpp): how hashes are combined, and   *)
(* the hash of one value.  Values are those of the module VeloxHasher.     *)
(***************************************************************************)
EXTENDS Words

XX == INSTANCE XXHash64Words

\* Seeded fault: a factor that is not odd.
combineHashBy32(hash, value) == Plus(Times(hash, Word(32, 8)), value)

combineHash(hash, value) == Plus(Times(hash, Word(31, 8)), value)

\* rotateLeft returns a signed long, of which only the bits are used.
rotateLeft(i, distance) == Rot(i, distance)

\* The factor is 64 bits wide, so a narrower value is widened with zeros.
hashInt(value) ==
  Times(rotateLeft(Times(ZeroExtended(value, 8), XX!Prime2), 31), XX!Prime1)

hashBlock(s) == XX!XXHash64OfBytes(s, 0)

\* ~SIGN_LONG_MASK of a word
WithoutSign(word) == [word EXCEPT ![8] = @ % 128]

hash_longs(rawLow, rawHigh) ==
  Xor(XX!XXHash64OfLong(rawLow), XX!XXHash64OfLong(WithoutSign(rawHigh)))

\* What the code calls lo is the upper half, and what it calls hi the lower.
hash_int128(u) == hash_longs(SubSeq(u, 9, 16), SubSeq(u, 1, 8))

\* Seeded fault: a narrow integer is widened with zeros from the start.
AsInt32Unsigned(v) == ZeroExtended(v.bytes, 4)

\* static_cast<int32_t> of an integer that is no wider.
AsInt32(v) ==
  IF v.type = "signed" THEN SignExtended(v.bytes, 4) ELSE ZeroExtended(v.bytes, 4)

integral_hasher(v) ==
  CASE Len(v.bytes) <= 4 -> hashInt(AsInt32(v))
    [] Len(v.bytes) = 8  -> hashInt(v.bytes)
    [] OTHER             -> hash_int128(v.bytes)

\* The specializations of hasher.  Floating-point numbers are hashed as the
\* unsigned integer that has their bits.
hasher(v) ==
  CASE v.type \in {"signed", "unsigned"} -> integral_hasher(v)
    [] v.type = "float"   -> integral_hasher([type |-> "unsigned", bytes |-> v.bytes])
    [] v.type = "bool"    -> IF v.bytes = <<1>> THEN Word(1231, 8) ELSE Word(1237, 8)
    [] v.type = "string"  -> hashBlock(v.bytes)
    [] v.type = "unknown" -> ZeroWord(8)
=============================================================================
