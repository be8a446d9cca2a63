----------------------------- MODULE VeloxHasher -----------------------------
(***************************************************************************)
(* velox::hash (velox_/velox_hasher.hpp): how hashes are combined, and the *)
(* hash of one value.  A value is a record of its type and its bytes, the  *)
(* lowest first; the types of the templates that matter are the classes    *)
(* "signed", "unsigned", "float", "bool", "string" and "pair", and the     *)
(* width is the number of bytes.                                           *)
(***************************************************************************)
EXTENDS Words

Spooky == INSTANCE SpookyHashWords

\* Seeded fault: the sum and the product are not in proportion any more.
commutativeHashMixUnbalanced(upper, lower) ==
  Plus(Plus(Word(3860031, 8), Times(Plus(upper, lower), Word(2777, 8))),
       ShiftLeft(Times(upper, lower), 1))

commutativeHashMix(upper, lower) ==
  Plus(Plus(Word(3860031, 8), Times(Plus(upper, lower), Word(2779, 8))),
       ShiftLeft(Times(upper, lower), 1))

kMul == <<\h69, \h2d, \h38, \heb, \h08, \hea, \hdf, \h9d>>

hash_128_to_64(upper, lower) ==
  LET a == XorShift(Times(Xor(lower, upper), kMul), 47)
      b == XorShift(Times(Xor(upper, a), kMul), 47)
  IN  Times(b, kMul)

\* The same code a second time.
hashMix(upper, lower) == hash_128_to_64(upper, lower)

jenkins_rev_mix32(key) ==
  LET a == Plus(key, ShiftLeft(key, 12))
      b == XorShift(a, 22)
      c == Plus(b, ShiftLeft(b, 4))
      d == XorShift(c, 9)
      e == Plus(d, ShiftLeft(d, 10))
      f == XorShift(e, 2)
      g == Plus(f, ShiftLeft(f, 7))
  IN  Plus(g, ShiftLeft(g, 12))

twang_mix64(key) ==
  LET a == Plus(Complement(key), ShiftLeft(key, 21))
      b == XorShift(a, 24)
      c == Plus(Plus(b, ShiftLeft(b, 3)), ShiftLeft(b, 8))
      d == XorShift(c, 14)
      e == Plus(Plus(d, ShiftLeft(d, 2)), ShiftLeft(d, 4))
      f == XorShift(e, 28)
  IN  Plus(f, ShiftLeft(f, 31))

\* static_cast<int32_t> of an integer that is no wider.
AsInt32(v) ==
  IF v.type = "signed" THEN SignExtended(v.bytes, 4) ELSE ZeroExtended(v.bytes, 4)

integral_hasher(v) ==
  CASE Len(v.bytes) <= 4 -> ZeroExtended(jenkins_rev_mix32(AsInt32(v)), 8)
    [] Len(v.bytes) = 8  -> twang_mix64(v.bytes)
    [] OTHER             -> hash_128_to_64(SubSeq(v.bytes, 9, 16), SubSeq(v.bytes, 1, 8))

\* f == F{}: all bits but the sign are zero.
IsZero(v) ==
  LET n == Len(v.bytes)
  IN  v.bytes[n] \in {0, 128} /\ \A i \in 1 .. n - 1 : v.bytes[i] = 0

float_hasher(v) ==
  IF IsZero(v) THEN ZeroWord(8) ELSE twang_mix64(ZeroExtended(v.bytes, 8))

\* The specialization of hasher for values that have no parts.
SimpleHash(v) ==
  CASE v.type \in {"signed", "unsigned"} -> integral_hasher(v)
    [] v.type = "float"  -> float_hasher(v)
    [] v.type = "bool"   -> IF v.bytes = <<1>> THEN Complement(ZeroWord(8)) ELSE ZeroWord(8)
    [] v.type = "string" -> Spooky!Hash64(v.bytes, 0)

hasher(v) ==
  IF v.type = "pair" THEN hash_128_to_64(SimpleHash(v.first), SimpleHash(v.second))
  ELSE SimpleHash(v)

nullHash == Word(1, 8)
=============================================================================
