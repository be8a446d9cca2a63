------------------------------ MODULE LZ4Block ------------------------------
(***************************************************************************)
(* The LZ4 block format, as an abstract specification of what the codec    *)
(* exchanges: which sequences of bytes encode which data.  It says nothing *)
(* of hash tables, of word-sized copies or of search; the compressor must  *)
(* produce such a block and the decompressor must invert it.               *)
(*                                                                         *)
(* A block is a series of sequences.  A sequence is a token, the extension *)
(* of its literal length, the literals, a two-byte offset, and the         *)
(* extension of its match length; the last sequence of a block stops after *)
(* its literals.                                                           *)
(***************************************************************************)
EXTENDS LZ4Primitives

\* Where the extension that starts at p ends: after the first byte below 255.
ExtensionEnd(block, p) ==
  IF \E q \in p .. Len(block) - 1 : At(block, q) # 255
    THEN 1 + CHOOSE q \in p .. Len(block) - 1 :
               /\ At(block, q) # 255
               /\ \A r \in p .. q - 1 : At(block, r) = 255
    ELSE Len(block) + 1

\* A length whose nibble is in the token, with its extension at p: the
\* length and the address after it.
LengthField(block, nibble, p) ==
  IF nibble < 15 THEN [length |-> nibble, next |-> p]
  ELSE LET end == ExtensionEnd(block, p)
       IN  [length |-> 15 + 255 * (end - 1 - p) + At(block, end - 1), next |-> end]

\* The parts of the sequence whose token is at p.
SequenceAt(block, p) ==
  LET token == At(block, p)
      lit   == LengthField(block, token \div 16, p + 1)
      end   == lit.next + lit.length
      match == LengthField(block, token % 16, end + 2)
  IN  [literals    |-> lit.length,
       literalsAt  |-> lit.next,
       literalsEnd |-> end,
       offset      |-> At(block, end) + 256 * At(block, end + 1),
       match       |-> 4 + match.length,
       next        |-> match.next]

SameBytes(a, i, b, j, n) == \A k \in 0 .. n - 1 : At(a, i + k) = At(b, j + k)

\* The sequence at x[1] describes data from x[2] on, and respects the rules for
\* the end of a block: a match never starts in the last 12 bytes of the data and
\* never reaches into the last 5.
Fits(block, limit, data, upto, x) ==
  LET s  == SequenceAt(block, x[1])
      at == x[2] + s.literals
  IN  /\ s.next \in x[1] + 1 .. limit
      /\ at + s.match <= upto
      /\ at <= Len(data) - 12
      /\ at + s.match <= Len(data) - 5
      /\ s.offset \in 1 .. at
      /\ SameBytes(block, s.literalsAt, data, x[2], s.literals)
      /\ SameBytes(data, at, data, at - s.offset, s.match)

\* Where the sequence at x[1] ends, in the block and in the data.
Behind(block, x) ==
  LET s == SequenceAt(block, x[1])
  IN  <<s.next, x[2] + s.literals + s.match>>

\* The bytes of block before limit are whole sequences that describe the first
\* upto bytes of data.
Describes(block, limit, data, upto) ==
  LET rest[x \in (0 .. limit) \X (0 .. upto)] ==
        IF x[1] = limit THEN x[2] = upto
        ELSE Fits(block, limit, data, upto, x) /\ rest[Behind(block, x)]
  IN  rest[<<0, 0>>]

\* The whole of block encodes the whole of data: sequences, then one that
\* has nothing but literals.
Encodes(block, data) ==
  \E p \in 0 .. Len(block) - 1 :
    LET s == SequenceAt(block, p)
        o == Len(data) - s.literals
    IN  /\ At(block, p) % 16 = 0
        /\ s.literalsEnd = Len(block)
        /\ o >= 0
        /\ SameBytes(block, s.literalsAt, data, o, s.literals)
        /\ Describes(block, p, data, o)

=============================================================================
