--------------------------- MODULE LZ4Primitives ---------------------------
(***************************************************************************)
(* The constants of folly/my_lz4.h and the byte-level helpers that both    *)
(* halves of the LZ4 codec in folly/my_lz4.cc are written with.            *)
(***************************************************************************)
EXTENDS Memory

-----------------------------------------------------------------------------
\* folly/my_lz4.h

LAST_LITERAL_SIZE == 5
MIN_MATCH == 4

SIZE_OF_SHORT == 2
SIZE_OF_INT == 4
SIZE_OF_LONG == 8

MATCH_FIND_LIMIT == SIZE_OF_LONG + MIN_MATCH
MIN_LENGTH == MATCH_FIND_LIMIT + 1

ML_MASK == 15
RUN_MASK == 15

\* What two bytes can hold is below this: (1 << 16).
OFFSET_RANGE == 65536

\* The number of failed probes between two lengthenings of the step
\* (1 << SKIP_TRIGGER).
SKIP_AFTER == 64

\* Seeded fault: room for a token, and not for what a length extension adds.
MaxCompressedLengthNoSlack(sourceLength) == sourceLength + sourceLength \div 255 + 1

MaxCompressedLength(sourceLength) == sourceLength + sourceLength \div 255 + 16

-----------------------------------------------------------------------------
\* The bitwise or of two bytes, nibble by nibble; w is the weight of a bit.
OrBit(a, b, w) == IF (a \div w) % 2 = 1 \/ (b \div w) % 2 = 1 THEN w ELSE 0
OrNibble(a, b) == OrBit(a, b, 1) + OrBit(a, b, 2) + OrBit(a, b, 4) + OrBit(a, b, 8)
BitOr(a, b) == 16 * OrNibble(a \div 16, b \div 16) + OrNibble(a % 16, b % 16)

-----------------------------------------------------------------------------
(***************************************************************************)
(* The bytes that encode a length.  Extension is what both encodeRunLength *)
(* and emitMatch write after a saturated nibble: 255 as often as it goes   *)
(* into the rest, then the remainder (0 included).                         *)
(***************************************************************************)
\* Seeded faults: the loop stops one too early on a multiple of 255 (> for >=);
\* it counts in signed bytes.
ExtensionStopsEarly(remaining) ==
  IF remaining > 0 /\ remaining % 255 = 0
    THEN [i \in 1 .. remaining \div 255 |-> 255]
    ELSE [i \in 1 .. remaining \div 255 + 1 |->
            IF i <= remaining \div 255 THEN 255 ELSE remaining % 255]
ExtensionSigned(remaining) ==
  [i \in 1 .. remaining \div 127 + 1 |->
     IF i <= remaining \div 127 THEN 127 ELSE remaining % 127]

Extension(remaining) ==
  [i \in 1 .. remaining \div 255 + 1 |->
     IF i <= remaining \div 255 THEN 255 ELSE remaining % 255]

\* The nibble of a token is in its upper half: << ML_BITS is * 16.
EncodeRunLength(length) ==
  IF length >= RUN_MASK
    THEN <<RUN_MASK * 16>> \o Extension(length - RUN_MASK)
    ELSE <<length * 16>>

\* The low nibble of the token of a match, and what follows its literals.
\* The offset is a short in emitMatch, and stored in two bytes.
MatchNibble(matchLength) == IF matchLength >= ML_MASK THEN ML_MASK ELSE matchLength
MatchBytes(offset, matchLength) ==
  LET short == offset % OFFSET_RANGE
  IN  <<short % 256, short \div 256>>
        \o (IF matchLength >= ML_MASK THEN Extension(matchLength - ML_MASK) ELSE <<>>)

=============================================================================
