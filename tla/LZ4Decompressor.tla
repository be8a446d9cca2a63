-------------------------- MODULE LZ4Decompressor --------------------------
(***************************************************************************)
(* my::lz4::decompressor::decompress (folly/my_lz4.cc): one call, from a   *)
(* block and the size of the output buffer to a result or an exception,    *)
(* one action per iteration of its loops.  inputAddress and outputAddress  *)
(* are 0, as both callers pass.                                            *)
(***************************************************************************)
EXTENDS LZ4Block

CONSTANTS
  Calls,   \* records [block, data, limit]: a block, what it encodes, and the
           \* size the caller believes the data to have
  Stale    \* what the output buffer holds before the call

\* The block of a call encodes its data, or is damaged and encodes nothing.
Damaged == <<NoByte>>

ASSUME DecompressorAssumption ==
  /\ \A c \in Calls : /\ c.block \in Seq(Byte)
                      /\ c.limit \in Nat
                      /\ c.data # Damaged =>
                           c.data \in Seq(Byte) /\ Encodes(c.block, c.data)
  /\ Stale \in Byte

VARIABLES
  pc,
  call,                             \* the arguments
  input, output,                    \* the cursors
  token, literalLength, index,      \* the sequence and its literals
  offset, matchAddress, matchLength, matchOutputLimit,
  outputBase,
  readEnd, writeEnd,                \* end of the furthest access
  result

sequence == <<token, literalLength, index>>
match    == <<offset, matchAddress, matchLength, matchOutputLimit>>
memory   == <<outputBase, readEnd, writeEnd>>
vars == <<pc, call, input, output, sequence, match, memory, result>>

inputBase   == call.block
inputLimit  == Len(call.block)
outputLimit == call.limit

fastOutputLimit == outputLimit - SIZE_OF_LONG

Init ==
  /\ pc = "start"
  /\ call \in Calls
  /\ input = 0 /\ output = 0
  /\ token = 0 /\ literalLength = 0 /\ index = 0
  /\ offset = 0 /\ matchAddress = 0 /\ matchLength = 0 /\ matchOutputLimit = 0
  /\ outputBase = [i \in 1 .. call.limit |-> Stale]
  /\ readEnd = 0 /\ writeEnd = 0
  /\ result = 0

Return(n) == pc' = "done" /\ result' = n
Fail == pc' = "thrown" /\ UNCHANGED result
Continue(label) == pc' = label /\ UNCHANGED result

ReadByte == readEnd' = Reach(readEnd, input, 1)

-----------------------------------------------------------------------------
\* The entry of decompress

EmptyInput ==
  /\ pc = "start"
  /\ inputLimit = 0
  /\ Fail
  /\ UNCHANGED <<call, input, output, sequence, match, memory>>

\* Seeded fault: any block decodes to an empty output.
EmptyOutputAlways ==
  /\ pc = "start"
  /\ inputLimit # 0
  /\ outputLimit = 0
  /\ Return(0)
  /\ UNCHANGED <<call, input, output, sequence, match, memory>>

EmptyOutput ==
  /\ pc = "start"
  /\ inputLimit # 0
  /\ outputLimit = 0
  /\ Return(IF inputBase = <<0>> THEN 0 ELSE -1)
  /\ UNCHANGED <<call, input, output, sequence, match, memory>>

Begin ==
  /\ pc = "start"
  /\ inputLimit # 0
  /\ outputLimit # 0
  /\ Continue("token")
  /\ UNCHANGED <<call, input, output, sequence, match, memory>>

-----------------------------------------------------------------------------
\* The literals of a sequence

\* The loop is left from its body only, see TokenLeft.
ReadToken ==
  /\ pc = "token"
  /\ input < inputLimit
  /\ token' = At(inputBase, input)
  /\ literalLength' = token' \div 16
  /\ index' = 0
  /\ input' = input + 1
  /\ ReadByte
  /\ Continue(IF literalLength' = RUN_MASK THEN "literalLength" ELSE "literals")
  /\ UNCHANGED <<call, output, match, outputBase, writeEnd>>

LiteralLengthByte ==
  /\ pc = "literalLength"
  /\ input' = input + 1
  /\ LET value == At(inputBase, input)
     IN  /\ literalLength' = literalLength + value
         /\ Continue(IF value = 255 /\ input' < inputLimit - 15
                       THEN "literalLength" ELSE "literals")
  /\ ReadByte
  /\ UNCHANGED <<call, output, token, index, match, outputBase, writeEnd>>

\* Seeded fault: the cursor is not taken back after the last word.
literalEndOvercopied == input + literalLength

\* Both cursors when the literals are copied; index bytes of them already are.
literalEnd         == input - index + literalLength
literalOutputLimit == output - index + literalLength

\* Seeded fault: only the exact length of the literals has to fit the output.
LastLiteralsNoMargin ==
  \/ literalOutputLimit > outputLimit
  \/ literalEnd > inputLimit - (2 + 1 + LAST_LITERAL_SIZE)

\* Too close to the end of a buffer for a word-sized copy: the last literals.
LastLiterals ==
  \/ literalOutputLimit > fastOutputLimit - MIN_MATCH
  \/ literalEnd > inputLimit - (2 + 1 + LAST_LITERAL_SIZE)

RejectLastLiterals ==
  /\ pc = "literals"
  /\ LastLiterals
  /\ literalOutputLimit > outputLimit \/ literalEnd # inputLimit
  /\ Fail
  /\ UNCHANGED <<call, input, output, sequence, match, memory>>

CopyLastLiterals ==
  /\ pc = "literals"
  /\ LastLiterals
  /\ literalOutputLimit <= outputLimit
  /\ literalEnd = inputLimit
  /\ outputBase' = Store(outputBase, output, Load(inputBase, input, literalLength))
  /\ readEnd' = Reach(readEnd, input, literalLength)
  /\ writeEnd' = Reach(writeEnd, output, literalLength)
  /\ output' = literalOutputLimit
  /\ Return(literalOutputLimit)
  /\ UNCHANGED <<call, input, sequence, match>>

\* One word of the fast copy, which goes on while index < literalLength and
\* then takes the cursors back to the end of the literals.
CopyLiteralWord ==
  /\ \/ pc = "literals" /\ ~LastLiterals
     \/ pc = "literalWords"
  /\ outputBase' = Store(outputBase, output, Load(inputBase, input, SIZE_OF_LONG))
  /\ readEnd' = Reach(readEnd, input, SIZE_OF_LONG)
  /\ writeEnd' = Reach(writeEnd, output, SIZE_OF_LONG)
  /\ index' = index + SIZE_OF_LONG
  /\ IF index' < literalLength
       THEN /\ input' = input + SIZE_OF_LONG
            /\ output' = output + SIZE_OF_LONG
            /\ Continue("literalWords")
       ELSE /\ input' = literalEnd
            /\ output' = literalOutputLimit
            /\ Continue("offset")
  /\ UNCHANGED <<call, token, literalLength, match>>

-----------------------------------------------------------------------------
\* The offset and the length of the match

offsetAtInput == At(inputBase, input) + 256 * At(inputBase, input + 1)
nibble == token % 16

ReadOffset ==
  /\ pc = "offset"
  /\ offset' = offsetAtInput
  /\ readEnd' = Reach(readEnd, input, SIZE_OF_SHORT)
  /\ input' = input + SIZE_OF_SHORT
  /\ matchAddress' = output - offset'
  /\ \/ /\ matchAddress' < 0
        /\ Fail
        /\ UNCHANGED matchLength
     \/ /\ matchAddress' >= 0
        /\ nibble = ML_MASK
        /\ matchLength' = ML_MASK
        /\ Continue("matchLength")
     \/ /\ matchAddress' >= 0
        /\ nibble # ML_MASK
        /\ matchLength' = nibble + MIN_MATCH
        /\ Continue("match")
  /\ UNCHANGED <<call, output, sequence, matchOutputLimit, outputBase, writeEnd>>

\* Seeded fault: the bytes that must follow a match are forgotten.
MatchLengthCutOffAtEnd == input >= inputLimit

MatchLengthCutOff == input > inputLimit - LAST_LITERAL_SIZE

RejectMatchLength ==
  /\ pc = "matchLength"
  /\ MatchLengthCutOff
  /\ Fail
  /\ UNCHANGED <<call, input, output, sequence, match, memory>>

MatchLengthByte ==
  /\ pc = "matchLength"
  /\ ~MatchLengthCutOff
  /\ LET value == At(inputBase, input)
     IN  IF value = 255
           THEN /\ matchLength' = matchLength + value
                /\ Continue("matchLength")
           ELSE /\ matchLength' = matchLength + value + MIN_MATCH
                /\ Continue("match")
  /\ input' = input + 1
  /\ ReadByte
  /\ UNCHANGED <<call, output, sequence, offset, matchAddress, matchOutputLimit,
                 outputBase, writeEnd>>

-----------------------------------------------------------------------------
\* Copying the match

\* k bytes loaded at from and then stored at to, within the output.
Copy(buffer, to, from, k) == Store(buffer, to, Load(buffer, from, k))

\* Seeded faults: the source is not moved back for small offsets.
DEC_32_TABLE_Constant == <<4, 4, 4, 4, 4, 4, 4, 4>>
DEC_64_TABLE_Zero == <<0, 0, 0, 0, 0, 0, 0, 0>>

DEC_32_TABLE == <<4, 1, 2, 1, 4, 4, 4, 4>>
DEC_64_TABLE == <<0, 0, 0, -1, 0, 1, 2, 3>>

\* A match too near the end of the output is copied with more care; one that
\* reaches into the last five bytes is refused, but only after its first eight
\* bytes were written.
NearEnd(limit) == limit > fastOutputLimit - MIN_MATCH

\* Seeded fault: >= for >, a match right before the last literals is refused.
AfterFirstWordStrict(limit) ==
  IF NearEnd(limit) /\ limit >= outputLimit - LAST_LITERAL_SIZE
    THEN Fail
    ELSE Continue(IF NearEnd(limit) THEN "carefulCopy" ELSE "matchWords")

AfterFirstWord(limit) ==
  IF NearEnd(limit) /\ limit > outputLimit - LAST_LITERAL_SIZE
    THEN Fail
    ELSE Continue(IF NearEnd(limit) THEN "carefulCopy" ELSE "matchWords")

WordStart ==
  /\ pc = "match"
  /\ offset >= SIZE_OF_LONG
  /\ outputBase' = Copy(outputBase, output, matchAddress, SIZE_OF_LONG)
  /\ writeEnd' = Reach(writeEnd, output, SIZE_OF_LONG)
  /\ matchAddress' = matchAddress + SIZE_OF_LONG
  /\ output' = output + SIZE_OF_LONG
  /\ matchOutputLimit' = output + matchLength
  /\ AfterFirstWord(output + matchLength)
  /\ UNCHANGED <<call, input, sequence, offset, matchLength, readEnd>>

\* A match that overlaps its own output by less than a word.  The first four
\* bytes are copied one by one: at the offset and beyond it reads bytes that
\* were just written.
OverlapStart ==
  /\ pc = "match"
  /\ offset < SIZE_OF_LONG
  /\ LET first[k \in 0 .. 3] == IF offset = 0 \/ k < offset
                                  THEN At(outputBase, matchAddress + k)
                                  ELSE first[k - offset]
     IN  outputBase' = Store(outputBase, output, [k \in 1 .. SIZE_OF_INT |-> first[k - 1]])
  /\ writeEnd' = Reach(writeEnd, output, SIZE_OF_INT)
  /\ matchAddress' = matchAddress + DEC_32_TABLE[offset + 1]
  /\ output' = output + SIZE_OF_INT
  /\ matchOutputLimit' = output + matchLength
  /\ Continue("overlap")
  /\ UNCHANGED <<call, input, sequence, offset, matchLength, readEnd>>

\* The tables have moved the source back by whole offsets, so far that from
\* here on words are copied.
OverlapWord ==
  /\ pc = "overlap"
  /\ outputBase' = Copy(outputBase, output, matchAddress, SIZE_OF_INT)
  /\ writeEnd' = Reach(writeEnd, output, SIZE_OF_INT)
  /\ matchAddress' = matchAddress - DEC_64_TABLE[offset + 1]
  /\ output' = output + SIZE_OF_INT
  /\ AfterFirstWord(matchOutputLimit)
  /\ UNCHANGED <<call, input, sequence, offset, matchLength, matchOutputLimit, readEnd>>

\* One word of a match that ends well before the output does: at least one,
\* even if the first eight bytes were all of the match.
CopyMatchWord ==
  /\ pc = "matchWords"
  /\ outputBase' = Copy(outputBase, output, matchAddress, SIZE_OF_LONG)
  /\ writeEnd' = Reach(writeEnd, output, SIZE_OF_LONG)
  /\ matchAddress' = matchAddress + SIZE_OF_LONG
  /\ IF output + SIZE_OF_LONG < matchOutputLimit
       THEN /\ output' = output + SIZE_OF_LONG
            /\ Continue("matchWords")
       ELSE /\ output' = matchOutputLimit
            /\ Continue("token")
  /\ UNCHANGED <<call, input, sequence, offset, matchLength, matchOutputLimit, readEnd>>

\* Near the end: whole words while they fit, single bytes up to the end of
\* the match, and the cursor back if the words went beyond it.
CarefulWord ==
  /\ pc = "carefulCopy"
  /\ output < fastOutputLimit
  /\ outputBase' = Copy(outputBase, output, matchAddress, SIZE_OF_LONG)
  /\ writeEnd' = Reach(writeEnd, output, SIZE_OF_LONG)
  /\ matchAddress' = matchAddress + SIZE_OF_LONG
  /\ output' = output + SIZE_OF_LONG
  /\ UNCHANGED <<pc, call, input, sequence, offset, matchLength, matchOutputLimit,
                 readEnd, result>>

\* Seeded fault: the loop does not advance the output.
CarefulByteStuck ==
  /\ pc = "carefulCopy"
  /\ output >= fastOutputLimit
  /\ output < matchOutputLimit
  /\ outputBase' = Copy(outputBase, output, matchAddress, 1)
  /\ writeEnd' = Reach(writeEnd, output, 1)
  /\ UNCHANGED <<pc, call, input, output, sequence, match, readEnd, result>>

CarefulByte ==
  /\ pc = "carefulCopy"
  /\ output >= fastOutputLimit
  /\ output < matchOutputLimit
  /\ outputBase' = Copy(outputBase, output, matchAddress, 1)
  /\ writeEnd' = Reach(writeEnd, output, 1)
  /\ matchAddress' = matchAddress + 1
  /\ output' = output + 1
  /\ UNCHANGED <<pc, call, input, sequence, offset, matchLength, matchOutputLimit,
                 readEnd, result>>

CarefulDone ==
  /\ pc = "carefulCopy"
  /\ output >= fastOutputLimit
  /\ output >= matchOutputLimit
  /\ output' = matchOutputLimit
  /\ Continue("token")
  /\ UNCHANGED <<call, input, sequence, match, memory>>

-----------------------------------------------------------------------------
Finished == pc \in {"done", "thrown"}

Step ==
  \/ EmptyInput \/ EmptyOutput \/ Begin
  \/ ReadToken \/ LiteralLengthByte
  \/ RejectLastLiterals \/ CopyLastLiterals \/ CopyLiteralWord
  \/ ReadOffset \/ RejectMatchLength \/ MatchLengthByte
  \/ WordStart \/ OverlapStart \/ OverlapWord \/ CopyMatchWord
  \/ CarefulWord \/ CarefulByte \/ CarefulDone

\* decompress has returned: nothing happens any more.
Returned == Finished /\ UNCHANGED vars

Next == Step \/ Returned

Spec == Init /\ [][Next]_vars /\ WF_vars(Step)
-----------------------------------------------------------------------------
\* Properties.  Those that speak of data are about blocks that encode some.

Phases == {"start", "token", "literalLength", "literals", "literalWords", "offset",
           "matchLength", "match", "overlap", "matchWords", "carefulCopy", "done", "thrown"}

Valid == call.data # Damaged
ExactSize == Valid /\ call.limit = Len(call.data)

\* The type invariant: cursors are addresses, the output holds bytes.
TypeOK ==
  /\ pc \in Phases
  /\ call.block \in Seq(Byte) /\ call.limit \in Nat
  /\ {input, output, literalLength, index, matchLength, matchOutputLimit,
      readEnd, writeEnd} \subseteq Nat
  /\ token \in 0 .. 255
  /\ offset \in 0 .. 65535
  /\ matchAddress \in Int
  /\ outputBase \in [1 .. outputLimit -> Byte]
  /\ result \in Int

\* No load leaves the block, the word-sized ones of the literals included:
\* whoever encodes keeps the last five bytes literal.
ReadsInBounds == Valid => readEnd <= inputLimit

\* No store leaves the output buffer, whatever size the caller gave it: the
\* checks made before each fast copy leave room for all it overcopies.
WritesInBounds == Valid => writeEnd <= outputLimit

\* How much of the output is final.  Match copies may be ahead of it.
decoded == IF pc \in {"overlap", "matchWords", "carefulCopy"} /\ output > matchOutputLimit
             THEN matchOutputLimit ELSE output

\* What has been decoded is the data: a copy never reads bytes that are not
\* there yet, and what is copied too much is always written over.
DecodedIsData ==
  Valid /\ pc # "thrown" =>
    /\ decoded <= Len(call.data)
    /\ SameBytes(outputBase, 0, call.data, 0, decoded)

\* The condition of the outer loop never ends it: a match, even of a damaged
\* block, is only copied while at least four bytes of the block are left.
TokenLeft == pc = "token" => input < inputLimit

\* After the first eight bytes the source is a whole number of offsets, and
\* at least a word, behind the output: word copies see finished bytes only.
SourceApart ==
  Valid /\ pc \in {"matchWords", "carefulCopy"} =>
    /\ output - matchAddress >= SIZE_OF_LONG
    /\ (output - matchAddress) % offset = 0

\* Given the size of the data, decompress returns it and no check fires.
ExactSizeDecodes ==
  ExactSize =>
    /\ pc # "thrown"
    /\ pc = "done" => result = outputLimit /\ outputBase = call.data

\* Given any other size, it throws or returns something else than that size.
OtherSizeIsNoticed ==
  Valid /\ ~ExactSize /\ pc = "done" => result # outputLimit

\* decompress returns or throws: every loop ends.
Termination == <>Finished

=============================================================================
