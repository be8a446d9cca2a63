----------------------- MODULE LZ4DecompressorProofs -----------------------
(***************************************************************************)
(* Theorems about every call of decompress, whatever size the caller       *)
(* gives: that it never runs out of block, be it valid or damaged, and     *)
(* that it decodes every block that encodes some data, within both         *)
(* buffers.                                                                *)
(***************************************************************************)
EXTENDS LZ4Decompressor, BufferProofs

USE DEF LAST_LITERAL_SIZE, MIN_MATCH, SIZE_OF_SHORT, SIZE_OF_INT, SIZE_OF_LONG,
        RUN_MASK, ML_MASK, Return, Fail, Continue

-----------------------------------------------------------------------------
\* The inductive invariant on all blocks

AfterLiterals == {"match", "overlap", "matchWords", "carefulCopy"}

\* The integers that the position in the block depends on.
Numbers ==
  /\ inputLimit \in Nat
  /\ input \in Int /\ index \in Int /\ literalLength \in Int

\* How many bytes of the block are left in each phase: eight after literals
\* that are copied by words, six after the offset, four after the match length.
Left ==
  /\ pc = "start" => input = 0
  /\ pc = "token" => input < inputLimit
  /\ pc = "literalWords" => literalEnd <= inputLimit - 8
  /\ pc = "offset" => input <= inputLimit - 8
  /\ pc = "matchLength" => input <= inputLimit - 4
  /\ pc \in AfterLiterals => input <= inputLimit - 4

IInv == Numbers /\ Left

-----------------------------------------------------------------------------
\* The block of a call is a sequence of bytes.
Block == inputBase \in Seq(Byte)

\* The arguments of a call never change.
LEMMA CallStays == ASSUME UNCHANGED call PROVE inputLimit' = inputLimit /\ inputBase' = inputBase
  BY DEF inputLimit, inputBase

\* A call begins with the invariant.
LEMMA InitLeft == ASSUME Init PROVE IInv /\ Block
  <1>1. call \in Calls /\ pc = "start" /\ input = 0 /\ index = 0 /\ literalLength = 0
    BY DEF Init
  <1>2. inputBase \in Seq(Byte)
    BY <1>1, DecompressorAssumption DEF inputBase
  <1>3. inputLimit \in Nat
    BY <1>2, LenProperties DEF inputLimit, inputBase
  <1>4. Numbers
    BY <1>1, <1>3 DEF Numbers
  <1>5. Left
    BY <1>1 DEF Left, AfterLiterals
  <1> QED BY <1>2, <1>4, <1>5 DEF IInv, Block

-----------------------------------------------------------------------------
\* Every step preserves the invariant.

\* The steps that end the call, or leave the position in the block alone
\* while a match is copied.
LEMMA Rest ==
  ASSUME IInv, UNCHANGED <<call, input, index, literalLength>>,
         \/ pc' \in {"done", "thrown", "literals"}
         \/ pc \in AfterLiterals /\ pc' \in AfterLiterals \cup {"token"}
         \/ UNCHANGED pc
  PROVE  IInv'
  <1>1. inputLimit' = inputLimit
    BY CallStays
  <1>2. Numbers'
    BY <1>1 DEF IInv, Numbers
  <1>3. literalEnd' = literalEnd
    BY DEF literalEnd
  <1>4. Left'
    BY <1>1, <1>2, <1>3 DEF IInv, Numbers, Left, AfterLiterals
  <1> QED BY <1>2, <1>4 DEF IInv

\* A block that is not empty has a token.
LEMMA BeginLeft == ASSUME IInv, Begin PROVE IInv'
  <1>1. /\ pc = "start" /\ pc' = "token" /\ inputLimit # 0
        /\ UNCHANGED <<call, input, index, literalLength>>
    BY DEF Begin, sequence
  <1>2. inputLimit' = inputLimit
    BY <1>1, CallStays
  <1>3. Numbers'
    BY <1>1, <1>2 DEF IInv, Numbers
  <1>4. Left'
    BY <1>1, <1>2 DEF IInv, Numbers, Left, AfterLiterals
  <1> QED BY <1>3, <1>4 DEF IInv

\* Reading a token commits to nothing: what is left is checked with the literals.
LEMMA ReadTokenLeft == ASSUME IInv, Block, ReadToken PROVE IInv'
  <1>1. /\ pc' \in {"literalLength", "literals"} /\ UNCHANGED call
        /\ input' = input + 1 /\ index' = 0 /\ literalLength' = token' \div 16
        /\ token' = At(inputBase, input)
    BY DEF ReadToken
  <1>2. inputLimit' = inputLimit
    BY <1>1, CallStays
  <1>3. token' \in Nat
    BY <1>1, AtType DEF IInv, Numbers, Block
  <1>4. Numbers'
    BY <1>1, <1>2, <1>3 DEF IInv, Numbers
  <1>5. Left'
    BY <1>1 DEF Left, AfterLiterals
  <1> QED BY <1>4, <1>5 DEF IInv

\* The same holds of the extension of the literal length.
LEMMA LiteralLengthByteLeft == ASSUME IInv, Block, LiteralLengthByte PROVE IInv'
  <1>1. /\ pc' \in {"literalLength", "literals"} /\ UNCHANGED <<call, index>>
        /\ input' = input + 1
        /\ literalLength' = literalLength + At(inputBase, input)
    BY DEF LiteralLengthByte
  <1>2. inputLimit' = inputLimit
    BY <1>1, CallStays
  <1>3. At(inputBase, input) \in Nat
    BY AtType DEF IInv, Numbers, Block
  <1>4. Numbers'
    BY <1>1, <1>2, <1>3 DEF IInv, Numbers
  <1>5. Left'
    BY <1>1 DEF Left, AfterLiterals
  <1> QED BY <1>4, <1>5 DEF IInv

\* The fast copy is entered with eight bytes behind the literals, and ends
\* with the cursor right behind them.
LEMMA CopyLiteralWordLeft == ASSUME IInv, CopyLiteralWord PROVE IInv'
  <1>1. /\ UNCHANGED <<call, literalLength>> /\ index' = index + 8
        /\ \/ pc' = "literalWords" /\ input' = input + 8
           \/ pc' = "offset" /\ input' = literalEnd
    BY DEF CopyLiteralWord
  <1>2. inputLimit' = inputLimit
    BY <1>1, CallStays
  <1>3. inputLimit \in Nat /\ input \in Int /\ index \in Int /\ literalLength \in Int
    BY DEF IInv, Numbers
  <1>4. literalEnd <= inputLimit - 8
    <2>1. CASE pc = "literalWords"
      BY <2>1 DEF IInv, Left
    <2>2. CASE ~LastLiterals
      BY <1>3, <2>2 DEF LastLiterals, literalEnd
    <2> QED BY <2>1, <2>2 DEF CopyLiteralWord
  <1>5. Numbers'
    BY <1>1, <1>2, <1>3 DEF Numbers, literalEnd
  <1>6. Left'
    BY <1>1, <1>2, <1>3, <1>4 DEF Left, AfterLiterals, literalEnd
  <1> QED BY <1>5, <1>6 DEF IInv

\* Two of the eight bytes are the offset; six are more than four.
LEMMA ReadOffsetLeft == ASSUME IInv, ReadOffset PROVE IInv'
  <1>1. /\ pc = "offset" /\ pc' \in {"thrown", "matchLength", "match"}
        /\ UNCHANGED <<call, index, literalLength>> /\ input' = input + 2
    BY DEF ReadOffset, sequence
  <1>2. inputLimit' = inputLimit
    BY <1>1, CallStays
  <1>3. Numbers'
    BY <1>1, <1>2 DEF IInv, Numbers
  <1>4. Left'
    BY <1>1, <1>2 DEF IInv, Numbers, Left, AfterLiterals
  <1> QED BY <1>3, <1>4 DEF IInv

\* A byte of the match length is read only if five are left.
LEMMA MatchLengthByteLeft == ASSUME IInv, MatchLengthByte PROVE IInv'
  <1>1. /\ pc = "matchLength" /\ pc' \in {"matchLength", "match"}
        /\ UNCHANGED <<call, index, literalLength>>
        /\ input' = input + 1 /\ input <= inputLimit - 5
    <2>1. input <= inputLimit - 5
      BY DEF MatchLengthByte, MatchLengthCutOff, IInv, Numbers
    <2> QED BY <2>1 DEF MatchLengthByte, sequence
  <1>2. inputLimit' = inputLimit
    BY <1>1, CallStays
  <1>3. Numbers'
    BY <1>1, <1>2 DEF IInv, Numbers
  <1>4. Left'
    BY <1>1, <1>2 DEF IInv, Numbers, Left, AfterLiterals
  <1> QED BY <1>3, <1>4 DEF IInv

\* Every step keeps what is left.
LEMMA NextLeft == ASSUME IInv, Block, [Next]_vars PROVE IInv' /\ Block'
  <1>1. UNCHANGED call => Block'
    BY CallStays DEF Block
  <1>2. CASE EmptyInput \/ RejectLastLiterals \/ RejectMatchLength
    BY <1>1, <1>2, Rest DEF EmptyInput, RejectLastLiterals, RejectMatchLength, sequence
  <1>3. CASE EmptyOutput
    BY <1>1, <1>3, Rest DEF EmptyOutput, sequence
  <1>4. CASE Begin
    BY <1>1, <1>4, BeginLeft DEF Begin
  <1>5. CASE ReadToken
    BY <1>1, <1>5, ReadTokenLeft DEF ReadToken
  <1>6. CASE LiteralLengthByte
    BY <1>1, <1>6, LiteralLengthByteLeft DEF LiteralLengthByte
  <1>7. CASE CopyLastLiterals
    BY <1>1, <1>7, Rest DEF CopyLastLiterals, sequence
  <1>8. CASE CopyLiteralWord
    BY <1>1, <1>8, CopyLiteralWordLeft DEF CopyLiteralWord
  <1>9. CASE ReadOffset
    BY <1>1, <1>9, ReadOffsetLeft DEF ReadOffset
  <1>10. CASE MatchLengthByte
    BY <1>1, <1>10, MatchLengthByteLeft DEF MatchLengthByte
  <1>11. CASE WordStart
    <2>1. /\ UNCHANGED <<call, input, index, literalLength>>
          /\ pc \in AfterLiterals /\ pc' \in AfterLiterals \cup {"thrown"}
      BY <1>11 DEF WordStart, AfterFirstWord, sequence, AfterLiterals
    <2> QED BY <1>1, <2>1, Rest
  <1>12. CASE OverlapStart
    <2>1. /\ UNCHANGED <<call, input, index, literalLength>>
          /\ pc \in AfterLiterals /\ pc' \in AfterLiterals
      BY <1>12 DEF OverlapStart, sequence, AfterLiterals
    <2> QED BY <1>1, <2>1, Rest
  <1>13. CASE OverlapWord
    <2>1. /\ UNCHANGED <<call, input, index, literalLength>>
          /\ pc \in AfterLiterals /\ pc' \in AfterLiterals \cup {"thrown"}
      BY <1>13 DEF OverlapWord, AfterFirstWord, sequence, AfterLiterals
    <2> QED BY <1>1, <2>1, Rest
  <1>14. CASE CopyMatchWord
    <2>1. /\ UNCHANGED <<call, input, index, literalLength>>
          /\ pc \in AfterLiterals /\ pc' \in AfterLiterals \cup {"token"}
      BY <1>14 DEF CopyMatchWord, sequence, AfterLiterals
    <2> QED BY <1>1, <2>1, Rest
  <1>15. CASE CarefulWord
    BY <1>1, <1>15, Rest DEF CarefulWord, sequence
  <1>16. CASE CarefulByte
    BY <1>1, <1>16, Rest DEF CarefulByte, sequence
  <1>17. CASE CarefulDone
    <2>1. /\ UNCHANGED <<call, input, index, literalLength>>
          /\ pc \in AfterLiterals /\ pc' = "token"
      BY <1>17 DEF CarefulDone, sequence, AfterLiterals
    <2> QED BY <1>1, <2>1, Rest
  <1>18. CASE UNCHANGED vars
    BY <1>1, <1>18, Rest DEF vars, sequence
  <1> QED BY <1>2, <1>3, <1>4, <1>5, <1>6, <1>7, <1>8, <1>9, <1>10, <1>11, <1>12,
             <1>13, <1>14, <1>15, <1>16, <1>17, <1>18 DEF Next, Step, Returned

-----------------------------------------------------------------------------
\* Of any block, valid or damaged, at least four bytes are left whenever a
\* match is copied: the condition of decompress's outer loop never ends it,
\* so that decompress returns from its last literals only.
THEOREM TokenAlwaysLeft == Spec => []TokenLeft
  <1>1. Init => IInv /\ Block
    BY InitLeft
  <1>2. (IInv /\ Block) /\ [Next]_vars => (IInv /\ Block)'
    BY NextLeft
  <1>3. IInv /\ Block => TokenLeft
    BY DEF IInv, Left, TokenLeft
  <1> QED BY <1>1, <1>2, <1>3, PTL DEF Spec

-----------------------------------------------------------------------------
\* The inductive invariant on blocks that encode some data

original == call.data

\* The parts of the sequence that the decoder is in.
Part(p) == SequenceAt(inputBase, p)

\* Of an extension that begins at start, the bytes before next are 255.
Extending(start, next, length) ==
  /\ start \in Nat /\ next \in Nat /\ start <= next
  /\ \A r \in start .. next - 1 : At(inputBase, r) = 255
  /\ length = 15 + 255 * (next - start)

AtLiteralLength(p, o) ==
  /\ OnPath(inputBase, original, p, o)
  /\ token = At(inputBase, p) /\ token \div 16 = 15
  /\ output = o /\ index = 0
  /\ Extending(p + 1, input, literalLength)

AtLiterals(p, o) ==
  /\ OnPath(inputBase, original, p, o)
  /\ token = At(inputBase, p)
  /\ output = o /\ index = 0
  /\ input = Part(p).literalsAt /\ literalLength = Part(p).literals

\* The bytes before index are copied.
AtLiteralWords(p, o) ==
  /\ WithMatch(inputBase, original, p, o) /\ p \in Nat /\ o \in Nat
  /\ token = At(inputBase, p)
  /\ literalLength = Part(p).literals
  /\ index \in Nat /\ index < literalLength
  /\ input = Part(p).literalsAt + index /\ output = o + index
  /\ o + literalLength <= outputLimit - 12

AtOffset(p, o) ==
  /\ WithMatch(inputBase, original, p, o) /\ p \in Nat /\ o \in Nat
  /\ token = At(inputBase, p)
  /\ input = Part(p).literalsEnd /\ output = o + Part(p).literals
  /\ output <= outputLimit - 12

AtMatchLength(p, o) ==
  /\ WithMatch(inputBase, original, p, o) /\ p \in Nat /\ o \in Nat
  /\ At(inputBase, p) % 16 = 15
  /\ output = o + Part(p).literals
  /\ output <= outputLimit - 12
  /\ offset = Part(p).offset /\ matchAddress = output - offset
  /\ Extending(Part(p).literalsEnd + 2, input, matchLength)

\* A match of the bytes from at to end, and the sequence behind it.
Matching(at, end) ==
  /\ at \in Nat /\ end \in Nat /\ at + 4 <= end
  /\ end <= Len(original) - 5 /\ at <= outputLimit - 12
  /\ offset \in 1 .. at
  /\ SameBytes(original, at, original, at - offset, end - at)
  /\ OnPath(inputBase, original, input, end)

AtMatch ==
  /\ Matching(output, output + matchLength)
  /\ matchAddress = output - offset
  /\ matchLength \in Nat

AtOverlap(at) ==
  /\ Matching(at, matchOutputLimit)
  /\ offset < SIZE_OF_LONG
  /\ output = at + SIZE_OF_INT
  /\ matchAddress = (at - offset) + DEC_32_TABLE[offset + 1]

\* The source is a period of the match behind the output.
AtWords(at) ==
  /\ Matching(at, matchOutputLimit)
  /\ output \in Nat /\ matchAddress \in Nat /\ at - offset <= matchAddress
  /\ matchAddress + SIZE_OF_LONG <= output
  /\ (output - matchAddress) % offset = 0
  /\ Period(original, at - offset, matchOutputLimit, output - matchAddress)

Sound ==
  /\ outputBase \in Seq(Byte) /\ Len(outputBase) = outputLimit
  /\ readEnd \in Nat /\ writeEnd \in Nat
  /\ readEnd <= inputLimit /\ writeEnd <= outputLimit

Phase ==
  /\ pc = "start" => output = 0 /\ input = 0
  /\ pc = "token" => OnPath(inputBase, original, input, output)
  /\ pc = "literalLength" => \E p \in Nat, o \in Nat : AtLiteralLength(p, o)
  /\ pc = "literals" => \E p \in Nat, o \in Nat : AtLiterals(p, o)
  /\ pc = "literalWords" => \E p \in Nat, o \in Nat : AtLiteralWords(p, o)
  /\ pc = "offset" => \E p \in Nat, o \in Nat : AtOffset(p, o)
  /\ pc = "matchLength" => \E p \in Nat, o \in Nat : AtMatchLength(p, o)
  /\ pc = "match" => AtMatch
  /\ pc = "overlap" => \E at \in Nat : AtOverlap(at)
  /\ pc = "matchWords" =>
       /\ \E at \in Nat : AtWords(at)
       /\ matchOutputLimit <= outputLimit - 12 /\ output + 8 <= outputLimit
  /\ pc = "carefulCopy" =>
       /\ \E at \in Nat : AtWords(at)
       /\ matchOutputLimit > outputLimit - 12 /\ matchOutputLimit <= outputLimit - 5
       /\ output <= outputLimit
  /\ pc = "done" =>
       IF outputLimit = Len(original) THEN result = outputLimit /\ outputBase = original
       ELSE result # outputLimit
  /\ pc = "thrown" => outputLimit # Len(original)

Decoded ==
  pc # "thrown" =>
    /\ decoded \in Nat /\ decoded <= Len(original)
    /\ SameBytes(outputBase, 0, original, 0, decoded)

Good == Sound /\ Phase /\ Decoded

\* The call is about a block that encodes some data.
Given ==
  /\ inputBase \in Seq(Byte) /\ inputLimit = Len(inputBase) /\ inputLimit \in Nat
  /\ outputLimit \in Nat
  /\ original \in Seq(Byte) /\ Encodes(inputBase, original)

-----------------------------------------------------------------------------
\* What the steps have in common

\* The arguments stay, and what depends on them only.
LEMMA SameCall ==
  ASSUME UNCHANGED call
  PROVE  /\ inputBase' = inputBase /\ inputLimit' = inputLimit
         /\ outputLimit' = outputLimit /\ original' = original
         /\ \A p : Part(p)' = Part(p)
         /\ Given => Given'
  <1>1. /\ inputBase' = inputBase /\ inputLimit' = inputLimit
        /\ outputLimit' = outputLimit /\ original' = original
    BY DEF inputBase, inputLimit, outputLimit, original
  <1>2. \A p : Part(p)' = Part(p)
    BY <1>1 DEF Part
  <1>3. Given => Given'
    BY <1>1 DEF Given
  <1> QED BY <1>1, <1>2, <1>3

\* The parts of the sequence at a point of the path, and where they are.
LEMMA PartsAt ==
  ASSUME Given, NEW p, NEW o, OnPath(inputBase, original, p, o)
  PROVE  /\ p \in Nat /\ p < inputLimit /\ o \in Nat /\ o <= Len(original)
         /\ Part(p).literals \in Nat /\ Part(p).literalsAt \in Nat
         /\ p + 1 <= Part(p).literalsAt
         /\ Part(p).literalsEnd = Part(p).literalsAt + Part(p).literals
         /\ Part(p).literalsEnd <= inputLimit
         /\ SameBytes(inputBase, Part(p).literalsAt, original, o, Part(p).literals)
  <1>1. inputBase \in Seq(Byte) /\ original \in Seq(Byte) /\ inputLimit = Len(inputBase)
    BY DEF Given
  <1> QED BY <1>1, PathParts DEF Part

\* The parts of a sequence with a match.
LEMMA MatchAt ==
  ASSUME Given, NEW p, NEW o, WithMatch(inputBase, original, p, o), o \in Nat
  PROVE  /\ Parts(Part(p), p)
         /\ Part(p).next <= inputLimit - 6 /\ Part(p).match >= 4
         /\ o + Part(p).literals <= Len(original) - 12
         /\ (o + Part(p).literals) + Part(p).match <= Len(original) - 5
         /\ Part(p).offset \in 1 .. o + Part(p).literals
         /\ SameBytes(inputBase, Part(p).literalsAt, original, o, Part(p).literals)
         /\ SameBytes(original, o + Part(p).literals,
                      original, (o + Part(p).literals) - Part(p).offset, Part(p).match)
         /\ OnPath(inputBase, original, Part(p).next, (o + Part(p).literals) + Part(p).match)
         /\ Part(p).literalsEnd <= inputLimit - 8
  <1>1. inputLimit = Len(inputBase) /\ inputLimit \in Nat
    BY DEF Given
  <1>2. /\ Parts(Part(p), p)
        /\ Part(p).next <= inputLimit - 6 /\ Part(p).match >= 4
        /\ o + Part(p).literals <= Len(original) - 12
        /\ (o + Part(p).literals) + Part(p).match <= Len(original) - 5
        /\ Part(p).offset \in 1 .. o + Part(p).literals
        /\ SameBytes(inputBase, Part(p).literalsAt, original, o, Part(p).literals)
        /\ SameBytes(original, o + Part(p).literals,
                     original, (o + Part(p).literals) - Part(p).offset, Part(p).match)
        /\ OnPath(inputBase, original, Part(p).next, (o + Part(p).literals) + Part(p).match)
    BY <1>1 DEF WithMatch, Part
  <1>3. Part(p).literalsEnd <= inputLimit - 8
    BY <1>1, <1>2 DEF Parts
  <1> QED BY <1>2, <1>3

\* The locals of a call that has not begun.
Fresh ==
  /\ pc = "start" /\ input = 0 /\ output = 0
  /\ outputBase = [i \in 1 .. call.limit |-> Stale]
  /\ readEnd = 0 /\ writeEnd = 0

\* They satisfy the invariant.
LEMMA FreshGood == ASSUME Given, Fresh PROVE Good
  <1>1. Sound
    <2>1. Stale \in Byte /\ call.limit \in Nat
      BY DecompressorAssumption DEF Given, outputLimit
    <2>2. outputBase \in Seq(Byte) /\ Len(outputBase) = call.limit
      BY <2>1 DEF Fresh
    <2> QED BY <2>2 DEF Sound, outputLimit, Given, Fresh
  <1>2. Phase
    BY DEF Phase, Fresh
  <1>3. Decoded
    <2>1. decoded = 0 /\ Len(original) \in Nat
      BY DEF decoded, Given, Fresh
    <2> QED BY <2>1 DEF Decoded, SameBytes
  <1> QED BY <1>1, <1>2, <1>3 DEF Good

\* A call begins with the invariant.
LEMMA InitGood == ASSUME Init, Valid PROVE Given /\ Good
  <1>1. call \in Calls /\ Fresh
    BY DEF Init, Fresh
  <1>2. Given
    <2>1. /\ call.block \in Seq(Byte) /\ call.limit \in Nat
          /\ call.data \in Seq(Byte) /\ Encodes(call.block, call.data)
      BY <1>1, DecompressorAssumption DEF Valid
    <2> QED BY <2>1 DEF Given, inputBase, inputLimit, outputLimit, original
  <1> QED BY <1>1, <1>2, FreshGood

-----------------------------------------------------------------------------
\* The entry

\* A block is not empty.
LEMMA NotEmpty == ASSUME Given PROVE inputLimit > 0 /\ OnPath(inputBase, original, 0, 0)
  <1>1. OnPath(inputBase, original, 0, 0)
    BY PathBegins DEF Given
  <1> QED BY <1>1, PartsAt DEF Given

\* Steps that touch neither buffer.
LEMMA QuietSound ==
  ASSUME Sound, UNCHANGED <<call, outputBase, readEnd, writeEnd>>
  PROVE  Sound'
  BY SameCall DEF Sound

\* Steps that decode nothing.
LEMMA QuietDecoded ==
  ASSUME Decoded, Given, UNCHANGED <<call, outputBase>>, pc # "thrown", decoded' = decoded
  PROVE  Decoded'
  BY SameCall DEF Decoded

\* An output without bytes is all there is for the block that encodes nothing.
LEMMA EmptyOutputGood == ASSUME Given, Good, EmptyOutput PROVE Good'
  <1>1. /\ pc = "start" /\ pc' = "done" /\ outputLimit = 0
        /\ result' = IF inputBase = <<0>> THEN 0 ELSE -1
        /\ UNCHANGED <<call, output, outputBase, readEnd, writeEnd>>
    BY DEF EmptyOutput, memory
  <1>2. Sound'
    BY <1>1, QuietSound DEF Good
  <1>3. inputBase = <<0>> <=> Len(original) = 0
    BY NothingEncoded DEF Given
  <1>4. outputBase \in Seq(Byte) /\ Len(outputBase) = 0 /\ original \in Seq(Byte)
    BY <1>1 DEF Good, Sound, Given
  <1>5. Len(original) = 0 => outputBase = original
    BY <1>4
  <1>6. Phase'
    <2>1. /\ outputLimit' = 0 /\ original' = original /\ outputBase' = outputBase
      BY <1>1, SameCall
    <2>2. IF 0 = Len(original) THEN result' = 0 /\ outputBase = original ELSE result' # 0
      BY <1>1, <1>3, <1>4, <1>5
    <2> QED BY <1>1, <2>1, <2>2 DEF Phase
  <1>7. Decoded'
    <2>1. decoded' = decoded
      BY <1>1 DEF decoded
    <2> QED BY <1>1, <2>1, QuietDecoded DEF Good
  <1> QED BY <1>2, <1>6, <1>7 DEF Good

\* The first sequence.
LEMMA BeginGood == ASSUME Given, Good, Begin PROVE Good'
  <1>1. /\ pc = "start" /\ pc' = "token"
        /\ UNCHANGED <<call, input, output, outputBase, readEnd, writeEnd>>
    BY DEF Begin, memory
  <1>2. Sound'
    BY <1>1, QuietSound DEF Good
  <1>3. output = 0 /\ input = 0
    BY <1>1 DEF Good, Phase
  <1>4. OnPath(inputBase, original, input, output)'
    BY <1>1, <1>3, NotEmpty, SameCall
  <1>5. Phase'
    BY <1>1, <1>4 DEF Phase
  <1>6. decoded' = decoded
    BY <1>1 DEF decoded
  <1>7. Decoded'
    BY <1>1, <1>6, QuietDecoded DEF Good
  <1> QED BY <1>2, <1>5, <1>7 DEF Good

-----------------------------------------------------------------------------
\* The literals

\* Bytes that are read are within the block.
LEMMA ReadSound ==
  ASSUME Given, Sound, UNCHANGED <<call, outputBase, writeEnd>>,
         NEW from \in Nat, NEW n \in Nat, from + n <= inputLimit, readEnd' = Reach(readEnd, from, n)
  PROVE  Sound'
  <1>1. readEnd' = (IF from + n > readEnd THEN from + n ELSE readEnd)
    BY DEF Reach
  <1>2. readEnd \in Nat /\ readEnd <= inputLimit /\ inputLimit \in Nat
    BY DEF Sound, Given
  <1>3. readEnd' \in Nat /\ readEnd' <= inputLimit
    <2>1. from + n \in Nat
      OBVIOUS
    <2>2. readEnd' = from + n \/ readEnd' = readEnd
      BY <1>1
    <2> QED BY <1>2, <2>1, <2>2
  <1> QED BY <1>3, SameCall DEF Sound

\* The same for one byte.
LEMMA ReadByteSound ==
  ASSUME Given, Sound, UNCHANGED <<call, outputBase, writeEnd>>, ReadByte,
         input \in Nat, input < inputLimit
  PROVE  Sound'
  <1>1. readEnd' = Reach(readEnd, input, 1) /\ 1 \in Nat
    BY DEF ReadByte
  <1>2. input + 1 <= inputLimit
    BY DEF Given
  <1> QED BY <1>1, <1>2, ReadSound

\* The upper half of a byte.
LEMMA ByteNibble == \A x \in Byte : x \div 16 \in Nat /\ x \div 16 <= 15
  BY DEF Byte

\* The token of a sequence.
LEMMA ReadTokenGood == ASSUME Given, Good, ReadToken PROVE Good'
  <1>1. /\ pc = "token" /\ token' = At(inputBase, input) /\ literalLength' = token' \div 16
        /\ index' = 0 /\ input' = input + 1 /\ ReadByte
        /\ pc' = (IF literalLength' = 15 THEN "literalLength" ELSE "literals")
        /\ UNCHANGED <<call, output, outputBase, writeEnd>>
    BY DEF ReadToken
  <1>12. OnPath(inputBase, original, input, output)
    BY <1>1 DEF Good, Phase
  <1>13. input \in Nat /\ output \in Nat
    BY <1>12, PartsAt
  <1>14. PICK p \in Nat : p = input
    BY <1>13
  <1>15. PICK o \in Nat : o = output
    BY <1>13
  <1>2. OnPath(inputBase, original, p, o)
    BY <1>12, <1>14, <1>15
  <1>3. p \in Nat /\ p < inputLimit /\ o \in Nat /\ input = p /\ output = o
    BY <1>2, <1>14, <1>15, PartsAt
  <1>4. Sound'
    BY <1>1, <1>3, ReadByteSound DEF Good
  <1>5. /\ inputBase' = inputBase /\ inputLimit' = inputLimit
        /\ original' = original /\ Part(p)' = Part(p)
    BY <1>1, SameCall
  <1>6. LiteralField(inputBase, p) = LengthField(inputBase, token' \div 16, p + 1)
    BY <1>1, <1>3 DEF LiteralField
  <1>7. token' \in Nat
    BY <1>1, <1>3, AtType DEF Given
  <1>8. ASSUME literalLength' = 15 PROVE AtLiteralLength(p, o)'
    <2>1. Extending(p + 1, input, literalLength)'
      <3>1. input' = p + 1
        BY <1>1, <1>3
      <3> QED BY <1>3, <1>8, <3>1 DEF Extending
    <2>2. output' = o /\ index' = 0 /\ token' = At(inputBase', p) /\ token' \div 16 = 15
      BY <1>1, <1>3, <1>5, <1>8
    <2> QED BY <1>2, <1>5, <2>1, <2>2 DEF AtLiteralLength
  <1>9. ASSUME literalLength' # 15 PROVE AtLiterals(p, o)'
    <2>1. token' \div 16 < 15
      <3>1. token' \in Byte
        <4>1. p \in Int /\ p \in 0 .. Len(inputBase) - 1
          BY <1>3 DEF Given
        <4> QED BY <1>1, <1>3, <4>1, AtType DEF Given
      <3>2. token' \div 16 <= 15
        BY <3>1, ByteNibble
      <3> QED BY <1>1, <1>7, <1>9, <3>2
    <2>2. LiteralField(inputBase, p) = [length |-> token' \div 16, next |-> p + 1]
      BY <1>6, <2>1 DEF LengthField
    <2>3. Part(p).literals = token' \div 16 /\ Part(p).literalsAt = p + 1
      BY <2>2, SequenceParts DEF Part
    <2>4. output' = o /\ index' = 0 /\ token' = At(inputBase', p) /\ input' = p + 1
      BY <1>1, <1>3, <1>5
    <2> QED BY <1>1, <1>2, <1>5, <2>3, <2>4 DEF AtLiterals
  <1>10. Phase'
    <2>1. CASE literalLength' = 15
      <3>1. pc' = "literalLength"
        BY <1>1, <2>1
      <3> QED BY <1>3, <1>8, <2>1, <3>1 DEF Phase
    <2>2. CASE literalLength' # 15
      <3>1. pc' = "literals"
        BY <1>1, <2>2
      <3> QED BY <1>3, <1>9, <2>2, <3>1 DEF Phase
    <2> QED BY <2>1, <2>2
  <1>11. Decoded'
    <2>1. decoded' = decoded
      BY <1>1 DEF decoded
    <2> QED BY <1>1, <2>1, QuietDecoded DEF Good
  <1> QED BY <1>4, <1>10, <1>11 DEF Good

\* What the next byte of an extension that begins at start does: it ends the
\* field, or the extension goes on.
ExtendedBy(field, start, next, length, value) ==
  /\ value \in Nat /\ next \in Nat /\ next < field.next /\ length \in Nat
  /\ value # 255 => field.length = length + value /\ field.next = next + 1
  /\ value = 255 => /\ Extending(start, next + 1, length + value)
                    /\ next + 1 < field.next /\ field.length >= length + value

\* One byte more of an extension: it goes on, or the length is read.
LEMMA ExtensionByte ==
  ASSUME Given, NEW start, NEW next, NEW length, Extending(start, next, length),
         NEW field, field = LengthField(inputBase, 15, start), field.next <= inputLimit,
         NEW value, value = At(inputBase, next)
  PROVE  ExtendedBy(field, start, next, length, value)
  <1> DEFINE k == next - start
  <1>1. /\ start \in Nat /\ next \in Nat /\ start <= next /\ length = 15 + 255 * k
        /\ \A r \in start .. next - 1 : At(inputBase, r) = 255
    BY DEF Extending
  <1>2. inputBase \in Seq(Byte) /\ inputLimit = Len(inputBase)
    BY DEF Given
  <1>3. k \in Nat /\ start + k = next /\ start + k + 1 = next + 1
    BY <1>1
  <1>4. value \in Nat
    BY <1>1, <1>2, AtType
  <1> HIDE DEF k
  <1>5. /\ start + k < field.next
        /\ At(inputBase, start + k) # 255 =>
             field = [length |-> (15 + 255 * k) + At(inputBase, start + k), next |-> start + k + 1]
        /\ At(inputBase, start + k) = 255 =>
             start + k + 1 < field.next /\ field.length >= 15 + 255 * (k + 1)
    <2>1. \A r \in start .. start + k - 1 : At(inputBase, r) = 255
      BY <1>1, <1>3
    <2>2. LengthField(inputBase, 15, start).next <= Len(inputBase)
      BY <1>2
    <2> QED BY <1>1, <1>2, <1>3, <2>1, <2>2, ExtensionRead
  <1>6. length \in Nat
    BY <1>1, <1>3
  <1>7. ASSUME value = 255 PROVE Extending(start, next + 1, length + value)
    <2>1. \A r \in start .. (next + 1) - 1 : At(inputBase, r) = 255
      <3> TAKE r \in start .. (next + 1) - 1
      <3>1. r \in start .. next - 1 \/ r = next
        BY <1>1
      <3> QED BY <1>1, <1>7, <3>1
    <2>2. length + value = 15 + 255 * ((next + 1) - start)
      BY <1>1, <1>3, <1>7
    <2> QED BY <1>1, <2>1, <2>2 DEF Extending
  <1>8. 15 + 255 * (k + 1) = length + 255
    BY <1>1, <1>3
  <1>9. next < field.next
    BY <1>3, <1>5
  <1>10. value # 255 => field.length = length + value /\ field.next = next + 1
    BY <1>1, <1>3, <1>5
  <1>11. value = 255 => next + 1 < field.next /\ field.length >= length + value
    BY <1>3, <1>5, <1>8
  <1> QED BY <1>1, <1>4, <1>6, <1>7, <1>9, <1>10, <1>11 DEF ExtendedBy

\* The extension of the length of the literals: with more than 255 of them ahead,
\* the block does not end within 15 bytes.
LEMMA LiteralLengthByteGood == ASSUME Given, Good, LiteralLengthByte PROVE Good'
  <1> DEFINE value == At(inputBase, input)
  <1>1. /\ pc = "literalLength" /\ input' = input + 1 /\ literalLength' = literalLength + value
        /\ pc' = (IF value = 255 /\ input' < inputLimit - 15 THEN "literalLength" ELSE "literals")
        /\ ReadByte /\ UNCHANGED <<call, output, token, index, outputBase, writeEnd>>
    BY DEF LiteralLengthByte
  <1>2. PICK p \in Nat, o \in Nat : AtLiteralLength(p, o)
    BY <1>1 DEF Good, Phase
  <1>3. /\ OnPath(inputBase, original, p, o)
        /\ token = At(inputBase, p) /\ token \div 16 = 15
        /\ output = o /\ index = 0
        /\ Extending(p + 1, input, literalLength)
    BY <1>2 DEF AtLiteralLength
  <1> DEFINE field == LengthField(inputBase, 15, p + 1)
  <1>4. Part(p).literals = field.length /\ Part(p).literalsAt = field.next
    <2>1. LiteralField(inputBase, p) = field
      BY <1>3 DEF LiteralField
    <2> QED BY <2>1, SequenceParts DEF Part
  <1>5. /\ Part(p).literals \in Nat /\ Part(p).literalsAt \in Nat
        /\ Part(p).literalsEnd = Part(p).literalsAt + Part(p).literals
        /\ Part(p).literalsEnd <= inputLimit /\ inputLimit \in Nat
    BY <1>3, PartsAt DEF Given
  <1>6. field.next <= inputLimit
    BY <1>4, <1>5
  <1>7. /\ value \in Nat /\ input \in Nat /\ input < field.next /\ literalLength \in Nat
        /\ value # 255 => field.length = literalLength + value /\ field.next = input + 1
        /\ value = 255 => /\ Extending(p + 1, input + 1, literalLength + value)
                          /\ input + 1 < field.next /\ field.length >= literalLength + value
    <2>1. field = LengthField(inputBase, 15, p + 1) /\ value = At(inputBase, input)
      OBVIOUS
    <2> HIDE DEF value, field
    <2>2. ExtendedBy(field, p + 1, input, literalLength, value)
      BY Zenon, <1>3, <1>6, <2>1, ExtensionByte
    <2> QED BY <2>2 DEF ExtendedBy
  <1> HIDE DEF value, field
  <1>8. Sound'
    <2>1. input < inputLimit
      BY <1>5, <1>6, <1>7, <1>4
    <2> QED BY <1>1, <1>7, <2>1, ReadByteSound DEF Good
  <1>9. /\ inputBase' = inputBase /\ inputLimit' = inputLimit
        /\ original' = original /\ Part(p)' = Part(p)
    BY <1>1, SameCall
  <1>10. ASSUME value = 255 PROVE pc' = "literalLength" /\ AtLiteralLength(p, o)'
    <2>1. input + 1 < inputLimit - 15
      <3>1. field.length >= 15 + 255
        <4>1. literalLength >= 15
          BY <1>3 DEF Extending
        <4> QED BY <1>4, <1>5, <1>7, <1>10, <4>1
      <3> QED BY <1>4, <1>5, <1>7, <1>10, <3>1
    <2>2. pc' = "literalLength"
      BY <1>1, <1>10, <2>1
    <2>3. Extending(p + 1, input + 1, literalLength + value)
      BY <1>7, <1>10
    <2>4. Extending(p + 1, input, literalLength)'
      BY <1>1, <1>9, <2>3 DEF Extending
    <2>5. AtLiteralLength(p, o)'
      BY <1>1, <1>3, <1>9, <2>4 DEF AtLiteralLength
    <2> QED BY <2>2, <2>5
  <1>11. ASSUME value # 255 PROVE pc' = "literals" /\ AtLiterals(p, o)'
    <2>1. pc' = "literals"
      BY <1>1, <1>11
    <2>2. Part(p).literals = literalLength + value /\ Part(p).literalsAt = input + 1
      BY <1>4, <1>7, <1>11
    <2> QED BY <1>1, <1>3, <1>9, <2>1, <2>2 DEF AtLiterals
  <1>12. Phase'
    <2>1. CASE value = 255
      BY <1>10, <2>1 DEF Phase
    <2>2. CASE value # 255
      BY <1>11, <2>2 DEF Phase
    <2> QED BY <2>1, <2>2
  <1>13. Decoded'
    <2>1. pc' \in {"literalLength", "literals"}
      BY <1>1
    <2>2. decoded' = decoded
      BY <1>1, <2>1 DEF decoded
    <2> QED BY <1>1, <2>2, QuietDecoded DEF Good
  <1> QED BY <1>8, <1>12, <1>13 DEF Good

\* Before the literals are copied: how far they go, in both buffers.
LEMMA BeforeLiterals ==
  ASSUME Given, NEW p \in Nat, NEW o \in Nat, AtLiterals(p, o)
  PROVE  /\ literalEnd = Part(p).literalsEnd /\ literalOutputLimit = o + Part(p).literals
         /\ literalLength = Part(p).literals /\ literalLength \in Nat
         /\ input = Part(p).literalsAt /\ input \in Nat /\ output = o /\ index = 0
         /\ input + literalLength = literalEnd /\ output + literalLength = literalOutputLimit
         /\ literalEnd \in Nat /\ literalOutputLimit \in Nat
         /\ literalEnd <= inputLimit
         /\ SameBytes(inputBase, input, original, output, literalLength)
         /\ \/ /\ WithMatch(inputBase, original, p, o)
               /\ literalEnd <= inputLimit - 8 /\ literalOutputLimit <= Len(original) - 12
            \/ literalEnd = inputLimit /\ literalOutputLimit = Len(original)
  <1>1. /\ OnPath(inputBase, original, p, o) /\ output = o /\ index = 0
        /\ input = Part(p).literalsAt /\ literalLength = Part(p).literals
    BY DEF AtLiterals
  <1>2. /\ Part(p).literals \in Nat /\ Part(p).literalsAt \in Nat
        /\ Part(p).literalsEnd = Part(p).literalsAt + Part(p).literals
        /\ Part(p).literalsEnd <= inputLimit
        /\ SameBytes(inputBase, Part(p).literalsAt, original, o, Part(p).literals)
    BY <1>1, PartsAt
  <1>3. literalEnd = Part(p).literalsEnd /\ literalOutputLimit = o + Part(p).literals
    BY <1>1, <1>2 DEF literalEnd, literalOutputLimit
  <1>4. \/ /\ WithMatch(inputBase, original, p, o)
           /\ literalEnd <= inputLimit - 8 /\ literalOutputLimit <= Len(original) - 12
        \/ literalEnd = inputLimit /\ literalOutputLimit = Len(original)
    <2>1. \/ WithMatch(inputBase, original, p, o) \/ WithoutMatch(inputBase, original, p, o)
      BY <1>1, PathGoesOn DEF Given
    <2>2. ASSUME WithMatch(inputBase, original, p, o)
          PROVE  literalEnd <= inputLimit - 8 /\ literalOutputLimit <= Len(original) - 12
      BY <1>3, <2>2, MatchAt
    <2>3. ASSUME WithoutMatch(inputBase, original, p, o)
          PROVE  literalEnd = inputLimit /\ literalOutputLimit = Len(original)
      BY <1>3, <2>3 DEF WithoutMatch, Part, Given
    <2> QED BY <2>1, <2>2, <2>3
  <1> QED BY <1>1, <1>2, <1>3, <1>4

\* Literals are refused only if the caller was wrong about the size.
LEMMA RejectLastLiteralsGood == ASSUME Given, Good, RejectLastLiterals PROVE Good'
  <1>1. /\ pc = "literals" /\ pc' = "thrown" /\ LastLiterals
        /\ literalOutputLimit > outputLimit \/ literalEnd # inputLimit
        /\ UNCHANGED <<call, outputBase, readEnd, writeEnd>>
    BY DEF RejectLastLiterals, memory
  <1>2. PICK p \in Nat, o \in Nat : AtLiterals(p, o)
    BY <1>1 DEF Good, Phase
  <1>3. /\ literalEnd \in Nat /\ literalOutputLimit \in Nat
        /\ \/ literalEnd <= inputLimit - 8 /\ literalOutputLimit <= Len(original) - 12
           \/ literalEnd = inputLimit /\ literalOutputLimit = Len(original)
    BY <1>2, BeforeLiterals
  <1>4. literalOutputLimit > outputLimit - 12 \/ literalEnd > inputLimit - 8
    <2>1. outputLimit \in Nat /\ inputLimit \in Nat
      BY DEF Given
    <2> QED BY <1>1, <1>3, <2>1 DEF LastLiterals, fastOutputLimit
  <1>5. outputLimit # Len(original)
    <2>1. outputLimit \in Nat /\ inputLimit \in Nat
      BY DEF Given
    <2> QED BY <1>1, <1>3, <1>4, <2>1
  <1>6. Sound'
    BY <1>1, QuietSound DEF Good
  <1>7. Phase'
    BY <1>1, <1>5, SameCall DEF Phase
  <1> QED BY <1>1, <1>6, <1>7 DEF Good, Decoded

\* Two sequences of bytes are equal when all their bytes are the same.
LEMMA SameWhole ==
  ASSUME NEW a \in Seq(Byte), NEW b \in Seq(Byte), Len(a) = Len(b), SameBytes(a, 0, b, 0, Len(a))
  PROVE  a = b
  <1>1. Len(a) \in Nat
    OBVIOUS
  <1>2. ASSUME NEW i \in 1 .. Len(a) PROVE a[i] = b[i]
    <2>1. i - 1 \in 0 .. Len(a) - 1 /\ 0 + (i - 1) = i - 1 /\ (i - 1) + 1 = i
      BY <1>1
    <2>2. At(a, 0 + (i - 1)) = At(b, 0 + (i - 1))
      BY <2>1 DEF SameBytes
    <2> QED BY <2>1, <2>2 DEF At
  <1> QED BY <1>2

\* What a copy that stays inside leaves of the two ends.
LEMMA CopySound ==
  ASSUME Given, Sound, UNCHANGED call,
         outputBase' \in Seq(Byte), Len(outputBase') = Len(outputBase),
         NEW from \in Nat, NEW to \in Nat, NEW n \in Nat, NEW k \in Nat,
         readEnd' = readEnd \/ readEnd' = Reach(readEnd, from, n),
         writeEnd' = Reach(writeEnd, to, k),
         from + n <= inputLimit \/ readEnd' = readEnd, to + k <= outputLimit
  PROVE  Sound'
  <1>1. /\ readEnd \in Nat /\ readEnd <= inputLimit /\ writeEnd \in Nat /\ writeEnd <= outputLimit
        /\ Len(outputBase) = outputLimit
    BY DEF Sound
  <1>2. readEnd' \in Nat /\ readEnd' <= inputLimit
    <2>1. Reach(readEnd, from, n) = IF from + n > readEnd THEN from + n ELSE readEnd
      BY DEF Reach
    <2>2. from + n \in Nat
      OBVIOUS
    <2>3. readEnd' = readEnd \/ (readEnd' = from + n /\ from + n <= inputLimit)
      BY <2>1
    <2> QED BY <1>1, <2>2, <2>3
  <1>3. writeEnd' \in Nat /\ writeEnd' <= outputLimit
    <2>1. Reach(writeEnd, to, k) = IF to + k > writeEnd THEN to + k ELSE writeEnd
      BY DEF Reach
    <2>2. to + k \in Nat
      OBVIOUS
    <2>3. writeEnd' = writeEnd \/ writeEnd' = to + k
      BY <2>1
    <2> QED BY <1>1, <2>2, <2>3
  <1> QED BY <1>1, <1>2, <1>3, SameCall DEF Sound

\* The last literals complete the data.
LEMMA CopyLastLiteralsGood == ASSUME Given, Good, CopyLastLiterals PROVE Good'
  <1>1. /\ pc = "literals" /\ pc' = "done"
        /\ literalOutputLimit <= outputLimit /\ literalEnd = inputLimit
        /\ outputBase' = Store(outputBase, output, Load(inputBase, input, literalLength))
        /\ readEnd' = Reach(readEnd, input, literalLength)
        /\ writeEnd' = Reach(writeEnd, output, literalLength)
        /\ output' = literalOutputLimit /\ result' = literalOutputLimit
        /\ UNCHANGED call
    BY DEF CopyLastLiterals
  <1>2. PICK p \in Nat, o \in Nat : AtLiterals(p, o)
    BY <1>1 DEF Good, Phase
  <1>3. /\ literalLength \in Nat /\ input \in Nat /\ output \in Nat
        /\ input + literalLength = literalEnd /\ output + literalLength = literalOutputLimit
        /\ literalEnd \in Nat /\ literalOutputLimit \in Nat
        /\ SameBytes(inputBase, input, original, output, literalLength)
        /\ \/ literalEnd <= inputLimit - 8
           \/ literalEnd = inputLimit /\ literalOutputLimit = Len(original)
    BY <1>2, BeforeLiterals
  <1>4. literalOutputLimit = Len(original)
    <2>1. inputLimit \in Nat
      BY DEF Given
    <2> QED BY <1>1, <1>3, <2>1
  <1>5. /\ outputBase \in Seq(Byte) /\ Len(outputBase) = outputLimit /\ outputLimit \in Nat
        /\ inputBase \in Seq(Byte) /\ Len(inputBase) = inputLimit /\ original \in Seq(Byte)
    BY DEF Good, Sound, Given
  <1>6. SameBytes(outputBase, 0, original, 0, output)
    <2>1. decoded = output
      BY <1>1 DEF decoded
    <2> QED BY <1>1, <2>1 DEF Good, Decoded
  <1> DEFINE next == Store(outputBase, output, Load(inputBase, input, literalLength))
  <1>7. /\ next \in Seq(Byte) /\ Len(next) = Len(outputBase)
        /\ SameBytes(next, 0, original, 0, output + literalLength)
    <2>1. /\ output + literalLength <= Len(outputBase) /\ input + literalLength <= Len(inputBase)
          /\ literalLength <= literalLength
      BY <1>1, <1>3, <1>5
    <2>2. HoldsUpTo(next, outputBase, original, output + literalLength)
      BY Zenon, <1>3, <1>5, <1>6, <2>1, CopyFromBlock
    <2> QED BY <2>2 DEF HoldsUpTo
  <1> HIDE DEF next
  <1>8. outputBase' = next
    BY <1>1 DEF next
  <1>9. Sound'
    <2>1. input + literalLength <= inputLimit /\ output + literalLength <= outputLimit
      BY <1>1, <1>3
    <2>2. outputBase' \in Seq(Byte) /\ Len(outputBase') = Len(outputBase)
      BY <1>7, <1>8
    <2> QED BY <1>1, <1>3, <2>1, <2>2, CopySound DEF Good
  <1>10. SameBytes(next, 0, original, 0, Len(original))
    BY <1>3, <1>4, <1>7
  <1>11. Phase'
    <2>1. outputLimit = Len(original) => next = original
      BY <1>5, <1>7, <1>10, SameWhole
    <2>2. IF outputLimit = Len(original) THEN result' = outputLimit /\ next = original
          ELSE result' # outputLimit
      BY <1>1, <1>4, <2>1
    <2> QED BY <1>1, <1>8, <2>2, SameCall DEF Phase
  <1>12. Decoded'
    <2>1. decoded' = Len(original)
      BY <1>1, <1>4 DEF decoded
    <2>2. Len(original) \in Nat /\ Len(original) <= Len(original)
      BY <1>5
    <2> QED BY <1>1, <1>8, <1>10, <2>1, <2>2, SameCall DEF Decoded
  <1> QED BY <1>9, <1>11, <1>12 DEF Good

\* What is decoded where no match copy is ahead of it.
LEMMA DecodedAgain ==
  ASSUME Given, UNCHANGED call, output' \in Nat, output' <= Len(original),
         SameBytes(outputBase', 0, original, 0, output'),
         pc' \notin {"overlap", "matchWords", "carefulCopy"}
  PROVE  Decoded'
  <1>1. decoded' = output'
    BY DEF decoded
  <1>2. original' = original
    BY SameCall
  <1> QED BY <1>1, <1>2 DEF Decoded

\* Words of literals are copied: all but the last word are complete.
LiteralCopy(p, o) ==
  /\ WithMatch(inputBase, original, p, o) /\ p \in Nat /\ o \in Nat
  /\ token = At(inputBase, p)
  /\ literalLength = Part(p).literals /\ literalLength \in Nat
  /\ index \in Nat /\ index <= literalLength
  /\ input = Part(p).literalsAt + index /\ output = o + index
  /\ o + literalLength <= outputLimit - 12

\* The fast copy starts where both buffers have room for it, and goes on.
LEMMA BeforeLiteralWord ==
  ASSUME Given, Phase, CopyLiteralWord
  PROVE  \E p \in Nat, o \in Nat : LiteralCopy(p, o)
  <1>1. CASE pc = "literals" /\ ~LastLiterals
    <2>1. PICK p \in Nat, o \in Nat : AtLiterals(p, o)
      BY <1>1 DEF Phase
    <2>2. token = At(inputBase, p)
      BY <2>1 DEF AtLiterals
    <2>3. /\ literalOutputLimit = o + Part(p).literals
          /\ literalLength = Part(p).literals /\ literalLength \in Nat
          /\ input = Part(p).literalsAt /\ input \in Nat /\ output = o /\ index = 0
          /\ literalEnd \in Nat /\ literalOutputLimit \in Nat
          /\ \/ WithMatch(inputBase, original, p, o) /\ literalEnd <= inputLimit - 8
             \/ literalEnd = inputLimit
      BY <2>1, BeforeLiterals
    <2>4. outputLimit \in Nat /\ inputLimit \in Nat
      BY DEF Given
    <2>5. literalOutputLimit <= outputLimit - 12 /\ literalEnd <= inputLimit - 8
      BY <1>1, <2>3, <2>4 DEF LastLiterals, fastOutputLimit
    <2>6. WithMatch(inputBase, original, p, o)
      BY <2>3, <2>4, <2>5
    <2>7. LiteralCopy(p, o)
      BY <2>2, <2>3, <2>5, <2>6 DEF LiteralCopy
    <2> QED BY <2>7
  <1>2. CASE pc = "literalWords"
    <2>1. PICK p \in Nat, o \in Nat : AtLiteralWords(p, o)
      BY <1>2 DEF Phase
    <2>2. Part(p).literals \in Nat
      BY <2>1, MatchAt DEF AtLiteralWords, Parts
    <2>3. LiteralCopy(p, o)
      BY <2>1, <2>2 DEF AtLiteralWords, LiteralCopy
    <2> QED BY <2>3
  <1> QED BY <1>1, <1>2 DEF CopyLiteralWord

\* A word of literals: some of it may be more than there are.
LEMMA CopyLiteralWordGood == ASSUME Given, Good, CopyLiteralWord PROVE Good'
  <1>1. /\ pc \in {"literals", "literalWords"}
        /\ outputBase' = Store(outputBase, output, Load(inputBase, input, 8))
        /\ readEnd' = Reach(readEnd, input, 8) /\ writeEnd' = Reach(writeEnd, output, 8)
        /\ index' = index + 8 /\ UNCHANGED <<call, token, literalLength>>
        /\ IF index' < literalLength
             THEN input' = input + 8 /\ output' = output + 8 /\ pc' = "literalWords"
             ELSE input' = literalEnd /\ output' = literalOutputLimit /\ pc' = "offset"
    BY DEF CopyLiteralWord
  <1>2. PICK p \in Nat, o \in Nat : LiteralCopy(p, o)
    BY BeforeLiteralWord DEF Good
  <1>3. /\ WithMatch(inputBase, original, p, o) /\ token = At(inputBase, p)
        /\ literalLength = Part(p).literals /\ literalLength \in Nat
        /\ index \in Nat /\ index <= literalLength
        /\ input = Part(p).literalsAt + index /\ output = o + index
        /\ o + literalLength <= outputLimit - 12
    BY <1>2 DEF LiteralCopy
  <1>4. /\ Part(p).literalsAt \in Nat /\ Part(p).literalsEnd = Part(p).literalsAt + literalLength
        /\ Part(p).literalsEnd <= inputLimit - 8
        /\ o + literalLength <= Len(original) - 12
        /\ SameBytes(inputBase, Part(p).literalsAt, original, o, literalLength)
    BY <1>3, MatchAt DEF Parts
  <1>5. /\ outputBase \in Seq(Byte) /\ Len(outputBase) = outputLimit /\ outputLimit \in Nat
        /\ inputBase \in Seq(Byte) /\ Len(inputBase) = inputLimit /\ inputLimit \in Nat
        /\ Len(original) \in Nat
    BY DEF Good, Sound, Given
  <1>6. SameBytes(outputBase, 0, original, 0, output)
    <2>1. decoded = output
      BY <1>1 DEF decoded
    <2> QED BY <1>1, <2>1 DEF Good, Decoded
  <1>7. PICK k \in Nat : k = IF index + 8 < literalLength THEN 8 ELSE literalLength - index
    BY <1>3
  <1>18. PICK from \in Nat : from = Part(p).literalsAt
    BY <1>4
  <1>19. /\ input = from + index /\ output = o + index
         /\ from + literalLength <= inputLimit - 8
         /\ SameBytes(inputBase, from, original, o, literalLength)
    BY <1>3, <1>4, <1>18
  <1>8. /\ k <= 8 /\ index + k <= literalLength
        /\ input \in Nat /\ output \in Nat
        /\ input + 8 <= inputLimit /\ output + 8 <= outputLimit
        /\ output + k \in Nat /\ output + k <= Len(original)
    <2>1. k <= 8 /\ index + k <= literalLength
      BY <1>3, <1>7
    <2>2. /\ index \in Nat /\ literalLength \in Nat /\ index <= literalLength
          /\ o + literalLength <= outputLimit - 12 /\ o + literalLength <= Len(original) - 12
      BY <1>3, <1>4
    <2> QED BY <1>5, <1>19, <2>1, <2>2
  <1>9. literalEnd = Part(p).literalsEnd /\ literalOutputLimit = o + literalLength
    BY <1>3, <1>4 DEF literalEnd, literalOutputLimit
  <1>10. output' = output + k
    BY <1>1, <1>3, <1>7, <1>9
  <1>11. SameBytes(inputBase, input, original, output, k)
    <2>1. /\ from \in Int /\ o \in Int /\ literalLength \in Nat /\ index \in Nat
          /\ index + k <= literalLength
      BY <1>3, <1>8
    <2>2. SameBytes(inputBase, from + index, original, o + index, k)
      BY <1>19, <2>1, SameSlice
    <2> QED BY <1>19, <2>2
  <1> DEFINE next == Store(outputBase, output, Load(inputBase, input, 8))
  <1>12. /\ next \in Seq(Byte) /\ Len(next) = Len(outputBase)
         /\ SameBytes(next, 0, original, 0, output + k)
    <2>1. 8 \in Nat /\ output + 8 <= Len(outputBase) /\ input + 8 <= Len(inputBase)
      BY <1>5, <1>8
    <2>2. HoldsUpTo(next, outputBase, original, output + k)
      BY Zenon, <1>5, <1>6, <1>8, <1>11, <2>1, CopyFromBlock
    <2> QED BY <2>2 DEF HoldsUpTo
  <1> HIDE DEF next
  <1>13. outputBase' = next
    BY <1>1 DEF next
  <1>14. Sound'
    <2>1. outputBase' \in Seq(Byte) /\ Len(outputBase') = Len(outputBase) /\ 8 \in Nat
      BY <1>12, <1>13
    <2> QED BY <1>1, <1>8, <2>1, CopySound DEF Good
  <1>15. Decoded'
    <2>1. SameBytes(outputBase', 0, original, 0, output')
      BY <1>10, <1>12, <1>13
    <2>2. output' \in Nat /\ output' <= Len(original)
      BY <1>8, <1>10
    <2>3. pc' \notin {"overlap", "matchWords", "carefulCopy"}
      BY <1>1
    <2> QED BY <1>1, <2>1, <2>2, <2>3, DecodedAgain
  <1>16. /\ inputBase' = inputBase /\ outputLimit' = outputLimit
         /\ original' = original /\ Part(p)' = Part(p)
    BY <1>1, SameCall
  <1>17. Phase'
    <2>1. CASE index + 8 < literalLength
      <3>1. pc' = "literalWords" /\ input' = input + 8 /\ output' = output + 8 /\ index' = index + 8
        BY <1>1, <2>1
      <3>2. /\ index + 8 \in Nat
            /\ input + 8 = Part(p).literalsAt + (index + 8) /\ output + 8 = o + (index + 8)
        BY <1>3, <1>18, <1>19
      <3>3. AtLiteralWords(p, o)'
        BY <1>1, <1>3, <1>16, <2>1, <3>1, <3>2 DEF AtLiteralWords
      <3> QED BY <3>1, <3>3 DEF Phase
    <2>2. CASE ~(index + 8 < literalLength)
      <3>1. /\ pc' = "offset" /\ input' = Part(p).literalsEnd
            /\ output' = o + literalLength
        BY <1>1, <1>9, <2>2
      <3>2. AtOffset(p, o)'
        BY <1>1, <1>3, <1>16, <3>1 DEF AtOffset
      <3> QED BY <3>1, <3>2 DEF Phase
    <2> QED BY <2>1, <2>2
  <1> QED BY <1>14, <1>15, <1>17 DEF Good

-----------------------------------------------------------------------------
\* The offset and the length of the match

\* The match of a sequence once its parts are read.
LEMMA MatchBegins ==
  ASSUME Given, UNCHANGED call, NEW p \in Nat, NEW o \in Nat, WithMatch(inputBase, original, p, o),
         output' = o + Part(p).literals, output' <= outputLimit - 12,
         input' = Part(p).next, offset' = Part(p).offset, matchLength' = Part(p).match,
         matchAddress' = output' - offset'
  PROVE  AtMatch'
  <1>1. /\ Part(p).match >= 4
        /\ (o + Part(p).literals) + Part(p).match <= Len(original) - 5
        /\ Part(p).offset \in 1 .. o + Part(p).literals
        /\ SameBytes(original, o + Part(p).literals,
                     original, (o + Part(p).literals) - Part(p).offset, Part(p).match)
        /\ OnPath(inputBase, original, Part(p).next, (o + Part(p).literals) + Part(p).match)
        /\ Part(p).literals \in Nat /\ Part(p).match \in Nat
    BY MatchAt DEF Parts
  <1>2. PICK at \in Nat : at = o + Part(p).literals
    BY <1>1
  <1>3. PICK length \in Nat : length = Part(p).match
    BY <1>1
  <1>4. PICK back \in Int : back = Part(p).offset
    BY <1>1, <1>2
  <1>5. /\ inputBase' = inputBase /\ outputLimit' = outputLimit /\ original' = original
        /\ output' = at /\ matchLength' = length /\ offset' = back
    BY <1>2, <1>3, <1>4, SameCall
  <1>6. /\ length >= 4 /\ at + length <= Len(original) - 5 /\ at <= outputLimit - 12
        /\ back \in 1 .. at
        /\ SameBytes(original, at, original, at - back, length)
        /\ OnPath(inputBase, original, input', at + length)
    BY <1>1, <1>2, <1>3, <1>4, <1>5
  <1>7. at + length \in Nat /\ at + 4 <= at + length /\ (at + length) - at = length
    BY <1>6
  <1>8. Matching(at, at + length)'
    BY <1>5, <1>6, <1>7 DEF Matching
  <1>9. Matching(output, output + matchLength)'
    BY <1>5, <1>8
  <1> QED BY <1>5, <1>9 DEF AtMatch

\* An offset of a valid block points into what is decoded.
LEMMA ReadOffsetGood == ASSUME Given, Good, ReadOffset PROVE Good'
  <1>1. /\ pc = "offset" /\ offset' = offsetAtInput /\ readEnd' = Reach(readEnd, input, 2)
        /\ input' = input + 2 /\ matchAddress' = output - offset'
        /\ \/ matchAddress' < 0
           \/ nibble = 15 /\ matchLength' = 15 /\ pc' = "matchLength"
           \/ nibble # 15 /\ matchLength' = nibble + 4 /\ pc' = "match"
        /\ UNCHANGED <<call, output, token, outputBase, writeEnd>>
    BY DEF ReadOffset, sequence
  <1>2. PICK p \in Nat, o \in Nat : AtOffset(p, o)
    BY <1>1 DEF Good, Phase
  <1>3. /\ WithMatch(inputBase, original, p, o) /\ token = At(inputBase, p)
        /\ input = Part(p).literalsEnd /\ output = o + Part(p).literals
        /\ output <= outputLimit - 12
    BY <1>2 DEF AtOffset
  <1>4. /\ Parts(Part(p), p) /\ Part(p).next <= inputLimit - 6
        /\ Part(p).offset \in 1 .. o + Part(p).literals
        /\ o + Part(p).literals <= Len(original) - 12
    BY <1>3, MatchAt
  <1>5. /\ Part(p).literals \in Nat /\ Part(p).literalsEnd \in Nat
        /\ Part(p).literalsEnd + 2 <= inputLimit
    <2>1. inputLimit \in Nat
      BY DEF Given
    <2> QED BY <1>4, <2>1 DEF Parts
  <1>6. /\ input = LiteralEnd(inputBase, p) /\ Part(p).offset = offsetAtInput
        /\ Part(p).match = 4 + MatchField(inputBase, p).length
        /\ Part(p).next = MatchField(inputBase, p).next
    BY <1>3, SequenceParts DEF Part, offsetAtInput
  <1>7. /\ offset' = Part(p).offset /\ matchAddress' = output' - offset'
        /\ output' = o + Part(p).literals /\ output' <= outputLimit - 12
    BY <1>1, <1>3, <1>6
  <1>8. ~(matchAddress' < 0)
    <2>1. output \in Nat /\ offset' \in 1 .. output
      BY <1>3, <1>4, <1>5, <1>7
    <2> QED BY <1>1, <2>1
  <1>9. input \in Nat /\ input + 2 <= inputLimit
    BY <1>3, <1>5
  <1>10. Sound'
    <2>1. 2 \in Nat
      OBVIOUS
    <2> QED BY <1>1, <1>9, <2>1, ReadSound DEF Good
  <1>11. MatchField(inputBase, p) = LengthField(inputBase, nibble, input + 2)
    BY <1>3, <1>6 DEF MatchField, nibble
  <1>12. /\ inputBase' = inputBase /\ outputLimit' = outputLimit
         /\ original' = original /\ Part(p)' = Part(p)
    BY <1>1, SameCall
  <1>13. ASSUME nibble = 15, matchLength' = 15, pc' = "matchLength" PROVE Phase'
    <2>1. PICK start \in Nat : start = Part(p).literalsEnd + 2
      BY <1>5
    <2>5. Extending(start, start, 15)
      BY DEF Extending
    <2>6. input' = start
      BY <1>1, <1>3, <2>1
    <2>7. Extending(start, input, matchLength)'
      BY <1>12, <1>13, <2>5, <2>6 DEF Extending
    <2>2. Extending(Part(p).literalsEnd + 2, input, matchLength)'
      BY <1>12, <2>1, <2>7
    <2>3. At(inputBase, p) % 16 = 15
      BY <1>3, <1>13 DEF nibble
    <2>4. AtMatchLength(p, o)'
      BY <1>3, <1>7, <1>12, <2>2, <2>3 DEF AtMatchLength
    <2> QED BY <1>13, <2>4 DEF Phase
  <1>14. ASSUME nibble # 15, matchLength' = nibble + 4, pc' = "match" PROVE Phase'
    <2>1. nibble \in Nat /\ nibble < 15
      <3>1. At(inputBase, p) \in Nat
        <4>1. p \in Int
          OBVIOUS
        <4> QED BY <4>1, AtType DEF Given
      <3> QED BY <1>3, <1>14, <3>1 DEF nibble
    <2>2. MatchField(inputBase, p) = [length |-> nibble, next |-> input + 2]
      BY <1>11, <2>1 DEF LengthField
    <2>3. Part(p).match = 4 + nibble /\ Part(p).next = input + 2
      BY <1>6, <2>2
    <2>4. matchLength' = Part(p).match /\ input' = Part(p).next
      BY <1>1, <1>14, <2>1, <2>3
    <2>5. AtMatch'
      BY <1>1, <1>3, <1>7, <2>4, MatchBegins
    <2> QED BY <1>14, <2>5 DEF Phase
  <1>15. Phase'
    BY <1>1, <1>8, <1>13, <1>14
  <1>16. Decoded'
    <2>1. decoded' = decoded
      BY <1>1, <1>8 DEF decoded
    <2> QED BY <1>1, <2>1, QuietDecoded DEF Good
  <1> QED BY <1>10, <1>15, <1>16 DEF Good

\* A byte of the extension of the length of the match.
LEMMA BeforeMatchByte ==
  ASSUME Given, NEW p \in Nat, NEW o \in Nat, AtMatchLength(p, o)
  PROVE  \E field :
           /\ ExtendedBy(field, Part(p).literalsEnd + 2, input, matchLength, At(inputBase, input))
           /\ Part(p).match = 4 + field.length /\ Part(p).next = field.next
           /\ field.next <= inputLimit - 6
  <1>1. /\ WithMatch(inputBase, original, p, o) /\ At(inputBase, p) % 16 = 15
        /\ Extending(Part(p).literalsEnd + 2, input, matchLength)
    BY DEF AtMatchLength
  <1> DEFINE field == MatchField(inputBase, p)
             value == At(inputBase, input)
             start == Part(p).literalsEnd + 2
  <1>2. Part(p).match = 4 + field.length /\ Part(p).next = field.next
    BY SequenceParts DEF Part
  <1>3. Part(p).next <= inputLimit - 6
    BY <1>1, MatchAt
  <1>4. field = LengthField(inputBase, 15, start)
    <2>1. Part(p).literalsEnd = LiteralEnd(inputBase, p)
      BY SequenceParts DEF Part
    <2> QED BY <1>1, <2>1 DEF MatchField
  <1>5. field.next <= inputLimit
    <2>1. Part(p).next \in Nat /\ inputLimit \in Nat
      BY <1>1, MatchAt DEF Given, Parts
    <2> QED BY <1>2, <1>3, <2>1
  <1>6. Extending(start, input, matchLength) /\ value = At(inputBase, input)
    BY <1>1
  <1> HIDE DEF field, value, start
  <1>7. ExtendedBy(field, start, input, matchLength, value)
    BY Zenon, <1>4, <1>5, <1>6, ExtensionByte
  <1> QED BY <1>2, <1>3, <1>6, <1>7 DEF start

\* The end of a valid block is never too near.
LEMMA NoRejectMatchLength == ASSUME Given, Good, RejectMatchLength PROVE FALSE
  <1>1. pc = "matchLength" /\ input > inputLimit - 5
    BY DEF RejectMatchLength, MatchLengthCutOff
  <1>2. PICK p \in Nat, o \in Nat : AtMatchLength(p, o)
    BY <1>1 DEF Good, Phase
  <1>3. PICK field :
          /\ ExtendedBy(field, Part(p).literalsEnd + 2, input, matchLength, At(inputBase, input))
          /\ Part(p).match = 4 + field.length /\ Part(p).next = field.next
          /\ field.next <= inputLimit - 6
    BY <1>2, BeforeMatchByte
  <1>4. input \in Nat /\ input < field.next
    BY <1>3 DEF ExtendedBy
  <1>5. Part(p).next \in Nat /\ inputLimit \in Nat
    BY <1>2, MatchAt DEF AtMatchLength, Given, Parts
  <1>6. field.next \in Nat
    BY <1>3, <1>5
  <1> QED BY <1>1, <1>3, <1>4, <1>5, <1>6

\* The extension goes on, or the match begins.
LEMMA MatchLengthByteGood == ASSUME Given, Good, MatchLengthByte PROVE Good'
  <1> DEFINE value == At(inputBase, input)
  <1>1. /\ pc = "matchLength" /\ input' = input + 1 /\ ReadByte
        /\ IF value = 255 THEN matchLength' = matchLength + value /\ pc' = "matchLength"
           ELSE matchLength' = matchLength + value + 4 /\ pc' = "match"
        /\ UNCHANGED <<call, output, offset, matchAddress, outputBase, writeEnd>>
    BY DEF MatchLengthByte
  <1>2. PICK p \in Nat, o \in Nat : AtMatchLength(p, o)
    BY <1>1 DEF Good, Phase
  <1>3. /\ WithMatch(inputBase, original, p, o) /\ At(inputBase, p) % 16 = 15
        /\ output = o + Part(p).literals /\ output <= outputLimit - 12
        /\ offset = Part(p).offset /\ matchAddress = output - offset
        /\ Extending(Part(p).literalsEnd + 2, input, matchLength)
    BY <1>2 DEF AtMatchLength
  <1>4. PICK field :
          /\ ExtendedBy(field, Part(p).literalsEnd + 2, input, matchLength, value)
          /\ Part(p).match = 4 + field.length /\ Part(p).next = field.next
          /\ field.next <= inputLimit - 6
    BY <1>2, BeforeMatchByte
  <1>5. /\ value \in Nat /\ input \in Nat /\ input < field.next /\ matchLength \in Nat
        /\ value # 255 => field.length = matchLength + value /\ field.next = input + 1
        /\ value = 255 => Extending(Part(p).literalsEnd + 2, input + 1, matchLength + value)
    BY <1>4 DEF ExtendedBy
  <1> HIDE DEF value
  <1>6. input < inputLimit
    <2>1. Part(p).next \in Nat /\ inputLimit \in Nat
      BY <1>3, MatchAt DEF Given, Parts
    <2>2. field.next \in Nat
      BY <1>4, <2>1
    <2> QED BY <1>4, <1>5, <2>1, <2>2
  <1>7. Sound'
    BY <1>1, <1>5, <1>6, ReadByteSound DEF Good
  <1>8. /\ inputBase' = inputBase /\ outputLimit' = outputLimit
        /\ original' = original /\ Part(p)' = Part(p)
    BY <1>1, SameCall
  <1>9. Phase'
    <2>1. CASE value = 255
      <3>1. matchLength' = matchLength + value /\ pc' = "matchLength"
        BY <1>1, <2>1
      <3>2. Extending(Part(p).literalsEnd + 2, input, matchLength)'
        BY <1>1, <1>5, <1>8, <2>1, <3>1 DEF Extending
      <3>3. AtMatchLength(p, o)'
        BY <1>1, <1>3, <1>8, <3>2 DEF AtMatchLength
      <3> QED BY <3>1, <3>3 DEF Phase
    <2>2. CASE value # 255
      <3>1. matchLength' = matchLength + value + 4 /\ pc' = "match"
        BY <1>1, <2>2
      <3>2. Part(p).match = 4 + (matchLength + value) /\ Part(p).next = input + 1
        BY <1>4, <1>5, <2>2
      <3>3. matchLength' = Part(p).match /\ input' = Part(p).next
        BY <1>1, <1>5, <3>1, <3>2
      <3>4. AtMatch'
        BY <1>1, <1>3, <3>3, MatchBegins
      <3> QED BY <3>1, <3>4 DEF Phase
    <2> QED BY <2>1, <2>2
  <1>10. Decoded'
    <2>1. pc' \in {"matchLength", "match"}
      BY <1>1
    <2>2. decoded' = decoded
      BY <1>1, <2>1 DEF decoded
    <2> QED BY <1>1, <2>2, QuietDecoded DEF Good
  <1> QED BY <1>7, <1>9, <1>10 DEF Good

-----------------------------------------------------------------------------
\* Copying the match

\* Where a copy of n bytes of the match from at to end reads and writes: a period
\* of the match behind the output, and within it.
Source(at, end, n) ==
  /\ output \in Nat /\ matchAddress \in Nat /\ n \in Nat
  /\ at - offset <= matchAddress /\ matchAddress + n <= output /\ output + n <= outputLimit
  /\ Period(original, at - offset, end, output - matchAddress)

\* Where the output goes on after n bytes of a match up to end.
Moved(end, n) ==
  \/ pc' = "thrown"
  \/ /\ pc' \in {"overlap", "matchWords", "carefulCopy"}
     /\ output' = output + n /\ matchOutputLimit' = end
  \/ pc' = "token" /\ output' = end /\ output + n >= end

\* How much is decoded when the output is there.
UpTo(end, there) == IF there > end THEN end ELSE there

\* What is decoded after a step of a match copy.
LEMMA MovedDecoded ==
  ASSUME Given, UNCHANGED call, NEW end \in Nat, end <= Len(original), NEW n \in Nat, output \in Nat,
         Moved(end, n), SameBytes(outputBase', 0, original, 0, UpTo(end, output + n))
  PROVE  Decoded'
  <1>1. output + n \in Nat /\ Len(original) \in Nat
    BY DEF Given
  <1>2. UpTo(end, output + n) \in Nat /\ UpTo(end, output + n) <= Len(original)
    BY <1>1 DEF UpTo
  <1>3. original' = original
    BY SameCall
  <1>4. pc' = "thrown" \/ decoded' = UpTo(end, output + n)
    <2>1. CASE pc' = "thrown"
      BY <2>1
    <2>2. CASE /\ pc' \in {"overlap", "matchWords", "carefulCopy"}
               /\ output' = output + n /\ matchOutputLimit' = end
      BY <2>2 DEF decoded, UpTo
    <2>3. CASE pc' = "token" /\ output' = end /\ output + n >= end
      <3>1. decoded' = end
        BY <2>3 DEF decoded
      <3>2. UpTo(end, output + n) = end
        BY <1>1, <2>3 DEF UpTo
      <3> QED BY <3>1, <3>2
    <2> QED BY <2>1, <2>2, <2>3 DEF Moved
  <1> QED BY <1>2, <1>3, <1>4 DEF Decoded

\* Bytes of a match are copied: the data is extended up to the end of the match,
\* and what is copied beyond it is not looked at.
LEMMA MatchCopied ==
  ASSUME Given, Sound, UNCHANGED <<call, readEnd>>,
         NEW at, NEW end, Matching(at, end), NEW n, Source(at, end, n),
         SameBytes(outputBase, 0, original, 0, UpTo(end, output)),
         outputBase' = Copy(outputBase, output, matchAddress, n),
         writeEnd' = Reach(writeEnd, output, n), Moved(end, n)
  PROVE  Sound' /\ Decoded'
  <1>1. /\ at \in Nat /\ end \in Nat /\ end <= Len(original) - 5 /\ offset \in 1 .. at
    BY DEF Matching
  <1>2. /\ output \in Nat /\ matchAddress \in Nat /\ n \in Nat
        /\ at - offset <= matchAddress /\ matchAddress + n <= output /\ output + n <= outputLimit
        /\ Period(original, at - offset, end, output - matchAddress)
    BY DEF Source
  <1>3. outputBase \in Seq(Byte) /\ Len(outputBase) = outputLimit /\ outputLimit \in Nat
    BY DEF Sound, Given
  <1>4. PICK start \in Nat : start = at - offset
    BY <1>1
  <1>5. PICK keep \in Nat : keep = UpTo(end, output)
    BY <1>1, <1>2 DEF UpTo
  <1>6. PICK upto \in Nat : upto = UpTo(end, output + n)
    BY <1>1, <1>2 DEF UpTo
  <1> DEFINE next == Store(outputBase, output, Load(outputBase, matchAddress, n))
  <1>7. next \in Seq(Byte) /\ Len(next) = Len(outputBase) /\ SameBytes(next, 0, original, 0, upto)
    <2>1. keep = (IF output > end THEN end ELSE output) /\ upto = (IF output + n > end THEN end ELSE output + n)
      BY <1>5, <1>6 DEF UpTo
    <2>2. output + n <= Len(outputBase) /\ start <= matchAddress
      BY <1>2, <1>3, <1>4
    <2>3. Period(original, start, end, output - matchAddress) /\ SameBytes(outputBase, 0, original, 0, keep)
      BY <1>2, <1>4, <1>5
    <2>4. HoldsUpTo(next, outputBase, original, upto)
      BY Zenon, <1>1, <1>2, <1>3, <2>1, <2>2, <2>3, CopyFromOutput
    <2> QED BY <2>4 DEF HoldsUpTo
  <1>8. outputBase' = next
    BY DEF Copy
  <1> HIDE DEF next
  <1>9. Sound'
    <2>1. outputBase' \in Seq(Byte) /\ Len(outputBase') = Len(outputBase)
      BY <1>7, <1>8
    <2> QED BY <1>2, <2>1, CopySound
  <1>10. Decoded'
    <2>1. end <= Len(original)
      BY <1>1 DEF Given
    <2>2. SameBytes(outputBase', 0, original, 0, UpTo(end, output + n))
      BY <1>6, <1>7, <1>8
    <2> QED BY <1>1, <1>2, <2>1, <2>2, MovedDecoded
  <1> QED BY <1>9, <1>10

\* A match copy that goes on in words: all but its first bytes.
LEMMA WordsStay ==
  ASSUME Given, UNCHANGED <<call, input, offset, matchOutputLimit>>, NEW at \in Nat, AtWords(at),
         NEW n \in Nat, output' = output + n, matchAddress' = matchAddress + n
  PROVE  AtWords(at)'
  <1>1. /\ Matching(at, matchOutputLimit)
        /\ output \in Nat /\ matchAddress \in Nat /\ at - offset <= matchAddress
        /\ matchAddress + 8 <= output /\ (output - matchAddress) % offset = 0
        /\ Period(original, at - offset, matchOutputLimit, output - matchAddress)
    BY DEF AtWords
  <1>2. /\ inputBase' = inputBase /\ outputLimit' = outputLimit /\ original' = original
    BY SameCall
  <1>3. Matching(at, matchOutputLimit)'
    BY <1>1, <1>2 DEF Matching
  <1>4. offset \in Nat
    BY <1>1 DEF Matching
  <1>5. /\ output' - matchAddress' = output - matchAddress /\ output' \in Nat /\ matchAddress' \in Nat
        /\ at - offset <= matchAddress' /\ matchAddress' + 8 <= output'
    BY <1>1, <1>4
  <1>6. /\ (output' - matchAddress') % offset' = 0
        /\ Period(original', at - offset', matchOutputLimit', output' - matchAddress')
    BY <1>1, <1>2, <1>5
  <1> QED BY <1>3, <1>5, <1>6 DEF AtWords

\* How far the tables have the source behind the output after the first four
\* bytes, and after the first eight.
Near(d) == (4 + d) - DEC_32_TABLE[d + 1]
Far(d)  == (Near(d) + 4) + DEC_64_TABLE[d + 1]

\* The distances for every offset: multiples of it.
LEMMA Distances ==
  ASSUME NEW d \in 1 .. 7
  PROVE  \/ d = 1 /\ Near(d) = 4 /\ Far(d) = 8  /\ DEC_32_TABLE[d + 1] = 1 /\ DEC_64_TABLE[d + 1] = 0
         \/ d = 2 /\ Near(d) = 4 /\ Far(d) = 8  /\ DEC_32_TABLE[d + 1] = 2 /\ DEC_64_TABLE[d + 1] = 0
         \/ d = 3 /\ Near(d) = 6 /\ Far(d) = 9  /\ DEC_32_TABLE[d + 1] = 1 /\ DEC_64_TABLE[d + 1] = -1
         \/ d = 4 /\ Near(d) = 4 /\ Far(d) = 8  /\ DEC_32_TABLE[d + 1] = 4 /\ DEC_64_TABLE[d + 1] = 0
         \/ d = 5 /\ Near(d) = 5 /\ Far(d) = 10 /\ DEC_32_TABLE[d + 1] = 4 /\ DEC_64_TABLE[d + 1] = 1
         \/ d = 6 /\ Near(d) = 6 /\ Far(d) = 12 /\ DEC_32_TABLE[d + 1] = 4 /\ DEC_64_TABLE[d + 1] = 2
         \/ d = 7 /\ Near(d) = 7 /\ Far(d) = 14 /\ DEC_32_TABLE[d + 1] = 4 /\ DEC_64_TABLE[d + 1] = 3
  <1>1. /\ DEC_32_TABLE[2] = 1 /\ DEC_32_TABLE[3] = 2 /\ DEC_32_TABLE[4] = 1 /\ DEC_32_TABLE[5] = 4
        /\ DEC_32_TABLE[6] = 4 /\ DEC_32_TABLE[7] = 4 /\ DEC_32_TABLE[8] = 4
    BY DEF DEC_32_TABLE
  <1>2. /\ DEC_64_TABLE[2] = 0 /\ DEC_64_TABLE[3] = 0 /\ DEC_64_TABLE[4] = -1 /\ DEC_64_TABLE[5] = 0
        /\ DEC_64_TABLE[6] = 1 /\ DEC_64_TABLE[7] = 2 /\ DEC_64_TABLE[8] = 3
    BY DEF DEC_64_TABLE
  <1>3. CASE d = 1 BY <1>1, <1>2, <1>3 DEF Near, Far
  <1>4. CASE d = 2 BY <1>1, <1>2, <1>4 DEF Near, Far
  <1>5. CASE d = 3 BY <1>1, <1>2, <1>5 DEF Near, Far
  <1>6. CASE d = 4 BY <1>1, <1>2, <1>6 DEF Near, Far
  <1>7. CASE d = 5 BY <1>1, <1>2, <1>7 DEF Near, Far
  <1>8. CASE d = 6 BY <1>1, <1>2, <1>8 DEF Near, Far
  <1>9. CASE d = 7 BY <1>1, <1>2, <1>9 DEF Near, Far
  <1> QED BY <1>3, <1>4, <1>5, <1>6, <1>7, <1>8, <1>9

\* What the copies need of the distances.
LEMMA DistancesAre ==
  ASSUME NEW d \in 1 .. 7
  PROVE  /\ Near(d) \in Nat /\ Near(d) >= 4 /\ Far(d) \in Nat /\ Far(d) >= 8 /\ Far(d) % d = 0
         /\ DEC_32_TABLE[d + 1] \in Nat /\ DEC_64_TABLE[d + 1] \in Int
         /\ DEC_64_TABLE[d + 1] <= DEC_32_TABLE[d + 1]
  BY Distances

\* Whatever repeats itself at the offset does so at these distances.
LEMMA DistancesArePeriods ==
  ASSUME NEW data, NEW start \in Int, NEW end \in Int, NEW d \in 1 .. 7, Period(data, start, end, d)
  PROVE  Period(data, start, end, Near(d)) /\ Period(data, start, end, Far(d))
  <1> DEFINE P(n) == Period(data, start, end, n)
  <1>1. \A m, n \in Nat : P(m) /\ P(n) => P(m + n)
    BY PeriodSum
  <1>2. P(d)
    OBVIOUS
  <1> HIDE DEF P
  <1>3. P(Near(d)) /\ P(Far(d))
    <2>1. CASE d = 1 /\ Near(d) = 4 /\ Far(d) = 8
      <3>1. P(1 + 1)
        BY <1>1, <1>2, <2>1
      <3>2. P(2 + 2)
        BY <1>1, <3>1
      <3>3. P(4 + 4)
        BY <1>1, <3>2
      <3> QED BY <2>1, <3>2, <3>3
    <2>2. CASE d = 2 /\ Near(d) = 4 /\ Far(d) = 8
      <3>1. P(2 + 2)
        BY <1>1, <1>2, <2>2
      <3>2. P(4 + 4)
        BY <1>1, <3>1
      <3> QED BY <2>2, <3>1, <3>2
    <2>3. CASE d = 3 /\ Near(d) = 6 /\ Far(d) = 9
      <3>1. P(3 + 3)
        BY <1>1, <1>2, <2>3
      <3>2. P(6 + 3)
        BY <1>1, <1>2, <2>3, <3>1
      <3> QED BY <2>3, <3>1, <3>2
    <2>4. CASE d = 4 /\ Near(d) = 4 /\ Far(d) = 8
      <3>1. P(4 + 4)
        BY <1>1, <1>2, <2>4
      <3> QED BY <1>2, <2>4, <3>1
    <2>5. CASE d = 5 /\ Near(d) = 5 /\ Far(d) = 10
      <3>1. P(5 + 5)
        BY <1>1, <1>2, <2>5
      <3> QED BY <1>2, <2>5, <3>1
    <2>6. CASE d = 6 /\ Near(d) = 6 /\ Far(d) = 12
      <3>1. P(6 + 6)
        BY <1>1, <1>2, <2>6
      <3> QED BY <1>2, <2>6, <3>1
    <2>7. CASE d = 7 /\ Near(d) = 7 /\ Far(d) = 14
      <3>1. P(7 + 7)
        BY <1>1, <1>2, <2>7
      <3> QED BY <1>2, <2>7, <3>1
    <2> QED BY <2>1, <2>2, <2>3, <2>4, <2>5, <2>6, <2>7, Distances
  <1> QED BY <1>3 DEF P

\* A match stays the same while it is copied.
LEMMA MatchingStays ==
  ASSUME UNCHANGED <<call, input, offset>>, NEW at, NEW end, Matching(at, end)
  PROVE  Matching(at, end)'
  <1>1. /\ inputBase' = inputBase /\ outputLimit' = outputLimit /\ original' = original
    BY SameCall
  <1> QED BY <1>1 DEF Matching

\* After the first eight bytes: the copy is refused only if the caller was wrong
\* about the size, and goes on with words while they fit.
LEMMA AfterFirst ==
  ASSUME Given, UNCHANGED call, NEW at \in Nat, NEW end \in Nat,
         at + 4 <= end, end <= Len(original) - 5, at <= outputLimit - 12,
         AfterFirstWord(end), AtWords(at)', output' = at + 8, matchOutputLimit' = end
  PROVE  Phase' /\ pc' \in {"thrown", "matchWords", "carefulCopy"}
  <1>1. outputLimit \in Nat /\ Len(original) \in Nat
    BY DEF Given
  <1>2. /\ outputLimit' = outputLimit /\ original' = original
    BY SameCall
  <1>3. NearEnd(end) <=> end > outputLimit - 12
    BY <1>1 DEF NearEnd, fastOutputLimit
  <1>4. \/ pc' = "thrown" /\ end > outputLimit - 5
        \/ pc' = "carefulCopy" /\ end > outputLimit - 12 /\ end <= outputLimit - 5
        \/ pc' = "matchWords" /\ end <= outputLimit - 12
    BY <1>1, <1>3 DEF AfterFirstWord
  <1>5. CASE pc' = "thrown" /\ end > outputLimit - 5
    <2>1. outputLimit # Len(original)
      BY <1>1, <1>5
    <2> QED BY <1>2, <1>5, <2>1 DEF Phase
  <1>6. CASE pc' = "carefulCopy" /\ end > outputLimit - 12 /\ end <= outputLimit - 5
    <2>1. at + 8 <= outputLimit
      BY <1>1
    <2>2. /\ output' <= outputLimit' /\ matchOutputLimit' > outputLimit' - 12
          /\ matchOutputLimit' <= outputLimit' - 5
      BY <1>2, <1>6, <2>1
    <2> QED BY <1>6, <2>2 DEF Phase
  <1>7. CASE pc' = "matchWords" /\ end <= outputLimit - 12
    <2>1. (at + 8) + 8 <= outputLimit
      BY <1>1, <1>7
    <2>2. output' + 8 <= outputLimit' /\ matchOutputLimit' <= outputLimit' - 12
      BY <1>2, <1>7, <2>1
    <2> QED BY <1>7, <2>2 DEF Phase
  <1> QED BY <1>4, <1>5, <1>6, <1>7

\* The first word of a match that its source does not overlap.
LEMMA WordStartGood == ASSUME Given, Good, WordStart PROVE Good'
  <1>1. /\ pc = "match" /\ offset >= 8
        /\ outputBase' = Copy(outputBase, output, matchAddress, 8)
        /\ writeEnd' = Reach(writeEnd, output, 8)
        /\ matchAddress' = matchAddress + 8 /\ output' = output + 8
        /\ matchOutputLimit' = output + matchLength
        /\ AfterFirstWord(output + matchLength)
        /\ UNCHANGED <<call, input, offset, readEnd>>
    BY DEF WordStart
  <1>2. /\ Matching(output, output + matchLength) /\ matchAddress = output - offset
        /\ matchLength \in Nat
    BY <1>1 DEF Good, Phase, AtMatch
  <1>3. output \in Nat /\ output + matchLength \in Nat
    BY <1>2 DEF Matching
  <1>4. PICK at \in Nat : at = output
    BY <1>3
  <1>5. PICK end \in Nat : end = output + matchLength
    BY <1>3
  <1>6. Matching(at, end)
    BY <1>2, <1>4, <1>5
  <1>7. /\ at + 4 <= end /\ end <= Len(original) - 5 /\ at <= outputLimit - 12
        /\ offset \in 1 .. at
        /\ SameBytes(original, at, original, at - offset, end - at)
    BY <1>6 DEF Matching
  <1>8. Period(original, at - offset, end, offset)
    BY <1>7, PeriodOfMatch
  <1>9. PICK d \in Nat : d = offset
    BY <1>7
  <1>10. /\ output = at /\ matchAddress = at - d /\ d >= 8 /\ d <= at
         /\ output' = at + 8 /\ matchAddress' = (at - d) + 8
    BY <1>1, <1>2, <1>4, <1>7, <1>9
  <1>11. Source(at, end, 8)
    <2>1. output - matchAddress = d /\ matchAddress \in Nat /\ matchAddress + 8 <= output
      BY <1>10
    <2>2. output + 8 <= outputLimit
      BY <1>7, <1>10 DEF Given
    <2>3. at - offset <= matchAddress
      BY <1>9, <1>10
    <2> QED BY <1>3, <1>8, <1>9, <2>1, <2>2, <2>3 DEF Source
  <1>12. AtWords(at)'
    <2>1. Matching(at, end)'
      BY <1>1, <1>6, MatchingStays
    <2>2. /\ output' - matchAddress' = d /\ matchAddress' \in Nat /\ output' \in Nat
          /\ matchAddress' + 8 <= output' /\ at - d <= matchAddress'
      BY <1>10
    <2>3. d % d = 0
      BY <1>10
    <2>4. original' = original /\ offset' = d /\ matchOutputLimit' = end
      BY <1>1, <1>5, <1>9, SameCall
    <2>5. Period(original', at - offset', matchOutputLimit', output' - matchAddress')
      BY <1>8, <1>9, <2>2, <2>4
    <2>6. (output' - matchAddress') % offset' = 0 /\ at - offset' <= matchAddress'
      BY <2>2, <2>3, <2>4
    <2>7. Matching(at, matchOutputLimit)'
      BY <2>1, <2>4
    <2> QED BY <2>2, <2>5, <2>6, <2>7 DEF AtWords
  <1>13. Phase' /\ pc' \in {"thrown", "matchWords", "carefulCopy"}
    <2>1. matchOutputLimit' = end /\ AfterFirstWord(end)
      BY <1>1, <1>5
    <2> QED BY <1>1, <1>7, <1>10, <1>12, <2>1, AfterFirst
  <1>14. Sound' /\ Decoded'
    <2>1. SameBytes(outputBase, 0, original, 0, UpTo(end, output))
      <3>1. decoded = output
        BY <1>1 DEF decoded
      <3>2. UpTo(end, output) = output
        BY <1>4, <1>7 DEF UpTo
      <3> QED BY <1>1, <3>1, <3>2 DEF Good, Decoded
    <2>2. Moved(end, 8)
      BY <1>1, <1>5, <1>13 DEF Moved
    <2> QED BY <1>1, <1>6, <1>11, <2>1, <2>2, MatchCopied DEF Good
  <1> QED BY <1>13, <1>14 DEF Good

\* Bytes four to seven of an overlapping match: from here on the source is a word
\* behind.
LEMMA OverlapWordGood == ASSUME Given, Good, OverlapWord PROVE Good'
  <1>1. /\ pc = "overlap"
        /\ outputBase' = Copy(outputBase, output, matchAddress, 4)
        /\ writeEnd' = Reach(writeEnd, output, 4)
        /\ matchAddress' = matchAddress - DEC_64_TABLE[offset + 1] /\ output' = output + 4
        /\ AfterFirstWord(matchOutputLimit)
        /\ UNCHANGED <<call, input, offset, matchOutputLimit, readEnd>>
    BY DEF OverlapWord
  <1>2. PICK at \in Nat : AtOverlap(at)
    BY <1>1 DEF Good, Phase
  <1>3. /\ Matching(at, matchOutputLimit) /\ offset < 8 /\ output = at + 4
        /\ matchAddress = (at - offset) + DEC_32_TABLE[offset + 1]
    BY <1>2 DEF AtOverlap
  <1>4. PICK end \in Nat : end = matchOutputLimit
    BY <1>3 DEF Matching
  <1>5. Matching(at, end)
    BY <1>3, <1>4
  <1>6. /\ at + 4 <= end /\ end <= Len(original) - 5 /\ at <= outputLimit - 12
        /\ offset \in 1 .. at
        /\ SameBytes(original, at, original, at - offset, end - at)
    BY <1>5 DEF Matching
  <1>7. PICK d \in 1 .. 7 : d = offset
    BY <1>3, <1>6
  <1>8. d <= at
    BY <1>6, <1>7
  <1>9. Period(original, at - d, end, d)
    BY <1>6, <1>7, PeriodOfMatch
  <1>10. Period(original, at - d, end, Near(d)) /\ Period(original, at - d, end, Far(d))
    <2>1. at - d \in Int /\ end \in Int
      OBVIOUS
    <2> QED BY <1>9, <2>1, DistancesArePeriods
  <1>11. PICK t \in Nat, u \in Int : t = DEC_32_TABLE[d + 1] /\ u = DEC_64_TABLE[d + 1]
    BY DistancesAre
  <1>12. PICK near \in Nat, far \in Nat : near = Near(d) /\ far = Far(d)
    BY DistancesAre
  <1>13. near = (4 + d) - t /\ far = (near + 4) + u
    BY <1>11, <1>12 DEF Near, Far
  <1>14. near >= 4 /\ far >= 8 /\ far % d = 0 /\ u <= t
    BY <1>11, <1>12, DistancesAre
  <1>15. /\ output = at + 4 /\ matchAddress = (at - d) + t
         /\ output' = at + 8 /\ matchAddress' = ((at - d) + t) - u
    BY <1>1, <1>3, <1>7, <1>11
  <1>16. Source(at, end, 4)
    <2>1. /\ output - matchAddress = near /\ matchAddress \in Nat /\ matchAddress + 4 <= output
          /\ output \in Nat /\ at - d <= matchAddress
      BY <1>8, <1>13, <1>14, <1>15
    <2>2. output + 4 <= outputLimit
      BY <1>6, <1>15 DEF Given
    <2> QED BY <1>7, <1>10, <1>12, <2>1, <2>2 DEF Source
  <1>17. AtWords(at)'
    <2>1. Matching(at, end)'
      BY <1>1, <1>5, MatchingStays
    <2>2. /\ output' - matchAddress' = far /\ matchAddress' \in Nat /\ output' \in Nat
          /\ matchAddress' + 8 <= output' /\ at - d <= matchAddress'
      BY <1>8, <1>13, <1>14, <1>15
    <2>3. original' = original /\ offset' = d /\ matchOutputLimit' = end
      BY <1>1, <1>4, <1>7, SameCall
    <2>4. Period(original', at - offset', matchOutputLimit', output' - matchAddress')
      BY <1>10, <1>12, <2>2, <2>3
    <2>5. (output' - matchAddress') % offset' = 0 /\ at - offset' <= matchAddress'
      BY <1>14, <2>2, <2>3
    <2>6. Matching(at, matchOutputLimit)'
      BY <2>1, <2>3
    <2> QED BY <2>2, <2>4, <2>5, <2>6 DEF AtWords
  <1>18. Phase' /\ pc' \in {"thrown", "matchWords", "carefulCopy"}
    <2>1. matchOutputLimit' = end /\ AfterFirstWord(end)
      BY <1>1, <1>4
    <2> QED BY <1>1, <1>6, <1>15, <1>17, <2>1, AfterFirst
  <1>19. Sound' /\ Decoded'
    <2>1. SameBytes(outputBase, 0, original, 0, UpTo(end, output))
      <3>1. decoded = UpTo(end, output)
        BY <1>1, <1>4 DEF decoded, UpTo
      <3> QED BY <1>1, <3>1 DEF Good, Decoded
    <2>2. Moved(end, 4)
      BY <1>1, <1>4, <1>18 DEF Moved
    <2> QED BY <1>1, <1>5, <1>16, <2>1, <2>2, MatchCopied DEF Good
  <1> QED BY <1>18, <1>19 DEF Good

\* The words behind the first are copied from a period, and stay in the output.
LEMMA WordsSource ==
  ASSUME Given, Good, NEW at \in Nat, AtWords(at), NEW n \in Nat, n <= 8, output + n <= outputLimit,
         pc \in {"matchWords", "carefulCopy"}
  PROVE  /\ Matching(at, matchOutputLimit) /\ Source(at, matchOutputLimit, n)
         /\ SameBytes(outputBase, 0, original, 0, UpTo(matchOutputLimit, output))
         /\ output \in Nat /\ matchOutputLimit \in Nat
  <1>1. /\ Matching(at, matchOutputLimit)
        /\ output \in Nat /\ matchAddress \in Nat /\ at - offset <= matchAddress
        /\ matchAddress + 8 <= output
        /\ Period(original, at - offset, matchOutputLimit, output - matchAddress)
    BY DEF AtWords
  <1>2. matchAddress + n <= output
    BY <1>1
  <1>3. Source(at, matchOutputLimit, n)
    BY <1>1, <1>2 DEF Source
  <1>4. decoded = UpTo(matchOutputLimit, output)
    BY DEF decoded, UpTo
  <1>5. SameBytes(outputBase, 0, original, 0, UpTo(matchOutputLimit, output))
    BY <1>4 DEF Good, Decoded
  <1> QED BY <1>1, <1>3, <1>5 DEF Matching

\* A match that is copied: the next sequence.
LEMMA NextToken ==
  ASSUME UNCHANGED <<call, input>>, NEW at, Matching(at, matchOutputLimit),
         output' = matchOutputLimit, pc' = "token"
  PROVE  Phase'
  <1>1. OnPath(inputBase, original, input, matchOutputLimit)
    BY DEF Matching
  <1>2. OnPath(inputBase, original, input, output)'
    BY <1>1, SameCall
  <1> QED BY <1>2 DEF Phase

\* One word of a match far from the end of the output.
LEMMA CopyMatchWordGood == ASSUME Given, Good, CopyMatchWord PROVE Good'
  <1>1. /\ pc = "matchWords"
        /\ outputBase' = Copy(outputBase, output, matchAddress, 8)
        /\ writeEnd' = Reach(writeEnd, output, 8) /\ matchAddress' = matchAddress + 8
        /\ IF output + 8 < matchOutputLimit THEN output' = output + 8 /\ pc' = "matchWords"
           ELSE output' = matchOutputLimit /\ pc' = "token"
        /\ UNCHANGED <<call, input, offset, matchOutputLimit, readEnd>>
    BY DEF CopyMatchWord
  <1>2. PICK at \in Nat : AtWords(at)
    BY <1>1 DEF Good, Phase
  <1>3. matchOutputLimit <= outputLimit - 12 /\ output + 8 <= outputLimit
    BY <1>1 DEF Good, Phase
  <1>4. /\ Matching(at, matchOutputLimit) /\ Source(at, matchOutputLimit, 8)
        /\ SameBytes(outputBase, 0, original, 0, UpTo(matchOutputLimit, output))
        /\ output \in Nat /\ matchOutputLimit \in Nat
    <2>1. 8 \in Nat /\ 8 <= 8
      OBVIOUS
    <2> QED BY <1>1, <1>2, <1>3, <2>1, WordsSource
  <1>5. Moved(matchOutputLimit, 8)
    BY <1>1, <1>4 DEF Moved
  <1>6. Sound' /\ Decoded'
    BY <1>1, <1>4, <1>5, MatchCopied DEF Good
  <1>7. Phase'
    <2>1. CASE output + 8 < matchOutputLimit
      <3>1. output' = output + 8 /\ pc' = "matchWords"
        BY <1>1, <2>1
      <3>2. AtWords(at)'
        <4>1. 8 \in Nat
          OBVIOUS
        <4> QED BY <1>1, <1>2, <3>1, <4>1, WordsStay
      <3>3. matchOutputLimit' <= outputLimit' - 12 /\ output' + 8 <= outputLimit'
        <4>1. outputLimit' = outputLimit /\ outputLimit \in Nat
          BY <1>1, SameCall DEF Given
        <4>2. (output + 8) + 8 <= outputLimit
          BY <1>3, <1>4, <2>1, <4>1
        <4> QED BY <1>1, <1>3, <3>1, <4>1, <4>2
      <3> QED BY <3>1, <3>2, <3>3 DEF Phase
    <2>2. CASE ~(output + 8 < matchOutputLimit)
      BY <1>1, <1>4, <2>2, NextToken
    <2> QED BY <2>1, <2>2
  <1> QED BY <1>6, <1>7 DEF Good

\* One word or one byte of a match near the end of the output.
LEMMA CarefulCopyGood ==
  ASSUME Given, Good, pc = "carefulCopy", NEW n \in Nat, n <= 8, output + n <= outputLimit,
         outputBase' = Copy(outputBase, output, matchAddress, n),
         writeEnd' = Reach(writeEnd, output, n), matchAddress' = matchAddress + n,
         output' = output + n, UNCHANGED <<pc, call, input, offset, matchOutputLimit, readEnd>>
  PROVE  Good'
  <1>1. PICK at \in Nat : AtWords(at)
    BY DEF Good, Phase
  <1>2. matchOutputLimit > outputLimit - 12 /\ matchOutputLimit <= outputLimit - 5
    BY DEF Good, Phase
  <1>3. /\ Matching(at, matchOutputLimit) /\ Source(at, matchOutputLimit, n)
        /\ SameBytes(outputBase, 0, original, 0, UpTo(matchOutputLimit, output))
        /\ output \in Nat /\ matchOutputLimit \in Nat
    BY <1>1, WordsSource
  <1>4. Moved(matchOutputLimit, n)
    BY DEF Moved
  <1>5. Sound' /\ Decoded'
    BY <1>3, <1>4, MatchCopied DEF Good
  <1>6. AtWords(at)'
    BY <1>1, WordsStay
  <1>7. outputLimit' = outputLimit
    BY SameCall
  <1>8. Phase'
    BY <1>2, <1>6, <1>7 DEF Phase
  <1> QED BY <1>5, <1>8 DEF Good

\* Both kinds of steps of the careful copy.
LEMMA CarefulStepGood == ASSUME Given, Good, CarefulWord \/ CarefulByte PROVE Good'
  <1>1. pc = "carefulCopy"
    BY DEF CarefulWord, CarefulByte
  <1>2. PICK at \in Nat : AtWords(at)
    BY <1>1 DEF Good, Phase
  <1>3. output \in Nat /\ matchOutputLimit \in Nat /\ outputLimit \in Nat
    BY <1>2 DEF AtWords, Matching, Given
  <1>4. matchOutputLimit <= outputLimit - 5
    BY <1>1 DEF Good, Phase
  <1>5. CASE CarefulWord
    <2>1. output < outputLimit - 8
      BY <1>5 DEF CarefulWord, fastOutputLimit
    <2>2. 8 \in Nat /\ 8 <= 8 /\ output + 8 <= outputLimit
      BY <1>3, <2>1
    <2> QED BY <1>1, <1>5, <2>2, CarefulCopyGood DEF CarefulWord
  <1>6. CASE CarefulByte
    <2>1. output < matchOutputLimit
      BY <1>6 DEF CarefulByte
    <2>2. 1 \in Nat /\ 1 <= 8 /\ output + 1 <= outputLimit
      BY <1>3, <1>4, <2>1
    <2> QED BY <1>1, <1>6, <2>2, CarefulCopyGood DEF CarefulByte
  <1> QED BY <1>5, <1>6

\* The end of the careful copy: the cursor goes back to the end of the match.
LEMMA CarefulDoneGood == ASSUME Given, Good, CarefulDone PROVE Good'
  <1>1. /\ pc = "carefulCopy" /\ pc' = "token" /\ output >= matchOutputLimit
        /\ output' = matchOutputLimit
        /\ UNCHANGED <<call, input, outputBase, readEnd, writeEnd>>
    BY DEF CarefulDone, memory
  <1>2. PICK at \in Nat : AtWords(at)
    BY <1>1 DEF Good, Phase
  <1>3. Matching(at, matchOutputLimit) /\ output \in Nat
    BY <1>2 DEF AtWords
  <1>4. Sound'
    BY <1>1, QuietSound DEF Good
  <1>5. Phase'
    BY <1>1, <1>3, NextToken
  <1>6. decoded' = decoded
    <2>1. decoded' = matchOutputLimit
      BY <1>1 DEF decoded
    <2>2. decoded = matchOutputLimit
      BY <1>1, <1>3 DEF decoded, Matching
    <2> QED BY <2>1, <2>2
  <1>7. Decoded'
    BY <1>1, <1>6, QuietDecoded DEF Good
  <1> QED BY <1>4, <1>5, <1>7 DEF Good

\* The four bytes that an overlapping match begins with.
IsFirst(f, buffer, from, d) ==
  f = [k \in 0 .. 3 |-> IF d = 0 \/ k < d THEN At(buffer, from + k) ELSE f[k - d]]

\* They are bytes of the data, those that were just written too.
LEMMA FirstBytes ==
  ASSUME NEW buffer, NEW data, NEW at \in Nat, NEW d \in 1 .. at, NEW end \in Nat, at + 4 <= end,
         SameBytes(buffer, 0, data, 0, at), Period(data, at - d, end, d)
  PROVE  LET first == CHOOSE f : IsFirst(f, buffer, at - d, d)
         IN  \A k \in 0 .. 3 : first[k] = At(data, at + k)
  <1>1. ASSUME NEW k \in 0 .. 3, k < d PROVE At(buffer, (at - d) + k) = At(data, at + k)
    <2>1. (at - d) + k \in 0 .. at - 1 /\ 0 + ((at - d) + k) = (at - d) + k
      BY <1>1
    <2>2. At(buffer, (at - d) + k) = At(data, (at - d) + k)
      BY <2>1 DEF SameBytes
    <2>3. at + k \in (at - d) + d .. end - 1 /\ (at + k) - d = (at - d) + k
      BY <1>1
    <2>4. At(data, at + k) = At(data, (at + k) - d)
      BY <2>3 DEF Period
    <2> QED BY <2>2, <2>3, <2>4
  <1>2. ASSUME NEW k \in 0 .. 3, ~(k < d)
        PROVE  k - d \in 0 .. 3 /\ k - d < k /\ At(data, at + (k - d)) = At(data, at + k)
    <2>1. at + k \in (at - d) + d .. end - 1 /\ (at + k) - d = at + (k - d)
      BY <1>2
    <2>2. At(data, at + k) = At(data, (at + k) - d)
      BY <2>1 DEF Period
    <2> QED BY <1>2, <2>1, <2>2
  <1>3. \E f : IsFirst(f, buffer, at - d, d)
    <2> DEFINE f == [k \in 0 .. 3 |-> At(data, at + k)]
               g == [k \in 0 .. 3 |-> IF d = 0 \/ k < d THEN At(buffer, (at - d) + k) ELSE f[k - d]]
    <2>1. \A k \in 0 .. 3 : f[k] = g[k]
      <3> TAKE k \in 0 .. 3
      <3>1. CASE k < d
        BY <1>1, <3>1
      <3>2. CASE ~(k < d)
        <4>1. k - d \in 0 .. 3 /\ At(data, at + (k - d)) = At(data, at + k)
          BY <1>2, <3>2
        <4>2. f[k - d] = At(data, at + (k - d))
          BY <4>1
        <4> QED BY <3>2, <4>1, <4>2
      <3> QED BY <3>1, <3>2
    <2>2. f = g
      BY <2>1
    <2>3. IsFirst(f, buffer, at - d, d)
      BY <2>2 DEF IsFirst
    <2> QED BY <2>3
  <1> DEFINE first == CHOOSE f : IsFirst(f, buffer, at - d, d)
  <1>4. IsFirst(first, buffer, at - d, d)
    BY Zenon, <1>3
  <1> HIDE DEF first
  <1>5. ASSUME NEW k \in 0 .. 3
        PROVE  first[k] = IF d = 0 \/ k < d THEN At(buffer, (at - d) + k) ELSE first[k - d]
    BY <1>4 DEF IsFirst
  <1>6. ASSUME NEW k \in 0 .. 3, \A m \in 0 .. 3 : m < k => first[m] = At(data, at + m)
        PROVE  first[k] = At(data, at + k)
    <2>1. CASE k < d
      BY <1>1, <1>5, <2>1
    <2>2. CASE ~(k < d)
      <3>1. first[k] = first[k - d]
        BY <1>5, <2>2
      <3>2. k - d \in 0 .. 3 /\ k - d < k /\ At(data, at + (k - d)) = At(data, at + k)
        BY <1>2, <2>2
      <3> QED BY <1>6, <3>1, <3>2
    <2> QED BY <2>1, <2>2
  <1>7. first[0] = At(data, at + 0)
    BY <1>6
  <1>8. first[1] = At(data, at + 1)
    BY <1>6, <1>7
  <1>9. first[2] = At(data, at + 2)
    BY <1>6, <1>7, <1>8
  <1>10. first[3] = At(data, at + 3)
    BY <1>6, <1>7, <1>8, <1>9
  <1>11. \A k \in 0 .. 3 : first[k] = At(data, at + k)
    BY <1>7, <1>8, <1>9, <1>10
  <1> QED BY <1>11 DEF first

\* The first four bytes of a match that its source overlaps.
LEMMA OverlapStartGood == ASSUME Given, Good, OverlapStart PROVE Good'
  <1> DEFINE first == CHOOSE f : IsFirst(f, outputBase, matchAddress, offset)
             bytes == [k \in 1 .. 4 |-> first[k - 1]]
  <1>1. /\ pc = "match" /\ pc' = "overlap" /\ offset < 8
        /\ writeEnd' = Reach(writeEnd, output, 4)
        /\ matchAddress' = matchAddress + DEC_32_TABLE[offset + 1] /\ output' = output + 4
        /\ matchOutputLimit' = output + matchLength
        /\ UNCHANGED <<call, input, offset, readEnd>>
    BY DEF OverlapStart
  <1>2. outputBase' = Store(outputBase, output, bytes)
    BY DEF OverlapStart, IsFirst
  <1>3. /\ Matching(output, output + matchLength) /\ matchAddress = output - offset
        /\ matchLength \in Nat
    BY <1>1 DEF Good, Phase, AtMatch
  <1>4. output \in Nat /\ output + matchLength \in Nat
    BY <1>3 DEF Matching
  <1>5. PICK at \in Nat : at = output
    BY <1>4
  <1>6. PICK end \in Nat : end = output + matchLength
    BY <1>4
  <1>7. Matching(at, end)
    BY <1>3, <1>5, <1>6
  <1>8. /\ at + 4 <= end /\ end <= Len(original) - 5 /\ at <= outputLimit - 12
        /\ offset \in 1 .. at
        /\ SameBytes(original, at, original, at - offset, end - at)
    BY <1>7 DEF Matching
  <1>9. Period(original, at - offset, end, offset)
    BY <1>8, PeriodOfMatch
  <1>10. /\ outputBase \in Seq(Byte) /\ Len(outputBase) = outputLimit /\ outputLimit \in Nat
         /\ original \in Seq(Byte) /\ Len(original) \in Nat
    BY DEF Good, Sound, Given
  <1>11. SameBytes(outputBase, 0, original, 0, at)
    <2>1. decoded = output
      BY <1>1 DEF decoded
    <2> QED BY <1>1, <1>5, <2>1 DEF Good, Decoded
  <1>12. \A k \in 0 .. 3 : first[k] = At(original, at + k)
    <2>1. matchAddress = at - offset
      BY <1>3, <1>5
    <2>2. LET f == CHOOSE f : IsFirst(f, outputBase, at - offset, offset)
          IN  \A k \in 0 .. 3 : f[k] = At(original, at + k)
      BY <1>8, <1>9, <1>11, FirstBytes
    <2> QED BY <2>1, <2>2
  <1> HIDE DEF first
  <1>13. bytes \in Seq(Byte) /\ Len(bytes) = 4
    <2>1. \A k \in 1 .. 4 : first[k - 1] \in Byte
      <3> TAKE k \in 1 .. 4
      <3>1. k - 1 \in 0 .. 3 /\ at + (k - 1) \in 0 .. Len(original) - 1
        BY <1>8, <1>10
      <3>2. At(original, at + (k - 1)) \in Byte
        BY <1>10, <3>1, AtType
      <3> QED BY <1>12, <3>1, <3>2
    <2> QED BY <2>1
  <1>14. Covers(bytes, at, original, at, at + 4)
    <2>1. ASSUME NEW j \in 0 .. (at + 4) - 1
          PROVE  \/ j < at /\ j < at
                 \/ j \in at .. at + 4 - 1 /\ bytes[(j - at) + 1] = At(original, j)
      <3>1. CASE j < at
        BY <3>1
      <3>2. CASE j >= at
        <4>1. j - at \in 0 .. 3 /\ (j - at) + 1 \in 1 .. 4 /\ at + (j - at) = j
              /\ ((j - at) + 1) - 1 = j - at
          BY <3>2
        <4>2. bytes[(j - at) + 1] = first[j - at]
          BY <4>1
        <4> QED BY <1>12, <3>2, <4>1, <4>2
      <3> QED BY <3>1, <3>2
    <2> QED BY <1>13, <2>1 DEF Covers
  <1> HIDE DEF bytes
  <1>15. /\ Store(outputBase, at, bytes) \in Seq(Byte)
         /\ Len(Store(outputBase, at, bytes)) = Len(outputBase)
         /\ SameBytes(Store(outputBase, at, bytes), 0, original, 0, at + 4)
    <2>1. at + Len(bytes) <= Len(outputBase) /\ at + 4 \in Nat
      BY <1>8, <1>10, <1>13
    <2>2. HoldsUpTo(Store(outputBase, at, bytes), outputBase, original, at + 4)
      BY Zenon, <1>10, <1>11, <1>13, <1>14, <2>1, StoreSame
    <2> QED BY <2>2 DEF HoldsUpTo
  <1>16. Sound'
    <2>1. outputBase' \in Seq(Byte) /\ Len(outputBase') = Len(outputBase)
      BY <1>2, <1>5, <1>15
    <2>2. 0 \in Nat /\ 4 \in Nat /\ at + 4 <= outputLimit /\ writeEnd' = Reach(writeEnd, at, 4)
      BY <1>1, <1>5, <1>8, <1>10
    <2> QED BY <1>1, <2>1, <2>2, CopySound DEF Good
  <1>17. Decoded'
    <2>1. Moved(end, 4)
      BY <1>1, <1>6 DEF Moved
    <2>2. SameBytes(outputBase', 0, original, 0, UpTo(end, output + 4))
      <3>1. UpTo(end, output + 4) = at + 4
        BY <1>5, <1>8 DEF UpTo
      <3> QED BY <1>2, <1>5, <1>15, <3>1
    <2>3. end <= Len(original)
      BY <1>8, <1>10
    <2>4. 4 \in Nat
      OBVIOUS
    <2> QED BY <1>1, <1>4, <2>1, <2>2, <2>3, <2>4, MovedDecoded
  <1>18. AtOverlap(at)'
    <2>1. Matching(at, end)'
      BY <1>1, <1>7, MatchingStays
    <2>2. Matching(at, matchOutputLimit)'
      BY <1>1, <1>6, <2>1
    <2>3. output' = at + 4 /\ matchAddress' = (at - offset) + DEC_32_TABLE[offset + 1]
      BY <1>1, <1>3, <1>5
    <2>4. matchAddress' = (at - offset') + DEC_32_TABLE[offset' + 1]
      BY <1>1, <2>3
    <2> QED BY <1>1, <2>2, <2>3, <2>4 DEF AtOverlap, DEC_32_TABLE
  <1>19. Phase'
    BY <1>1, <1>18 DEF Phase
  <1> QED BY <1>16, <1>17, <1>19 DEF Good

-----------------------------------------------------------------------------
\* Every step

\* Nothing happens: the invariant stays.
LEMMA StutterGood == ASSUME Given, Good, UNCHANGED vars PROVE Good'
  <1>1. /\ UNCHANGED <<pc, call, input, output, token, literalLength, index,
                       offset, matchAddress, matchLength, matchOutputLimit,
                       outputBase, readEnd, writeEnd, result>>
    BY DEF vars, sequence, match, memory
  <1>2. /\ inputBase' = inputBase /\ inputLimit' = inputLimit
        /\ outputLimit' = outputLimit /\ original' = original
        /\ \A p : Part(p)' = Part(p)
    BY <1>1, SameCall
  <1>3. Sound'
    BY <1>1, QuietSound DEF Good
  <1>4. Phase'
    <2>1. /\ \A p, o : AtLiteralLength(p, o)' <=> AtLiteralLength(p, o)
          /\ \A p, o : AtLiterals(p, o)' <=> AtLiterals(p, o)
          /\ \A p, o : AtLiteralWords(p, o)' <=> AtLiteralWords(p, o)
          /\ \A p, o : AtOffset(p, o)' <=> AtOffset(p, o)
          /\ \A p, o : AtMatchLength(p, o)' <=> AtMatchLength(p, o)
      BY <1>1, <1>2 DEF AtLiteralLength, AtLiterals, AtLiteralWords, AtOffset, AtMatchLength, Extending
    <2>2. AtMatch' <=> AtMatch
      BY <1>1, <1>2 DEF AtMatch, Matching
    <2>3. \A at : AtOverlap(at)' <=> AtOverlap(at)
      BY <1>1, <1>2 DEF AtOverlap, Matching, DEC_32_TABLE
    <2>4. \A at : AtWords(at)' <=> AtWords(at)
      BY <1>1, <1>2 DEF AtWords, Matching
    <2>5. OnPath(inputBase, original, input, output)' <=> OnPath(inputBase, original, input, output)
      BY <1>1, <1>2
    <2>6. Phase
      BY DEF Good
    <2> QED BY <1>1, <1>2, <2>1, <2>2, <2>3, <2>4, <2>5, <2>6 DEF Phase
  <1>5. Decoded'
    <2>1. decoded' = decoded
      BY <1>1 DEF decoded
    <2> QED BY <1>1, <1>2, <2>1 DEF Good, Decoded
  <1> QED BY <1>3, <1>4, <1>5 DEF Good

\* No step changes the arguments.
LEMMA CallUnchanged == ASSUME [Next]_vars PROVE UNCHANGED call
  BY DEF Next, Step, Returned, vars, EmptyInput, EmptyOutput, Begin, ReadToken, LiteralLengthByte,
         RejectLastLiterals, CopyLastLiterals, CopyLiteralWord, ReadOffset, RejectMatchLength,
         MatchLengthByte, WordStart, OverlapStart, OverlapWord, CopyMatchWord, CarefulWord,
         CarefulByte, CarefulDone

\* Every step keeps the invariant on blocks that encode some data.
LEMMA NextGood == ASSUME Given, Good, [Next]_vars PROVE Good'
  <1>1. CASE EmptyInput
    <2>1. inputLimit = 0
      BY <1>1 DEF EmptyInput
    <2> QED BY <2>1, NotEmpty
  <1>2. CASE EmptyOutput BY <1>2, EmptyOutputGood
  <1>3. CASE Begin BY <1>3, BeginGood
  <1>4. CASE ReadToken BY <1>4, ReadTokenGood
  <1>5. CASE LiteralLengthByte BY <1>5, LiteralLengthByteGood
  <1>6. CASE RejectLastLiterals BY <1>6, RejectLastLiteralsGood
  <1>7. CASE CopyLastLiterals BY <1>7, CopyLastLiteralsGood
  <1>8. CASE CopyLiteralWord BY <1>8, CopyLiteralWordGood
  <1>9. CASE ReadOffset BY <1>9, ReadOffsetGood
  <1>10. CASE RejectMatchLength BY <1>10, NoRejectMatchLength
  <1>11. CASE MatchLengthByte BY <1>11, MatchLengthByteGood
  <1>12. CASE WordStart BY <1>12, WordStartGood
  <1>13. CASE OverlapStart BY <1>13, OverlapStartGood
  <1>14. CASE OverlapWord BY <1>14, OverlapWordGood
  <1>15. CASE CopyMatchWord BY <1>15, CopyMatchWordGood
  <1>16. CASE CarefulWord \/ CarefulByte BY <1>16, CarefulStepGood
  <1>17. CASE CarefulDone BY <1>17, CarefulDoneGood
  <1>18. CASE UNCHANGED vars BY <1>18, StutterGood
  <1> QED BY <1>1, <1>2, <1>3, <1>4, <1>5, <1>6, <1>7, <1>8, <1>9, <1>10, <1>11, <1>12,
             <1>13, <1>14, <1>15, <1>16, <1>17, <1>18 DEF Next, Step, Returned

-----------------------------------------------------------------------------
\* Wherever decompress is in a block that encodes some data, it is at a point of
\* the path through that block, and what it has decoded is the data up to there.
THEOREM DecompressInvariance == Spec => [](Valid => Given /\ Good)
  <1> DEFINE Inv == Valid => Given /\ Good
  <1>1. Init => Inv
    BY InitGood
  <1>2. Inv /\ [Next]_vars => Inv'
    <2> SUFFICES ASSUME Inv, [Next]_vars, Valid' PROVE (Given /\ Good)'
      OBVIOUS
    <2>1. UNCHANGED call
      BY CallUnchanged
    <2>2. Valid
      BY <2>1 DEF Valid
    <2>3. Given'
      BY <2>1, <2>2, SameCall
    <2> QED BY <2>2, <2>3, NextGood
  <1> QED BY <1>1, <1>2, PTL DEF Spec

\* No copy, whatever it copies too much, writes behind the output buffer, even if
\* the caller is wrong about the size of the data.
THEOREM NoWriteBeyond == Spec => []WritesInBounds
  <1>1. (Valid => Given /\ Good) => WritesInBounds
    BY DEF Good, Sound, WritesInBounds
  <1> QED BY <1>1, DecompressInvariance, PTL

\* No load reads behind the block.
THEOREM NoReadBeyond == Spec => []ReadsInBounds
  <1>1. (Valid => Given /\ Good) => ReadsInBounds
    BY DEF Good, Sound, ReadsInBounds
  <1> QED BY <1>1, DecompressInvariance, PTL

\* At any time, what is decoded is a prefix of the data.
THEOREM DecodesTheData == Spec => []DecodedIsData
  <1>1. (Valid => Given /\ Good) => DecodedIsData
    BY DEF Good, Decoded, DecodedIsData, original
  <1> QED BY <1>1, DecompressInvariance, PTL

\* The two tables leave the source of every word copy at least a word, and a whole
\* number of offsets, behind the output.
THEOREM SourceStaysApart == Spec => []SourceApart
  <1>1. ASSUME Valid => Given /\ Good, Valid, pc \in {"matchWords", "carefulCopy"}
        PROVE  output - matchAddress >= 8 /\ (output - matchAddress) % offset = 0
    <2>1. PICK at \in Nat : AtWords(at)
      BY <1>1 DEF Good, Phase
    <2>2. /\ output \in Nat /\ matchAddress \in Nat /\ matchAddress + 8 <= output
          /\ (output - matchAddress) % offset = 0
      BY <2>1 DEF AtWords
    <2> QED BY <2>2
  <1>2. (Valid => Given /\ Good) => SourceApart
    BY <1>1 DEF SourceApart
  <1> QED BY <1>2, DecompressInvariance, PTL

\* Given the size of the data, decompress does not throw, and what it returns is
\* that size, with the data in the output buffer.
THEOREM DecodesExactly == Spec => []ExactSizeDecodes
  <1>1. (Valid => Given /\ Good) => ExactSizeDecodes
    BY DEF Good, Phase, ExactSizeDecodes, ExactSize, original, outputLimit
  <1> QED BY <1>1, DecompressInvariance, PTL

\* Given any other size, it throws or returns something else.
THEOREM NoticesOtherSizes == Spec => []OtherSizeIsNoticed
  <1>1. (Valid => Given /\ Good) => OtherSizeIsNoticed
    BY DEF Good, Phase, OtherSizeIsNoticed, ExactSize, original, outputLimit
  <1> QED BY <1>1, DecompressInvariance, PTL

=============================================================================
