------------------------ MODULE LZ4CompressorProofs ------------------------
(***************************************************************************)
(* Theorems about every call of compress: any input, any capacity.         *)
(***************************************************************************)
EXTENDS LZ4Compressor, BufferProofs

-----------------------------------------------------------------------------
\* The inductive invariant

\* Where the cursors are in each phase.
Located ==
  /\ pc \notin {"start", "thrown"} => maxOutputLength >= MaxCompressedLength(inputLimit)
  /\ pc = "start" => anchor = 0 /\ output = 0
  /\ pc = "search" =>
       /\ anchor < nextInputIndex
       /\ nextInputIndex <= matchFindLimit + 1
       /\ step >= 1 /\ findMatchAttempts >= SKIP_AFTER
  /\ pc = "catchUp" => anchor <= input /\ input < matchFindLimit
  /\ pc \in {"count", "emitMatch"} =>
       /\ anchor <= input /\ input <= matchFindLimit
       /\ input + MIN_MATCH <= current /\ current <= matchLimit
       /\ tokenAddress < output
  /\ pc = "testNext" => anchor = input /\ MIN_MATCH <= input /\ input <= matchFindLimit

IInv == TypeOK /\ Located /\ OutputBudget /\ ReadsInBounds /\ WritesInBounds

-----------------------------------------------------------------------------
\* The hash table

\* highestOneBit is defined on the int range below the sign bit.
LEMMA HighestOneBitType ==
  ASSUME NEW n \in Nat, n < 1073741824 PROVE HighestOneBit(n) \in Nat
  <1>1. \A p \in PowersOfTwo : p \in Nat
    BY DEF PowersOfTwo
  <1>2. n # 0 => \E p \in PowersOfTwo : p <= n /\ n - p < p
    BY DEF PowersOfTwo
  <1>4. CASE n = 0
    BY <1>4 DEF HighestOneBit
  <1>5. CASE n # 0
    <2>1. HighestOneBit(n) \in PowersOfTwo
      BY <1>2, <1>5 DEF HighestOneBit
    <2> QED BY <2>1, <1>1
  <1> QED BY <1>4, <1>5

\* computeTableSize returns at least the smallest table, for every size.
LEMMA TableSizeType ==
  ASSUME NEW n \in Nat PROVE ComputeTableSize(n) \in Nat /\ ComputeTableSize(n) >= 16
  <1>1. CASE n = 0 \/ n > 1073741824
    BY <1>1 DEF ComputeTableSize, MIN_TABLE_SIZE
  <1>2. CASE ~(n = 0 \/ n > 1073741824)
    <2>1. n - 1 \in Nat /\ n - 1 < 1073741824
      BY <1>2
    <2>2. HighestOneBit(n - 1) \in Nat
      BY <2>1, HighestOneBitType
    <2> QED BY <1>2, <2>2 DEF ComputeTableSize, MIN_TABLE_SIZE, MAX_TABLE_SIZE
  <1> QED BY <1>1, <1>2

\* hash stays below the table size, so that the table is never indexed outside.
LEMMA HashType ==
  ASSUME NEW v, \A j \in 1 .. 5 : v[j] \in Nat, NEW m \in Nat
  PROVE  Hash(v, m) \in 0 .. m
  <1>0. v[1] \in Nat /\ v[2] \in Nat /\ v[3] \in Nat /\ v[4] \in Nat /\ v[5] \in Nat
    OBVIOUS
  <1>1. Column1(v) \in Nat BY <1>0 DEF Column1
  <1>2. Column2(v) \in Nat BY <1>0, <1>1 DEF Column2
  <1>3. Column3(v) \in Nat BY <1>0, <1>2 DEF Column3
  <1>4. Column4(v) \in Nat BY <1>0, <1>3 DEF Column4
  <1>5. Column5(v) \in Nat BY <1>0, <1>4 DEF Column5
  <1> QED BY <1>4, <1>5 DEF Hash

-----------------------------------------------------------------------------
\* Arithmetic

\* The token and length of some literals cost one byte in 255, and a constant.
LEMMA RunSizeBudget ==
  ASSUME NEW length \in Nat
  PROVE  RunSize(length) \in Nat /\ 255 * RunSize(length) <= length + 495
  BY DEF RunSize

\* The offset and length of a match cost less than the match saves, but for
\* a constant that its first four bytes make up for.
LEMMA MatchSizeBudget ==
  ASSUME NEW m \in Nat
  PROVE  MatchSize(m) \in Nat /\ 255 * MatchSize(m) <= 256 * m + 529
  BY DEF MatchSize

\* emitLiteral overcopies by at most one word.
LEMMA WordsForBound ==
  ASSUME NEW length \in Nat
  PROVE  /\ WordsFor(length) \in Nat
         /\ length <= WordsFor(length) /\ WordsFor(length) <= length + 8
  BY DEF WordsFor, SIZE_OF_LONG

\* A size within the budget is within the bound, and the bound within the
\* capacity.
LEMMA BudgetFits ==
  ASSUME NEW n \in Nat, NEW size \in Nat, 255 * size <= 256 * n + 495
  PROVE  /\ size <= n + n \div 255 + 2
         /\ size <= MaxCompressedLength(n)
  BY DEF MaxCompressedLength

\* The assumption, one parameter at a time.
LEMMA Parameters ==
  /\ \A x \in Inputs : x \in Seq(Byte)
  /\ \A s \in Spare : s \in Int /\ s >= -16
  /\ Stale \in Byte
  <1>1. Inputs \subseteq Seq(Byte) /\ Stale \in Byte /\ Spare \subseteq {s \in Int : s >= -16}
    BY Zenon, CompressorAssumption DEF CompressorAssumption
  <1>2. \A s \in Spare : s \in Int /\ s >= -16
    BY Zenon, <1>1
  <1> QED BY Zenon, <1>1, <1>2

\* The values that the input alone determines.
LEMMA ConstantTypes ==
  ASSUME TypeOK
  PROVE  /\ inputBase \in Seq(Byte)
         /\ inputLimit \in Nat
         /\ mask \in Nat
         /\ \A i \in Int : HashAt(i) \in 0 .. mask /\ Hash(IntAt(inputBase, i), mask) \in 0 .. mask
  <1>1. inputBase \in Seq(Byte)
    BY Zenon, Parameters DEF TypeOK
  <1>2. inputLimit \in Nat
    BY <1>1, LenProperties DEF inputLimit
  <1>3. mask \in Nat
    BY <1>2, TableSizeType DEF mask
  <1>4. \A i \in Int : HashAt(i) \in 0 .. mask
    <2> TAKE i \in Int
    <2>1. \A j \in 1 .. 8 : LongAt(inputBase, i)[j] \in Nat
      BY <1>1, LoadType DEF LongAt, SIZE_OF_LONG
    <2>2. \A j \in 1 .. 5 : LongAt(inputBase, i)[j] \in Nat
      BY <2>1
    <2> QED BY <1>3, <2>2, HashType DEF HashAt
  <1>5. \A i \in Int : Hash(IntAt(inputBase, i), mask) \in 0 .. mask
    <2> TAKE i \in Int
    <2>1. \A j \in 1 .. 8 : At(inputBase, i + j - 1) \in Nat
      <3> TAKE j \in 1 .. 8
      <3>1. i + j - 1 \in Int
        OBVIOUS
      <3> QED BY <1>1, <3>1, AtType
    <2>4. \A j \in 1 .. 5 : IntAt(inputBase, i)[j] \in Nat
      BY <2>1 DEF IntAt, SIZE_OF_INT, SIZE_OF_LONG
    <2> QED BY <1>3, <2>4, HashType
  <1> QED BY <1>1, <1>2, <1>3, <1>4, <1>5

-----------------------------------------------------------------------------
\* Every step preserves the invariant, phase by phase.

USE DEF LAST_LITERAL_SIZE, MIN_MATCH, SIZE_OF_SHORT, SIZE_OF_INT, SIZE_OF_LONG,
        MATCH_FIND_LIMIT, MIN_LENGTH, SKIP_AFTER, matchFindLimit, matchLimit,
        Reach, Phases

\* What is derived from the arguments stays with them.
LEMMA ArgumentsStay ==
  ASSUME UNCHANGED arguments
  PROVE  /\ inputBase' = inputBase /\ maxOutputLength' = maxOutputLength
         /\ inputLimit' = inputLimit /\ mask' = mask
  BY DEF arguments, inputLimit, mask

\* The conjuncts of TypeOK, grouped by what a step changes together.
NumbersOK ==
  /\ nextInputIndex \in Nat /\ findMatchAttempts \in Nat /\ step \in Nat
  /\ input \in 0 .. inputLimit /\ matchIndex \in 0 .. inputLimit
  /\ anchor \in 0 .. inputLimit /\ current \in 0 .. inputLimit
  /\ output \in Nat /\ tokenAddress \in Nat
  /\ readEnd \in Nat /\ writeEnd \in Nat
  /\ result \in Nat

TableOK == table \in [0 .. mask -> 0 .. inputLimit] /\ nextHash \in 0 .. mask

BlockOK == outputBase \in Seq(Byte) /\ Len(outputBase) = maxOutputLength

ArgumentsOK == inputBase \in Inputs /\ maxOutputLength \in Nat

\* TypeOK and its groups say the same, now and after a step.
LEMMA TypeParts ==
  /\ TypeOK <=> pc \in Phases /\ ArgumentsOK /\ NumbersOK /\ TableOK /\ BlockOK
  /\ TypeOK' <=> pc' \in Phases /\ ArgumentsOK' /\ NumbersOK' /\ TableOK' /\ BlockOK'
  <1>1. TypeOK <=> pc \in Phases /\ ArgumentsOK /\ NumbersOK /\ TableOK /\ BlockOK
    BY ZenonT(30) DEF TypeOK, ArgumentsOK, NumbersOK, TableOK, BlockOK
  <1>2. TypeOK' <=> pc' \in Phases /\ ArgumentsOK' /\ NumbersOK' /\ TableOK' /\ BlockOK'
    BY ZenonT(30) DEF TypeOK, ArgumentsOK, NumbersOK, TableOK, BlockOK
  <1> QED BY <1>1, <1>2

\* What a step that leaves the arguments alone keeps.
LEMMA Frame ==
  ASSUME IInv, UNCHANGED arguments
  PROVE  /\ inputBase' = inputBase /\ maxOutputLength' = maxOutputLength
         /\ inputLimit' = inputLimit /\ mask' = mask
         /\ ArgumentsOK'
         /\ UNCHANGED <<table, nextHash>> => TableOK'
         /\ UNCHANGED outputBase => BlockOK'
  <1>1. ArgumentsOK /\ TableOK /\ BlockOK
    BY TypeParts DEF IInv
  <1> QED BY <1>1, ArgumentsStay DEF ArgumentsOK, TableOK, BlockOK

\* A call begins with the invariant.
LEMMA InitInv == ASSUME Init PROVE IInv
  <1>1. inputBase \in Seq(Byte) /\ inputLimit \in Nat
    <2>1. inputBase \in Inputs
      BY Zenon DEF Init
    <2>2. inputBase \in Seq(Byte)
      BY Zenon, <2>1, Parameters
    <2> QED BY <2>2, LenProperties DEF inputLimit
  <1>2. mask \in Nat
    <2>1. ComputeTableSize(inputLimit) \in Nat /\ ComputeTableSize(inputLimit) >= 16
      BY Zenon, <1>1, TableSizeType
    <2> QED BY <2>1 DEF mask
  <1>3. maxOutputLength \in Nat
    <2>1. PICK s \in Spare : maxOutputLength = MaxCompressedLength(inputLimit) + s
      BY Zenon DEF Init, inputLimit
    <2>2. s \in Int /\ s >= -16
      BY Zenon, Parameters
    <2> QED BY <1>1, <2>1, <2>2 DEF MaxCompressedLength
  <1>4. BlockOK
    <2>1. outputBase = [i \in 1 .. maxOutputLength |-> Stale]
      BY Zenon DEF Init
    <2>2. Stale \in Byte
      BY Zenon, Parameters
    <2> QED BY <1>3, <2>1, <2>2 DEF BlockOK
  <1>5. TableOK
    <2>1. table = [h \in 0 .. mask |-> 0] /\ nextHash = 0
      BY Zenon DEF Init
    <2> QED BY <1>1, <1>2, <2>1 DEF TableOK
  <1>6. NumbersOK
    BY <1>1 DEF Init, NumbersOK
  <1>7. ArgumentsOK /\ pc \in Phases
    BY <1>3 DEF Init, ArgumentsOK
  <1>8. TypeOK
    BY <1>4, <1>5, <1>6, <1>7, TypeParts
  <1>9. pc = "start" /\ anchor = 0 /\ output = 0 /\ readEnd = 0 /\ writeEnd = 0
    BY DEF Init
  <1>10. Located /\ OutputBudget
    BY <1>9 DEF Located, OutputBudget
  <1>11. ReadsInBounds /\ WritesInBounds
    BY <1>1, <1>3, <1>9 DEF ReadsInBounds, WritesInBounds
  <1> QED BY <1>8, <1>10, <1>11 DEF IInv

\* The steps that leave every cursor alone: refusing the call ...
LEMMA ThrowInv == ASSUME IInv, Throw PROVE IInv'
  <1>1. pc' = "thrown" /\ UNCHANGED arguments /\ UNCHANGED <<table, nextHash>>
    BY DEF Throw
  <1>2. UNCHANGED <<nextInputIndex, findMatchAttempts, step, input, matchIndex, anchor, current>>
    BY DEF Throw, search
  <1>3. UNCHANGED <<output, tokenAddress, outputBase, writeEnd, readEnd, result>>
    BY DEF Throw, block
  <1>4. /\ inputLimit' = inputLimit /\ maxOutputLength' = maxOutputLength
        /\ ArgumentsOK' /\ TableOK' /\ BlockOK'
    BY <1>1, <1>3, Frame
  <1>5. NumbersOK
    BY TypeParts DEF IInv
  <1>6. NumbersOK'
    BY <1>2, <1>3, <1>4, <1>5 DEF NumbersOK
  <1>7. TypeOK'
    BY <1>1, <1>4, <1>6, TypeParts
  <1>8. Located' /\ OutputBudget'
    BY <1>1 DEF Located, OutputBudget
  <1>9. ReadsInBounds' /\ WritesInBounds'
    BY <1>3, <1>4 DEF IInv, ReadsInBounds, WritesInBounds
  <1> QED BY <1>7, <1>8, <1>9 DEF IInv

\* The invariant in the groups that the step lemmas cite.
LEMMA Given ==
  ASSUME IInv
  PROVE  /\ pc \in Phases /\ ArgumentsOK /\ NumbersOK /\ TableOK /\ BlockOK
         /\ Located /\ OutputBudget
         /\ inputLimit \in Nat /\ maxOutputLength \in Nat /\ mask \in Nat
         /\ readEnd <= inputLimit /\ writeEnd <= maxOutputLength
  <1>1. TypeOK
    BY DEF IInv
  <1>2. pc \in Phases /\ ArgumentsOK /\ NumbersOK /\ TableOK /\ BlockOK
    BY <1>1, TypeParts
  <1>3. maxOutputLength \in Nat
    BY <1>2 DEF ArgumentsOK
  <1>4. readEnd <= inputLimit /\ writeEnd <= maxOutputLength /\ Located /\ OutputBudget
    BY DEF IInv, ReadsInBounds, WritesInBounds
  <1> QED BY <1>1, <1>2, <1>3, <1>4, ConstantTypes

\* ... and passing an input too short for a match on to the last literals.
LEMMA ShortInputInv == ASSUME IInv, ShortInput PROVE IInv'
  <1>1. pc = "start" /\ pc' = "lastLiterals" /\ UNCHANGED arguments /\ UNCHANGED <<table, nextHash>>
    BY DEF ShortInput
  <1>2. UNCHANGED <<nextInputIndex, findMatchAttempts, step, input, matchIndex, anchor, current>>
    BY DEF ShortInput, search
  <1>3. UNCHANGED <<output, tokenAddress, outputBase, writeEnd, readEnd, result>>
    BY DEF ShortInput, block
  <1>4. /\ inputLimit' = inputLimit /\ maxOutputLength' = maxOutputLength
        /\ ArgumentsOK' /\ TableOK' /\ BlockOK'
    BY <1>1, <1>3, Frame
  <1>5. /\ NumbersOK /\ Located
        /\ inputLimit \in Nat /\ maxOutputLength \in Nat
        /\ readEnd <= inputLimit /\ writeEnd <= maxOutputLength
    BY Given
  <1>6. NumbersOK'
    BY <1>2, <1>3, <1>4, <1>5 DEF NumbersOK
  <1>7. TypeOK'
    BY <1>1, <1>4, <1>6, TypeParts
  <1>8. maxOutputLength >= MaxCompressedLength(inputLimit)
    <2>1. MaxCompressedLength(inputLimit) \in Nat
      BY <1>5 DEF MaxCompressedLength
    <2> QED BY <1>5, <2>1 DEF ShortInput, Refused
  <1>9. Located'
    BY <1>1, <1>4, <1>8 DEF Located
  <1>10. OutputBudget'
    BY <1>1, <1>2, <1>3, <1>5 DEF Located, OutputBudget
  <1>11. ReadsInBounds' /\ WritesInBounds'
    BY <1>3, <1>4, <1>5 DEF ReadsInBounds, WritesInBounds
  <1> QED BY <1>7, <1>9, <1>10, <1>11 DEF IInv

\* The first position is entered, and its successor hashed, inside the input.
LEMMA FirstByteInv == ASSUME IInv, FirstByte PROVE IInv'
  <1>1. /\ pc = "start" /\ pc' = "search" /\ UNCHANGED arguments
        /\ inputLimit >= 13
        /\ table' = [table EXCEPT ![HashAt(0)] = 0]
        /\ nextHash' = HashAt(1) /\ input' = 1
        /\ nextInputIndex' = 1 /\ findMatchAttempts' = 64 /\ step' = 1
        /\ readEnd' = Reach(readEnd, 1, 8)
    BY DEF FirstByte, StartSearch
  <1>2. UNCHANGED <<matchIndex, anchor, current, output, tokenAddress, outputBase, writeEnd, result>>
    BY DEF FirstByte, block
  <1>3. /\ inputLimit' = inputLimit /\ maxOutputLength' = maxOutputLength /\ mask' = mask
        /\ ArgumentsOK' /\ BlockOK'
    BY <1>1, <1>2, Frame
  <1>4. /\ NumbersOK /\ TableOK /\ Located
        /\ inputLimit \in Nat /\ maxOutputLength \in Nat
        /\ readEnd <= inputLimit /\ writeEnd <= maxOutputLength
    BY Given
  <1>5. TableOK'
    <2>1. HashAt(0) \in 0 .. mask /\ HashAt(1) \in 0 .. mask
      BY ConstantTypes DEF IInv
    <2> QED BY <1>1, <1>3, <1>4, <2>1 DEF TableOK
  <1>6. NumbersOK'
    BY <1>1, <1>2, <1>3, <1>4 DEF NumbersOK
  <1>7. TypeOK'
    BY <1>1, <1>3, <1>5, <1>6, TypeParts
  <1>8. maxOutputLength >= MaxCompressedLength(inputLimit)
    <2>1. MaxCompressedLength(inputLimit) \in Nat
      BY <1>4 DEF MaxCompressedLength
    <2> QED BY <1>4, <2>1 DEF FirstByte, Refused
  <1>9. Located'
    BY <1>1, <1>2, <1>3, <1>4, <1>8 DEF Located
  <1>10. OutputBudget'
    BY <1>1, <1>2, <1>4 DEF Located, OutputBudget
  <1>11. ReadsInBounds' /\ WritesInBounds'
    BY <1>1, <1>2, <1>3, <1>4 DEF ReadsInBounds, WritesInBounds
  <1> QED BY <1>7, <1>9, <1>10, <1>11 DEF IInv

\* A search that reaches matchFindLimit leaves the block alone.
LEMMA GiveUpInv == ASSUME IInv, GiveUp PROVE IInv'
  <1>1. /\ pc = "search" /\ pc' = "lastLiterals" /\ UNCHANGED arguments
        /\ UNCHANGED <<table, nextHash>>
        /\ input' = nextInputIndex /\ nextInputIndex' = nextInputIndex + step
        /\ step' = findMatchAttempts \div 64 /\ findMatchAttempts' = findMatchAttempts + 1
    BY DEF GiveUp, Advance
  <1>2. UNCHANGED <<matchIndex, anchor, current, output, tokenAddress, outputBase,
                    writeEnd, readEnd, result>>
    BY DEF GiveUp, block
  <1>3. /\ inputLimit' = inputLimit /\ maxOutputLength' = maxOutputLength
        /\ ArgumentsOK' /\ TableOK' /\ BlockOK'
    BY <1>1, <1>2, Frame
  <1>4. /\ NumbersOK /\ Located /\ OutputBudget
        /\ inputLimit \in Nat /\ maxOutputLength \in Nat
        /\ readEnd <= inputLimit /\ writeEnd <= maxOutputLength
    BY Given
  <1>5. nextInputIndex <= matchFindLimit + 1
    BY <1>1, <1>4 DEF Located
  <1>6. NumbersOK'
    BY <1>1, <1>2, <1>3, <1>4, <1>5 DEF NumbersOK
  <1>7. TypeOK'
    BY <1>1, <1>3, <1>6, TypeParts
  <1>8. Located'
    BY <1>1, <1>3, <1>4 DEF Located
  <1>9. OutputBudget'
    BY <1>1, <1>2, <1>4 DEF OutputBudget
  <1>10. ReadsInBounds' /\ WritesInBounds'
    BY <1>2, <1>3, <1>4 DEF ReadsInBounds, WritesInBounds
  <1> QED BY <1>7, <1>8, <1>9, <1>10 DEF IInv

\* A probe that goes on has its next word eight bytes and a match inside the
\* input.
LEMMA ProbeInv == ASSUME IInv, Probe PROVE IInv'
  <1>1. /\ pc = "search" /\ pc' \in {"search", "catchUp"} /\ UNCHANGED arguments
        /\ input' = nextInputIndex /\ nextInputIndex' = nextInputIndex + step
        /\ step' = findMatchAttempts \div 64 /\ findMatchAttempts' = findMatchAttempts + 1
        /\ nextInputIndex + step <= matchFindLimit
        /\ readEnd' = Reach(readEnd, nextInputIndex + step, 8)
    BY DEF Probe, Advance
  <1>2. /\ matchIndex' = table[nextHash]
        /\ nextHash' = HashAt(nextInputIndex + step)
        /\ table' = [table EXCEPT ![nextHash] = nextInputIndex]
    BY DEF Probe, TableAfterProbe
  <1>3. UNCHANGED <<anchor, current, output, tokenAddress, outputBase, writeEnd, result>>
    BY DEF Probe, block
  <1>4. /\ inputLimit' = inputLimit /\ maxOutputLength' = maxOutputLength /\ mask' = mask
        /\ ArgumentsOK' /\ BlockOK'
    BY <1>1, <1>3, Frame
  <1>5. /\ NumbersOK /\ TableOK /\ Located /\ OutputBudget
        /\ inputLimit \in Nat /\ maxOutputLength \in Nat
        /\ readEnd <= inputLimit /\ writeEnd <= maxOutputLength
    BY Given
  <1>6. /\ nextInputIndex \in Nat /\ step \in Nat /\ findMatchAttempts \in Nat
        /\ anchor \in Nat /\ readEnd \in Nat
    BY <1>5 DEF NumbersOK
  <1>7. anchor < nextInputIndex /\ step >= 1 /\ findMatchAttempts >= 64
    BY <1>1, <1>5 DEF Located
  <1>8. TableOK' /\ matchIndex' \in 0 .. inputLimit
    <2>1. HashAt(nextInputIndex + step) \in 0 .. mask
      <3>1. nextInputIndex + step \in Int
        BY <1>6
      <3>2. \A i \in Int : HashAt(i) \in 0 .. mask
        BY ConstantTypes DEF IInv
      <3> QED BY <3>1, <3>2, Zenon
    <2>2. nextInputIndex \in 0 .. inputLimit
      BY <1>1, <1>5, <1>6, <1>7
    <2> QED BY <1>2, <1>4, <1>5, <2>1, <2>2 DEF TableOK
  <1>9. NumbersOK'
    BY <1>1, <1>3, <1>4, <1>5, <1>7, <1>8 DEF NumbersOK
  <1>10. TypeOK'
    BY <1>1, <1>4, <1>8, <1>9, TypeParts
  <1>11. Located'
    BY <1>1, <1>3, <1>4, <1>5, <1>6, <1>7 DEF Located
  <1>12. OutputBudget'
    BY <1>1, <1>3, <1>5 DEF OutputBudget
  <1>13. ReadsInBounds' /\ WritesInBounds'
    BY <1>1, <1>3, <1>4, <1>5, <1>6 DEF ReadsInBounds, WritesInBounds
  <1> QED BY <1>10, <1>11, <1>12, <1>13 DEF IInv

\* Catching up stops at the anchor at the latest.
LEMMA CatchUpInv == ASSUME IInv, CatchUp PROVE IInv'
  <1>1. /\ pc = "catchUp" /\ pc' = "catchUp" /\ UNCHANGED arguments
        /\ UNCHANGED <<table, nextHash>>
        /\ input > anchor /\ matchIndex > 0
        /\ input' = input - 1 /\ matchIndex' = matchIndex - 1
    BY DEF CatchUp, BeganEarlier
  <1>2. UNCHANGED <<nextInputIndex, findMatchAttempts, step, anchor, current,
                    output, tokenAddress, outputBase, writeEnd, readEnd, result>>
    BY DEF CatchUp, search, block
  <1>3. /\ inputLimit' = inputLimit /\ maxOutputLength' = maxOutputLength
        /\ ArgumentsOK' /\ TableOK' /\ BlockOK'
    BY <1>1, <1>2, Frame
  <1>4. /\ NumbersOK /\ Located /\ OutputBudget
        /\ inputLimit \in Nat /\ maxOutputLength \in Nat
        /\ readEnd <= inputLimit /\ writeEnd <= maxOutputLength
    BY Given
  <1>5. NumbersOK'
    BY <1>1, <1>2, <1>3, <1>4 DEF NumbersOK
  <1>6. TypeOK'
    BY <1>1, <1>3, <1>5, TypeParts
  <1>7. Located'
    BY <1>1, <1>2, <1>3, <1>4 DEF Located, NumbersOK
  <1>8. OutputBudget'
    BY <1>1, <1>2, <1>4 DEF OutputBudget
  <1>9. ReadsInBounds' /\ WritesInBounds'
    BY <1>2, <1>3, <1>4 DEF ReadsInBounds, WritesInBounds
  <1> QED BY <1>6, <1>7, <1>8, <1>9 DEF IInv

\* Writing one sequence.

\* Literals end eight bytes before the input does, so that the overcopied word
\* is read inside it; the budget leaves room to write it.
LEMMA EmitLiteralInv == ASSUME IInv, EmitLiteral PROVE IInv'
  <1> DEFINE length == input - anchor
             run    == EncodeRunLength(length)
             size   == Len(run)
             start  == output + size
             copied == WordsFor(length)
             words  == Load(inputBase, anchor, copied)
  <1>1. /\ pc = "catchUp" /\ pc' = "count" /\ UNCHANGED arguments
        /\ UNCHANGED <<table, nextHash>>
        /\ current' = input + 4 /\ tokenAddress' = output
    BY DEF EmitLiteral, StartCount
  <1>2. /\ outputBase' = Store(Store(outputBase, output, run), start, words)
        /\ output' = start + length
        /\ writeEnd' = Reach(writeEnd, start, copied)
        /\ readEnd' = Reach(readEnd, anchor, copied)
    BY DEF EmitLiteral
  <1>3. UNCHANGED <<nextInputIndex, findMatchAttempts, step, input, matchIndex, anchor, result>>
    BY DEF EmitLiteral, search
  <1>4. /\ inputLimit' = inputLimit /\ maxOutputLength' = maxOutputLength
        /\ ArgumentsOK' /\ TableOK'
    BY <1>1, Frame
  <1>5. /\ NumbersOK /\ BlockOK /\ Located /\ OutputBudget
        /\ inputLimit \in Nat /\ maxOutputLength \in Nat
        /\ readEnd <= inputLimit /\ writeEnd <= maxOutputLength
    BY Given
  <1>6. /\ anchor \in Nat /\ input \in Nat /\ output \in Nat
        /\ readEnd \in Nat /\ writeEnd \in Nat /\ inputLimit \in Nat
    BY <1>5 DEF NumbersOK
  <1>7. /\ anchor <= input /\ input < inputLimit - 12
        /\ maxOutputLength >= MaxCompressedLength(inputLimit)
        /\ 255 * output <= 256 * anchor
    BY <1>1, <1>5 DEF Located, OutputBudget
  <1>8. length \in Nat
    BY <1>6, <1>7
  <1> HIDE DEF length
  <1>9. run \in Seq(Byte) /\ size \in Nat /\ size >= 1 /\ 255 * size <= length + 495
    <2>1. run \in Seq(Byte) /\ size = RunSize(length)
      BY <1>8, RunLengthType
    <2>2. RunSize(length) \in Nat /\ RunSize(length) >= 1
      BY <1>8 DEF RunSize
    <2> QED BY <1>8, <2>1, <2>2, RunSizeBudget
  <1>10. copied \in Nat /\ length <= copied /\ copied <= length + 8
    BY <1>8, WordsForBound
  <1>11. anchor + length = input
    BY <1>6 DEF length
  <1> HIDE DEF run, size, copied, words
  <1>12. BlockOK'
    <2>1. words \in Seq(Byte)
      <3>1. inputBase \in Seq(Byte) /\ inputLimit = Len(inputBase)
        BY ConstantTypes DEF IInv, inputLimit
      <3>2. anchor \in Int /\ anchor >= 0 /\ anchor + copied <= Len(inputBase)
        BY <1>6, <1>7, <1>8, <1>10, <1>11, <3>1
      <3> QED BY <1>10, <3>1, <3>2, LoadType DEF words
    <2>2. start \in Int /\ output \in Int
      BY <1>6, <1>9
    <2> HIDE DEF start
    <2>3. /\ Store(outputBase, output, run) \in Seq(Byte)
          /\ Len(Store(outputBase, output, run)) = Len(outputBase)
      BY <1>5, <1>9, <2>2, StoreType DEF BlockOK
    <2>4. outputBase' \in Seq(Byte) /\ Len(outputBase') = Len(outputBase)
      BY <1>2, <2>1, <2>2, <2>3, StoreType
    <2> QED BY <1>4, <1>5, <2>4 DEF BlockOK
  <1>13. NumbersOK'
    <2>1. output' \in Nat /\ tokenAddress' \in Nat /\ readEnd' \in Nat /\ writeEnd' \in Nat
      BY <1>1, <1>2, <1>6, <1>8, <1>9, <1>10
    <2>2. current' \in 0 .. inputLimit
      BY <1>1, <1>6, <1>7
    <2> QED BY <1>3, <1>4, <1>5, <2>1, <2>2 DEF NumbersOK
  <1>14. TypeOK'
    BY <1>1, <1>4, <1>12, <1>13, TypeParts DEF Phases
  <1>15. output' > tokenAddress' /\ 255 * output' <= 256 * input + 495
    BY <1>1, <1>2, <1>6, <1>7, <1>8, <1>9, <1>11
  <1>16. Located'
    BY <1>1, <1>3, <1>4, <1>6, <1>7, <1>15 DEF Located
  <1>17. OutputBudget'
    BY <1>1, <1>3, <1>15 DEF OutputBudget
  <1>18. ReadsInBounds'
    BY <1>2, <1>4, <1>5, <1>6, <1>7, <1>8, <1>10, <1>11 DEF ReadsInBounds
  <1>19. WritesInBounds'
    <2>1. start + copied <= MaxCompressedLength(inputLimit)
      BY <1>5, <1>6, <1>7, <1>8, <1>9, <1>10, <1>11 DEF MaxCompressedLength
    <2>2. MaxCompressedLength(inputLimit) \in Nat
      BY <1>5 DEF MaxCompressedLength
    <2> QED BY <1>2, <1>4, <1>5, <1>6, <1>7, <1>9, <1>10, <2>1, <2>2 DEF WritesInBounds
  <1> QED BY <1>14, <1>16, <1>17, <1>18, <1>19 DEF IInv

\* Two loads that differ have a first byte at which they do.
LEMMA FirstDifference ==
  ASSUME current \in Int, matchStart \in Int, ~SameAt(0, 8)
  PROVE  \E j \in 0 .. 7 : SameAt(0, j) /\ ~SameAt(j, 1)
  <1> DEFINE P(j) == SameAt(0, j)
  <1>1. P(0)
    BY DEF SameAt, Load
  <1>2. ASSUME NEW j \in 0 .. 7, SameAt(0, j), SameAt(j, 1) PROVE SameAt(0, j + 1)
    <2>1. \A i \in 1 .. j : At(inputBase, matchStart + 0 + i - 1) = At(inputBase, current + 0 + i - 1)
      <3> TAKE i \in 1 .. j
      <3>1. Load(inputBase, matchStart + 0, j)[i] = Load(inputBase, current + 0, j)[i]
        BY <1>2 DEF SameAt
      <3> QED BY <3>1 DEF Load
    <2>2. At(inputBase, matchStart + j + 1 - 1) = At(inputBase, current + j + 1 - 1)
      <3>1. Load(inputBase, matchStart + j, 1)[1] = Load(inputBase, current + j, 1)[1]
        BY <1>2 DEF SameAt
      <3> QED BY <3>1 DEF Load
    <2>3. \A i \in 1 .. j + 1 : At(inputBase, matchStart + 0 + i - 1) = At(inputBase, current + 0 + i - 1)
      <3> TAKE i \in 1 .. j + 1
      <3>1. CASE i \in 1 .. j
        BY <2>1, <3>1
      <3>2. CASE i = j + 1
        <4>1. /\ matchStart + 0 + i - 1 = matchStart + j + 1 - 1
              /\ current + 0 + i - 1 = current + j + 1 - 1
          BY <3>2
        <4> QED BY <2>2, <4>1
      <3> QED BY <3>1, <3>2
    <2> QED BY <2>3 DEF SameAt, Load
  <1> HIDE DEF P
  <1>3. ~P(8)
    BY DEF P
  <1>4. ASSUME \A j \in 0 .. 7 : ~(SameAt(0, j) /\ ~SameAt(j, 1)) PROVE FALSE
    <2>1. \A j \in 0 .. 7 : P(j) => P(j + 1)
      BY <1>2, <1>4 DEF P
    <2>2. P(1) BY <1>1, <2>1
    <2>3. P(2) BY <2>2, <2>1
    <2>4. P(3) BY <2>3, <2>1
    <2>5. P(4) BY <2>4, <2>1
    <2>6. P(5) BY <2>5, <2>1
    <2>7. P(6) BY <2>6, <2>1
    <2>8. P(7) BY <2>7, <2>1
    <2>9. P(8) BY <2>8, <2>1
    <2> QED BY <2>9, <1>3
  <1> QED BY <1>4

\* Comparing words, and where the first differing byte is, stays below matchLimit.
LEMMA CountLongInv == ASSUME IInv, CountLong PROVE IInv'
  <1>1. /\ pc = "count" /\ pc' \in {"count", "emitMatch"} /\ UNCHANGED arguments
        /\ UNCHANGED <<table, nextHash>>
        /\ current < matchLimit - 7
        /\ readEnd' = Reach(readEnd, current, 8)
    BY DEF CountLong
  <1>2. UNCHANGED <<nextInputIndex, findMatchAttempts, step, input, matchIndex, anchor,
                    output, tokenAddress, outputBase, writeEnd, result>>
    BY DEF CountLong, search, block
  <1>3. /\ inputLimit' = inputLimit /\ maxOutputLength' = maxOutputLength
        /\ ArgumentsOK' /\ TableOK' /\ BlockOK'
    BY <1>1, <1>2, Frame
  <1>4. /\ NumbersOK /\ Located /\ OutputBudget
        /\ inputLimit \in Nat /\ maxOutputLength \in Nat
        /\ readEnd <= inputLimit /\ writeEnd <= maxOutputLength
    BY Given
  <1>5. /\ current \in Nat /\ input \in Nat /\ matchIndex \in Nat /\ readEnd \in Nat
        /\ input + 4 <= current
    BY <1>1, <1>4 DEF NumbersOK, Located
  <1>6. \E j \in 0 .. 8 : current' = current + j
    <2>1. CASE SameAt(0, 8)
      BY <2>1 DEF CountLong
    <2>2. CASE ~SameAt(0, 8)
      <3> DEFINE First(j) == SameAt(0, j) /\ ~SameAt(j, 1)
      <3>1. current \in Int /\ matchStart \in Int
        BY <1>5 DEF matchStart
      <3>2. \E j \in 0 .. 7 : First(j)
        BY <2>2, <3>1, FirstDifference
      <3>3. current' = current + CHOOSE j \in 0 .. 7 : First(j)
        BY <2>2 DEF CountLong
      <3> HIDE DEF First
      <3>4. PICK k \in 0 .. 7 : k = CHOOSE j \in 0 .. 7 : First(j)
        BY <3>2
      <3>5. current' = current + k
        BY <3>3, <3>4, Zenon
      <3>6. k \in 0 .. 8
        OBVIOUS
      <3> QED BY <3>5, <3>6
    <2> QED BY <2>1, <2>2
  <1>7. /\ current' \in 0 .. inputLimit /\ current' <= matchLimit
        /\ input + 4 <= current'
    BY <1>1, <1>4, <1>5, <1>6
  <1>8. readEnd' \in Nat /\ readEnd' <= inputLimit
    BY <1>1, <1>4, <1>5
  <1>9. NumbersOK'
    BY <1>2, <1>3, <1>4, <1>7, <1>8 DEF NumbersOK
  <1>10. TypeOK'
    BY <1>1, <1>3, <1>9, TypeParts
  <1>11. Located'
    BY <1>1, <1>2, <1>3, <1>4, <1>7 DEF Located
  <1>12. OutputBudget'
    BY <1>1, <1>2, <1>4 DEF OutputBudget
  <1>13. ReadsInBounds' /\ WritesInBounds'
    BY <1>2, <1>3, <1>4, <1>8 DEF ReadsInBounds, WritesInBounds
  <1> QED BY <1>10, <1>11, <1>12, <1>13 DEF IInv

\* Comparing the rest stays below matchLimit: each width is tried only if it fits.
LEMMA CountRestInv == ASSUME IInv, CountRest PROVE IInv'
  <1> DEFINE fits(d, k)    == current + d < matchLimit - (k - 1)
             touched(d, k) == IF fits(d, k) THEN d + k ELSE d
             try(d, k)     == IF fits(d, k) /\ SameAt(d, k) THEN d + k ELSE d
             int   == try(0, 4)
             short == try(int, 2)
             byte  == try(short, 1)
  <1>1. /\ pc = "count" /\ pc' = "emitMatch" /\ UNCHANGED arguments
        /\ UNCHANGED <<table, nextHash>>
    BY DEF CountRest
  <1>2. /\ current' = current + byte
        /\ readEnd' = Reach(Reach(Reach(readEnd, current, touched(0, 4)),
                                  current, touched(int, 2)),
                            current, touched(short, 1))
    BY DEF CountRest
  <1>3. UNCHANGED <<nextInputIndex, findMatchAttempts, step, input, matchIndex, anchor,
                    output, tokenAddress, outputBase, writeEnd, result>>
    BY DEF CountRest, search, block
  <1>4. /\ inputLimit' = inputLimit /\ maxOutputLength' = maxOutputLength
        /\ ArgumentsOK' /\ TableOK' /\ BlockOK'
    BY <1>1, <1>3, Frame
  <1>5. /\ NumbersOK /\ Located /\ OutputBudget
        /\ inputLimit \in Nat /\ maxOutputLength \in Nat
        /\ readEnd <= inputLimit /\ writeEnd <= maxOutputLength
    BY Given
  <1>6. /\ current \in Nat /\ input \in Nat /\ readEnd \in Nat
        /\ input + 4 <= current /\ current <= matchLimit
    BY <1>1, <1>5 DEF NumbersOK, Located
  <1>7. ASSUME NEW d \in Nat, current + d <= matchLimit, NEW k \in {1, 2, 4}
        PROVE  /\ try(d, k) \in Nat /\ current + try(d, k) <= matchLimit
               /\ touched(d, k) \in Nat /\ current + touched(d, k) <= matchLimit
    BY <1>5, <1>6, <1>7
  <1> HIDE DEF try, touched
  <1>8. /\ int \in Nat /\ current + int <= matchLimit
        /\ touched(0, 4) \in Nat /\ current + touched(0, 4) <= matchLimit
    BY <1>6, <1>7
  <1>9. /\ short \in Nat /\ current + short <= matchLimit
        /\ touched(int, 2) \in Nat /\ current + touched(int, 2) <= matchLimit
    BY <1>7, <1>8
  <1>10. /\ byte \in Nat /\ current + byte <= matchLimit
         /\ touched(short, 1) \in Nat /\ current + touched(short, 1) <= matchLimit
    BY <1>7, <1>9
  <1> HIDE DEF int, short, byte
  <1>11. /\ current' \in 0 .. inputLimit /\ current' <= matchLimit
         /\ input + 4 <= current'
    BY <1>2, <1>5, <1>6, <1>10
  <1>12. readEnd' \in Nat /\ readEnd' <= inputLimit
    BY <1>2, <1>5, <1>6, <1>8, <1>9, <1>10
  <1>13. NumbersOK'
    BY <1>3, <1>4, <1>5, <1>11, <1>12 DEF NumbersOK
  <1>14. TypeOK'
    BY <1>1, <1>4, <1>13, TypeParts
  <1>15. Located'
    BY <1>1, <1>3, <1>4, <1>5, <1>11 DEF Located
  <1>16. OutputBudget'
    BY <1>1, <1>3, <1>5 DEF OutputBudget
  <1>17. ReadsInBounds' /\ WritesInBounds'
    BY <1>3, <1>4, <1>5, <1>12 DEF ReadsInBounds, WritesInBounds
  <1> QED BY <1>14, <1>15, <1>16, <1>17 DEF IInv

\* A match of four bytes or more earns back what its token and offset cost, so
\* that the budget is 256 to 255 again behind it.
LEMMA EmitMatchInv == ASSUME IInv, EmitMatch PROVE IInv'
  <1> DEFINE length == current - (input + 4)
             token  == TokenWithMatch(length)
             bytes  == MatchBytes(input - matchIndex, length)
             size   == Len(bytes)
  <1>1. /\ pc = "emitMatch" /\ UNCHANGED arguments /\ UNCHANGED <<table, nextHash>>
        /\ input' = current /\ anchor' = current
        /\ pc' = IF current > matchFindLimit THEN "lastLiterals" ELSE "testNext"
    BY DEF EmitMatch
  <1>2. /\ outputBase' = Store(Store(outputBase, tokenAddress, <<token>>), output, bytes)
        /\ output' = output + size
        /\ writeEnd' = Reach(writeEnd, output, size)
    BY DEF EmitMatch
  <1>3. UNCHANGED <<nextInputIndex, findMatchAttempts, step, matchIndex, current,
                    tokenAddress, readEnd, result>>
    BY DEF EmitMatch, search
  <1>4. /\ inputLimit' = inputLimit /\ maxOutputLength' = maxOutputLength
        /\ ArgumentsOK' /\ TableOK'
    BY <1>1, Frame
  <1>5. /\ NumbersOK /\ BlockOK /\ Located /\ OutputBudget
        /\ inputLimit \in Nat /\ maxOutputLength \in Nat
        /\ readEnd <= inputLimit /\ writeEnd <= maxOutputLength
    BY Given
  <1>6. /\ current \in Nat /\ input \in Nat /\ matchIndex \in Nat /\ writeEnd \in Nat
        /\ output \in Nat /\ tokenAddress \in Nat
    BY <1>5 DEF NumbersOK
  <1>7. /\ input + 4 <= current /\ current <= matchLimit
        /\ maxOutputLength >= MaxCompressedLength(inputLimit)
        /\ 255 * output <= 256 * input + 495
    BY <1>1, <1>5 DEF Located, OutputBudget
  <1>8. length \in Nat /\ input + 4 + length = current
    BY <1>6, <1>7
  <1> HIDE DEF length
  <1>9. bytes \in Seq(Byte) /\ size \in Nat /\ 255 * size <= 256 * length + 529
    <2>1. input - matchIndex \in Int
      BY <1>6
    <2>2. bytes \in Seq(Byte) /\ size = MatchSize(length)
      BY <1>8, <2>1, MatchBytesType
    <2>3. MatchSize(length) \in Nat /\ 255 * MatchSize(length) <= 256 * length + 529
      BY <1>8, MatchSizeBudget
    <2> HIDE DEF bytes, size
    <2> QED BY <2>2, <2>3
  <1>10. <<token>> \in Seq(Byte)
    <2>1. token \in Byte
      BY BitOrType DEF TokenWithMatch
    <2> HIDE DEF token
    <2> QED BY <2>1
  <1> HIDE DEF bytes, size, token
  <1>11. BlockOK'
    <2>1. output \in Int /\ tokenAddress \in Int
      BY <1>6
    <2>2. /\ Store(outputBase, tokenAddress, <<token>>) \in Seq(Byte)
          /\ Len(Store(outputBase, tokenAddress, <<token>>)) = Len(outputBase)
      BY <1>5, <1>10, <2>1, StoreType DEF BlockOK
    <2>3. outputBase' \in Seq(Byte) /\ Len(outputBase') = Len(outputBase)
      BY <1>2, <1>9, <2>1, <2>2, StoreType
    <2> QED BY <1>4, <1>5, <2>3 DEF BlockOK
  <1>12. output' \in Nat /\ 255 * output' <= 256 * current
    BY <1>2, <1>6, <1>7, <1>8, <1>9
  <1>13. writeEnd' \in Nat /\ writeEnd' <= maxOutputLength
    <2>1. MaxCompressedLength(inputLimit) \in Nat
      BY <1>5 DEF MaxCompressedLength
    <2>2. output + size <= MaxCompressedLength(inputLimit)
      BY <1>2, <1>5, <1>6, <1>7, <1>12 DEF MaxCompressedLength
    <2> QED BY <1>2, <1>5, <1>6, <1>7, <1>9, <2>1, <2>2
  <1>14. NumbersOK'
    BY <1>1, <1>3, <1>4, <1>5, <1>12, <1>13 DEF NumbersOK
  <1>15. pc' \in Phases
    BY <1>1
  <1>16. TypeOK'
    BY <1>4, <1>11, <1>14, <1>15, TypeParts
  <1>17. Located'
    BY <1>1, <1>4, <1>5, <1>6, <1>7 DEF Located
  <1>18. OutputBudget'
    BY <1>1, <1>12 DEF OutputBudget
  <1>19. ReadsInBounds' /\ WritesInBounds'
    BY <1>3, <1>4, <1>5, <1>13 DEF ReadsInBounds, WritesInBounds
  <1> QED BY <1>16, <1>17, <1>18, <1>19 DEF IInv

\* Entering the position two before the cursor keeps the table well-formed.
LEMMA TableAfterMatchType ==
  ASSUME IInv, 4 <= input
  PROVE  /\ TableAfterMatch \in [0 .. mask -> 0 .. inputLimit]
         /\ HashAt(input) \in 0 .. mask
         /\ TableAfterMatch[HashAt(input)] \in 0 .. inputLimit
  <1>1. TableOK /\ input \in Nat /\ input <= inputLimit /\ inputLimit \in Nat
    BY Given DEF NumbersOK
  <1>2. input - 2 \in Int /\ input \in Int /\ input - 2 \in 0 .. inputLimit
    BY <1>1
  <1>3. \A i \in Int : HashAt(i) \in 0 .. mask
    BY ConstantTypes DEF IInv
  <1>4. HashAt(input - 2) \in 0 .. mask /\ HashAt(input) \in 0 .. mask
    BY <1>2, <1>3, Zenon
  <1>5. TableAfterMatch \in [0 .. mask -> 0 .. inputLimit]
    BY <1>1, <1>2, <1>4 DEF TableOK, TableAfterMatch
  <1> QED BY <1>4, <1>5

\* A match right behind a match costs a token and no literals.
LEMMA AnotherMatchInv == ASSUME IInv, AnotherMatch PROVE IInv'
  <1>1. /\ pc = "testNext" /\ pc' = "count" /\ UNCHANGED arguments
        /\ current' = input + 4
        /\ tokenAddress' = output /\ output' = output + 1
        /\ readEnd' = Reach(readEnd, input, 8)
        /\ writeEnd' = Reach(writeEnd, output, 1)
    BY DEF AnotherMatch, StartCount
  <1>2. /\ outputBase' = Store(outputBase, output, <<0>>)
        /\ matchIndex' = TableAfterMatch[HashAt(input)]
        /\ table' = [TableAfterMatch EXCEPT ![HashAt(input)] = input]
    BY DEF AnotherMatch, FreshToken
  <1>3. UNCHANGED <<nextHash, nextInputIndex, findMatchAttempts, step, input, anchor, result>>
    BY DEF AnotherMatch, search
  <1>4. /\ inputLimit' = inputLimit /\ maxOutputLength' = maxOutputLength /\ mask' = mask
        /\ ArgumentsOK'
    BY <1>1, Frame
  <1>5. /\ NumbersOK /\ BlockOK /\ TableOK /\ Located /\ OutputBudget
        /\ inputLimit \in Nat /\ maxOutputLength \in Nat
        /\ readEnd <= inputLimit /\ writeEnd <= maxOutputLength
    BY Given
  <1>6. /\ input \in Nat /\ output \in Nat /\ readEnd \in Nat /\ writeEnd \in Nat
        /\ inputLimit \in Nat
    BY <1>5 DEF NumbersOK
  <1>7. /\ anchor = input /\ 4 <= input /\ input <= matchFindLimit
        /\ maxOutputLength >= MaxCompressedLength(inputLimit)
        /\ 255 * output <= 256 * input
    BY <1>1, <1>5 DEF Located, OutputBudget
  <1>8. TableOK' /\ matchIndex' \in 0 .. inputLimit
    BY <1>2, <1>3, <1>4, <1>5, <1>6, <1>7, TableAfterMatchType DEF TableOK
  <1>9. BlockOK'
    <2>1. <<0>> \in Seq(Byte) /\ output \in Int
      BY <1>6 DEF Byte
    <2> QED BY <1>2, <1>4, <1>5, <2>1, StoreType DEF BlockOK
  <1>10. writeEnd' \in Nat /\ writeEnd' <= maxOutputLength
    <2>1. MaxCompressedLength(inputLimit) \in Nat /\ output + 1 <= MaxCompressedLength(inputLimit)
      BY <1>6, <1>7 DEF MaxCompressedLength
    <2> QED BY <1>1, <1>5, <1>6, <1>7, <2>1
  <1>11. /\ readEnd' \in Nat /\ readEnd' <= inputLimit
         /\ current' \in 0 .. inputLimit
    BY <1>1, <1>5, <1>6, <1>7
  <1>12. NumbersOK'
    BY <1>1, <1>3, <1>4, <1>5, <1>6, <1>8, <1>10, <1>11 DEF NumbersOK
  <1>13. TypeOK'
    BY <1>1, <1>4, <1>8, <1>9, <1>12, TypeParts
  <1>14. Located'
    BY <1>1, <1>3, <1>4, <1>6, <1>7 DEF Located
  <1>15. OutputBudget'
    BY <1>1, <1>3, <1>6, <1>7 DEF OutputBudget
  <1>16. ReadsInBounds' /\ WritesInBounds'
    BY <1>4, <1>10, <1>11 DEF ReadsInBounds, WritesInBounds
  <1> QED BY <1>13, <1>14, <1>15, <1>16 DEF IInv

\* Going back to the search starts it behind the anchor.
LEMMA NoOtherMatchInv == ASSUME IInv, NoOtherMatch PROVE IInv'
  <1>1. /\ pc = "testNext" /\ pc' = "search" /\ UNCHANGED arguments
        /\ input' = input + 1 /\ nextInputIndex' = input + 1
        /\ findMatchAttempts' = 64 /\ step' = 1
        /\ readEnd' = Reach(readEnd, input, 8)
    BY DEF NoOtherMatch, StartSearch
  <1>2. /\ nextHash' = Hash(IntAt(inputBase, input + 1), mask)
        /\ matchIndex' = TableAfterMatch[HashAt(input)]
        /\ table' = [TableAfterMatch EXCEPT ![HashAt(input)] = input]
    BY DEF NoOtherMatch
  <1>3. UNCHANGED <<anchor, current, output, tokenAddress, outputBase, writeEnd, result>>
    BY DEF NoOtherMatch, block
  <1>4. /\ inputLimit' = inputLimit /\ maxOutputLength' = maxOutputLength /\ mask' = mask
        /\ ArgumentsOK' /\ BlockOK'
    BY <1>1, <1>3, Frame
  <1>5. /\ NumbersOK /\ TableOK /\ Located /\ OutputBudget
        /\ inputLimit \in Nat /\ maxOutputLength \in Nat
        /\ readEnd <= inputLimit /\ writeEnd <= maxOutputLength
    BY Given
  <1>6. input \in Nat /\ readEnd \in Nat /\ inputLimit \in Nat
    BY <1>5 DEF NumbersOK
  <1>7. anchor = input /\ 4 <= input /\ input <= matchFindLimit
    BY <1>1, <1>5 DEF Located
  <1>8. TableOK' /\ matchIndex' \in 0 .. inputLimit
    <2>1. nextHash' \in 0 .. mask
      <3>1. input + 1 \in Int
        BY <1>6
      <3>2. \A i \in Int : Hash(IntAt(inputBase, i), mask) \in 0 .. mask
        BY ConstantTypes DEF IInv
      <3> QED BY <1>2, <3>1, <3>2, Zenon
    <2> QED BY <1>2, <1>4, <1>5, <1>6, <1>7, <2>1, TableAfterMatchType DEF TableOK
  <1>9. readEnd' \in Nat /\ readEnd' <= inputLimit
    BY <1>1, <1>5, <1>6, <1>7
  <1>10. NumbersOK'
    BY <1>1, <1>3, <1>4, <1>5, <1>6, <1>7, <1>8, <1>9 DEF NumbersOK
  <1>11. TypeOK'
    BY <1>1, <1>4, <1>8, <1>10, TypeParts
  <1>12. Located'
    BY <1>1, <1>3, <1>4, <1>5, <1>6, <1>7 DEF Located
  <1>13. OutputBudget'
    BY <1>1, <1>3, <1>5 DEF OutputBudget
  <1>14. ReadsInBounds' /\ WritesInBounds'
    BY <1>3, <1>4, <1>5, <1>9 DEF ReadsInBounds, WritesInBounds
  <1> QED BY <1>11, <1>12, <1>13, <1>14 DEF IInv

\* The last literals are the rest of the input, written exactly.
LEMMA EmitLastLiteralInv == ASSUME IInv, EmitLastLiteral PROVE IInv'
  <1> DEFINE length == inputLimit - anchor
             run    == EncodeRunLength(length)
             size   == Len(run)
             start  == output + size
             bytes  == Load(inputBase, anchor, length)
  <1>1. /\ pc = "lastLiterals" /\ pc' = "done" /\ UNCHANGED arguments
        /\ UNCHANGED <<table, nextHash>>
    BY DEF EmitLastLiteral
  <1>2. /\ outputBase' = Store(Store(outputBase, output, run), start, bytes)
        /\ output' = start + length /\ result' = start + length
        /\ writeEnd' = Reach(writeEnd, output, size + length)
        /\ readEnd' = Reach(readEnd, anchor, length)
    BY DEF EmitLastLiteral
  <1>3. UNCHANGED <<nextInputIndex, findMatchAttempts, step, input, matchIndex, anchor,
                    current, tokenAddress>>
    BY DEF EmitLastLiteral, search
  <1>4. /\ inputLimit' = inputLimit /\ maxOutputLength' = maxOutputLength
        /\ ArgumentsOK' /\ TableOK'
    BY <1>1, Frame
  <1>5. /\ NumbersOK /\ BlockOK /\ Located /\ OutputBudget
        /\ inputLimit \in Nat /\ maxOutputLength \in Nat
        /\ readEnd <= inputLimit /\ writeEnd <= maxOutputLength
    BY Given
  <1>6. /\ anchor \in Nat /\ anchor <= inputLimit /\ output \in Nat
        /\ readEnd \in Nat /\ writeEnd \in Nat
    BY <1>5 DEF NumbersOK
  <1>7. /\ maxOutputLength >= MaxCompressedLength(inputLimit)
        /\ 255 * output <= 256 * anchor
    BY <1>1, <1>5 DEF Located, OutputBudget
  <1>8. length \in Nat /\ anchor + length = inputLimit
    BY <1>5, <1>6
  <1> HIDE DEF length
  <1>9. run \in Seq(Byte) /\ size \in Nat /\ 255 * size <= length + 495
    <2>1. run \in Seq(Byte) /\ size = RunSize(length)
      BY <1>8, RunLengthType
    <2>2. RunSize(length) \in Nat /\ 255 * RunSize(length) <= length + 495
      BY <1>8, RunSizeBudget
    <2> HIDE DEF run, size
    <2> QED BY <2>1, <2>2
  <1> HIDE DEF run, size, bytes
  <1>10. start + length \in Nat /\ 255 * (start + length) <= 256 * inputLimit + 495
    BY <1>6, <1>7, <1>8, <1>9
  <1>11. BlockOK'
    <2>1. bytes \in Seq(Byte)
      <3>1. inputBase \in Seq(Byte) /\ inputLimit = Len(inputBase)
        BY ConstantTypes DEF IInv, inputLimit
      <3>2. anchor \in Int /\ anchor >= 0 /\ anchor + length <= Len(inputBase)
        BY <1>5, <1>6, <1>8, <3>1
      <3> QED BY <1>8, <3>1, <3>2, LoadType DEF bytes
    <2>2. start \in Int /\ output \in Int
      BY <1>6, <1>9
    <2> HIDE DEF start
    <2>3. /\ Store(outputBase, output, run) \in Seq(Byte)
          /\ Len(Store(outputBase, output, run)) = Len(outputBase)
      BY <1>5, <1>9, <2>2, StoreType DEF BlockOK
    <2>4. outputBase' \in Seq(Byte) /\ Len(outputBase') = Len(outputBase)
      BY <1>2, <2>1, <2>2, <2>3, StoreType
    <2> QED BY <1>4, <1>5, <2>4 DEF BlockOK
  <1>12. /\ result' <= inputLimit + inputLimit \div 255 + 2
         /\ result' <= MaxCompressedLength(inputLimit)
    BY <1>2, <1>5, <1>10, BudgetFits
  <1>13. writeEnd' \in Nat /\ writeEnd' <= maxOutputLength
    <2>1. MaxCompressedLength(inputLimit) \in Nat
      BY <1>5 DEF MaxCompressedLength
    <2> QED BY <1>2, <1>5, <1>6, <1>7, <1>8, <1>9, <1>12, <2>1
  <1>14. readEnd' \in Nat /\ readEnd' <= inputLimit
    BY <1>2, <1>5, <1>6, <1>8
  <1>15. NumbersOK'
    BY <1>2, <1>3, <1>4, <1>5, <1>10, <1>13, <1>14 DEF NumbersOK
  <1>16. TypeOK'
    BY <1>1, <1>4, <1>11, <1>15, TypeParts
  <1>17. Located'
    BY <1>1, <1>4, <1>7 DEF Located
  <1>18. OutputBudget'
    BY <1>1, <1>4, <1>12 DEF OutputBudget
  <1>19. ReadsInBounds' /\ WritesInBounds'
    BY <1>4, <1>13, <1>14 DEF ReadsInBounds, WritesInBounds
  <1> QED BY <1>16, <1>17, <1>18, <1>19 DEF IInv

\* A step that changes nothing keeps the invariant.
LEMMA StutterInv == ASSUME IInv, UNCHANGED vars PROVE IInv'
  <1>1. UNCHANGED arguments /\ UNCHANGED <<table, nextHash>> /\ pc' = pc
    BY DEF vars
  <1>2. UNCHANGED <<nextInputIndex, findMatchAttempts, step, input, matchIndex, anchor, current>>
    BY DEF vars, search
  <1>3. UNCHANGED <<output, tokenAddress, outputBase, writeEnd, readEnd, result>>
    BY DEF vars, block
  <1>4. /\ inputLimit' = inputLimit /\ maxOutputLength' = maxOutputLength
        /\ ArgumentsOK' /\ TableOK' /\ BlockOK'
    BY <1>1, <1>3, Frame
  <1>5. /\ pc \in Phases /\ NumbersOK /\ Located /\ OutputBudget
        /\ readEnd <= inputLimit /\ writeEnd <= maxOutputLength
    BY Given
  <1>6. NumbersOK'
    BY <1>2, <1>3, <1>4, <1>5 DEF NumbersOK
  <1>7. TypeOK'
    BY <1>1, <1>4, <1>5, <1>6, TypeParts
  <1>8. Located'
    BY <1>1, <1>2, <1>3, <1>4, <1>5 DEF Located
  <1>9. OutputBudget'
    BY <1>1, <1>2, <1>3, <1>4, <1>5 DEF OutputBudget
  <1>10. ReadsInBounds' /\ WritesInBounds'
    BY <1>3, <1>4, <1>5 DEF ReadsInBounds, WritesInBounds
  <1> QED BY <1>7, <1>8, <1>9, <1>10 DEF IInv

-----------------------------------------------------------------------------
\* The theorems

\* Every step keeps the inductive invariant.
LEMMA NextInv == ASSUME IInv, [Next]_vars PROVE IInv'
  <1>1. CASE Throw BY <1>1, ThrowInv
  <1>2. CASE ShortInput BY <1>2, ShortInputInv
  <1>3. CASE FirstByte BY <1>3, FirstByteInv
  <1>4. CASE GiveUp BY <1>4, GiveUpInv
  <1>5. CASE Probe BY <1>5, ProbeInv
  <1>6. CASE CatchUp BY <1>6, CatchUpInv
  <1>7. CASE EmitLiteral BY <1>7, EmitLiteralInv
  <1>8. CASE CountLong BY <1>8, CountLongInv
  <1>9. CASE CountRest BY <1>9, CountRestInv
  <1>10. CASE EmitMatch BY <1>10, EmitMatchInv
  <1>11. CASE AnotherMatch BY <1>11, AnotherMatchInv
  <1>12. CASE NoOtherMatch BY <1>12, NoOtherMatchInv
  <1>13. CASE EmitLastLiteral BY <1>13, EmitLastLiteralInv
  <1>14. CASE UNCHANGED vars BY <1>14, StutterInv
  <1> QED BY <1>1, <1>2, <1>3, <1>4, <1>5, <1>6, <1>7, <1>8, <1>9, <1>10,
             <1>11, <1>12, <1>13, <1>14 DEF Next, Step, Returned

\* The inductive invariant: the cursors are where their phase says, and the
\* budget holds that bounds every access to both buffers.
THEOREM Invariance == Spec => []IInv
  <1>1. Init => IInv
    BY InitInv
  <1>2. IInv /\ [Next]_vars => IInv'
    BY NextInv
  <1> QED BY <1>1, <1>2, PTL DEF Spec

\* Whatever the input and the capacity, the locals of compress stay within
\* the ranges that the input's length gives them.
THEOREM TypeCorrect == Spec => []TypeOK
  <1>1. IInv => TypeOK
    BY DEF IInv
  <1> QED BY <1>1, Invariance, PTL

\* Whatever the input, no load of compress, emitLiteral's and count's
\* word-sized ones included, leaves the input.
THEOREM ReadsStayInside == Spec => []ReadsInBounds
  <1>1. IInv => ReadsInBounds
    BY DEF IInv
  <1> QED BY <1>1, Invariance, PTL

\* Whatever the input, the check of the capacity at the entry of compress
\* suffices for every store, emitLiteral's overcopy of up to eight bytes
\* included.
THEOREM WritesStayInside == Spec => []WritesInBounds
  <1>1. IInv => WritesInBounds
    BY DEF IInv
  <1> QED BY <1>1, Invariance, PTL

\* Whatever the input, the block grows by at most one byte in 255 over the
\* data it describes: the result is within n + n \div 255 + 2 bytes.
THEOREM BudgetKept == Spec => []OutputBudget
  <1>1. IInv => OutputBudget
    BY DEF IInv
  <1> QED BY <1>1, Invariance, PTL

-----------------------------------------------------------------------------
\* The first n bytes of the match are those of its earlier occurrence.
Same(n) == SameBytes(inputBase, matchIndex, inputBase, input, n)

\* No position in the table is beyond p.
TableUpTo(p) == \A h \in 0 .. mask : table[h] <= p

\* A match lies behind the cursor and within reach, and its bytes go on at least
\* to the fourth one behind the last position entered in the table.
MatchBehind ==
  /\ matchIndex < input
  /\ input - matchIndex <= MAX_DISTANCE
  /\ \E p \in input .. matchFindLimit : TableUpTo(p) /\ Same(p + MIN_MATCH - input)

MatchPhases == {"catchUp", "count", "emitMatch"}

MatchInv ==
  /\ pc = "start" => TableUpTo(0)
  /\ pc \in MatchPhases => MatchBehind
  /\ pc \in {"count", "emitMatch"} => Same(current - input)
  /\ CountExact
  /\ TableBehind

\* A distance, from the sum that IsMatch compares.
LEMMA Difference ==
  ASSUME NEW i \in Nat, NEW j \in Nat, NEW d \in Nat
  PROVE  i + d >= j => j - i <= d
  OBVIOUS

\* What a step of the search or of the counting finds.
LEMMA Positions ==
  ASSUME IInv
  PROVE  /\ inputLimit \in Nat /\ mask \in Nat
         /\ input \in Nat /\ matchIndex \in Nat /\ current \in Nat /\ anchor \in Nat
         /\ nextInputIndex \in Nat /\ step \in Nat /\ nextHash \in 0 .. mask
         /\ MAX_DISTANCE \in Nat
         /\ \A h \in 0 .. mask : table[h] \in Nat
         /\ table \in [0 .. mask -> 0 .. inputLimit]
         /\ \A i \in Int : HashAt(i) \in 0 .. mask
  <1>1. inputLimit \in Nat /\ mask \in Nat /\ NumbersOK /\ TableOK
    BY Given
  <1>2. MAX_DISTANCE \in Nat
    BY CompressorAssumption DEF CompressorAssumption, OFFSET_RANGE
  <1>3. \A i \in Int : HashAt(i) \in 0 .. mask
    BY ConstantTypes DEF IInv
  <1>4. \A h \in 0 .. mask : table[h] \in Nat
    BY <1>1 DEF TableOK
  <1>5. table \in [0 .. mask -> 0 .. inputLimit] /\ nextHash \in 0 .. mask
    BY <1>1 DEF TableOK
  <1>6. /\ input \in Nat /\ matchIndex \in Nat /\ current \in Nat /\ anchor \in Nat
        /\ nextInputIndex \in Nat /\ step \in Nat
    BY <1>1 DEF NumbersOK
  <1> QED BY <1>1, <1>2, <1>3, <1>4, <1>5, <1>6

\* Steps after which no match is being written and the table is not looked at.
LEMMA QuietMatch ==
  ASSUME pc' \in {"lastLiterals", "done", "thrown"}
  PROVE  MatchInv'
  BY DEF MatchInv, MatchPhases, CountExact, TableBehind

\* The search begins with a table that knows nothing but position 0.
LEMMA FirstByteMatch == ASSUME IInv, MatchInv, FirstByte PROVE MatchInv'
  <1>1. /\ pc = "start" /\ pc' = "search" /\ UNCHANGED arguments
        /\ table' = [table EXCEPT ![HashAt(0)] = 0] /\ nextInputIndex' = 1
    BY DEF FirstByte, StartSearch
  <1>2. mask' = mask
    BY <1>1, ArgumentsStay
  <1>3. TableUpTo(0)
    BY <1>1 DEF MatchInv
  <1>4. \A h \in 0 .. mask : table'[h] < 1
    BY <1>1, <1>3, Positions DEF TableUpTo
  <1>5. TableBehind'
    BY <1>1, <1>2, <1>4 DEF TableBehind
  <1> QED BY <1>1, <1>5 DEF MatchInv, MatchPhases, CountExact

\* A probe enters its own position, which is behind the next one; a candidate
\* that it accepts has four bytes in common with it.
LEMMA ProbeMatch == ASSUME IInv, MatchInv, Probe PROVE MatchInv'
  <1>1. /\ pc = "search" /\ UNCHANGED arguments
        /\ input' = nextInputIndex /\ nextInputIndex' = nextInputIndex + step
        /\ nextInputIndex + step <= matchFindLimit
    BY DEF Probe, Advance
  <1>2. matchIndex' = table[nextHash] /\ table' = [table EXCEPT ![nextHash] = nextInputIndex]
    BY DEF Probe, TableAfterProbe
  <1>3. pc' = IF IsMatch(matchIndex', nextInputIndex) THEN "catchUp" ELSE "search"
    BY DEF Probe
  <1>4. mask' = mask /\ inputBase' = inputBase /\ inputLimit' = inputLimit
    BY <1>1, ArgumentsStay
  <1>5. step >= 1
    BY <1>1, Given DEF Located
  <1>6. /\ nextInputIndex \in Nat /\ step \in Nat /\ inputLimit \in Nat
        /\ MAX_DISTANCE \in Nat
    BY Positions
  <1>7. table \in [0 .. mask -> 0 .. inputLimit] /\ nextHash \in 0 .. mask
    BY Positions
  <1>8. \A h \in 0 .. mask : table[h] < nextInputIndex
    BY <1>1 DEF MatchInv, TableBehind
  <1>9. \A h \in 0 .. mask : table[h] \in Nat
    BY Positions
  <1>10. \A h \in 0 .. mask : table'[h] \in Nat /\ table'[h] <= nextInputIndex
    BY <1>2, <1>6, <1>7, <1>8, <1>9
  <1>11. CASE pc' = "search"
    <2>1. \A h \in 0 .. mask' : table'[h] < nextInputIndex'
      BY <1>1, <1>4, <1>5, <1>6, <1>10
    <2> QED BY <2>1, <1>11 DEF MatchInv, MatchPhases, CountExact, TableBehind
  <1>12. CASE pc' = "catchUp"
    <2>1. IsMatch(matchIndex', input')
      BY <1>1, <1>3, <1>12
    <2>2. matchIndex' \in Nat /\ matchIndex' < input' /\ input' \in Nat
      BY <1>1, <1>2, <1>6, <1>7, <1>8, <1>9
    <2>3. SameBytes(inputBase, matchIndex', inputBase, input', 4)
      <3>1. Load(inputBase, matchIndex', 4) = Load(inputBase, input', 4)
        BY <2>1 DEF IsMatch
      <3> QED BY <2>2, <3>1, LoadSame
    <2>4. input' - matchIndex' <= MAX_DISTANCE
      <3>1. matchIndex' + MAX_DISTANCE >= input'
        BY <2>1 DEF IsMatch
      <3>2. matchIndex' \in Nat /\ input' \in Nat /\ MAX_DISTANCE \in Nat
        BY <2>2, <1>6
      <3> QED BY <3>1, <3>2, Difference
    <2>5. (input + MIN_MATCH - input)' = 4 /\ input' \in input' .. matchFindLimit'
      BY <1>1, <1>4, <1>5, <1>6, <2>2
    <2>6. TableUpTo(input)'
      BY <1>1, <1>4, <1>10 DEF TableUpTo
    <2>7. Same(input + MIN_MATCH - input)'
      BY <1>4, <2>3, <2>5 DEF Same
    <2>8. MatchBehind'
      BY <2>2, <2>4, <2>5, <2>6, <2>7 DEF MatchBehind
    <2> QED BY <2>8, <1>12 DEF MatchInv, MatchPhases, CountExact, TableBehind
  <1> QED BY <1>3, <1>11, <1>12

\* Catching up moves the cursor and its candidate back together.
LEMMA CatchUpMatch == ASSUME IInv, MatchInv, CatchUp PROVE MatchInv'
  <1>1. /\ pc = "catchUp" /\ pc' = "catchUp" /\ UNCHANGED arguments
        /\ UNCHANGED <<table, nextHash>>
        /\ input > anchor /\ matchIndex > 0
        /\ input' = input - 1 /\ matchIndex' = matchIndex - 1
        /\ At(inputBase, input - 1) = At(inputBase, matchIndex - 1)
    BY DEF CatchUp, BeganEarlier
  <1>2. mask' = mask /\ inputBase' = inputBase /\ inputLimit' = inputLimit
    BY <1>1, ArgumentsStay
  <1>3. /\ inputLimit \in Nat /\ input \in Nat /\ matchIndex \in Nat /\ anchor \in Nat
        /\ MAX_DISTANCE \in Nat
    BY Positions
  <1>4. MatchBehind
    BY <1>1 DEF MatchInv, MatchPhases
  <1>5. PICK p \in input .. matchFindLimit : TableUpTo(p) /\ Same(p + MIN_MATCH - input)
    BY <1>4 DEF MatchBehind
  <1>6. p \in input' .. matchFindLimit' /\ TableUpTo(p)'
    BY <1>1, <1>2, <1>3, <1>5 DEF TableUpTo
  <1>7. Same(p + MIN_MATCH - input)'
    <2> DEFINE n == p + 4 - input
    <2>1. n \in Nat /\ p + 4 - (input - 1) = 1 + n
      BY <1>3, <1>5
    <2>2. SameBytes(inputBase, matchIndex - 1, inputBase, input - 1, 1)
      <3>1. \A k \in 0 .. 1 - 1 : matchIndex - 1 + k = matchIndex - 1 /\ input - 1 + k = input - 1
        BY <1>3
      <3> QED BY <1>1, <3>1 DEF SameBytes
    <2>3. SameBytes(inputBase, (matchIndex - 1) + 1, inputBase, (input - 1) + 1, n)
      <3>1. (matchIndex - 1) + 1 = matchIndex /\ (input - 1) + 1 = input
        BY <1>3
      <3> QED BY <1>5, <3>1 DEF Same
    <2> HIDE DEF n
    <2>4. SameBytes(inputBase, matchIndex - 1, inputBase, input - 1, 1 + n)
      BY <1>1, <1>3, <2>1, <2>2, <2>3, SameJoin
    <2>5. (p + MIN_MATCH - input)' = 1 + n
      BY <1>1, <2>1
    <2> QED BY <1>1, <1>2, <2>4, <2>5 DEF Same
  <1>8. matchIndex' < input' /\ (input - matchIndex)' <= MAX_DISTANCE
    <2>1. matchIndex < input /\ input - matchIndex <= MAX_DISTANCE
      BY <1>4 DEF MatchBehind
    <2>2. (input - 1) - (matchIndex - 1) = input - matchIndex
      BY <1>3
    <2> QED BY <1>1, <1>3, <2>1, <2>2
  <1>9. MatchBehind'
    BY <1>6, <1>7, <1>8 DEF MatchBehind
  <1> QED BY <1>1, <1>9 DEF MatchInv, MatchPhases, CountExact, TableBehind

\* The literals are written; the first four bytes of the match are known.
LEMMA EmitLiteralMatch == ASSUME IInv, MatchInv, EmitLiteral PROVE MatchInv'
  <1>1. /\ pc = "catchUp" /\ pc' = "count" /\ UNCHANGED arguments
        /\ UNCHANGED <<table, input, matchIndex>> /\ current' = input + 4
    BY DEF EmitLiteral, StartCount
  <1>2. mask' = mask /\ inputBase' = inputBase /\ inputLimit' = inputLimit
    BY <1>1, ArgumentsStay
  <1>3. inputLimit \in Nat /\ input \in Nat /\ matchIndex \in Nat
    BY Positions
  <1>4. MatchBehind
    BY <1>1 DEF MatchInv, MatchPhases
  <1>5. MatchBehind'
    BY <1>1, <1>2, <1>4 DEF MatchBehind, Same, TableUpTo
  <1>6. PICK p \in input .. matchFindLimit : Same(p + MIN_MATCH - input)
    BY <1>4 DEF MatchBehind
  <1>7. SameBytes(inputBase, matchIndex, inputBase, input, 4)
    <2>1. p + 4 - input \in Int /\ 4 <= p + 4 - input
      BY <1>3, <1>6
    <2> QED BY <1>3, <1>6, <2>1, SameFewer DEF Same
  <1>8. Same(current - input)'
    <2>1. (current - input)' = 4
      BY <1>1, <1>3
    <2> QED BY <1>1, <1>2, <1>7, <2>1 DEF Same
  <1> QED BY <1>1, <1>5, <1>8 DEF MatchInv, MatchPhases, CountExact, TableBehind

\* The byte d behind current agrees with the one d behind matchStart.
Agree(d) == At(inputBase, matchStart + d) = At(inputBase, current + d)

\* What the loads of count compare, byte by byte.
LEMMA SameAtBytes ==
  ASSUME IInv, NEW d \in Nat, NEW k \in Nat
  PROVE  SameAt(d, k) <=> \A j \in d .. d + k - 1 : Agree(j)
  <1>1. matchStart \in Int /\ current \in Int
    BY Positions DEF matchStart
  <1> DEFINE a == matchStart + d
             c == current + d
  <1>2. a \in Int /\ c \in Int
    BY <1>1
  <1>3. SameAt(d, k) <=> SameBytes(inputBase, a, inputBase, c, k)
    <2>1. SameAt(d, k) <=> Load(inputBase, a, k) = Load(inputBase, c, k)
      BY DEF SameAt
    <2> HIDE DEF a, c
    <2> QED BY <1>2, <2>1, LoadSame
  <1>4. ASSUME SameBytes(inputBase, a, inputBase, c, k), NEW j \in d .. d + k - 1
        PROVE  Agree(j)
    <2>1. j - d \in 0 .. k - 1 /\ a + (j - d) = matchStart + j /\ c + (j - d) = current + j
      BY <1>1
    <2>2. At(inputBase, a + (j - d)) = At(inputBase, c + (j - d))
      BY <1>4, <2>1 DEF SameBytes
    <2> QED BY <2>1, <2>2 DEF Agree
  <1>5. ASSUME \A j \in d .. d + k - 1 : Agree(j)
        PROVE  SameBytes(inputBase, a, inputBase, c, k)
    <2> SUFFICES ASSUME NEW i \in 0 .. k - 1
                 PROVE  At(inputBase, a + i) = At(inputBase, c + i)
      BY DEF SameBytes
    <2>1. d + i \in d .. d + k - 1 /\ a + i = matchStart + (d + i) /\ c + i = current + (d + i)
      BY <1>1
    <2>2. Agree(d + i)
      BY <1>5, <2>1
    <2> QED BY <2>1, <2>2 DEF Agree
  <1> QED BY <1>3, <1>4, <1>5

\* Counting n more equal bytes.
LEMMA CountMore ==
  ASSUME IInv, Same(current - input), NEW n \in Nat, \A j \in 0 .. n - 1 : Agree(j),
         input <= current
  PROVE  Same((current + n) - input)
  <1>1. input \in Nat /\ matchIndex \in Nat /\ current \in Nat
    BY Positions
  <1> DEFINE m == current - input
  <1>2. m \in Nat /\ matchIndex + m = matchStart /\ input + m = current /\ (current + n) - input = m + n
    BY <1>1 DEF matchStart
  <1>3. SameBytes(inputBase, matchStart, inputBase, current, n)
    <2>1. matchStart + 0 = matchStart /\ current + 0 = current
      BY <1>1 DEF matchStart
    <2>2. SameAt(0, n)
      <3>1. \A j \in 0 .. 0 + n - 1 : Agree(j)
        OBVIOUS
      <3> QED BY <3>1, SameAtBytes
    <2>3. Load(inputBase, matchStart, n) = Load(inputBase, current, n)
      BY <2>1, <2>2 DEF SameAt
    <2>4. matchStart \in Int /\ current \in Int
      BY <1>1 DEF matchStart
    <2> QED BY <2>3, <2>4, LoadSame
  <1>4. SameBytes(inputBase, matchIndex, inputBase, input, m)
    BY DEF Same
  <1> HIDE DEF m
  <1>5. SameBytes(inputBase, matchIndex, inputBase, input, m + n)
    BY <1>1, <1>2, <1>3, <1>4, SameJoin
  <1> QED BY <1>2, <1>5 DEF Same

\* Of two words that differ there is a first byte in which they do.
LEMMA FirstMember ==
  ASSUME NEW D, \E j \in 0 .. 7 : j \in D
  PROVE  \E j \in 0 .. 7 : j \in D /\ \A i \in 0 .. j - 1 : i \notin D
  <1>1. \/ 0 \in D \/ 1 \in D \/ 2 \in D \/ 3 \in D \/ 4 \in D \/ 5 \in D \/ 6 \in D \/ 7 \in D
    OBVIOUS
  <1> QED BY <1>1

\* What a step of count leaves alone, of the match that is counted.
LEMMA CountFrame ==
  ASSUME IInv, MatchInv, pc = "count", UNCHANGED <<table, input, matchIndex, arguments>>,
         NEW n \in Nat, current' = current + n, \A j \in 0 .. n - 1 : Agree(j)
  PROVE  MatchBehind' /\ Same(current - input)'
  <1>1. mask' = mask /\ inputBase' = inputBase /\ inputLimit' = inputLimit
    BY ArgumentsStay
  <1>2. MatchBehind /\ Same(current - input)
    BY DEF MatchInv, MatchPhases
  <1>3. MatchBehind'
    BY <1>1, <1>2 DEF MatchBehind, Same, TableUpTo
  <1>4. input \in Nat /\ current \in Nat /\ input <= current
    <2>1. Located
      BY Given
    <2>2. input + 4 <= current
      BY <2>1 DEF Located
    <2>3. input \in Nat /\ current \in Nat
      BY Positions
    <2> QED BY <2>2, <2>3
  <1>5. Same((current + n) - input)
    BY <1>2, <1>4, CountMore
  <1>6. (current - input)' = (current + n) - input
    <2>1. input' = input /\ current' = current + n
      OBVIOUS
    <2> QED BY Zenon, <2>1
  <1> QED BY <1>1, <1>3, <1>5, <1>6 DEF Same

\* A word at a time: eight equal bytes are counted, and so are the equal ones of
\* a word that differs, up to the first that does.
LEMMA CountLongMatch == ASSUME IInv, MatchInv, CountLong PROVE MatchInv'
  <1>1. /\ pc = "count" /\ UNCHANGED arguments /\ UNCHANGED <<table, input, matchIndex>>
    BY DEF CountLong
  <1>2. inputBase' = inputBase
    BY <1>1, ArgumentsStay
  <1>3. CASE SameAt(0, 8)
    <2>1. pc' = "count" /\ current' = current + 8
      BY <1>3 DEF CountLong
    <2>2. \A j \in 0 .. 0 + 8 - 1 : Agree(j)
      BY <1>3, SameAtBytes
    <2>3. MatchBehind' /\ Same(current - input)'
      <3>1. \A j \in 0 .. 8 - 1 : Agree(j)
        BY <2>2
      <3> QED BY <1>1, <2>1, <3>1, CountFrame
    <2> QED BY <2>1, <2>3 DEF MatchInv, MatchPhases, CountExact, TableBehind
  <1>4. CASE ~SameAt(0, 8)
    <2> DEFINE n == CHOOSE j \in 0 .. 7 : SameAt(0, j) /\ ~SameAt(j, 1)
    <2>1. pc' = "emitMatch" /\ current' = current + n
      BY <1>4 DEF CountLong
    <2>2. \E j \in 0 .. 7 : SameAt(0, j) /\ ~SameAt(j, 1)
      <3> DEFINE D == {j \in 0 .. 7 : ~Agree(j)}
      <3>1. \E j \in 0 .. 7 : j \in D
        <4>1. \E j \in 0 .. 0 + 8 - 1 : ~Agree(j)
          BY <1>4, SameAtBytes
        <4> QED BY <4>1
      <3> HIDE DEF D
      <3>2. PICK j \in 0 .. 7 : j \in D /\ \A i \in 0 .. j - 1 : i \notin D
        BY <3>1, FirstMember
      <3>3. \A i \in 0 .. 0 + j - 1 : Agree(i)
        BY <3>2 DEF D
      <3>4. SameAt(0, j)
        BY <3>3, SameAtBytes
      <3>5. ~Agree(j) /\ j \in j .. j + 1 - 1
        BY <3>2 DEF D
      <3>6. ~SameAt(j, 1)
        BY <3>5, SameAtBytes
      <3> QED BY <3>4, <3>6
    <2>3. n \in 0 .. 7 /\ SameAt(0, n) /\ ~SameAt(n, 1)
      BY <2>2
    <2> HIDE DEF n
    <2>4. \A j \in 0 .. n - 1 : Agree(j)
      <3>1. \A j \in 0 .. 0 + n - 1 : Agree(j)
        BY <2>3, SameAtBytes
      <3> QED BY <2>3, <3>1
    <2>5. ~Agree(n)
      <3>1. \E j \in n .. n + 1 - 1 : ~Agree(j)
        BY <2>3, SameAtBytes
      <3> QED BY <2>3, <3>1
    <2>6. MatchBehind' /\ Same(current - input)'
      BY <1>1, <2>1, <2>3, <2>4, CountFrame
    <2>7. CountExact'
      <3>1. matchIndex + ((current + n) - input) = matchStart + n
        <4>1. n \in Nat /\ matchIndex \in Nat /\ input \in Nat /\ current \in Nat
          BY <2>3, Positions
        <4> QED BY <4>1 DEF matchStart
      <3>2. (matchIndex + (current - input))' = matchIndex + ((current + n) - input)
        <4>1. matchIndex' = matchIndex /\ input' = input /\ current' = current + n
          BY <1>1, <2>1
        <4> QED BY Zenon, <4>1
      <3>3. At(inputBase, current + n) # At(inputBase, matchStart + n)
        BY <2>5 DEF Agree
      <3> QED BY <1>2, <2>1, <3>1, <3>2, <3>3 DEF CountExact
    <2> QED BY <2>1, <2>6, <2>7 DEF MatchInv, MatchPhases, TableBehind
  <1> QED BY <1>3, <1>4

\* The rest of count, with at most seven bytes to go: four, two and one at a time.
\* It stops at the last byte, or at the first one that differs.
LEMMA CountTail ==
  ASSUME NEW E, NEW room \in 0 .. 7, NEW int, NEW short, NEW byte,
         int = IF 4 <= room /\ (\A j \in 0 .. 3 : j \in E) THEN 4 ELSE 0,
         short = IF int + 2 <= room /\ (\A j \in int .. int + 1 : j \in E) THEN int + 2 ELSE int,
         byte = IF short + 1 <= room /\ short \in E THEN short + 1 ELSE short
  PROVE  /\ int \in {0, 4} /\ short \in {0, 2, 4, 6}
         /\ byte \in 0 .. room
         /\ \A j \in 0 .. byte - 1 : j \in E
         /\ byte = room \/ byte \notin E
  <1>1. CASE int = 4
    <2>1. 4 <= room /\ \A j \in 0 .. 3 : j \in E
      BY <1>1
    <2>2. short = IF 6 <= room /\ 4 \in E /\ 5 \in E THEN 6 ELSE 4
      <3>1. (\A j \in 4 .. 4 + 1 : j \in E) <=> 4 \in E /\ 5 \in E
        OBVIOUS
      <3> QED BY <1>1, <3>1
    <2>3. CASE short = 6
      BY <1>1, <2>1, <2>2, <2>3
    <2>4. CASE short = 4
      BY <1>1, <2>1, <2>2, <2>4
    <2> QED BY <2>2, <2>3, <2>4
  <1>2. CASE int = 0
    <2>1. room < 4 \/ \E j \in 0 .. 3 : j \notin E
      BY <1>2
    <2>2. short = IF 2 <= room /\ 0 \in E /\ 1 \in E THEN 2 ELSE 0
      <3>1. (\A j \in 0 .. 0 + 1 : j \in E) <=> 0 \in E /\ 1 \in E
        OBVIOUS
      <3> QED BY <1>2, <3>1
    <2>3. CASE short = 2
      BY <1>2, <2>1, <2>2, <2>3
    <2>4. CASE short = 0
      BY <1>2, <2>1, <2>2, <2>4
    <2> QED BY <2>2, <2>3, <2>4
  <1> QED BY <1>1, <1>2

\* The bytes that are left are counted exactly, too.
LEMMA CountRestMatch == ASSUME IInv, MatchInv, CountRest PROVE MatchInv'
  <1> DEFINE fits(d, k) == current + d < matchLimit - (k - 1)
             try(d, k)  == IF fits(d, k) /\ SameAt(d, k) THEN d + k ELSE d
             int   == try(0, 4)
             short == try(int, 2)
             byte  == try(short, 1)
             E     == {j \in 0 .. 7 : Agree(j)}
             room  == matchLimit - current
  <1>1. /\ pc = "count" /\ pc' = "emitMatch" /\ UNCHANGED arguments
        /\ UNCHANGED <<table, input, matchIndex>>
        /\ current >= matchLimit - 7
    BY DEF CountRest
  <1>2. current' = current + byte
    BY DEF CountRest
  <1>3. inputBase' = inputBase /\ inputLimit' = inputLimit
    BY <1>1, ArgumentsStay
  <1>4. /\ inputLimit \in Nat /\ current \in Nat /\ input \in Nat /\ matchIndex \in Nat
    BY Positions
  <1>5. current <= matchLimit
    <2>1. Located
      BY Given
    <2> QED BY <1>1, <2>1 DEF Located
  <1>6. room \in 0 .. 7 /\ current + room = matchLimit
    BY <1>1, <1>4, <1>5
  <1>7. \A d \in 0 .. 6 : \A k \in 1 .. 4 :
          d + k <= 8 => (SameAt(d, k) <=> \A j \in d .. d + k - 1 : j \in E)
    <2> SUFFICES ASSUME NEW d \in 0 .. 6, NEW k \in 1 .. 4, d + k <= 8
                 PROVE  SameAt(d, k) <=> \A j \in d .. d + k - 1 : j \in E
      OBVIOUS
    <2>1. SameAt(d, k) <=> \A j \in d .. d + k - 1 : Agree(j)
      BY SameAtBytes
    <2>2. \A j \in d .. d + k - 1 : j \in 0 .. 7
      OBVIOUS
    <2> QED BY <2>1, <2>2
  <1>8. \A d \in 0 .. 6 : \A k \in 1 .. 4 : fits(d, k) <=> d + k <= room
    BY <1>4, <1>6
  <1> HIDE DEF fits, E, room
  <1>9. int = IF 4 <= room /\ (\A j \in 0 .. 3 : j \in E) THEN 4 ELSE 0
    <2>1. fits(0, 4) <=> 4 <= room
      BY <1>8
    <2>2. SameAt(0, 4) <=> \A j \in 0 .. 3 : j \in E
      BY <1>7
    <2> QED BY <2>1, <2>2
  <1>10. int \in {0, 4}
    BY <1>9
  <1>11. short = IF int + 2 <= room /\ (\A j \in int .. int + 1 : j \in E) THEN int + 2 ELSE int
    <2> HIDE DEF int
    <2>1. fits(int, 2) <=> int + 2 <= room
      BY <1>8, <1>10
    <2>2. SameAt(int, 2) <=> \A j \in int .. int + 1 : j \in E
      BY <1>7, <1>10
    <2> QED BY <2>1, <2>2
  <1> HIDE DEF int
  <1>12. short \in {0, 2, 4, 6}
    BY <1>10, <1>11
  <1>13. byte = IF short + 1 <= room /\ short \in E THEN short + 1 ELSE short
    <2> HIDE DEF short
    <2>1. fits(short, 1) <=> short + 1 <= room
      BY <1>8, <1>12
    <2>2. SameAt(short, 1) <=> short \in E
      <3>1. SameAt(short, 1) <=> \A j \in short .. short + 1 - 1 : j \in E
        BY <1>7, <1>12
      <3> QED BY <1>12, <3>1
    <2> QED BY <2>1, <2>2
  <1> HIDE DEF short, byte
  <1>14. /\ byte \in 0 .. room
         /\ \A j \in 0 .. byte - 1 : j \in E
         /\ byte = room \/ byte \notin E
    BY <1>6, <1>9, <1>11, <1>13, CountTail
  <1>15. byte \in 0 .. 7 /\ (\A j \in 0 .. byte - 1 : Agree(j)) /\ (byte = room \/ ~Agree(byte))
    BY <1>6, <1>14 DEF E
  <1>16. MatchBehind' /\ Same(current - input)'
    BY <1>1, <1>2, <1>15, CountFrame
  <1>17. CountExact'
    <2>1. CASE byte = room
      BY <1>2, <1>3, <1>6, <2>1 DEF CountExact
    <2>2. CASE ~Agree(byte)
      <3>1. matchIndex + ((current + byte) - input) = matchStart + byte
        BY <1>4, <1>15 DEF matchStart
      <3>2. (matchIndex + (current - input))' = matchIndex + ((current + byte) - input)
        <4>1. matchIndex' = matchIndex /\ input' = input /\ current' = current + byte
          BY <1>1, <1>2
        <4> QED BY Zenon, <4>1
      <3>3. At(inputBase, current + byte) # At(inputBase, matchStart + byte)
        BY <2>2 DEF Agree
      <3> QED BY <1>2, <1>3, <3>1, <3>2, <3>3 DEF CountExact
    <2> QED BY <1>15, <2>1, <2>2
  <1> QED BY <1>1, <1>16, <1>17 DEF MatchInv, TableBehind

\* A match that is written ends behind every position of the table.
LEMMA EmitMatchMatch == ASSUME IInv, MatchInv, EmitMatch PROVE MatchInv'
  <1>1. /\ pc = "emitMatch" /\ pc' \in {"lastLiterals", "testNext"} /\ UNCHANGED arguments
        /\ UNCHANGED table /\ input' = current
    BY DEF EmitMatch
  <1>2. mask' = mask
    BY <1>1, ArgumentsStay
  <1>3. /\ inputLimit \in Nat /\ current \in Nat /\ input \in Nat /\ matchIndex \in Nat
    BY Positions
  <1>4. MatchBehind /\ CountExact /\ Located
    BY <1>1, Given DEF MatchInv, MatchPhases
  <1>5. PICK p \in input .. matchFindLimit : TableUpTo(p) /\ Same(p + MIN_MATCH - input)
    BY <1>4 DEF MatchBehind
  <1>6. p + 4 <= current
    <2>1. CASE current = matchLimit
      BY <1>3, <1>5, <2>1
    <2>2. CASE At(inputBase, current) # At(inputBase, matchIndex + (current - input))
      <3> SUFFICES ASSUME current < p + 4 PROVE FALSE
        BY <1>3, <1>5
      <3>1. current - input \in 0 .. (p + 4 - input) - 1 /\ input + (current - input) = current
        BY <1>1, <1>3, <1>4, <1>5 DEF Located
      <3>2. At(inputBase, matchIndex + (current - input)) = At(inputBase, input + (current - input))
        BY <1>5, <3>1 DEF Same, SameBytes
      <3> QED BY <2>2, <3>1, <3>2
    <2> QED BY <1>1, <1>4, <2>1, <2>2 DEF CountExact
  <1>7. \A h \in 0 .. mask : table[h] < current
    <2>1. \A h \in 0 .. mask : table[h] \in Nat /\ table[h] <= p
      BY <1>5, Positions DEF TableUpTo
    <2> QED BY <1>3, <1>5, <1>6, <2>1
  <1>8. TableBehind'
    BY <1>1, <1>2, <1>7 DEF TableBehind
  <1> QED BY <1>1, <1>8 DEF MatchInv, MatchPhases, CountExact

\* After a match the table receives the cursor's position and the one two before.
LEMMA TableAfterMatchUpTo ==
  ASSUME IInv, MatchInv, pc = "testNext",
         table' = [TableAfterMatch EXCEPT ![HashAt(input)] = input]
  PROVE  /\ input \in Nat /\ input <= matchFindLimit
         /\ TableAfterMatch[HashAt(input)] \in Nat /\ TableAfterMatch[HashAt(input)] < input
         /\ \A h \in 0 .. mask : table'[h] \in Nat /\ table'[h] <= input
  <1>1. input \in Nat /\ inputLimit \in Nat
    BY Positions
  <1>2. 4 <= input /\ input <= matchFindLimit
    <2>1. Located
      BY Given
    <2> QED BY <2>1 DEF Located
  <1>3. table \in [0 .. mask -> 0 .. inputLimit] /\ \A h \in 0 .. mask : table[h] \in Nat /\ table[h] < input
    BY Positions DEF MatchInv, TableBehind
  <1>4. TableAfterMatch = [table EXCEPT ![HashAt(input - 2)] = input - 2]
    BY DEF TableAfterMatch
  <1>5. TableAfterMatch \in [0 .. mask -> 0 .. inputLimit] /\ HashAt(input) \in 0 .. mask
    BY <1>2, TableAfterMatchType
  <1>6. \A h \in 0 .. mask : TableAfterMatch[h] \in Nat /\ TableAfterMatch[h] < input
    <2>1. input - 2 \in Nat /\ input - 2 < input
      BY <1>1, <1>2
    <2> QED BY <1>3, <1>4, <2>1
  <1>7. \A h \in 0 .. mask : table'[h] \in Nat /\ table'[h] <= input
    BY <1>1, <1>5, <1>6
  <1> QED BY <1>1, <1>2, <1>5, <1>6, <1>7

\* A match right behind a match: its candidate is behind it, as in the search.
LEMMA AnotherMatchMatch == ASSUME IInv, MatchInv, AnotherMatch PROVE MatchInv'
  <1>1. /\ pc = "testNext" /\ pc' = "count" /\ UNCHANGED arguments
        /\ input' = input /\ current' = input + 4
    BY DEF AnotherMatch, StartCount
  <1>2. /\ matchIndex' = TableAfterMatch[HashAt(input)]
        /\ table' = [TableAfterMatch EXCEPT ![HashAt(input)] = input]
        /\ IsMatch(matchIndex', input)
    BY DEF AnotherMatch
  <1>3. mask' = mask /\ inputBase' = inputBase /\ inputLimit' = inputLimit
    BY <1>1, ArgumentsStay
  <1>4. /\ input \in Nat /\ input <= matchFindLimit /\ matchIndex' \in Nat /\ matchIndex' < input
        /\ \A h \in 0 .. mask : table'[h] \in Nat /\ table'[h] <= input
    BY <1>1, <1>2, TableAfterMatchUpTo
  <1>5. SameBytes(inputBase, matchIndex', inputBase, input, 4)
    <2>1. Load(inputBase, matchIndex', 4) = Load(inputBase, input, 4)
      BY <1>2 DEF IsMatch
    <2> QED BY <1>4, <2>1, LoadSame
  <1>6. (input - matchIndex)' <= MAX_DISTANCE
    <2>1. matchIndex' + MAX_DISTANCE >= input
      BY <1>2 DEF IsMatch
    <2>2. MAX_DISTANCE \in Nat
      BY Positions
    <2> QED BY <1>1, <1>4, <2>1, <2>2, Difference
  <1>7. (input + MIN_MATCH - input)' = 4 /\ (current - input)' = 4
    BY <1>1, <1>4
  <1>8. Same(input + MIN_MATCH - input)' /\ Same(current - input)'
    BY <1>1, <1>3, <1>5, <1>7 DEF Same
  <1>9. TableUpTo(input)'
    BY <1>1, <1>3, <1>4 DEF TableUpTo
  <1>10. input' \in input' .. matchFindLimit'
    BY <1>1, <1>3, <1>4, Positions
  <1>11. MatchBehind'
    BY <1>1, <1>4, <1>6, <1>8, <1>9, <1>10 DEF MatchBehind
  <1> QED BY <1>1, <1>8, <1>11 DEF MatchInv, MatchPhases, CountExact, TableBehind

\* No match there: the search goes on at the next position.
LEMMA NoOtherMatchMatch == ASSUME IInv, MatchInv, NoOtherMatch PROVE MatchInv'
  <1>1. /\ pc = "testNext" /\ pc' = "search" /\ UNCHANGED arguments
        /\ nextInputIndex' = input + 1
        /\ table' = [TableAfterMatch EXCEPT ![HashAt(input)] = input]
    BY DEF NoOtherMatch, StartSearch
  <1>2. mask' = mask
    BY <1>1, ArgumentsStay
  <1>3. \A h \in 0 .. mask : table'[h] < input + 1
    <2>1. input \in Nat /\ \A h \in 0 .. mask : table'[h] \in Nat /\ table'[h] <= input
      BY <1>1, TableAfterMatchUpTo
    <2> QED BY <2>1
  <1>4. TableBehind'
    BY <1>1, <1>2, <1>3 DEF TableBehind
  <1> QED BY <1>1, <1>4 DEF MatchInv, MatchPhases, CountExact

\* A step that changes nothing.
LEMMA StutterMatch == ASSUME IInv, MatchInv, UNCHANGED vars PROVE MatchInv'
  <1>1. /\ UNCHANGED arguments /\ UNCHANGED <<pc, table, input, matchIndex, current>>
        /\ UNCHANGED nextInputIndex
    BY DEF vars, search
  <1>2. mask' = mask /\ inputBase' = inputBase /\ inputLimit' = inputLimit
    BY <1>1, ArgumentsStay
  <1>3. MatchBehind' = MatchBehind /\ TableUpTo(0)' = TableUpTo(0)
    BY <1>1, <1>2 DEF MatchBehind, Same, TableUpTo
  <1>4. Same(current - input)' = Same(current - input)
    BY <1>1, <1>2 DEF Same
  <1>5. CountExact' = CountExact /\ TableBehind' = TableBehind
    BY <1>1, <1>2 DEF CountExact, TableBehind
  <1> QED BY <1>1, <1>3, <1>4, <1>5 DEF MatchInv

\* A call begins with the match invariant.
LEMMA InitMatch == ASSUME Init PROVE MatchInv
  <1>1. pc = "start" /\ table = [h \in 0 .. mask |-> 0]
    BY DEF Init
  <1>2. TableUpTo(0)
    BY <1>1 DEF TableUpTo
  <1> QED BY <1>1, <1>2 DEF MatchInv, MatchPhases, CountExact, TableBehind

\* Every step keeps the match invariant.
LEMMA NextMatch == ASSUME IInv, MatchInv, [Next]_vars PROVE MatchInv'
  <1>1. CASE Throw BY <1>1, QuietMatch DEF Throw
  <1>2. CASE ShortInput BY <1>2, QuietMatch DEF ShortInput
  <1>3. CASE FirstByte BY <1>3, FirstByteMatch
  <1>4. CASE GiveUp BY <1>4, QuietMatch DEF GiveUp
  <1>5. CASE Probe BY <1>5, ProbeMatch
  <1>6. CASE CatchUp BY <1>6, CatchUpMatch
  <1>7. CASE EmitLiteral BY <1>7, EmitLiteralMatch
  <1>8. CASE CountLong BY <1>8, CountLongMatch
  <1>9. CASE CountRest BY <1>9, CountRestMatch
  <1>10. CASE EmitMatch BY <1>10, EmitMatchMatch
  <1>11. CASE AnotherMatch BY <1>11, AnotherMatchMatch
  <1>12. CASE NoOtherMatch BY <1>12, NoOtherMatchMatch
  <1>13. CASE EmitLastLiteral BY <1>13, QuietMatch DEF EmitLastLiteral
  <1>14. CASE UNCHANGED vars BY <1>14, StutterMatch
  <1> QED BY <1>1, <1>2, <1>3, <1>4, <1>5, <1>6, <1>7, <1>8, <1>9, <1>10,
             <1>11, <1>12, <1>13, <1>14 DEF Next, Step, Returned

\* The match invariant: candidates are behind the cursor and within reach, and
\* what has been counted is the same at both places.
THEOREM MatchInvariance == Spec => []MatchInv
  <1>1. Init => MatchInv
    BY InitMatch
  <1>2. IInv /\ MatchInv /\ [Next]_vars => MatchInv'
    BY NextMatch
  <1> QED BY <1>1, <1>2, Invariance, PTL DEF Spec

\* Whatever the input, a match that is written lies strictly behind the cursor,
\* within the distance that its two-byte offset can express, and repeats the
\* bytes counted so far.
THEOREM MatchesAreSound == Spec => []MatchSound
  <1>1. IInv /\ MatchInv => MatchSound
    <2> SUFFICES ASSUME IInv, MatchInv, pc \in MatchPhases
                 PROVE  /\ matchIndex < input /\ input - matchIndex <= MAX_DISTANCE
                        /\ pc = "catchUp" => Same(4)
                        /\ pc # "catchUp" => Same(current - input)
      BY DEF MatchSound, Same, MatchPhases
    <2>1. MatchBehind
      BY DEF MatchInv
    <2>2. PICK p \in input .. matchFindLimit : Same(p + MIN_MATCH - input)
      BY <2>1 DEF MatchBehind
    <2>3. input \in Nat /\ matchIndex \in Nat
      BY Positions
    <2>4. Same(4)
      <3>1. p + 4 - input \in Int /\ 4 <= p + 4 - input
        BY <2>2, <2>3
      <3> QED BY <2>2, <2>3, <3>1, SameFewer DEF Same
    <2> QED BY <2>1, <2>4 DEF MatchBehind, MatchInv, MatchPhases
  <1> QED BY <1>1, Invariance, MatchInvariance, PTL

\* Whatever the input, count returns the longest match: it stops at the last
\* five bytes, or where the two occurrences first differ.
THEOREM CountIsExact == Spec => []CountExact
  <1>1. MatchInv => CountExact
    BY DEF MatchInv
  <1> QED BY <1>1, MatchInvariance, PTL

\* Whatever the input, no probe finds itself, or a position ahead of it, in the
\* table: what it compares with lies behind it.
THEOREM TableStaysBehind == Spec => []TableBehind
  <1>1. MatchInv => TableBehind
    BY DEF MatchInv
  <1> QED BY <1>1, MatchInvariance, PTL

-----------------------------------------------------------------------------
\* What the output holds

\* Between two sequences: bytes that describe the input before the anchor.
Described == Describes(outputBase, output, inputBase, anchor)

\* Within a sequence: such bytes, and the literals from the anchor to the match.
HalfWritten ==
  /\ output = OffsetAt(tokenAddress, input - anchor)
  /\ Literals(outputBase, tokenAddress, input - anchor, inputBase, anchor)

BlockInv ==
  /\ pc \in {"start", "search", "catchUp", "testNext", "lastLiterals"} => Described
  /\ pc \in {"count", "emitMatch"} => HalfWritten
  /\ ResultEncodes

\* What a step that writes finds.
LEMMA Buffers ==
  ASSUME IInv
  PROVE  /\ inputBase \in Seq(Byte) /\ inputLimit = Len(inputBase) /\ inputLimit \in Nat
         /\ outputBase \in Seq(Byte) /\ Len(outputBase) = maxOutputLength /\ maxOutputLength \in Nat
         /\ output \in Nat /\ tokenAddress \in Nat /\ anchor \in Nat /\ anchor <= inputLimit
         /\ writeEnd \in Nat /\ readEnd \in Nat
  <1>1. /\ NumbersOK /\ BlockOK /\ inputLimit \in Nat /\ maxOutputLength \in Nat
    BY Given
  <1>2. inputBase \in Seq(Byte)
    BY ConstantTypes DEF IInv
  <1>3. /\ output \in Nat /\ tokenAddress \in Nat /\ anchor \in Nat /\ anchor <= inputLimit
        /\ writeEnd \in Nat /\ readEnd \in Nat
    BY <1>1 DEF NumbersOK
  <1> QED BY <1>1, <1>2, <1>3 DEF BlockOK, inputLimit

\* An access that leaves the furthest end within a limit is within it.
LEMMA ReachWithin ==
  ASSUME NEW end \in Nat, NEW from \in Nat, NEW size \in Nat, NEW limit \in Nat,
         Reach(end, from, size) <= limit
  PROVE  from + size <= limit
  OBVIOUS

\* Steps between two sequences that write nothing.
LEMMA QuietBlock ==
  ASSUME BlockInv, pc \in {"start", "search", "catchUp", "testNext"},
         pc' \in {"search", "catchUp", "lastLiterals"},
         UNCHANGED <<inputBase, outputBase, output, anchor>>
  PROVE  BlockInv'
  <1>1. Described'
    BY DEF BlockInv, Described
  <1> QED BY <1>1 DEF BlockInv, ResultEncodes

\* The steps of count write nothing, either.
LEMMA CountBlock ==
  ASSUME BlockInv, pc = "count", pc' \in {"count", "emitMatch"},
         UNCHANGED <<inputBase, outputBase, output, anchor, tokenAddress, input>>
  PROVE  BlockInv'
  <1>1. HalfWritten'
    BY DEF BlockInv, HalfWritten
  <1> QED BY <1>1 DEF BlockInv, ResultEncodes

\* emitLiteral writes the literals before the match.
LEMMA EmitLiteralBlock == ASSUME IInv, BlockInv, EmitLiteral PROVE BlockInv'
  <1> DEFINE length == input - anchor
             run    == EncodeRunLength(length)
             copied == WordsFor(length)
  <1>1. /\ pc = "catchUp" /\ pc' = "count" /\ UNCHANGED arguments
        /\ UNCHANGED <<input, anchor>> /\ tokenAddress' = output
    BY DEF EmitLiteral, StartCount
  <1>2. /\ outputBase' = Store(Store(outputBase, output, run), output + Len(run),
                               Load(inputBase, anchor, copied))
        /\ output' = (output + Len(run)) + length
        /\ writeEnd' = Reach(writeEnd, output + Len(run), copied)
        /\ readEnd' = Reach(readEnd, anchor, copied)
    BY Zenon DEF EmitLiteral
  <1>3. inputBase' = inputBase /\ maxOutputLength' = maxOutputLength /\ inputLimit' = inputLimit
    BY <1>1, ArgumentsStay
  <1>4. anchor <= input /\ input \in Nat
    BY <1>1, Given DEF Located, NumbersOK
  <1>5. length \in Nat
    BY <1>4, Buffers
  <1> HIDE DEF length
  <1>6. run \in Seq(Byte) /\ Len(run) = RunSize(length) /\ RunSize(length) \in Nat
    BY <1>5, RunLengthType, RunSizeBudget
  <1>7. copied \in Nat /\ length <= copied
    BY <1>5, WordsForBound
  <1>8. writeEnd' <= maxOutputLength /\ readEnd' <= inputLimit
    BY <1>3, EmitLiteralInv DEF IInv, WritesInBounds, ReadsInBounds
  <1> HIDE DEF run, copied
  <1>9. (output + Len(run)) + copied <= maxOutputLength
    <2>1. output + Len(run) \in Nat
      BY <1>6, Buffers
    <2>2. Reach(writeEnd, output + Len(run), copied) <= maxOutputLength
      BY <1>2, <1>8
    <2> QED BY <1>7, <2>1, <2>2, Buffers, ReachWithin
  <1>10. anchor + copied <= inputLimit
    <2>1. Reach(readEnd, anchor, copied) <= inputLimit
      BY <1>2, <1>8
    <2> QED BY <1>7, <2>1, Buffers, ReachWithin
  <1>11. Described
    BY <1>1 DEF BlockInv
  <1>12. Literals(outputBase', output, length, inputBase, anchor)
    <2>1. (output + RunSize(length)) + copied <= Len(outputBase) /\ anchor + copied <= Len(inputBase)
      BY <1>6, <1>9, <1>10, Buffers
    <2> QED BY <1>2, <1>5, <1>7, <1>11, <2>1, Buffers, LiteralsWritten DEF Described, run
  <1>13. output' = OffsetAt(output, length)
    BY <1>2, <1>6 DEF OffsetAt
  <1>14. (input - anchor)' = length
    BY <1>1 DEF length
  <1>15. HalfWritten'
    BY <1>1, <1>3, <1>12, <1>13, <1>14 DEF HalfWritten
  <1> QED BY <1>1, <1>15 DEF BlockInv, ResultEncodes

\* A match right behind a match has no literals.
LEMMA AnotherMatchBlock == ASSUME IInv, BlockInv, AnotherMatch PROVE BlockInv'
  <1>1. /\ pc = "testNext" /\ pc' = "count" /\ UNCHANGED arguments
        /\ UNCHANGED <<input, anchor>> /\ tokenAddress' = output /\ output' = output + 1
        /\ outputBase' = Store(outputBase, output, <<0>>)
        /\ writeEnd' = Reach(writeEnd, output, 1)
    BY DEF AnotherMatch, StartCount, FreshToken
  <1>2. inputBase' = inputBase /\ maxOutputLength' = maxOutputLength
    BY <1>1, ArgumentsStay
  <1>3. anchor = input /\ input \in Nat
    BY <1>1, Given DEF Located, NumbersOK
  <1>4. output + 1 <= maxOutputLength
    <2>1. Reach(writeEnd, output, 1) <= maxOutputLength
      BY <1>1, <1>2, AnotherMatchInv DEF IInv, WritesInBounds
    <2> QED BY <2>1, Buffers, ReachWithin
  <1>5. Described
    BY <1>1 DEF BlockInv
  <1> DEFINE one  == <<0>>
             next == Store(outputBase, output, one)
  <1>6. one \in Seq(Byte) /\ Len(one) = 1 /\ one[1] = 0
    BY DEF Byte
  <1> HIDE DEF one
  <1>7. \A q \in Int : At(next, q) = IF q = output THEN 0 ELSE At(outputBase, q)
    BY <1>4, <1>6, Buffers, OneStored
  <1>8. next \in Seq(Byte) /\ Len(next) = Len(outputBase)
    BY <1>6, Buffers, StoreType
  <1>9. output \in Nat /\ output <= Len(outputBase) /\ Len(outputBase) \in Nat
    BY <1>4, Buffers
  <1> HIDE DEF next
  <1>10. Describes(next, output, inputBase, anchor)
    <2>1. \A i \in 0 .. output - 1 : At(outputBase, i) = At(next, i)
      BY <1>7, <1>9
    <2> QED BY <1>5, <1>8, <1>9, <2>1, Buffers, DescribesStill DEF Described
  <1>11. Literals(next, output, 0, inputBase, anchor)
    <2>1. At(next, output) = 0
      BY <1>7, <1>9
    <2> QED BY <1>10, <2>1 DEF Literals, Saturated, SameBytes
  <1>12. (input - anchor)' = 0 /\ output' = OffsetAt(tokenAddress', 0)
    BY <1>1, <1>3, <1>9 DEF OffsetAt, RunSize
  <1>13. outputBase' = next
    BY <1>1 DEF next, one
  <1>14. HalfWritten'
    BY <1>1, <1>2, <1>11, <1>12, <1>13 DEF HalfWritten
  <1> QED BY <1>1, <1>14 DEF BlockInv, ResultEncodes

\* emitMatch completes the sequence.
LEMMA EmitMatchBlock == ASSUME IInv, MatchInv, BlockInv, EmitMatch PROVE BlockInv'
  <1> DEFINE l      == input - anchor
             m      == current - (input + 4)
             offset == input - matchIndex
             token  == BitOr(At(outputBase, tokenAddress), Saturated(m))
             bytes  == MatchBytes(offset, m)
  <1>1. /\ pc = "emitMatch" /\ pc' \in {"lastLiterals", "testNext"} /\ UNCHANGED arguments
        /\ anchor' = current
    BY DEF EmitMatch
  <1>2. /\ outputBase' = Store(Store(outputBase, tokenAddress, <<TokenWithMatch(m)>>), output, bytes)
        /\ output' = output + Len(bytes)
        /\ writeEnd' = Reach(writeEnd, output, Len(bytes))
    BY DEF EmitMatch
  <1>3. TokenWithMatch(m) = token
    BY DEF TokenWithMatch, MatchNibble, Saturated, ML_MASK
  <1>4. inputBase' = inputBase /\ maxOutputLength' = maxOutputLength
    BY <1>1, ArgumentsStay
  <1>5. /\ anchor <= input /\ input <= matchFindLimit
        /\ input + 4 <= current /\ current <= matchLimit
    BY <1>1, Given DEF Located
  <1>6. input \in Nat /\ matchIndex \in Nat /\ current \in Nat /\ anchor \in Nat /\ inputLimit \in Nat
    BY Positions
  <1>7. matchIndex < input /\ offset <= MAX_DISTANCE /\ Same(current - input)
    <2>1. MatchBehind /\ Same(current - input)
      BY <1>1 DEF MatchInv, MatchPhases
    <2> QED BY <2>1 DEF MatchBehind
  <1>8. l \in Nat /\ m \in Nat /\ anchor + l = input /\ input + (4 + m) = current
    BY <1>5, <1>6
  <1>9. offset \in 1 .. OFFSET_RANGE - 1
    <2>1. MAX_DISTANCE \in 1 .. OFFSET_RANGE - 1
      BY CompressorAssumption DEF CompressorAssumption
    <2>2. offset \in Nat /\ 1 <= offset
      BY <1>6, <1>7 DEF offset
    <2>3. OFFSET_RANGE \in Nat
      BY DEF OFFSET_RANGE
    <2> HIDE DEF offset
    <2> QED BY <1>7, <2>1, <2>2, <2>3
  <1>10. offset <= input /\ input - offset = matchIndex
    BY <1>6, <1>7
  <1>11. SameBytes(inputBase, input, inputBase, matchIndex, 4 + m)
    <2>1. current - input = 4 + m
      BY <1>6, <1>8
    <2>2. SameBytes(inputBase, matchIndex, inputBase, input, 4 + m)
      BY <1>7, <2>1 DEF Same
    <2> QED BY <2>2, SameSymmetric
  <1>12. HalfWritten
    BY <1>1 DEF BlockInv
  <1>13. output = OffsetAt(tokenAddress, l) /\ Literals(outputBase, tokenAddress, l, inputBase, anchor)
    BY <1>12 DEF HalfWritten
  <1>14. Len(bytes) = MatchSize(m) /\ MatchSize(m) \in Nat
    <2>1. offset \in Int
      BY <1>6
    <2> QED BY <1>8, <2>1, MatchBytesType, MatchSizeBudget
  <1> HIDE DEF l, m, offset, token, bytes
  <1>15. SequenceEnd(tokenAddress, l, m) <= Len(outputBase)
    <2>1. writeEnd' <= maxOutputLength
      BY <1>4, EmitMatchInv DEF IInv, WritesInBounds
    <2>2. Reach(writeEnd, output, MatchSize(m)) <= maxOutputLength
      BY <1>2, <1>14, <2>1
    <2>3. output + MatchSize(m) <= maxOutputLength
      BY <1>14, <2>2, Buffers, ReachWithin
    <2> QED BY <1>13, <2>3, Buffers DEF SequenceEnd
  <1>16. /\ SameBytes(inputBase, anchor + l, inputBase, (anchor + l) - offset, 4 + m)
         /\ offset <= anchor + l /\ anchor + l <= Len(inputBase) - 12
         /\ (anchor + l) + (4 + m) <= Len(inputBase) - 5
    <2>1. anchor + l = input /\ (anchor + l) - offset = matchIndex
      BY <1>8, <1>10
    <2>2. inputLimit = Len(inputBase) /\ (anchor + l) + (4 + m) = current
      BY <1>8, <2>1, Buffers
    <2>3. input <= Len(inputBase) - 12 /\ current <= Len(inputBase) - 5
      BY <1>5, <2>2
    <2> QED BY <1>10, <1>11, <2>1, <2>2, <2>3
  <1> DEFINE next == Store(Store(outputBase, tokenAddress, <<token>>),
                           OffsetAt(tokenAddress, l), MatchBytes(offset, m))
  <1>17. Describes(next, SequenceEnd(tokenAddress, l, m), inputBase, (anchor + l) + (4 + m))
    BY <1>6, <1>8, <1>9, <1>13, <1>15, <1>16, Buffers, MatchCompletes DEF token
  <1>18. outputBase' = next
    BY <1>2, <1>3, <1>13 DEF bytes
  <1>19. output' = SequenceEnd(tokenAddress, l, m)
    BY <1>2, <1>13, <1>14 DEF SequenceEnd
  <1>20. (anchor + l) + (4 + m) = current
    BY <1>8
  <1> HIDE DEF next
  <1>21. Described'
    BY <1>1, <1>4, <1>17, <1>18, <1>19, <1>20 DEF Described
  <1> QED BY <1>1, <1>21 DEF BlockInv, ResultEncodes

\* The last literals complete the block.
LEMMA EmitLastLiteralBlock == ASSUME IInv, BlockInv, EmitLastLiteral PROVE BlockInv'
  <1> DEFINE length == inputLimit - anchor
             run    == EncodeRunLength(length)
  <1>1. pc = "lastLiterals" /\ pc' = "done" /\ UNCHANGED arguments
    BY DEF EmitLastLiteral
  <1>2. /\ outputBase' = Store(Store(outputBase, output, run), output + Len(run),
                               Load(inputBase, anchor, length))
        /\ result' = (output + Len(run)) + length
        /\ writeEnd' = Reach(writeEnd, output, Len(run) + length)
    BY Zenon DEF EmitLastLiteral
  <1>3. inputBase' = inputBase /\ maxOutputLength' = maxOutputLength
    BY <1>1, ArgumentsStay
  <1>4. length \in Nat /\ anchor + length = inputLimit
    BY Buffers
  <1> HIDE DEF length
  <1>5. run \in Seq(Byte) /\ Len(run) = RunSize(length) /\ RunSize(length) \in Nat
    BY <1>4, RunLengthType, RunSizeBudget
  <1> HIDE DEF run
  <1>6. (output + RunSize(length)) + length <= maxOutputLength
    <2>1. Len(run) + length \in Nat
      BY <1>4, <1>5
    <2>2. writeEnd' <= maxOutputLength
      BY <1>3, EmitLastLiteralInv DEF IInv, WritesInBounds
    <2>3. Reach(writeEnd, output, Len(run) + length) <= maxOutputLength
      BY <1>2, <2>2
    <2>4. output + (Len(run) + length) <= maxOutputLength
      BY <2>1, <2>3, Buffers, ReachWithin
    <2> QED BY <1>4, <1>5, <2>4, Buffers
  <1>7. Described
    BY <1>1 DEF BlockInv
  <1>8. /\ outputBase' \in Seq(Byte) /\ Len(outputBase') = Len(outputBase)
        /\ Literals(outputBase', output, length, inputBase, anchor)
    <2>1. /\ (output + RunSize(length)) + length <= Len(outputBase)
          /\ anchor + length <= Len(inputBase) /\ length <= length
      BY <1>4, <1>6, Buffers
    <2>2. Describes(outputBase, output, inputBase, anchor)
      BY <1>7 DEF Described
    <2> DEFINE next == Store(Store(outputBase, output, EncodeRunLength(length)),
                             output + Len(EncodeRunLength(length)),
                             Load(inputBase, anchor, length))
    <2>3. /\ next \in Seq(Byte) /\ Len(next) = Len(outputBase)
          /\ Literals(next, output, length, inputBase, anchor)
      <3>1. /\ inputBase \in Seq(Byte) /\ outputBase \in Seq(Byte)
            /\ output \in Nat /\ anchor \in Nat
        BY Buffers
      <3> HIDE DEF next
      <3> QED BY <1>4, <2>1, <2>2, <3>1, LiteralsWritten DEF next
    <2>4. outputBase' = next
      BY <1>2 DEF run
    <2> QED BY <2>3, <2>4
  <1>9. result' = OffsetAt(output, length)
    BY <1>2, <1>5 DEF OffsetAt
  <1>10. OffsetAt(output, length) <= Len(outputBase')
    BY <1>6, <1>8, Buffers DEF OffsetAt
  <1>11. anchor + length = Len(inputBase)
    BY <1>4, Buffers
  <1>12. Encodes(SubSeq(outputBase', 1, OffsetAt(output, length)), inputBase)
    BY <1>4, <1>8, <1>10, <1>11, Buffers, LastLiteralsComplete
  <1>13. ResultEncodes'
    BY <1>3, <1>9, <1>12 DEF ResultEncodes
  <1> QED BY <1>1, <1>13 DEF BlockInv

\* A throw leaves nothing to describe.
LEMMA ThrowBlock == ASSUME Throw PROVE BlockInv'
  BY DEF Throw, BlockInv, ResultEncodes

\* What the output holds does not change by itself.
LEMMA StutterBlock == ASSUME BlockInv, UNCHANGED vars PROVE BlockInv'
  <1>1. /\ UNCHANGED arguments /\ UNCHANGED <<pc, output, tokenAddress, outputBase, result>>
        /\ UNCHANGED <<anchor, input>>
    BY DEF vars, block
  <1>2. inputBase' = inputBase
    BY <1>1, ArgumentsStay
  <1>3. Described' = Described /\ HalfWritten' = HalfWritten /\ ResultEncodes' = ResultEncodes
    BY <1>1, <1>2 DEF Described, HalfWritten, ResultEncodes
  <1> QED BY <1>1, <1>3 DEF BlockInv

\* A call begins with an output that describes nothing.
LEMMA InitBlock == ASSUME Init PROVE BlockInv
  <1>1. IInv
    BY InitInv
  <1>2. pc = "start" /\ output = 0 /\ anchor = 0
    BY DEF Init
  <1>3. Described
    BY <1>1, <1>2, Buffers, DescribesNothing DEF Described
  <1> QED BY <1>2, <1>3 DEF BlockInv, ResultEncodes

\* Every step keeps what the output holds.
LEMMA NextBlock == ASSUME IInv, MatchInv, BlockInv, [Next]_vars PROVE BlockInv'
  <1>1. CASE Throw BY <1>1, ThrowBlock
  <1>2. CASE ShortInput BY <1>2, QuietBlock DEF ShortInput, arguments, block
  <1>3. CASE FirstByte BY <1>3, QuietBlock DEF FirstByte, StartSearch, arguments, block
  <1>4. CASE GiveUp BY <1>4, QuietBlock DEF GiveUp, arguments, block
  <1>5. CASE Probe BY <1>5, QuietBlock DEF Probe, arguments, block
  <1>6. CASE CatchUp BY <1>6, QuietBlock DEF CatchUp, arguments, block
  <1>7. CASE EmitLiteral BY <1>7, EmitLiteralBlock
  <1>8. CASE CountLong BY <1>8, CountBlock DEF CountLong, arguments, block
  <1>9. CASE CountRest BY <1>9, CountBlock DEF CountRest, arguments, block
  <1>10. CASE EmitMatch BY <1>10, EmitMatchBlock
  <1>11. CASE AnotherMatch BY <1>11, AnotherMatchBlock
  <1>12. CASE NoOtherMatch BY <1>12, QuietBlock DEF NoOtherMatch, StartSearch, arguments, block
  <1>13. CASE EmitLastLiteral BY <1>13, EmitLastLiteralBlock
  <1>14. CASE UNCHANGED vars BY <1>14, StutterBlock
  <1> QED BY <1>1, <1>2, <1>3, <1>4, <1>5, <1>6, <1>7, <1>8, <1>9, <1>10,
             <1>11, <1>12, <1>13, <1>14 DEF Next, Step, Returned

\* Between two sequences the output describes the input before the anchor, and
\* within one it holds the literals up to the match: every write of compress
\* (emitLiteral, the tokens, emitMatch, emitLastLiteral) keeps what is behind it.
THEOREM BlockInvariance == Spec => []BlockInv
  <1>1. Init => BlockInv
    BY InitBlock
  <1>2. IInv /\ MatchInv /\ BlockInv /\ [Next]_vars => BlockInv'
    BY NextBlock
  <1> QED BY <1>1, <1>2, Invariance, MatchInvariance, PTL DEF Spec

\* Whatever the input, between two sequences the block written so far describes
\* exactly the data before the anchor.
THEOREM PrefixIsDescribed == Spec => []PrefixDescribes
  <1>1. BlockInv => PrefixDescribes
    BY DEF BlockInv, PrefixDescribes, Described
  <1> QED BY <1>1, BlockInvariance, PTL

\* Whatever the input, what compress returns is a block that encodes all of it.
THEOREM ResultIsEncoding == Spec => []ResultEncodes
  <1>1. BlockInv => ResultEncodes
    BY DEF BlockInv
  <1> QED BY <1>1, BlockInvariance, PTL

-----------------------------------------------------------------------------
\* What a caller may rely on

\* No step changes the arguments; the first one decides about them, and only
\* the first one can throw.
LEMMA EntryChecks ==
  ASSUME Step
  PROVE  /\ UNCHANGED arguments
         /\ pc' # "start" /\ pc \notin {"done", "thrown"}
         /\ pc' = "thrown" => pc = "start" /\ Refused
         /\ pc = "start" /\ pc' # "thrown" => ~Refused
  <1>1. CASE Throw BY <1>1 DEF Throw
  <1>2. CASE ShortInput BY <1>2 DEF ShortInput
  <1>3. CASE FirstByte BY <1>3 DEF FirstByte, StartSearch
  <1>4. CASE GiveUp BY <1>4 DEF GiveUp
  <1>5. CASE Probe BY <1>5 DEF Probe
  <1>6. CASE CatchUp BY <1>6 DEF CatchUp
  <1>7. CASE EmitLiteral BY <1>7 DEF EmitLiteral, StartCount
  <1>8. CASE CountLong BY <1>8 DEF CountLong
  <1>9. CASE CountRest BY <1>9 DEF CountRest
  <1>10. CASE EmitMatch BY <1>10 DEF EmitMatch
  <1>11. CASE AnotherMatch BY <1>11 DEF AnotherMatch, StartCount
  <1>12. CASE NoOtherMatch BY <1>12 DEF NoOtherMatch, StartSearch
  <1>13. CASE EmitLastLiteral BY <1>13 DEF EmitLastLiteral
  <1> QED BY <1>1, <1>2, <1>3, <1>4, <1>5, <1>6, <1>7, <1>8, <1>9, <1>10,
             <1>11, <1>12, <1>13 DEF Step

\* What is returned is a block of bytes, within the bound, that encodes the input.
LEMMA BlockReturned ==
  ASSUME IInv, BlockInv, pc = "done"
  PROVE  /\ SubSeq(outputBase, 1, result) \in Seq(Byte)
         /\ Len(SubSeq(outputBase, 1, result)) <= MaxCompressedLength(inputLimit)
         /\ Encodes(SubSeq(outputBase, 1, result), inputBase)
  <1>1. /\ inputLimit \in Nat /\ maxOutputLength \in Nat /\ result \in Nat
        /\ outputBase \in Seq(Byte) /\ Len(outputBase) = maxOutputLength
    BY Buffers DEF IInv, TypeOK
  <1>2. /\ result <= inputLimit + inputLimit \div 255 + 2
        /\ maxOutputLength >= MaxCompressedLength(inputLimit)
    BY DEF IInv, OutputBudget, Located
  <1>3. result <= MaxCompressedLength(inputLimit) /\ result <= Len(outputBase)
    BY <1>1, <1>2 DEF MaxCompressedLength
  <1>4. SubSeq(outputBase, 1, result) \in Seq(Byte) /\ Len(SubSeq(outputBase, 1, result)) = result
    BY <1>1, <1>3, SubSeqProperties
  <1>5. Encodes(SubSeq(outputBase, 1, result), inputBase)
    BY DEF BlockInv, ResultEncodes
  <1> QED BY <1>3, <1>4, <1>5

=============================================================================
