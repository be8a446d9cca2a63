--------------------------- MODULE LZ4Compressor ---------------------------
(***************************************************************************)
(* my::lz4::compressor::compress (folly/my_lz4.cc): one call, from its     *)
(* arguments to its result or its exception, one action per iteration of   *)
(* its loops.  inputAddress and outputAddress are 0, as both callers pass. *)
(***************************************************************************)
EXTENDS LZ4Block, LZ4HashTable

CONSTANTS
  Inputs,          \* the data compress may be called with
  Spare,           \* room offered beyond maxCompressedLength(inputLength)
  MAX_INPUT_SIZE,  \* 0x7E000000 in my_lz4.h
  MAX_DISTANCE,    \* (1 << 16) - 1 in my_lz4.h
  Stale            \* what the output buffer holds before the call

ASSUME CompressorAssumption ==
  /\ Inputs \subseteq Seq(Byte)
  /\ Spare \subseteq {s \in Int : s >= -16}
  /\ MAX_INPUT_SIZE \in Nat
  /\ MAX_DISTANCE \in 1 .. OFFSET_RANGE - 1
  /\ Stale \in Byte

VARIABLES
  pc,
  inputBase, maxOutputLength,              \* the arguments
  table, nextHash,                         \* last position seen of each hash
  nextInputIndex, findMatchAttempts, step, \* the search for a match
  input, matchIndex, anchor,               \* positions in the input
  current,                                 \* count's position, beyond input
  output, tokenAddress, outputBase,        \* the block written so far
  readEnd, writeEnd,                       \* end of the furthest access
  result

arguments == <<inputBase, maxOutputLength>>
search    == <<nextInputIndex, findMatchAttempts, step>>
block     == <<output, tokenAddress, outputBase, writeEnd>>
vars == <<pc, arguments, table, nextHash, search, input, matchIndex, anchor,
          current, block, readEnd, result>>

inputLimit     == Len(inputBase)
\* Seeded faults: the limits forget the last word, and the last literals.
MatchFindLimitNoWord == inputLimit - MIN_MATCH
MatchLimitAtEnd == inputLimit

matchFindLimit == inputLimit - MATCH_FIND_LIMIT
matchLimit     == inputLimit - LAST_LITERAL_SIZE
mask           == ComputeTableSize(inputLimit) - 1

HashAt(i) == Hash(LongAt(inputBase, i), mask)

Init ==
  /\ pc = "start"
  /\ inputBase \in Inputs
  /\ maxOutputLength \in {MaxCompressedLength(Len(inputBase)) + s : s \in Spare}
  /\ table = [h \in 0 .. mask |-> 0]
  /\ nextHash = 0
  /\ nextInputIndex = 0 /\ findMatchAttempts = 0 /\ step = 0
  /\ input = 0 /\ matchIndex = 0 /\ anchor = 0 /\ current = 0
  /\ output = 0 /\ tokenAddress = 0
  /\ outputBase = [i \in 1 .. maxOutputLength |-> Stale]
  /\ readEnd = 0 /\ writeEnd = 0
  /\ result = 0

-----------------------------------------------------------------------------
\* The entry of compress

Refused ==
  \/ inputLimit > MAX_INPUT_SIZE
  \/ maxOutputLength < MaxCompressedLength(inputLimit)

Throw ==
  /\ pc = "start"
  /\ Refused
  /\ pc' = "thrown"
  /\ UNCHANGED <<arguments, table, nextHash, search, input, matchIndex, anchor,
                 current, block, readEnd, result>>

\* An input too short to hold a match is one run of literals.
ShortInput ==
  /\ pc = "start"
  /\ ~Refused
  /\ inputLimit < MIN_LENGTH
  /\ pc' = "lastLiterals"
  /\ UNCHANGED <<arguments, table, nextHash, search, input, matchIndex, anchor,
                 current, block, readEnd, result>>

\* The head of the outer loop: look for a match from position i on.
StartSearch(i) ==
  /\ nextInputIndex' = i
  /\ findMatchAttempts' = SKIP_AFTER
  /\ step' = 1
  /\ pc' = "search"

FirstByte ==
  /\ pc = "start"
  /\ ~Refused
  /\ inputLimit >= MIN_LENGTH
  /\ table' = [table EXCEPT ![HashAt(0)] = 0]
  /\ input' = 1
  /\ nextHash' = HashAt(1)
  /\ readEnd' = Reach(readEnd, 1, SIZE_OF_LONG)
  /\ StartSearch(1)
  /\ UNCHANGED <<arguments, matchIndex, anchor, current, block, result>>

-----------------------------------------------------------------------------
\* The search

Advance ==
  /\ input' = nextInputIndex
  /\ nextInputIndex' = nextInputIndex + step
  /\ step' = findMatchAttempts \div SKIP_AFTER
  /\ findMatchAttempts' = findMatchAttempts + 1

GiveUp ==
  /\ pc = "search"
  /\ Advance
  /\ nextInputIndex + step > matchFindLimit
  /\ pc' = "lastLiterals"
  /\ UNCHANGED <<arguments, table, nextHash, matchIndex, anchor, current, block,
                 readEnd, result>>

\* Seeded fault: the distance is not looked at.
IsMatchAnywhere(candidate, i) ==
  Load(inputBase, candidate, SIZE_OF_INT) = Load(inputBase, i, SIZE_OF_INT)

\* A table entry is a match when it is near enough and four bytes agree.
IsMatch(candidate, i) ==
  /\ Load(inputBase, candidate, SIZE_OF_INT) = Load(inputBase, i, SIZE_OF_INT)
  /\ candidate + MAX_DISTANCE >= i

\* Seeded fault: the position of the next probe is entered, not of this one.
TableAfterProbeAhead == [table EXCEPT ![nextHash] = nextInputIndex + step]

TableAfterProbe == [table EXCEPT ![nextHash] = nextInputIndex]

Probe ==
  /\ pc = "search"
  /\ Advance
  /\ nextInputIndex + step <= matchFindLimit
  /\ matchIndex' = table[nextHash]
  /\ nextHash' = HashAt(nextInputIndex + step)
  /\ table' = TableAfterProbe
  /\ readEnd' = Reach(readEnd, nextInputIndex + step, SIZE_OF_LONG)
  /\ pc' = IF IsMatch(matchIndex', nextInputIndex) THEN "catchUp" ELSE "search"
  /\ UNCHANGED <<arguments, anchor, current, block, result>>

\* The match may have begun before the position that was probed.
BeganEarlier ==
  /\ input > anchor
  /\ matchIndex > 0
  /\ At(inputBase, input - 1) = At(inputBase, matchIndex - 1)

CatchUp ==
  /\ pc = "catchUp"
  /\ BeganEarlier
  /\ input' = input - 1
  /\ matchIndex' = matchIndex - 1
  /\ UNCHANGED <<pc, arguments, table, nextHash, search, anchor, current, block,
                 readEnd, result>>

-----------------------------------------------------------------------------
\* The output of one sequence

\* emitLiteral copies whole words, at least one.
WordsFor(length) == IF length = 0 THEN SIZE_OF_LONG ELSE 8 * ((length + 7) \div 8)

StartCount(i) ==
  /\ current' = i + MIN_MATCH
  /\ pc' = "count"

EmitLiteral ==
  /\ pc = "catchUp"
  /\ ~BeganEarlier
  /\ LET length == input - anchor
         run    == EncodeRunLength(length)
         start  == output + Len(run)
         copied == WordsFor(length)
     IN  /\ outputBase' = Store(Store(outputBase, output, run), start,
                                Load(inputBase, anchor, copied))
         /\ tokenAddress' = output
         /\ output' = start + length
         /\ writeEnd' = Reach(writeEnd, start, copied)
         /\ readEnd' = Reach(readEnd, anchor, copied)
  /\ StartCount(input)
  /\ UNCHANGED <<arguments, table, nextHash, search, input, matchIndex, anchor, result>>

\* Seeded fault: the earlier position is not advanced with current.
matchStartFixed == matchIndex + MIN_MATCH

\* count: the earlier occurrence is read at this distance behind current.
matchStart == matchIndex + (current - input)

SameAt(d, k) == Load(inputBase, matchStart + d, k) = Load(inputBase, current + d, k)

\* Seeded fault: the loop does not advance past equal words.
CountLongStuck ==
  /\ pc = "count"
  /\ current < matchLimit - (SIZE_OF_LONG - 1)
  /\ readEnd' = Reach(readEnd, current, SIZE_OF_LONG)
  /\ IF SameAt(0, SIZE_OF_LONG)
       THEN current' = current /\ pc' = "count"
       ELSE /\ current' = current + CHOOSE j \in 0 .. 7 : SameAt(0, j) /\ ~SameAt(j, 1)
            /\ pc' = "emitMatch"
  /\ UNCHANGED <<arguments, table, nextHash, search, input, matchIndex, anchor, block, result>>

CountLong ==
  /\ pc = "count"
  /\ current < matchLimit - (SIZE_OF_LONG - 1)
  /\ readEnd' = Reach(readEnd, current, SIZE_OF_LONG)
  /\ IF SameAt(0, SIZE_OF_LONG)
       THEN /\ current' = current + SIZE_OF_LONG
            /\ pc' = "count"
       ELSE /\ current' = current + CHOOSE j \in 0 .. 7 : SameAt(0, j) /\ ~SameAt(j, 1)
            /\ pc' = "emitMatch"
  /\ UNCHANGED <<arguments, table, nextHash, search, input, matchIndex, anchor, block, result>>

CountRest ==
  /\ pc = "count"
  /\ current >= matchLimit - (SIZE_OF_LONG - 1)
  /\ LET fits(d, k)    == current + d < matchLimit - (k - 1)
         touched(d, k) == IF fits(d, k) THEN d + k ELSE d
         try(d, k)     == IF fits(d, k) /\ SameAt(d, k) THEN d + k ELSE d
         int   == try(0, SIZE_OF_INT)
         short == try(int, SIZE_OF_SHORT)
     IN  /\ current' = current + try(short, 1)
         /\ readEnd' = Reach(Reach(Reach(readEnd, current, touched(0, SIZE_OF_INT)),
                                   current, touched(int, SIZE_OF_SHORT)),
                             current, touched(short, 1))
  /\ pc' = "emitMatch"
  /\ UNCHANGED <<arguments, table, nextHash, search, input, matchIndex, anchor, block, result>>

TokenWithMatch(matchLength) == BitOr(At(outputBase, tokenAddress), MatchNibble(matchLength))

EmitMatch ==
  /\ pc = "emitMatch"
  /\ LET matchLength == current - (input + MIN_MATCH)
         token == <<TokenWithMatch(matchLength)>>
         bytes == MatchBytes(input - matchIndex, matchLength)
     IN  /\ outputBase' = Store(Store(outputBase, tokenAddress, token), output, bytes)
         /\ output' = output + Len(bytes)
         /\ writeEnd' = Reach(writeEnd, output, Len(bytes))
  /\ input' = current
  /\ anchor' = current
  /\ pc' = IF current > matchFindLimit THEN "lastLiterals" ELSE "testNext"
  /\ UNCHANGED <<arguments, table, nextHash, search, matchIndex, current,
                 tokenAddress, readEnd, result>>

-----------------------------------------------------------------------------
\* After a match: is there another one right behind it?

TableAfterMatch == [table EXCEPT ![HashAt(input - 2)] = input - 2]

\* Seeded fault: the token keeps what the buffer, or an overcopy, left there.
StaleToken == UNCHANGED outputBase

FreshToken == outputBase' = Store(outputBase, output, <<0>>)

AnotherMatch ==
  /\ pc = "testNext"
  /\ matchIndex' = TableAfterMatch[HashAt(input)]
  /\ table' = [TableAfterMatch EXCEPT ![HashAt(input)] = input]
  /\ readEnd' = Reach(readEnd, input, SIZE_OF_LONG)
  /\ IsMatch(matchIndex', input)
  /\ tokenAddress' = output
  /\ output' = output + 1
  /\ FreshToken
  /\ writeEnd' = Reach(writeEnd, output, 1)
  /\ StartCount(input)
  /\ UNCHANGED <<arguments, nextHash, search, input, anchor, result>>

\* The hash of the next position is taken of a uint32 here, not of a long.
NoOtherMatch ==
  /\ pc = "testNext"
  /\ matchIndex' = TableAfterMatch[HashAt(input)]
  /\ table' = [TableAfterMatch EXCEPT ![HashAt(input)] = input]
  /\ ~IsMatch(matchIndex', input)
  /\ input' = input + 1
  /\ nextHash' = Hash(IntAt(inputBase, input + 1), mask)
  /\ readEnd' = Reach(readEnd, input, SIZE_OF_LONG)
  /\ StartSearch(input + 1)
  /\ UNCHANGED <<arguments, anchor, current, block, result>>

EmitLastLiteral ==
  /\ pc = "lastLiterals"
  /\ LET length == inputLimit - anchor
         run    == EncodeRunLength(length)
         start  == output + Len(run)
     IN  /\ outputBase' = Store(Store(outputBase, output, run), start,
                                Load(inputBase, anchor, length))
         /\ output' = start + length
         /\ writeEnd' = Reach(writeEnd, output, Len(run) + length)
         /\ readEnd' = Reach(readEnd, anchor, length)
         /\ result' = start + length
  /\ pc' = "done"
  /\ UNCHANGED <<arguments, table, nextHash, search, input, matchIndex, anchor,
                 current, tokenAddress>>

-----------------------------------------------------------------------------
Finished == pc \in {"done", "thrown"}

Step ==
  \/ Throw \/ ShortInput \/ FirstByte
  \/ GiveUp \/ Probe \/ CatchUp
  \/ EmitLiteral \/ CountLong \/ CountRest \/ EmitMatch
  \/ AnotherMatch \/ NoOtherMatch
  \/ EmitLastLiteral

\* compress has returned: nothing happens any more.
Returned == Finished /\ UNCHANGED vars

Next == Step \/ Returned

Spec == Init /\ [][Next]_vars /\ WF_vars(Step)
-----------------------------------------------------------------------------
\* Properties

Phases == {"start", "search", "catchUp", "count", "emitMatch", "testNext",
           "lastLiterals", "done", "thrown"}

\* The type invariant: the locals of compress, each within the range that
\* the input's length gives it.
TypeOK ==
  /\ pc \in Phases
  /\ inputBase \in Inputs
  /\ maxOutputLength \in Nat
  /\ table \in [0 .. mask -> 0 .. inputLimit]
  /\ nextHash \in 0 .. mask
  /\ nextInputIndex \in Nat /\ findMatchAttempts \in Nat /\ step \in Nat
  /\ input \in 0 .. inputLimit /\ matchIndex \in 0 .. inputLimit
  /\ anchor \in 0 .. inputLimit /\ current \in 0 .. inputLimit
  /\ output \in Nat /\ tokenAddress \in Nat
  /\ outputBase \in Seq(Byte) /\ Len(outputBase) = maxOutputLength
  /\ readEnd \in Nat /\ writeEnd \in Nat
  /\ result \in Nat

\* No load, the word-sized ones that look beyond what is needed included,
\* leaves the input: the cursors stop MATCH_FIND_LIMIT before its end.
ReadsInBounds == readEnd <= inputLimit

\* No store leaves the output buffer, although emitLiteral overcopies: the
\* check against maxCompressedLength made once at the entry is enough.
WritesInBounds == writeEnd <= maxOutputLength

\* While a sequence is being written, its match lies strictly behind the
\* input cursor, within reach of a two-byte offset, and the bytes counted so
\* far are equal.
MatchSound ==
  pc \in {"catchUp", "count", "emitMatch"} =>
    /\ matchIndex < input
    /\ input - matchIndex <= MAX_DISTANCE
    /\ SameBytes(inputBase, matchIndex, inputBase, input,
                 IF pc = "catchUp" THEN MIN_MATCH ELSE current - input)

\* count, which compares 8, 4, 2 and 1 bytes at a time, stops exactly where
\* the two occurrences first differ, or at the last five bytes.
CountExact ==
  pc = "emitMatch" =>
    \/ current = matchLimit
    \/ At(inputBase, current) # At(inputBase, matchIndex + (current - input))

\* What the table can return to the next probe is behind that probe, although
\* catching up moves the cursor back behind positions already entered.
TableBehind ==
  /\ pc = "search" => \A h \in 0 .. mask : table[h] < nextInputIndex
  /\ pc = "testNext" => \A h \in 0 .. mask : table[h] < input

\* The growth that maxCompressedLength allows for: 1 byte in 255, and a
\* constant while a sequence is half written.
OutputBudget ==
  /\ pc \in {"start", "search", "catchUp", "testNext", "lastLiterals"} =>
       255 * output <= 256 * anchor
  /\ pc \in {"count", "emitMatch"} => 255 * output <= 256 * input + 495
  /\ pc = "done" => result <= inputLimit + inputLimit \div 255 + 2

\* Between two sequences the block written so far describes exactly the data
\* before the anchor, and respects the rules for the end of a block.
PrefixDescribes ==
  pc \in {"search", "testNext", "lastLiterals"} =>
    Describes(outputBase, output, inputBase, anchor)

\* What compress returns is a block that encodes the whole input.
ResultEncodes ==
  pc = "done" => Encodes(SubSeq(outputBase, 1, result), inputBase)

\* compress returns or throws, whatever the input: every loop ends.
Termination == <>Finished

=============================================================================
