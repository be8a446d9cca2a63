------------------------- MODULE MCLZ4Decompressor -------------------------
(***************************************************************************)
(* Blocks for the decompressor runs.  They are not what this compressor    *)
(* produces but everything the format allows within small bounds: each     *)
(* combination of literal lengths, offsets, match lengths and tails.       *)
(***************************************************************************)
EXTENDS LZ4Decompressor, SequencesExt

\* n literals that no other position of the data repeats soon.
Literals(at, n) == [i \in 1 .. n |-> ((at + i) * 7 + 3) % 251]

\* The match of m bytes at this offset behind the end of data.
MatchOf(data, o, m) == [i \in 1 .. m |-> data[Len(data) - o + 1 + ((i - 1) % o)]]

\* A draft [block, data], one sequence further: s is [lit, offset, match].
WithSequence(draft, s) ==
  LET lits  == Literals(Len(draft.data), s.lit)
      run   == EncodeRunLength(s.lit)
      data  == draft.data \o lits
  IN  [block |-> draft.block \o <<run[1] + MatchNibble(s.match - MIN_MATCH)>>
                   \o Tail(run) \o lits \o MatchBytes(s.offset, s.match - MIN_MATCH),
       data  |-> data \o MatchOf(data, s.offset, s.match)]

WithLastLiterals(draft, n) ==
  LET lits == Literals(Len(draft.data), n)
  IN  [block |-> draft.block \o EncodeRunLength(n) \o lits, data |-> draft.data \o lits]

Encoding(seqs, last) ==
  WithLastLiterals(FoldLeft(WithSequence, [block |-> <<>>, data |-> <<>>], seqs), last)

CallOf(e, limit) == [block |-> e.block, data |-> e.data, limit |-> limit]
Exact(encodings) == {CallOf(e, Len(e.data)) : e \in encodings}
OfAnySize(encodings, by) ==
  UNION {{CallOf(e, Len(e.data) + d) : d \in {d \in by : Len(e.data) + d >= 0}} : e \in encodings}

-----------------------------------------------------------------------------
\* One sequence: every offset below and around the word size, every match
\* length up to two extensions of its nibble, every distance from the end.
OneSequence(lits, matches, lasts) ==
  {Encoding(<<[lit |-> l, offset |-> o, match |-> m]>>, n) :
     <<l, o, m, n>> \in {x \in lits \X (1 .. 17) \X matches \X lasts :
                            x[2] <= x[1] /\ x[3] + x[4] >= 12}}

SingleCalls == Exact(OneSequence({1, 2, 5, 7, 8, 9, 16}, 4 .. 20, {5, 6, 7, 8, 9, 12, 15}))

-----------------------------------------------------------------------------
\* Several sequences, also with no literals of their own, and callers that
\* are wrong about the size.
Sequences2 ==
  {<<[lit |-> l1, offset |-> o1, match |-> m1], [lit |-> l2, offset |-> o2, match |-> m2]>> :
     <<l1, o1, m1, l2, o2, m2>> \in {3, 8} \X {1, 3} \X {4, 9} \X {0, 1, 9} \X {2, 7} \X {5, 13}}
TwoSequences == {Encoding(s, n) : s \in Sequences2, n \in {8, 12}}
OnlyLiterals == {Encoding(<<>>, n) : n \in {0, 1, 2, 4, 12, 13}}

SizeCalls == OfAnySize(TwoSequences \cup OnlyLiterals, {-14, -9, -5, -4, -1, 0, 1, 3, 8, 13})

-----------------------------------------------------------------------------
\* Length extensions at their boundaries.
LongEncodings ==
  {Encoding(<<[lit |-> l, offset |-> o, match |-> m]>>, n) :
     l \in {15, 269, 270, 271}, o \in {3, 14}, m \in {18, 273, 274}, n \in {12, 270}}

(***************************************************************************)
(* Two encodings of "abcde_bcdefgh_abcdefghxxxxxxx" that the repository's  *)
(* tests compare: the one of MyLz4SimpleTest (folly/compression_test.cc)   *)
(* and the one of another compressor (AirliftLz4Test.java).                *)
(***************************************************************************)
TestData == <<97, 98, 99, 100, 101, 95, 98, 99, 100, 101, 102, 103, 104, 95,
              97, 98, 99, 100, 101, 102, 103, 104, 120, 120, 120, 120, 120, 120, 120>>
TestEncodings ==
  {[data |-> TestData, block |->
      <<225, 97, 98, 99, 100, 101, 95, 98, 99, 100, 101, 102, 103, 104, 95, 14, 0,
        160, 102, 103, 104, 120, 120, 120, 120, 120, 120, 120>>],
   [data |-> TestData, block |->
      <<96, 97, 98, 99, 100, 101, 95, 5, 0, 65, 102, 103, 104, 95, 14, 0,
        160, 102, 103, 104, 120, 120, 120, 120, 120, 120, 120>>]}

\* Blocks that were cut off, or whose parts do not fit: one per exception.
DamagedCalls ==
  {[block |-> b, data |-> Damaged, limit |-> 40] :
     b \in {<<>>,
            <<48, 1, 2>>,
            <<16, 1, 2, 0, 48, 1, 2, 3, 4, 5, 6>>,
            <<31, 1, 1, 0, 255, 255, 255, 255, 255, 255, 255>>,
            <<31, 1, 1, 0, 255, 255, 255, 255, 255>>,
            <<16, 1, 1, 0, 240, 1, 1, 1, 1, 1, 1, 1, 1, 1>>,
            <<16, 1, 1, 0, 16, 2, 1, 0, 16, 3, 1, 0>>}} \cup
  {[block |-> <<31, 1, 1, 0, 255, 255, 255, 255, 255, 9>>, data |-> Damaged, limit |-> 1400]}

MCCalls == SingleCalls \cup SizeCalls \cup Exact(LongEncodings \cup TestEncodings) \cup DamagedCalls
=============================================================================
