----------------------------- MODULE MCXXHash64 -----------------------------
EXTENDS XXHash64

\* The message is cut at any of these lengths: around a word, around a block,
\* and beyond, so that a piece completes a block and brings one or two more.
PieceLengths == {0, 1, 5, 8, 31, 32, 33, 64, 71}
MaxLength    == 140

\* The byte at a position; none repeats within a message.
ByteAt(i) == (7 * i + 3) % 251

MCSeeds == {0, 1}

MCFragments ==
  [n \in 0 .. MaxLength |->
     {[j \in 1 .. k |-> ByteAt(n + j)] : k \in {l \in PieceLengths : n + l <= MaxLength}}]

MCGarbage == {[j \in 1 .. MaxBufferSize |-> 255]}
=============================================================================
