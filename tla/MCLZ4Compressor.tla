-------------------------- MODULE MCLZ4Compressor --------------------------
(***************************************************************************)
(* Inputs for the compressor's run.                                        *)
(***************************************************************************)
EXTENDS LZ4Compressor, SequencesExt

\* n times the byte b, and n bytes among which no four-byte group recurs.
RunOf(b, n) == [i \in 1 .. n |-> b]
Mixed(n) == [i \in 1 .. n |-> (i * i * 37 + i * 11 + (i \div 7) * 29) % 251]

\* Every word over two letters up to a length, the first letter fixed: all
\* inputs that take the short path, and those just beyond it.
ShortWords == UNION {[1 .. n -> {97, 98}] : n \in 0 .. 3}
BoundaryWords == {w \in UNION {[1 .. n -> {97, 98}] : n \in 12 .. 14} : w[1] = 97}

\* Concatenations of chunks chosen for repeats at distances 1, 3 and 8, runs
\* and fresh letters, then a tail: matches, matches right behind a match,
\* catching up, and matches that run into the last bytes.
Chunks == {<<97>>, <<97, 98, 99>>, <<97, 98, 99, 100, 101, 102, 103, 104>>,
           RunOf(98, 6), <<120, 97, 98, 99, 100, 101>>}
ChunkWords == {FlattenSeq(s) \o t : s \in TupleOf(Chunks, 4), t \in {RunOf(97, 6), Mixed(13)}}

SmallInputs == ShortWords \cup BoundaryWords \cup ChunkWords

\* A capacity that is one byte too small is refused.
MCSpare == {-1, 0}

-----------------------------------------------------------------------------
\* Long inputs: length extensions at their boundaries (15, 15 + 255 and
\* 15 + 2 * 255, for literals and for matches), more than SKIP_AFTER failed
\* probes in a row, and repeats beyond the farthest match, which the run scales.
LongInputs ==
  {RunOf(97, n) : n \in {24, 25, 278, 279, 280, 533, 534, 535, 790}} \cup
  {Mixed(n) : n \in {27, 28, 120, 269, 270, 271, 525}} \cup
  {Mixed(n) \o RunOf(0, m) \o Mixed(n) : n \in {14, 15, 16, 90, 269, 270}, m \in {3, 40, 274}}

-----------------------------------------------------------------------------
(***************************************************************************)
(* MyLz4SimpleTest in folly/compression_test.cc: "abcde_bcdefgh_abcdefgh"  *)
(* and seven "x" compress to                                               *)
(* e161626364655f626364656667685f0e00a066676878787878787878.               *)
(***************************************************************************)
TestInput == <<97, 98, 99, 100, 101, 95, 98, 99, 100, 101, 102, 103, 104, 95,
               97, 98, 99, 100, 101, 102, 103, 104>> \o RunOf(120, 7)
TestBlock == <<225, 97, 98, 99, 100, 101, 95, 98, 99, 100, 101, 102, 103, 104, 95,
               14, 0, 160, 102, 103, 104>> \o RunOf(120, 7)

MCInputs == SmallInputs \cup LongInputs \cup {TestInput}

\* The block the model computes for the test's input is the one the test
\* expects, byte for byte: hashes, table and search are those of the code.
KnownAnswer ==
  pc = "done" /\ inputBase = TestInput => SubSeq(outputBase, 1, result) = TestBlock
=============================================================================
