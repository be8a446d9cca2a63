----------------------------- MODULE MCLZ4Codec -----------------------------
(***************************************************************************)
(* Data for the codec run: repeats at small distances, runs, data with no  *)
(* repeats, and data beyond the (scaled) longest input.                    *)
(***************************************************************************)
EXTENDS LZ4Codec, SequencesExt

RunOf(b, n) == [i \in 1 .. n |-> b]
Mixed(n) == [i \in 1 .. n |-> (i * i * 37 + i * 11 + (i \div 7) * 29) % 251]

Chunks == {<<97>>, <<97, 98, 99>>, <<97, 98, 99, 100, 101, 102, 103, 104>>, RunOf(98, 6)}
ChunkWords == {FlattenSeq(s) \o t : s \in TupleOf(Chunks, 3), t \in {RunOf(97, 9), Mixed(14)}}

\* A repeat with up to 40 bytes in between: within reach, and out of reach of the
\* (scaled) farthest match.
Apart == {x \o Mixed(n) \o x \o Mixed(12) : x \in {<<1, 2, 3, 4, 5, 6>>, RunOf(5, 9)}, n \in 9 .. 40}

CodecInputs ==
  Apart \cup
  ChunkWords \cup {RunOf(0, n) : n \in 0 .. 40} \cup {Mixed(n) : n \in 0 .. 20 \cup {71}}
             \cup {Mixed(m) \o Mixed(n) : m \in {9, 17}, n \in 16 .. 30}
CodecSpare == {0, 8}
CodecSizeErrors == {-9, -1, 0, 1, 8}
=============================================================================
