---------------------------- MODULE LZ4CodecSpec ----------------------------
(***************************************************************************)
(* What LZ4Codec (folly/my_lz4.h) promises to its caller, without a word   *)
(* of how: compressing gives some block of the LZ4 format that encodes the *)
(* data and fits the advertised bound, or refuses data that is too long;   *)
(* uncompressing that block gives the data back to a caller who knows its  *)
(* size, and an exception to one who does not.                             *)
(***************************************************************************)
EXTENDS LZ4Block

CONSTANTS
  Data,            \* what may be compressed
  MAX_INPUT_SIZE   \* the longest data that is accepted

VARIABLES phase, data, compressed, size, answer

vars == <<phase, data, compressed, size, answer>>

Init ==
  /\ phase = "compressing"
  /\ data \in Data
  /\ compressed = <<>>
  /\ size = 0
  /\ answer = <<>>

Compress ==
  /\ phase = "compressing"
  /\ Len(data) <= MAX_INPUT_SIZE
  /\ compressed' \in Seq(Byte)
  /\ Encodes(compressed', data)
  /\ Len(compressed') <= MaxCompressedLength(Len(data))
  /\ phase' = "compressed"
  /\ UNCHANGED <<data, size, answer>>

Refuse ==
  /\ phase = "compressing"
  /\ Len(data) > MAX_INPUT_SIZE
  /\ phase' = "refused"
  /\ UNCHANGED <<data, compressed, size, answer>>

Uncompress ==
  /\ phase = "compressed"
  /\ size' \in Nat
  /\ phase' = "uncompressing"
  /\ UNCHANGED <<data, compressed, answer>>

Answer ==
  /\ phase = "uncompressing"
  /\ size = Len(data)
  /\ answer' = data
  /\ phase' = "returned"
  /\ UNCHANGED <<data, compressed, size>>

Reject ==
  /\ phase = "uncompressing"
  /\ size # Len(data)
  /\ phase' = "rejected"
  /\ UNCHANGED <<data, compressed, size, answer>>

Next == Compress \/ Refuse \/ Uncompress \/ Answer \/ Reject

Spec == Init /\ [][Next]_vars
=============================================================================
