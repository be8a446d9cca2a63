------------------------------ MODULE LZ4Codec ------------------------------
(***************************************************************************)
(* my::lz4::LZ4Codec (folly/my_lz4.cc): doCompress runs the compressor in  *)
(* a buffer of its own, doUncompress runs the decompressor on what came    *)
(* out of it.  The variables of the compressor keep their names; those of  *)
(* the decompressor that would clash with them begin with d.               *)
(***************************************************************************)
EXTENDS LZ4Block

CONSTANTS
  Inputs, Spare, MAX_INPUT_SIZE, MAX_DISTANCE, Stale,  \* see LZ4Compressor
  SizeErrors   \* by how much callers of uncompress are wrong about the size

ASSUME CodecAssumption ==
  /\ Inputs \subseteq Seq(Byte)
  /\ Spare \subseteq Nat      \* IOBuf::create gives at least what is asked for
  /\ SizeErrors \subseteq Int
  /\ MAX_INPUT_SIZE \in Nat
  /\ MAX_DISTANCE \in 1 .. OFFSET_RANGE - 1
  /\ Stale \in Byte

VARIABLES
  phase, compressed, size, answer,
  \* the compressor
  pc, inputBase, maxOutputLength, table, nextHash, nextInputIndex,
  findMatchAttempts, step, input, matchIndex, anchor, current, output,
  tokenAddress, outputBase, readEnd, writeEnd, result,
  \* the decompressor
  dpc, call, dinput, doutput, token, literalLength, index, offset,
  matchAddress, matchLength, matchOutputLimit, doutputBase, dreadEnd,
  dwriteEnd, dresult

\* Both machines, with what is proved about them.
C == INSTANCE LZ4CompressorProofs

D == INSTANCE LZ4DecompressorProofs
       WITH Calls <- {}, pc <- dpc, input <- dinput, output <- doutput,
            outputBase <- doutputBase, readEnd <- dreadEnd,
            writeEnd <- dwriteEnd, result <- dresult

codec == <<phase, compressed, size, answer>>
compressor ==
  <<pc, inputBase, maxOutputLength, table, nextHash, nextInputIndex,
    findMatchAttempts, step, input, matchIndex, anchor, current, output,
    tokenAddress, outputBase, readEnd, writeEnd, result>>
decompressor ==
  <<dpc, call, dinput, doutput, token, literalLength, index, offset,
    matchAddress, matchLength, matchOutputLimit, doutputBase, dreadEnd,
    dwriteEnd, dresult>>
vars == <<codec, compressor, decompressor>>

NoCall == [block |-> <<>>, data |-> <<>>, limit |-> 0]

Init ==
  /\ phase = "compressing"
  /\ compressed = <<>> /\ size = 0 /\ answer = <<>>
  /\ C!Init
  /\ dpc = "start" /\ call = NoCall
  /\ dinput = 0 /\ doutput = 0
  /\ token = 0 /\ literalLength = 0 /\ index = 0
  /\ offset = 0 /\ matchAddress = 0 /\ matchLength = 0 /\ matchOutputLimit = 0
  /\ doutputBase = <<>> /\ dreadEnd = 0 /\ dwriteEnd = 0
  /\ dresult = 0

-----------------------------------------------------------------------------
\* doCompress

Compressing ==
  /\ phase = "compressing"
  /\ C!Step
  /\ UNCHANGED <<codec, decompressor>>

\* out->append(n)
CompressReturns ==
  /\ phase = "compressing"
  /\ pc = "done"
  /\ compressed' = SubSeq(outputBase, 1, result)
  /\ phase' = "compressed"
  /\ UNCHANGED <<size, answer, compressor, decompressor>>

CompressThrows ==
  /\ phase = "compressing"
  /\ pc = "thrown"
  /\ phase' = "refused"
  /\ UNCHANGED <<compressed, size, answer, compressor, decompressor>>

-----------------------------------------------------------------------------
\* doUncompress: a buffer of exactly the size the caller names

Buffer(n) == [i \in 1 .. n |-> Stale]

CallUncompress ==
  /\ phase = "compressed"
  /\ \E e \in SizeErrors :
       /\ Len(inputBase) + e >= 0
       /\ size' = Len(inputBase) + e
  /\ call' = [block |-> compressed, data |-> inputBase, limit |-> size']
  /\ doutputBase' = Buffer(size')
  /\ phase' = "uncompressing"
  /\ UNCHANGED <<compressed, answer, compressor, dpc, dinput, doutput, token,
                 literalLength, index, offset, matchAddress, matchLength,
                 matchOutputLimit, dreadEnd, dwriteEnd, dresult>>

Uncompressing ==
  /\ phase = "uncompressing"
  /\ D!Step
  /\ UNCHANGED <<codec, compressor>>

\* Seeded fault: the size that was decoded is not compared.
UncompressReturnsAnySize ==
  /\ phase = "uncompressing"
  /\ dpc = "done"
  /\ answer' = doutputBase
  /\ phase' = "returned"
  /\ UNCHANGED <<compressed, size, compressor, decompressor>>

UncompressReturns ==
  /\ phase = "uncompressing"
  /\ dpc = "done"
  /\ dresult = size
  /\ answer' = doutputBase
  /\ phase' = "returned"
  /\ UNCHANGED <<compressed, size, compressor, decompressor>>

\* The decompressor threw, or returned a value that is not the size.
UncompressThrows ==
  /\ phase = "uncompressing"
  /\ \/ dpc = "thrown"
     \/ dpc = "done" /\ dresult # size
  /\ phase' = "rejected"
  /\ UNCHANGED <<compressed, size, answer, compressor, decompressor>>

-----------------------------------------------------------------------------
Finished == phase \in {"refused", "returned", "rejected"}

Step ==
  \/ Compressing \/ CompressReturns \/ CompressThrows
  \/ CallUncompress \/ Uncompressing \/ UncompressReturns \/ UncompressThrows

\* Both calls are over.
Returned == Finished /\ UNCHANGED vars

Next == Step \/ Returned

Spec == Init /\ [][Next]_vars /\ WF_vars(Step)

-----------------------------------------------------------------------------
\* Properties

\* The type invariant.
TypeOK ==
  /\ phase \in {"compressing", "compressed", "refused", "uncompressing",
                "returned", "rejected"}
  /\ compressed \in Seq(Byte)
  /\ size \in Nat
  /\ answer \in Seq(Byte)
  /\ C!TypeOK
  /\ D!TypeOK

\* The codec does what its abstract specification promises: every compressed
\* block is an LZ4 encoding of the data, and uncompressing it gives back the
\* data exactly when the caller knows its size.
A == INSTANCE LZ4CodecSpec WITH Data <- Inputs, data <- inputBase
ImplementsCodecSpec == A!Spec

\* A caller who knows the size gets the data, in the end; nobody waits forever.
Answered ==
  /\ <>Finished
  /\ (phase = "uncompressing" /\ size = Len(inputBase)) ~> (phase = "returned")

=============================================================================
