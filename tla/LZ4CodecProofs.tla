--------------------------- MODULE LZ4CodecProofs ---------------------------
(***************************************************************************)
(* The codec implements its abstract specification: for every input and    *)
(* every size its caller believes in.  What the two machines do is known   *)
(* from their own modules (C and D); what is proved here is that the one   *)
(* may rely on the other.                                                  *)
(***************************************************************************)
EXTENDS LZ4Codec, TLAPS

-----------------------------------------------------------------------------
\* The machines and the abstract specification each bring the block format
\* with them.  They mean the same by it.

\* Between the compressor and the decompressor: loads, lengths and sequences.
LEMMA SharedParts ==
  ASSUME NEW b, NEW p
  PROVE  /\ \A i : C!At(b, i) = D!At(b, i)
         /\ C!SequenceAt(b, p) = D!SequenceAt(b, p)
  <1>1. \A i : C!At(b, i) = D!At(b, i)
    BY DEF C!At, D!At, C!NoByte, D!NoByte
  <1>2. \A q : C!ExtensionEnd(b, q) = D!ExtensionEnd(b, q)
    BY Zenon DEF C!ExtensionEnd, D!ExtensionEnd, C!At, D!At, C!NoByte, D!NoByte
  <1>3. \A k, q : C!LengthField(b, k, q) = D!LengthField(b, k, q)
    BY <1>1, <1>2 DEF C!LengthField, D!LengthField
  <1>4. C!SequenceAt(b, p) = D!SequenceAt(b, p)
    BY <1>1, <1>3, Zenon DEF C!SequenceAt, D!SequenceAt
  <1> QED BY <1>1, <1>4

\* Between the compressor and the decompressor: what a block encodes.
LEMMA SharedEncoding ==
  ASSUME NEW b, NEW d
  PROVE  C!Encodes(b, d) <=> D!Encodes(b, d)
  <1>1. \A u, i, v, j, n : C!SameBytes(u, i, v, j, n) <=> D!SameBytes(u, i, v, j, n)
    BY SharedParts DEF C!SameBytes, D!SameBytes
  <1>2. \A l, u : C!Describes(b, l, d, u) <=> D!Describes(b, l, d, u)
    <2> TAKE l, u
    <2> DEFINE S == (0 .. l) \X (0 .. u)
               F1(r) == [z \in S |-> IF z[1] = l THEN z[2] = u
                          ELSE C!Fits(b, l, d, u, z) /\ r[C!Behind(b, z)]]
               F2(r) == [z \in S |-> IF z[1] = l THEN z[2] = u
                          ELSE D!Fits(b, l, d, u, z) /\ r[D!Behind(b, z)]]
    <2>1. \A z : C!Behind(b, z) = D!Behind(b, z)
      BY SharedParts, Zenon DEF C!Behind, D!Behind
    <2>2. \A z : C!Fits(b, l, d, u, z) <=> D!Fits(b, l, d, u, z)
      BY SharedParts, <1>1, Zenon DEF C!Fits, D!Fits
    <2>3. ASSUME NEW r PROVE F1(r) = F2(r)
      BY <2>1, <2>2
    <2>4. C!Describes(b, l, d, u) <=> (CHOOSE r : r = F1(r))[<<0, 0>>]
      BY Zenon DEF C!Describes
    <2>5. D!Describes(b, l, d, u) <=> (CHOOSE r : r = F2(r))[<<0, 0>>]
      BY Zenon DEF D!Describes
    <2> HIDE DEF F1, F2
    <2>6. (CHOOSE r : r = F1(r)) = (CHOOSE r : r = F2(r))
      BY <2>3, Zenon
    <2> QED BY <2>4, <2>5, <2>6
  <1> QED BY SharedParts, <1>1, <1>2, Zenon DEF C!Encodes, D!Encodes

\* Between the compressor and the abstract specification: loads, lengths and sequences.
LEMMA PromisedParts ==
  ASSUME NEW b, NEW p
  PROVE  /\ \A i : C!At(b, i) = A!At(b, i)
         /\ C!SequenceAt(b, p) = A!SequenceAt(b, p)
  <1>1. \A i : C!At(b, i) = A!At(b, i)
    BY DEF C!At, A!At, C!NoByte, A!NoByte
  <1>2. \A q : C!ExtensionEnd(b, q) = A!ExtensionEnd(b, q)
    BY Zenon DEF C!ExtensionEnd, A!ExtensionEnd, C!At, A!At, C!NoByte, A!NoByte
  <1>3. \A k, q : C!LengthField(b, k, q) = A!LengthField(b, k, q)
    BY <1>1, <1>2 DEF C!LengthField, A!LengthField
  <1>4. C!SequenceAt(b, p) = A!SequenceAt(b, p)
    BY <1>1, <1>3, Zenon DEF C!SequenceAt, A!SequenceAt
  <1> QED BY <1>1, <1>4

\* Between the compressor and the abstract specification: what a block encodes.
LEMMA PromisedEncoding ==
  ASSUME NEW b, NEW d
  PROVE  C!Encodes(b, d) <=> A!Encodes(b, d)
  <1>1. \A u, i, v, j, n : C!SameBytes(u, i, v, j, n) <=> A!SameBytes(u, i, v, j, n)
    BY PromisedParts DEF C!SameBytes, A!SameBytes
  <1>2. \A l, u : C!Describes(b, l, d, u) <=> A!Describes(b, l, d, u)
    <2> TAKE l, u
    <2> DEFINE S == (0 .. l) \X (0 .. u)
               F1(r) == [z \in S |-> IF z[1] = l THEN z[2] = u
                          ELSE C!Fits(b, l, d, u, z) /\ r[C!Behind(b, z)]]
               F2(r) == [z \in S |-> IF z[1] = l THEN z[2] = u
                          ELSE A!Fits(b, l, d, u, z) /\ r[A!Behind(b, z)]]
    <2>1. \A z : C!Behind(b, z) = A!Behind(b, z)
      BY PromisedParts, Zenon DEF C!Behind, A!Behind
    <2>2. \A z : C!Fits(b, l, d, u, z) <=> A!Fits(b, l, d, u, z)
      BY PromisedParts, <1>1, Zenon DEF C!Fits, A!Fits
    <2>3. ASSUME NEW r PROVE F1(r) = F2(r)
      BY <2>1, <2>2
    <2>4. C!Describes(b, l, d, u) <=> (CHOOSE r : r = F1(r))[<<0, 0>>]
      BY Zenon DEF C!Describes
    <2>5. A!Describes(b, l, d, u) <=> (CHOOSE r : r = F2(r))[<<0, 0>>]
      BY Zenon DEF A!Describes
    <2> HIDE DEF F1, F2
    <2>6. (CHOOSE r : r = F1(r)) = (CHOOSE r : r = F2(r))
      BY <2>3, Zenon
    <2> QED BY <2>4, <2>5, <2>6
  <1> QED BY PromisedParts, <1>1, <1>2, Zenon DEF C!Encodes, A!Encodes


\* The rest of what they share.
LEMMA SameNumbers ==
  /\ C!Byte = Byte /\ D!Byte = Byte /\ A!Byte = Byte
  /\ C!OFFSET_RANGE = OFFSET_RANGE
  /\ \A n : A!MaxCompressedLength(n) = C!MaxCompressedLength(n)
  BY DEF C!Byte, D!Byte, A!Byte, Byte, C!OFFSET_RANGE, OFFSET_RANGE,
         A!MaxCompressedLength, C!MaxCompressedLength

\* Both machines are used within their assumptions.
LEMMA MachinesApply == C!CompressorAssumption /\ D!DecompressorAssumption
  <1>1. /\ Inputs \subseteq Seq(C!Byte)
        /\ Spare \subseteq {s \in Int : s >= -16}
        /\ MAX_INPUT_SIZE \in Nat
        /\ MAX_DISTANCE \in 1 .. C!OFFSET_RANGE - 1
        /\ Stale \in C!Byte
    BY CodecAssumption, SameNumbers DEF CodecAssumption
  <1>2. Stale \in D!Byte
    BY CodecAssumption, SameNumbers DEF CodecAssumption
  <1> QED BY <1>1, <1>2 DEF C!CompressorAssumption, D!DecompressorAssumption

-----------------------------------------------------------------------------
\* The invariant

\* The compressor's call, and that it has decided about its arguments as soon
\* as it has begun.
InCompressor ==
  /\ C!IInv /\ C!MatchInv /\ C!BlockInv
  /\ compressed = <<>> /\ size = 0 /\ answer = <<>>
  /\ maxOutputLength >= C!MaxCompressedLength(Len(inputBase))
  /\ pc = "thrown" => Len(inputBase) > MAX_INPUT_SIZE
  /\ pc \notin {"start", "thrown"} => Len(inputBase) <= MAX_INPUT_SIZE

\* The decompressor before its call.
Idle ==
  /\ dpc = "start" /\ dinput = 0 /\ doutput = 0
  /\ dreadEnd = 0 /\ dwriteEnd = 0

\* The decompressor's call: it is given what the compressor returned.
InDecompressor ==
  /\ call = [block |-> compressed, data |-> inputBase, limit |-> size]
  /\ D!Given /\ D!Good

Inv ==
  /\ phase \in {"compressing", "compressed", "refused", "uncompressing", "returned", "rejected"}
  /\ inputBase \in Seq(Byte)
  /\ phase = "compressing" => InCompressor /\ Idle
  /\ phase = "compressed" => Idle /\ compressed \in Seq(Byte) /\ C!Encodes(compressed, inputBase)
  /\ phase = "uncompressing" => InDecompressor

\* Nothing has happened.
LEMMA InitInv == ASSUME Init PROVE Inv
  <1>1. phase = "compressing" /\ compressed = <<>> /\ size = 0 /\ answer = <<>> /\ C!Init /\ Idle
    BY DEF Init, Idle
  <1>2. C!IInv /\ C!MatchInv /\ C!BlockInv
    BY <1>1, MachinesApply, C!InitInv, C!InitMatch, C!InitBlock
  <1>3. inputBase \in Seq(Byte)
    BY <1>1, CodecAssumption DEF C!Init, CodecAssumption
  <1>4. pc = "start" /\ maxOutputLength >= C!MaxCompressedLength(Len(inputBase))
    <2>1. PICK s \in Spare : maxOutputLength = C!MaxCompressedLength(Len(inputBase)) + s
      BY <1>1 DEF C!Init
    <2>2. s \in Nat
      BY CodecAssumption DEF CodecAssumption
    <2>3. C!MaxCompressedLength(Len(inputBase)) \in Int
      BY <1>3 DEF C!MaxCompressedLength
    <2> QED BY <1>1, <2>1, <2>2, <2>3 DEF C!Init
  <1> QED BY <1>1, <1>2, <1>3, <1>4 DEF Inv, InCompressor

\* A step of compress.
LEMMA CompressingInv == ASSUME Inv, Compressing PROVE Inv' /\ UNCHANGED inputBase
  <1>1. InCompressor /\ Idle /\ inputBase \in Seq(Byte) /\ C!Step
        /\ UNCHANGED <<phase, compressed, size, answer, dpc, dinput, doutput, dreadEnd, dwriteEnd>>
        /\ phase = "compressing"
    BY DEF Inv, Compressing, codec, decompressor
  <1>2. /\ UNCHANGED <<inputBase, maxOutputLength>>
        /\ pc' # "start" /\ pc \notin {"done", "thrown"}
        /\ pc' = "thrown" => pc = "start" /\ C!Refused
        /\ pc = "start" /\ pc' # "thrown" => ~C!Refused
    BY <1>1, MachinesApply, C!EntryChecks DEF C!arguments
  <1>3. C!IInv' /\ C!MatchInv' /\ C!BlockInv'
    <2>1. C!IInv /\ C!MatchInv /\ C!BlockInv /\ [C!Next]_C!vars
      BY <1>1 DEF InCompressor, C!Next
    <2> QED BY <2>1, MachinesApply, C!NextInv, C!NextMatch, C!NextBlock
  <1>4. C!Refused => Len(inputBase) > MAX_INPUT_SIZE
    <2>1. Len(inputBase) \in Nat /\ maxOutputLength \in Nat /\ C!MaxCompressedLength(Len(inputBase)) \in Nat
      BY <1>1 DEF InCompressor, C!IInv, C!TypeOK, C!MaxCompressedLength
    <2> QED BY <1>1, <2>1 DEF InCompressor, C!Refused, C!inputLimit
  <1>5. ~C!Refused => Len(inputBase) <= MAX_INPUT_SIZE
    BY <1>1, CodecAssumption DEF C!Refused, C!inputLimit, CodecAssumption
  <1>6. InCompressor'
    BY <1>1, <1>2, <1>3, <1>4, <1>5 DEF InCompressor, C!MaxCompressedLength
  <1>7. Idle'
    BY <1>1 DEF Idle
  <1> QED BY <1>1, <1>2, <1>6, <1>7 DEF Inv

\* What compress returned encodes the input, within the bound.
LEMMA CompressReturnsInv ==
  ASSUME Inv, CompressReturns
  PROVE  Inv' /\ A!Compress
  <1>1. /\ phase = "compressing" /\ pc = "done" /\ InCompressor /\ Idle
        /\ inputBase \in Seq(Byte)
        /\ compressed' = SubSeq(outputBase, 1, result) /\ phase' = "compressed"
        /\ UNCHANGED <<size, answer, inputBase, dpc, dinput, doutput, dreadEnd, dwriteEnd>>
    BY DEF Inv, CompressReturns, compressor, decompressor
  <1>2. /\ compressed' \in Seq(Byte)
        /\ Len(compressed') <= C!MaxCompressedLength(Len(inputBase))
        /\ C!Encodes(compressed', inputBase)
    BY <1>1, MachinesApply, C!BlockReturned, SameNumbers DEF InCompressor, C!inputLimit
  <1>3. Len(inputBase) <= MAX_INPUT_SIZE
    BY <1>1 DEF InCompressor
  <1>4. A!Compress
    BY <1>1, <1>2, <1>3, PromisedEncoding, SameNumbers DEF A!Compress
  <1>5. C!Encodes(compressed, inputBase)'
    BY <1>1, <1>2
  <1>6. Idle'
    BY <1>1 DEF Idle
  <1> QED BY <1>1, <1>2, <1>4, <1>5, <1>6 DEF Inv

\* compress refuses an input because it is too long, and for no other reason.
LEMMA CompressThrowsInv ==
  ASSUME Inv, CompressThrows
  PROVE  Inv' /\ A!Refuse
  BY DEF Inv, InCompressor, CompressThrows, A!Refuse, compressor, decompressor

\* Before its first step the decompressor is where its invariant wants it.
LEMMA FreshDecompressor == (D!Given /\ D!Fresh => D!Good)'
  <1>1. D!Given /\ D!Fresh => D!Good
    BY MachinesApply, D!FreshGood
  <1> QED BY <1>1, PTL

\* The caller of uncompress: whatever size it names, the block is one that
\* encodes the input.
LEMMA CallUncompressInv ==
  ASSUME Inv, CallUncompress
  PROVE  Inv' /\ A!Uncompress
  <1>1. /\ phase = "compressed" /\ phase' = "uncompressing" /\ Idle
        /\ inputBase \in Seq(Byte) /\ compressed \in Seq(Byte) /\ C!Encodes(compressed, inputBase)
        /\ call' = [block |-> compressed, data |-> inputBase, limit |-> size']
        /\ doutputBase' = [i \in 1 .. size' |-> Stale]
        /\ UNCHANGED <<compressed, answer, inputBase, dpc, dinput, doutput, dreadEnd, dwriteEnd>>
    BY DEF Inv, CallUncompress, Buffer, compressor
  <1>2. size' \in Nat
    <2>1. PICK e \in SizeErrors : Len(inputBase) + e >= 0 /\ size' = Len(inputBase) + e
      BY DEF CallUncompress
    <2>2. e \in Int
      BY CodecAssumption DEF CodecAssumption
    <2> QED BY <1>1, <2>1, <2>2
  <1>3. D!Given'
    BY <1>1, <1>2, SharedEncoding, SameNumbers
       DEF D!Given, D!inputBase, D!inputLimit, D!outputLimit, D!original
  <1>4. D!Fresh'
    BY <1>1 DEF D!Fresh, Idle
  <1>5. D!Good'
    BY <1>3, <1>4, FreshDecompressor
  <1>6. InDecompressor'
    BY <1>1, <1>3, <1>5 DEF InDecompressor
  <1>7. A!Uncompress
    BY <1>1, <1>2 DEF A!Uncompress
  <1> QED BY <1>1, <1>6, <1>7 DEF Inv

\* A step of decompress.
LEMMA UncompressingInv == ASSUME Inv, Uncompressing PROVE Inv' /\ UNCHANGED inputBase
  <1>1. /\ phase = "uncompressing" /\ InDecompressor /\ inputBase \in Seq(Byte) /\ D!Step
        /\ UNCHANGED <<phase, compressed, size, answer, inputBase>>
    BY DEF Inv, Uncompressing, codec, compressor
  <1>2. [D!Next]_D!vars
    BY <1>1 DEF D!Next
  <1>3. UNCHANGED call
    BY <1>2, MachinesApply, D!CallUnchanged
  <1>4. D!Given' /\ D!Good'
    BY <1>1, <1>2, <1>3, MachinesApply, D!SameCall, D!NextGood DEF InDecompressor
  <1>5. InDecompressor'
    BY <1>1, <1>3, <1>4 DEF InDecompressor
  <1> QED BY <1>1, <1>5 DEF Inv

\* What decompress has when it is done, or has thrown.
LEMMA Decompressed ==
  ASSUME InDecompressor
  PROVE  /\ dpc = "done" /\ dresult = size => size = Len(inputBase) /\ doutputBase = inputBase
         /\ dpc = "thrown" \/ (dpc = "done" /\ dresult # size) => size # Len(inputBase)
  <1>1. D!outputLimit = size /\ D!original = inputBase
    BY DEF InDecompressor, D!outputLimit, D!original
  <1>2. /\ dpc = "done" =>
             IF D!outputLimit = Len(D!original)
               THEN dresult = D!outputLimit /\ doutputBase = D!original
               ELSE dresult # D!outputLimit
        /\ dpc = "thrown" => D!outputLimit # Len(D!original)
    BY DEF InDecompressor, D!Good, D!Phase
  <1> QED BY <1>1, <1>2

\* An answer is the input, and given only to a caller who knew its size.
LEMMA UncompressReturnsInv ==
  ASSUME Inv, UncompressReturns
  PROVE  Inv' /\ A!Answer
  BY Decompressed DEF Inv, UncompressReturns, A!Answer, compressor

\* Only a caller who was wrong about the size gets an exception.
LEMMA UncompressThrowsInv ==
  ASSUME Inv, UncompressThrows
  PROVE  Inv' /\ A!Reject
  BY Decompressed DEF Inv, UncompressThrows, A!Reject, compressor

\* Nothing happens.
LEMMA StutterInv == ASSUME Inv, UNCHANGED vars PROVE Inv' /\ UNCHANGED A!vars
  <1>1. /\ UNCHANGED <<phase, compressed, size, answer, inputBase, call>>
        /\ UNCHANGED <<pc, maxOutputLength, dpc, dinput, doutput, dreadEnd, dwriteEnd>>
        /\ UNCHANGED compressor /\ UNCHANGED decompressor
    BY DEF vars, codec, compressor, decompressor
  <1>2. [C!Next]_C!vars /\ [D!Next]_D!vars
    BY <1>1 DEF compressor, C!vars, C!arguments, C!search, C!block,
                decompressor, D!vars, D!sequence, D!match, D!memory
  <1>3. InCompressor => InCompressor'
    <2> SUFFICES ASSUME InCompressor PROVE InCompressor'
      OBVIOUS
    <2>1. C!IInv' /\ C!MatchInv' /\ C!BlockInv'
      BY <1>2, MachinesApply, C!NextInv, C!NextMatch, C!NextBlock DEF InCompressor
    <2> QED BY <1>1, <2>1 DEF InCompressor, C!MaxCompressedLength
  <1>4. InDecompressor => InDecompressor'
    <2> SUFFICES ASSUME InDecompressor PROVE InDecompressor'
      OBVIOUS
    <2>1. D!Given' /\ D!Good'
      BY <1>1, <1>2, MachinesApply, D!SameCall, D!NextGood DEF InDecompressor
    <2> QED BY <1>1, <2>1 DEF InDecompressor
  <1>5. C!Encodes(compressed, inputBase)' <=> C!Encodes(compressed, inputBase)
    BY <1>1
  <1>6. Idle => Idle'
    BY <1>1 DEF Idle
  <1> QED BY <1>1, <1>3, <1>4, <1>5, <1>6 DEF Inv, A!vars

-----------------------------------------------------------------------------
\* The theorem

\* Every step of the codec keeps the invariant, and is one that its abstract
\* specification allows.
LEMMA NextInv ==
  ASSUME Inv, [Next]_vars
  PROVE  Inv' /\ [A!Next]_A!vars
  <1>1. CASE Compressing
    BY <1>1, CompressingInv DEF Compressing, codec, A!vars
  <1>2. CASE CompressReturns BY <1>2, CompressReturnsInv DEF A!Next
  <1>3. CASE CompressThrows BY <1>3, CompressThrowsInv DEF A!Next
  <1>4. CASE CallUncompress BY <1>4, CallUncompressInv DEF A!Next
  <1>5. CASE Uncompressing
    BY <1>5, UncompressingInv DEF Uncompressing, codec, A!vars
  <1>6. CASE UncompressReturns BY <1>6, UncompressReturnsInv DEF A!Next
  <1>7. CASE UncompressThrows BY <1>7, UncompressThrowsInv DEF A!Next
  <1>8. CASE UNCHANGED vars BY <1>8, StutterInv
  <1> QED BY <1>1, <1>2, <1>3, <1>4, <1>5, <1>6, <1>7, <1>8 DEF Next, Step, Returned

\* For every input, doCompress gives a block that encodes it and fits the bound
\* that maxCompressedLength names, or refuses an input that is too long; and
\* doUncompress gives it back to whoever names its size, and to nobody else.
THEOREM Implements == Spec => ImplementsCodecSpec
  <1>1. Init => Inv /\ A!Init
    <2> SUFFICES ASSUME Init PROVE Inv /\ A!Init
      OBVIOUS
    <2> QED BY InitInv DEF Init, C!Init, A!Init
  <1>2. Inv /\ [Next]_vars => Inv' /\ [A!Next]_A!vars
    BY NextInv
  <1> QED BY <1>1, <1>2, PTL DEF Spec, ImplementsCodecSpec, A!Spec

=============================================================================
