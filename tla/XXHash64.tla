------------------------------ MODULE XXHash64 ------------------------------
(***************************************************************************)
(* class XXHash64 (velox_/xxhash64.h): a hasher is constructed, pieces of  *)
(* a message are added to it, and its hash is asked for, at any time and   *)
(* as often as one likes.  What is modelled is which bytes are hashed in   *)
(* which role; the arithmetic is left uninterpreted, so that two digests   *)
(* are equal here exactly if the same words are fed to the same rounds.    *)
(***************************************************************************)
EXTENDS Memory

CONSTANTS
  Seeds,       \* the seeds a hasher may be constructed with, 0 among them
  Fragments,   \* what may be added, by the length of the message so far
  Garbage      \* what the uninitialized buffer may hold

MaxBufferSize == 32

XXHash64Assumption ==
  /\ Seeds # {} /\ 0 \in Seeds
  /\ DOMAIN Fragments \subseteq Nat
  /\ \A n \in DOMAIN Fragments : \A piece \in Fragments[n] : piece \in Seq(Byte)
  /\ Garbage # {}
  /\ \A buffer \in Garbage : buffer \in Seq(Byte) /\ Len(buffer) = MaxBufferSize
ASSUME XXHash64Assumption

VARIABLES
  hasher,    \* the object: its four members
  seed,      \* of the current hasher
  message,   \* everything added to it
  digest     \* the answer of hash(), until something is added

vars == <<hasher, seed, message, digest>>

-----------------------------------------------------------------------------
(***************************************************************************)
(* The members state[0..3] are represented by what they are a function of: *)
(* the seed and the bytes processed since.                                 *)
(***************************************************************************)
Hashers ==
  [state : [seed : Seeds, processed : Seq(Byte)], buffer : Seq(Byte),
   bufferSize : 0 .. MaxBufferSize - 1, totalLength : Nat]

XXHash64(s, buffer) ==
  [state |-> [seed |-> s, processed |-> <<>>], buffer |-> buffer,
   bufferSize |-> 0, totalLength |-> 0]

\* The rounds on any number of whole blocks.
process(state, blocks) == [state EXCEPT !.processed = @ \o blocks]

\* Seeded fault: the bytes are buffered but not counted.
AddToBufferUncounted(h, data) ==
  [state |-> h.state, buffer |-> Store(h.buffer, h.bufferSize, data),
   bufferSize |-> h.bufferSize + Len(data), totalLength |-> h.totalLength]
\* The new data still fits in the buffer.
AddToBuffer(h, data) ==
  [state |-> h.state, buffer |-> Store(h.buffer, h.bufferSize, data),
   bufferSize |-> h.bufferSize + Len(data), totalLength |-> h.totalLength + Len(data)]

\* Seeded fault: an empty buffer is taken for one to be completed.
MissingAlways(h) == MaxBufferSize - h.bufferSize

\* How many bytes of the data complete what an earlier call has left.
Missing(h) == IF h.bufferSize > 0 THEN MaxBufferSize - h.bufferSize ELSE 0

\* The bytes that are processed in place: all whole blocks.
WholeBlocks(n) == n - (n % MaxBufferSize)

AddBlocks(h, data) ==
  LET first  == Missing(h)
      filled == Store(h.buffer, h.bufferSize, Load(data, 0, first))
      start  == IF h.bufferSize > 0 THEN process(h.state, filled) ELSE h.state
      blocks == WholeBlocks(Len(data) - first)
      rest   == Len(data) - first - blocks
  IN  [state |-> process(start, Load(data, first, blocks)),
       buffer |-> Store(filled, 0, Load(data, first + blocks, rest)),
       bufferSize |-> rest,
       totalLength |-> h.totalLength + Len(data)]

\* Nothing, a little or a lot is added.
add(h, data) ==
  IF Len(data) = 0 THEN h
  ELSE IF h.bufferSize + Len(data) < MaxBufferSize THEN AddToBuffer(h, data)
  ELSE AddBlocks(h, data)

\* Seeded fault: the cursor is not moved past the word of 4 bytes.
TailWordsTwice(buffer, size) ==
  LET eights == size \div 8
      fours  == (size % 8) \div 4
  IN  [eights |-> [k \in 1 .. eights |-> Load(buffer, 8 * (k - 1), 8)],
       fours  |-> [k \in 1 .. fours |-> Load(buffer, 8 * eights, 4)],
       ones   |-> Load(buffer, 8 * eights, size % 8)]
\* The words that the last loops of hash() eat: of 8 bytes, of 4, of 1.
TailWords(buffer, size) ==
  LET eights == size \div 8
      fours  == (size % 8) \div 4
  IN  [eights |-> [k \in 1 .. eights |-> Load(buffer, 8 * (k - 1), 8)],
       fours  |-> [k \in 1 .. fours |-> Load(buffer, 8 * eights, 4)],
       ones   |-> Load(buffer, 8 * eights + 4 * fours, size % 4)]

\* The whole state is folded, or else only its third word is taken, in which
\* the constructor has put the seed.
hash(h) ==
  [reported |-> TRUE, folded |-> h.totalLength >= MaxBufferSize,
   state |-> h.state, length |-> h.totalLength,
   tail |-> TailWords(h.buffer, h.bufferSize)]

\* The static hash(input, length, seed), whose hasher has a buffer of its own.
OneShot(s, input) == hash(add(XXHash64(s, CHOOSE b \in Garbage : TRUE), input))

\* The static hash(long value), for the eight bytes of the value: the seed is
\* 0, and the constants are those of a tail of one word.
HashLong(word) ==
  [reported |-> TRUE, folded |-> FALSE,
   state |-> [seed |-> 0, processed |-> <<>>], length |-> 8,
   tail |-> [eights |-> <<word>>, fours |-> <<>>, ones |-> <<>>]]
-----------------------------------------------------------------------------
Promise == INSTANCE StreamingHash

Construct ==
  /\ seed' \in Seeds
  /\ \E buffer \in Garbage : hasher' = XXHash64(seed', buffer)
  /\ message' = <<>>
  /\ digest' = Promise!NoDigest

Add ==
  /\ Len(message) \in DOMAIN Fragments
  /\ \E piece \in Fragments[Len(message)] :
       /\ hasher' = add(hasher, piece)
       /\ message' = message \o piece
  /\ digest' = Promise!NoDigest
  /\ UNCHANGED seed

Hash ==
  /\ digest' = hash(hasher)
  /\ UNCHANGED <<hasher, seed, message>>

Init ==
  /\ seed \in Seeds
  /\ \E buffer \in Garbage : hasher = XXHash64(seed, buffer)
  /\ message = <<>>
  /\ digest = Promise!NoDigest

Next == Construct \/ Add \/ Hash

Spec == Init /\ [][Next]_vars
-----------------------------------------------------------------------------
(***************************************************************************)
(* Properties                                                              *)
(***************************************************************************)
\* The members have their types, and between two calls the buffer has room:
\* at most 31 bytes wait in it (xxhash64.h:204).
TypeOK ==
  /\ seed \in Seeds
  /\ message \in Seq(Byte)
  /\ hasher \in Hashers
  /\ Len(hasher.buffer) = MaxBufferSize

\* However the message was cut: its whole blocks are processed, once and in
\* order, under the right seed, and the bytes behind them wait in the buffer.
StateDescribes(h, s, m) ==
  LET whole == WholeBlocks(Len(m))
  IN  /\ h.state = [seed |-> s, processed |-> Load(m, 0, whole)]
      /\ h.bufferSize = Len(m) - whole
      /\ h.totalLength = Len(m)
      /\ Load(h.buffer, 0, h.bufferSize) = Load(m, whole, h.bufferSize)

StateDescribesMessage == StateDescribes(hasher, seed, message)

\* The bytes that a digest depends on, joined.
TailBytes(tail) ==
  LET eights == Len(tail.eights)
      fours  == Len(tail.fours)
  IN  [i \in 1 .. 8 * eights |-> tail.eights[(i + 7) \div 8][((i + 7) % 8) + 1]]
        \o [i \in 1 .. 4 * fours |-> tail.fours[1][i]] \o tail.ones

\* The digest depends on every byte of the message, each in one place, and on
\* nothing else (the buffer is never initialized): blocks that were processed
\* are folded in, and the last loops eat the rest, in words of 8, 4 and 1.
EveryByteCounts ==
  digest # Promise!NoDigest =>
    /\ digest.folded \/ digest.state.processed = <<>>
    /\ digest.state.processed \o TailBytes(digest.tail) = message
    /\ digest.state.seed = seed
    /\ digest.length = Len(message)

\* Adding in pieces and asking for the hash, at any time, gives what the static
\* one-shot function returns (xxhash64.h:19).
ImplementsStreamingHash == Promise!Spec
=============================================================================
