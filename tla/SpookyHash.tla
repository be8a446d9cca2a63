----------------------------- MODULE SpookyHash -----------------------------
(***************************************************************************)
(* class SpookyHash (velox_/SpookyV2.h, SpookyV2.cpp): Init, then Update   *)
(* and Final in any order and number, against the one-shot Hash128.  What  *)
(* is modelled is which bytes are mixed in, in which order and with which  *)
(* padding; the arithmetic is left uninterpreted, so that two digests are  *)
(* equal here exactly if the same words go through the same mixing.        *)
(***************************************************************************)
EXTENDS Memory

CONSTANTS
  Seeds,       \* the pairs of seeds that Init may be called with
  Fragments,   \* what Update may be called with, by the length so far
  Stale        \* what m_data may hold before the first Init

sc_blockSize == 96
sc_bufSize   == 192

SpookyHashAssumption ==
  /\ DOMAIN Fragments \subseteq Nat
  /\ \A n \in DOMAIN Fragments : \A piece \in Fragments[n] : piece \in Seq(Byte)
  /\ \A data \in Stale : data \in Seq(Byte) /\ Len(data) = sc_bufSize
ASSUME SpookyHashAssumption

VARIABLES
  m_data,        \* two blocks: the bytes not yet mixed in, and old ones
  m_state,       \* twelve words, see Fresh
  m_length,      \* size_t: of the whole message
  m_remainder,   \* uint8: how many bytes of m_data wait
  seed,          \* of the current hash
  message,       \* everything Update was given since Init
  digest         \* the answer of Final, until the next Update

vars == <<m_data, m_state, m_length, m_remainder, seed, message, digest>>

members == <<m_data, m_state, m_length, m_remainder>>

uint8(n) == n % 256

\* The bytes of a message of this length that Mix takes: whole blocks.
WholeBlocks(n) == n - (n % sc_blockSize)

-----------------------------------------------------------------------------
(***************************************************************************)
(* The words of the state.  A word is what it is a function of: the seeds  *)
(* and the bytes mixed in since.  m_state[0..1], the head, are written by  *)
(* Init; the rest still holds old words then, and Spread gives it values.  *)
(***************************************************************************)
Fresh(s) == [seed |-> s, mixed |-> <<>>]

\* h0 = h3 = ... = m_state[0], h1 = ... = m_state[1], h2 = ... = sc_const.
Spread(state) == [head |-> state.head, rest |-> state.head]

\* Mix on any number of whole blocks.  Words of different messages would make
\* a value that no message has.
Mix(h, blocks) ==
  LET before == IF h.head = h.rest THEN h.head.mixed ELSE h.head.mixed \o <<NoByte>>
      after  == [seed |-> h.head.seed, mixed |-> before \o blocks]
  IN  IF blocks = <<>> THEN h ELSE [head |-> after, rest |-> after]

\* The given bytes, and zeros behind them.
Padded(bytes, size) ==
  [i \in 1 .. size |-> IF i <= Len(bytes) THEN bytes[i] ELSE 0]

\* Seeded fault: the last of fifteen bytes is forgotten.
LastPairOfFourteen(base, at, remainder) ==
  IF remainder = 0 THEN "sc_const"
  ELSE Padded(Load(base, at, IF remainder = 15 THEN 14 ELSE remainder), 15)
\* What is added to c and d for the last 0 to 15 bytes.
LastPair(base, at, remainder) ==
  IF remainder = 0 THEN "sc_const" ELSE Padded(Load(base, at, remainder), 15)

(***************************************************************************)
(* Short, on the first length bytes at message.  Pairs of words go into c, *)
(* d and a, b; of the last 0 to 15 bytes the first eight are added to c,   *)
(* the others to the lower seven bytes of d, and the length to its upper   *)
(* one.  If no byte is left, constants are added instead.                  *)
(***************************************************************************)
Short(base, length, words) ==
  LET remainder == length % 16
      pairs     == length - remainder
  IN  [reported |-> TRUE, words |-> words, pairs |-> Load(base, 0, pairs),
       cd |-> LastPair(base, pairs, remainder),
       length |-> uint8(length)]

\* The last partial block: padded with zeros, its length in the last byte.
LastBlock(bytes, remainder) ==
  [Padded(bytes, sc_blockSize) EXCEPT ![sc_blockSize] = remainder]

End(h, block) == [reported |-> TRUE, words |-> h, last |-> block]

Hash128(s, input) ==
  LET length == Len(input)
      blocks == WholeBlocks(length)
      start  == [head |-> Fresh(s), rest |-> Fresh(s)]
  IN  IF length < sc_bufSize
        THEN Short(input, length, Fresh(s))
        ELSE End(Mix(start, Load(input, 0, blocks)),
                 LastBlock(Load(input, blocks, length - blocks), length - blocks))
-----------------------------------------------------------------------------
Promise == INSTANCE StreamingHash WITH OneShot <- Hash128

\* Seeded fault: the bytes of the previous message still wait.
SpookyInitRemainderKept ==
  /\ seed' \in Seeds
  /\ m_length' = 0
  /\ m_state' = [head |-> Fresh(seed'), rest |-> m_state.rest]
  /\ message' = <<>>
  /\ digest' = Promise!NoDigest
  /\ UNCHANGED <<m_data, m_remainder>>
\* Init writes neither m_data nor the last ten words of m_state.
SpookyInit ==
  /\ seed' \in Seeds
  /\ m_length' = 0
  /\ m_remainder' = 0
  /\ m_state' = [head |-> Fresh(seed'), rest |-> m_state.rest]
  /\ message' = <<>>
  /\ digest' = Promise!NoDigest
  /\ UNCHANGED m_data

\* A fragment with which the buffer does not fill up is stuffed away.
UpdateShort(piece) ==
  LET newLength == Len(piece) + m_remainder
  IN  /\ newLength < sc_bufSize
      /\ m_data' = Store(m_data, m_remainder, piece)
      /\ m_length' = Len(piece) + m_length
      /\ m_remainder' = uint8(newLength)
      /\ UNCHANGED m_state

\* Seeded fault: a message that has begun is taken for one that was mixed.
WordsOnceBegun == IF m_length = 0 THEN Spread(m_state) ELSE m_state

\* The variables that an Update works on.
Words == IF m_length < sc_bufSize THEN Spread(m_state) ELSE m_state

\* How much of the fragment completes the two blocks in m_data.
Prefix == IF m_remainder # 0 THEN uint8(sc_bufSize - m_remainder) ELSE 0

\* Otherwise both blocks are completed and mixed in, if any byte waits there,
\* then the whole blocks of the fragment, and what is left is stuffed away.
UpdateLong(piece) ==
  LET length    == Len(piece) - Prefix
      filled    == Store(m_data, m_remainder, Load(piece, 0, Prefix))
      start     == IF m_remainder # 0 THEN Mix(Words, filled) ELSE Words
      blocks    == WholeBlocks(length)
      remainder == uint8(length - blocks)
  IN  /\ Len(piece) + m_remainder >= sc_bufSize
      /\ m_state' = Mix(start, Load(piece, Prefix, blocks))
      /\ m_data' = Store(filled, 0, Load(piece, Prefix + blocks, remainder))
      /\ m_length' = Len(piece) + m_length
      /\ m_remainder' = remainder

Update ==
  /\ Len(message) \in DOMAIN Fragments
  /\ \E piece \in Fragments[Len(message)] :
       /\ UpdateShort(piece) \/ UpdateLong(piece)
       /\ message' = message \o piece
  /\ digest' = Promise!NoDigest
  /\ UNCHANGED seed

FinalShort ==
  /\ m_length < sc_bufSize
  /\ digest' = Short(m_data, m_length, m_state.head)
  /\ UNCHANGED <<members, seed, message>>

\* Of the bytes that wait, those that make a whole first block.
FirstBlock == IF m_remainder >= sc_blockSize THEN sc_blockSize ELSE 0

\* A whole first block is mixed in, on copies of the words.  The last block is
\* padded where it lies, in m_data.
FinalLong ==
  LET first     == FirstBlock
      remainder == m_remainder - first
      last      == LastBlock(Load(m_data, first, remainder), remainder)
      words     == IF first > 0 THEN Mix(m_state, Load(m_data, 0, first)) ELSE m_state
  IN  /\ m_length >= sc_bufSize
      /\ m_data' = Store(m_data, first + remainder,
                         SubSeq(last, remainder + 1, sc_blockSize))
      /\ digest' = End(words, Load(m_data', first, sc_blockSize))
      /\ UNCHANGED <<m_state, m_length, m_remainder, seed, message>>

Init ==
  /\ seed \in Seeds
  /\ m_data \in Stale
  /\ m_state = [head |-> Fresh(seed), rest |-> [seed |-> seed, mixed |-> <<NoByte>>]]
  /\ m_length = 0
  /\ m_remainder = 0
  /\ message = <<>>
  /\ digest = Promise!NoDigest

Next == SpookyInit \/ Update \/ FinalShort \/ FinalLong

Spec == Init /\ [][Next]_vars
-----------------------------------------------------------------------------
(***************************************************************************)
(* Properties                                                              *)
(***************************************************************************)
\* The members have their types, with room left in m_data between two calls.
TypeOK ==
  /\ seed \in Seeds
  /\ message \in Seq(Byte)
  /\ m_data \in Seq(Byte) /\ Len(m_data) = sc_bufSize
  /\ m_length \in Nat
  /\ m_remainder \in 0 .. sc_bufSize - 1
  /\ m_state.head.seed = seed /\ m_state.head.mixed \in Seq(Byte)

\* What has been mixed in: nothing while the message is short, then all but
\* the bytes that wait.
MixedLength == m_length - m_remainder

\* However the message was cut and whenever Final was called: either nothing
\* was mixed in and the words are still the seeds, or all twelve words belong
\* to the same whole blocks of the message; the other bytes wait in m_data.
\* Update and Final tell the cases apart by the length alone.
StateDescribesMessage ==
  /\ m_length = Len(message)
  /\ m_length < sc_bufSize => m_remainder = m_length
  /\ m_length >= sc_bufSize => m_state.rest = m_state.head
  /\ MixedLength % sc_blockSize = 0
  /\ m_state.head = [seed |-> seed, mixed |-> Load(message, 0, MixedLength)]
  /\ Load(m_data, 0, m_remainder) = Load(message, MixedLength, m_remainder)

\* The message that a digest was made of.
Recovered ==
  IF m_length < sc_bufSize
    THEN digest.pairs \o SubSeq(digest.cd, 1, digest.length - Len(digest.pairs))
    ELSE digest.words.head.mixed \o SubSeq(digest.last, 1, digest.last[sc_blockSize])

\* The digest depends on every byte of the message, each in one place: padding
\* hides none, and old bytes of m_data do not get in.
EveryByteCounts == digest # Promise!NoDigest => Recovered = message

\* "The result is the same as if SpookyHash() had been called with all the
\* pieces concatenated into one message" (SpookyV2.h:106), and "you can keep
\* updating it afterward": Final, although it pads in place, is a mere Report.
ImplementsStreamingHash == Promise!Spec

=============================================================================
