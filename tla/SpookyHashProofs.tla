-------------------------- MODULE SpookyHashProofs --------------------------
(***************************************************************************)
(* For every message, however it is cut into pieces and however often the  *)
(* hash is asked for, SpookyHash implements StreamingHash, although Final  *)
(* writes into the buffer.                                                 *)
(***************************************************************************)
EXTENDS SpookyHash, BufferProofs

\* What the proofs use of the constants.
LEMMA Parameters ==
  /\ \A n \in DOMAIN Fragments : \A piece \in Fragments[n] : piece \in Seq(Byte)
  /\ \A data \in Stale : data \in Seq(Byte) /\ Len(data) = sc_bufSize
  BY SpookyHashAssumption, Zenon DEF SpookyHashAssumption

\* Whole blocks, and nothing behind them.
Aligned(n) == n % sc_blockSize = 0

\* All twelve words, once they are of one message.
Both(s, bytes) ==
  [head |-> [seed |-> s, mixed |-> bytes], rest |-> [seed |-> s, mixed |-> bytes]]

\* The parts of the invariant.  What is mixed in is what does not wait.
Holds(data, state, length, remainder, s, m) ==
  /\ data \in Seq(Byte) /\ Len(data) = sc_bufSize
  /\ length = Len(m) /\ remainder \in 0 .. sc_bufSize - 1 /\ remainder <= length
  /\ state = [head |-> state.head, rest |-> state.rest]
  /\ state.head = [seed |-> s, mixed |-> Load(m, 0, length - remainder)]
  /\ length < sc_bufSize => remainder = length
  /\ length >= sc_bufSize => state.rest = state.head
  /\ Aligned(length - remainder)
  /\ Load(data, 0, remainder) = Load(m, length - remainder, remainder)

\* Mixing appends to what is mixed, into all words alike.
LEMMA MixBoth ==
  ASSUME NEW s, NEW p \in Seq(Byte), NEW blocks \in Seq(Byte)
  PROVE  Mix(Both(s, p), blocks) = Both(s, p \o blocks)
  <1> DEFINE h == Both(s, p)
  <1>1. h.head = h.rest /\ h.head.seed = s /\ h.head.mixed = p
    BY DEF Both
  <1>2. CASE blocks = <<>>
    <2>1. p \o blocks = p
      BY <1>2
    <2> HIDE DEF h
    <2>2. Mix(h, blocks) = h
      BY <1>2, Zenon DEF Mix
    <2> QED BY <2>1, <2>2, Zenon DEF h
  <1>3. CASE blocks # <<>>
    <2> HIDE DEF h
    <2>1. Mix(h, blocks) = [head |-> [seed |-> s, mixed |-> p \o blocks],
                            rest |-> [seed |-> s, mixed |-> p \o blocks]]
      BY <1>1, <1>3, Zenon DEF Mix
    <2> QED BY <2>1, Zenon DEF Both, h
  <1> QED BY <1>2, <1>3

\* Whole blocks leave less than one; more whole blocks keep that.
LEMMA BlockFacts ==
  ASSUME NEW n \in Nat
  PROVE  /\ WholeBlocks(n) \in Nat /\ WholeBlocks(n) <= n
         /\ n - WholeBlocks(n) \in 0 .. sc_blockSize - 1
         /\ Aligned(WholeBlocks(n))
         /\ n >= sc_bufSize => WholeBlocks(n) >= sc_bufSize
  BY DEF WholeBlocks, Aligned, sc_blockSize, sc_bufSize

\* Whole blocks joined are whole blocks.
LEMMA AlignedSum ==
  ASSUME NEW n \in Nat, NEW k \in Nat, Aligned(n), Aligned(k)
  PROVE  Aligned(n + k)
  BY DEF Aligned, sc_blockSize

\* The two blocks of m_data are whole blocks.
LEMMA BufferAligned == Aligned(sc_bufSize) /\ sc_bufSize \in Nat
  BY DEF Aligned, sc_blockSize, sc_bufSize

\* What waits, and what it lacks, fits in a byte.
LEMMA ByteKeepsCounts ==
  /\ \A r \in 1 .. sc_bufSize - 1 : uint8(sc_bufSize - r) = sc_bufSize - r
  /\ \A r \in 0 .. sc_bufSize - 1 : uint8(r) = r
  BY DEF uint8, sc_bufSize

\* A new hash has no bytes.
LEMMA NewHolds ==
  ASSUME NEW s, NEW data \in Seq(Byte), Len(data) = sc_bufSize, NEW rest
  PROVE  Holds(data, [head |-> Fresh(s), rest |-> rest], 0, 0, s, <<>>)
  <1>1. <<>> \in Seq(Byte) /\ Len(<<>>) = 0 /\ 0 - 0 = 0
    OBVIOUS
  <1>2. Load(<<>>, 0, 0) = <<>> /\ Load(data, 0, 0) = <<>>
    BY <1>1, LoadNothing
  <1>3. 0 \in 0 .. sc_bufSize - 1 /\ 0 < sc_bufSize /\ Aligned(0)
    BY DEF sc_bufSize, Aligned, sc_blockSize
  <1> DEFINE state == [head |-> Fresh(s), rest |-> rest]
  <1>4. state = [head |-> state.head, rest |-> state.rest]
        /\ state.head = [seed |-> s, mixed |-> <<>>]
    BY DEF Fresh
  <1> HIDE DEF state
  <1>5. ~(0 >= sc_bufSize)
    BY DEF sc_bufSize
  <1>6. Holds(data, state, 0, 0, s, <<>>)
    BY <1>1, <1>2, <1>3, <1>4, <1>5 DEF Holds
  <1> QED BY <1>6 DEF state

\* The numbers that the invariant gives.
LEMMA HoldsNumbers ==
  ASSUME NEW data, NEW state, NEW length, NEW remainder, NEW s, NEW m \in Seq(Byte),
         Holds(data, state, length, remainder, s, m)
  PROVE  /\ length = Len(m) /\ length \in Nat /\ remainder \in Nat
         /\ remainder <= sc_bufSize - 1
         /\ length - remainder \in Nat /\ (length - remainder) + remainder = length
         /\ Aligned(length - remainder)
         /\ data \in Seq(Byte) /\ Len(data) = sc_bufSize
  <1>1. /\ length = Len(m) /\ remainder \in 0 .. sc_bufSize - 1 /\ remainder <= length
        /\ data \in Seq(Byte) /\ Len(data) = sc_bufSize /\ Aligned(length - remainder)
    BY DEF Holds
  <1>2. length \in Nat /\ remainder \in Nat /\ remainder <= sc_bufSize - 1
    BY <1>1 DEF sc_bufSize
  <1> QED BY <1>1, <1>2

\* A fragment with which m_data does not fill up is appended to what waits.
LEMMA ShortHolds ==
  ASSUME NEW data, NEW state, NEW length, NEW remainder, NEW s,
         NEW m \in Seq(Byte), NEW d \in Seq(Byte),
         Holds(data, state, length, remainder, s, m),
         Len(d) + remainder < sc_bufSize
  PROVE  Holds(Store(data, remainder, d), state, Len(d) + length, Len(d) + remainder, s, m \o d)
  <1> DEFINE k == Len(d)
             x == length - remainder
             stored == Store(data, remainder, d)
             md == m \o d
  <1>1. /\ length = Len(m) /\ length \in Nat /\ remainder \in Nat
        /\ x \in Nat /\ x + remainder = length /\ Aligned(x)
        /\ data \in Seq(Byte) /\ Len(data) = sc_bufSize
    BY HoldsNumbers
  <1>2. k \in Nat
    OBVIOUS
  <1>3. md \in Seq(Byte) /\ Len(md) = k + length
    BY <1>1, LoadConcat
  <1>4. stored \in Seq(Byte) /\ Len(stored) = sc_bufSize
    BY <1>1, StoreType
  <1>5. Load(md, 0, x) = Load(m, 0, x)
    BY <1>1, LoadConcat
  <1>6. Load(stored, 0, k + remainder) = Load(md, x, k + remainder)
    <2>1. Load(data, 0, remainder) = Load(m, x, remainder)
      BY DEF Holds
    <2>2. remainder + k <= Len(data) /\ k + remainder = remainder + k
      BY <1>1, <1>2
    <2>3. Load(d, 0, k) = d
      BY LoadWhole
    <2> HIDE DEF x, k
    <2>4. Load(Store(data, remainder, Load(d, 0, k)), 0, remainder + k) = Load(m \o d, x, remainder + k)
      BY <1>1, <1>2, <2>1, <2>2, StoreFollows DEF k
    <2> QED BY <2>2, <2>3, <2>4
  <1>7. /\ state = [head |-> state.head, rest |-> state.rest]
        /\ state.head = [seed |-> s, mixed |-> Load(m, 0, x)]
        /\ length < sc_bufSize => remainder = length
        /\ length >= sc_bufSize => state.rest = state.head
    BY DEF Holds
  <1>8. (k + length) - (k + remainder) = x
    BY <1>1, <1>2
  <1>9. k + remainder \in 0 .. sc_bufSize - 1 /\ k + remainder <= k + length
    <2>1. k + remainder < sc_bufSize
      OBVIOUS
    <2> HIDE DEF k, x
    <2> QED BY <1>1, <1>2, <2>1 DEF sc_bufSize
  <1>10. k + length < sc_bufSize => k + remainder = k + length
    <2> HIDE DEF k, x
    <2> QED BY <1>1, <1>2, <1>7 DEF sc_bufSize
  <1>3a. k + length >= sc_bufSize => state.rest = state.head
    <2>1. k + remainder < sc_bufSize
      OBVIOUS
    <2> HIDE DEF k, x
    <2>2. k + length >= sc_bufSize => length >= sc_bufSize
      BY <1>1, <1>2, <1>7, <2>1 DEF sc_bufSize
    <2> QED BY <1>7, <2>2
  <1> DEFINE size == k + length
             waiting == k + remainder
  <1>12. /\ size = Len(md) /\ waiting \in 0 .. sc_bufSize - 1 /\ waiting <= size
         /\ size - waiting = x
         /\ size < sc_bufSize => waiting = size
         /\ size >= sc_bufSize => state.rest = state.head
         /\ Load(stored, 0, waiting) = Load(md, x, waiting)
    BY <1>3, <1>6, <1>8, <1>9, <1>10, <1>3a, Zenon
  <1> HIDE DEF size, waiting, stored, md, x
  <1>13. Holds(stored, state, size, waiting, s, md)
    BY <1>1, <1>4, <1>5, <1>7, <1>12, Zenon DEF Holds
  <1> QED BY <1>13 DEF size, waiting, stored, md, k

\* Once the bytes that wait are completed to two blocks, if any wait, all bytes
\* of the message up to a place in the data can be mixed in.
LEMMA BufferCompleted ==
  ASSUME NEW data, NEW state, NEW length, NEW remainder \in Nat, NEW s,
         NEW m \in Seq(Byte), NEW d \in Seq(Byte), NEW first \in Nat,
         Holds(data, state, length, remainder, s, m)
  PROVE  remainder + first = sc_bufSize /\ first <= Len(d) =>
           LET filled == Store(data, remainder, Load(d, 0, first))
           IN  /\ filled \in Seq(Byte) /\ Len(filled) = sc_bufSize
               /\ Load(m, 0, length - remainder) \o filled = Load(m \o d, 0, Len(m) + first)
               /\ Aligned(Len(m) + first)
  <1> DEFINE filled == Store(data, remainder, Load(d, 0, first))
             x == length - remainder
             md == m \o d
  <1> SUFFICES ASSUME remainder + first = sc_bufSize, first <= Len(d)
               PROVE  /\ filled \in Seq(Byte) /\ Len(filled) = sc_bufSize
                      /\ Load(m, 0, x) \o filled = Load(md, 0, Len(m) + first)
                      /\ Aligned(Len(m) + first)
    OBVIOUS
  <1>1. /\ length = Len(m) /\ length \in Nat
        /\ x \in Nat /\ x + remainder = length /\ Aligned(x)
        /\ data \in Seq(Byte) /\ Len(data) = sc_bufSize
    BY HoldsNumbers
  <1>2. Load(d, 0, first) \in Seq(Byte)
    BY LoadType
  <1>3. filled \in Seq(Byte) /\ Len(filled) = sc_bufSize
    BY <1>1, <1>2, StoreType
  <1>4. md \in Seq(Byte) /\ Load(md, 0, x) = Load(m, 0, x)
    BY <1>1, LoadConcat
  <1>5. Load(filled, 0, sc_bufSize) = Load(md, x, sc_bufSize)
    <2>1. Load(data, 0, remainder) = Load(m, x, remainder)
      BY DEF Holds
    <2>2. remainder + first <= Len(data)
      BY <1>1, BufferAligned
    <2> HIDE DEF x
    <2>3. Load(Store(data, remainder, Load(d, 0, first)), 0, remainder + first)
            = Load(m \o d, x, remainder + first)
      BY <1>1, <2>1, <2>2, StoreFollows
    <2> QED BY <2>3
  <1>6. Load(filled, 0, sc_bufSize) = filled
    BY <1>3, LoadWhole
  <1>7. x + sc_bufSize = Len(m) + first
    <2> HIDE DEF x
    <2> QED BY <1>1, BufferAligned
  <1>8. Aligned(x + sc_bufSize)
    <2> HIDE DEF x
    <2> QED BY <1>1, BufferAligned, AlignedSum
  <1> HIDE DEF x, md, filled
  <1>9. Load(md, 0, x) \o Load(md, x, sc_bufSize) = Load(md, 0, x + sc_bufSize)
    BY <1>1, <1>4, BufferAligned, LoadPrefix
  <1> QED BY <1>3, <1>4, <1>5, <1>6, <1>7, <1>8, <1>9

\* The bytes behind the whole blocks of the data are left in m_data.
LEMMA RestHolds ==
  ASSUME NEW s, NEW m \in Seq(Byte), NEW d \in Seq(Byte),
         NEW b \in Seq(Byte), Len(b) = sc_bufSize,
         NEW first \in Nat, NEW blocks \in Nat, NEW rest \in 0 .. sc_blockSize - 1,
         first + blocks + rest = Len(d),
         Aligned(Len(m) + first + blocks),
         Len(d) + Len(m) >= sc_bufSize
  PROVE  Holds(Store(b, 0, Load(d, first + blocks, rest)),
               Both(s, Load(m \o d, 0, Len(m) + first) \o Load(d, first, blocks)),
               Len(d) + Len(m), rest, s, m \o d)
  <1> DEFINE n == Len(m)
             k == Len(d)
             md == m \o d
             i == first + blocks
             tail == Load(d, i, rest)
             stored == Store(b, 0, tail)
             whole == n + i
             size == k + n
             state == Both(s, Load(md, 0, whole))
  <1>1. /\ n \in Nat /\ k \in Nat /\ rest \in Nat /\ rest <= Len(b) /\ i \in Nat
        /\ rest \in 0 .. sc_bufSize - 1
        /\ i + rest = k /\ whole = n + first + blocks /\ n + first \in Nat /\ whole \in Nat
        /\ size \in Nat /\ rest <= size /\ size - rest = whole /\ first + blocks <= k
    <2>1. n \in Nat /\ k \in Nat
      OBVIOUS
    <2>2. i + rest = k
      OBVIOUS
    <2>3. rest \in Nat /\ rest <= Len(b) /\ rest \in 0 .. sc_bufSize - 1
      BY DEF sc_blockSize, sc_bufSize
    <2> HIDE DEF n, k
    <2> QED BY <2>1, <2>2, <2>3
  <1>2. md \in Seq(Byte) /\ Len(md) = size
    BY LoadConcat, <1>1
  <1>3. Aligned(whole)
    BY <1>1
  <1>4. size >= sc_bufSize
    OBVIOUS
  <1>5. ~(size < sc_bufSize)
    <2> HIDE DEF size
    <2> QED BY <1>1, <1>4 DEF sc_bufSize
  <1>6. tail \in Seq(Byte) /\ Len(tail) = rest
    <2> HIDE DEF i
    <2>1. i \in Int /\ i >= 0
      BY <1>1
    <2> QED BY <1>1, <2>1, LoadType
  <1>7. stored \in Seq(Byte) /\ Len(stored) = sc_bufSize
    <2> HIDE DEF tail
    <2> QED BY <1>6, StoreType
  <1>8. Load(stored, 0, rest) = tail
    <2> HIDE DEF tail
    <2>1. 0 + Len(tail) <= Len(b)
      BY <1>1, <1>6
    <2>2. Load(Store(b, 0, tail), 0, Len(tail)) = tail
      BY <1>6, <2>1, LoadStore
    <2> QED BY <1>6, <2>2
  <1>9. Load(md, whole, rest) = tail
    <2> HIDE DEF i
    <2>1. i + rest <= Len(d)
      BY <1>1
    <2> QED BY <1>1, <2>1, LoadBehind
  <1>10. Load(md, n + first, blocks) = Load(d, first, blocks)
    <2>1. first + blocks <= Len(d)
      BY <1>1
    <2>2. Load(m \o d, Len(m) + first, blocks) = Load(d, first, blocks)
      BY <2>1, LoadBehind
    <2> QED BY <2>2
  <1> HIDE DEF md, n
  <1>3a. Load(md, 0, n + first) \o Load(md, n + first, blocks) = Load(md, 0, n + first + blocks)
    <2> DEFINE start == n + first
    <2>1. start \in Nat /\ md \in Seq(Byte) /\ blocks \in Nat
      BY <1>1, <1>2
    <2> HIDE DEF start
    <2>2. Load(md, 0, start) \o Load(md, start, blocks) = Load(md, 0, start + blocks)
      BY <2>1, LoadPrefix
    <2> QED BY <2>2 DEF start
  <1> HIDE DEF k, i, tail, stored, whole, size
  <1>12. /\ state = [head |-> state.head, rest |-> state.rest]
         /\ state.head = [seed |-> s, mixed |-> Load(md, 0, whole)]
         /\ state.rest = state.head
    BY DEF Both
  <1> HIDE DEF state
  <1>13. Holds(stored, state, size, rest, s, md)
    BY <1>1, <1>2, <1>3, <1>4, <1>5, <1>7, <1>8, <1>9, <1>12, Zenon DEF Holds
  <1>14. Load(md, 0, n + first) \o Load(d, first, blocks) = Load(md, 0, whole)
    BY <1>1, <1>10, <1>3a, Zenon
  <1> QED BY <1>13, <1>14, Zenon DEF state, n, k, md, i, tail, stored, size

-----------------------------------------------------------------------------
\* The inductive invariant: the members hold the message.
Inv ==
  /\ seed \in Seeds /\ message \in Seq(Byte)
  /\ Holds(m_data, m_state, m_length, m_remainder, seed, message)

\* The words that Update goes on with belong to the message, all twelve.
LEMMA WordsBoth ==
  ASSUME Inv
  PROVE  Words = Both(seed, Load(message, 0, m_length - m_remainder))
  <1> DEFINE mixed == Load(message, 0, m_length - m_remainder)
  <1>1. /\ m_state = [head |-> m_state.head, rest |-> m_state.rest]
        /\ m_state.head = [seed |-> seed, mixed |-> mixed]
        /\ m_length >= sc_bufSize => m_state.rest = m_state.head
    BY DEF Inv, Holds
  <1>2. m_length \in Nat
    BY HoldsNumbers DEF Inv
  <1> HIDE DEF mixed
  <1>3. CASE m_length < sc_bufSize
    <2>1. Words = [head |-> m_state.head, rest |-> m_state.head]
      BY <1>3, Zenon DEF Words, Spread
    <2> QED BY <1>1, <2>1, Zenon DEF Both, mixed
  <1>4. CASE ~(m_length < sc_bufSize)
    <2>1. m_length >= sc_bufSize
      BY <1>2, <1>4 DEF sc_bufSize
    <2>2. Words = m_state
      BY <1>4, Zenon DEF Words
    <2> QED BY <1>1, <2>1, <2>2, Zenon DEF Both, mixed
  <1> QED BY <1>3, <1>4

\* What Update does with a fragment that fills m_data up.
LEMMA LongParts ==
  ASSUME Inv, NEW piece \in Seq(Byte), Len(piece) + m_remainder >= sc_bufSize
  PROVE  LET filled == Store(m_data, m_remainder, Load(piece, 0, Prefix))
         IN  /\ Prefix \in Nat /\ Prefix <= Len(piece)
             /\ filled \in Seq(Byte) /\ Len(filled) = sc_bufSize
             /\ Aligned(Len(message) + Prefix)
             /\ (IF m_remainder # 0 THEN Mix(Words, filled) ELSE Words)
                  = Both(seed, Load(message \o piece, 0, Len(message) + Prefix))
  <1> DEFINE r == m_remainder
             x == m_length - m_remainder
             n == Len(message)
             k == Len(piece)
             filled == Store(m_data, m_remainder, Load(piece, 0, Prefix))
  <1>1. Holds(m_data, m_state, m_length, m_remainder, seed, message)
        /\ message \in Seq(Byte)
    BY DEF Inv
  <1>2. /\ m_length = n /\ n \in Nat /\ r \in Nat /\ r <= sc_bufSize - 1
        /\ x \in Nat /\ x + r = n /\ Aligned(x)
        /\ m_data \in Seq(Byte) /\ Len(m_data) = sc_bufSize
    BY <1>1, HoldsNumbers
  <1>3. k \in Nat /\ k + r >= sc_bufSize
    OBVIOUS
  <1>4. Words = Both(seed, Load(message, 0, x))
    BY WordsBoth
  <1>5. CASE m_remainder = 0
    <2>1. Prefix = 0
      BY <1>5 DEF Prefix
    <2>2. x = n /\ n + 0 = n
      BY <1>2, <1>5
    <2>3. Load(piece, 0, 0) \in Seq(Byte)
      BY LoadType
    <2>4. filled \in Seq(Byte) /\ Len(filled) = sc_bufSize
      BY <1>2, <2>1, <2>3, StoreType
    <2>5. Load(message \o piece, 0, n) = Load(message, 0, n)
      BY <1>1, <1>2, <2>2, LoadConcat
    <2>6. ~(m_remainder # 0)
      BY <1>5
    <2>7. 0 \in Nat /\ 0 <= k
      BY <1>3
    <2> HIDE DEF n, x, k
    <2>8. (IF m_remainder # 0 THEN Mix(Words, filled) ELSE Words)
            = Both(seed, Load(message \o piece, 0, n + Prefix))
      BY <1>4, <2>1, <2>2, <2>5, <2>6
    <2>9. Aligned(n + Prefix)
      BY <1>2, <2>1, <2>2
    <2>10. Prefix \in Nat /\ Prefix <= k
      BY <2>1, <2>7
    <2> QED BY <2>4, <2>8, <2>9, <2>10 DEF n, k
  <1>6. CASE m_remainder # 0
    <2>1. Prefix = sc_bufSize - r
      <3>1. Prefix = uint8(sc_bufSize - r)
        BY <1>6 DEF Prefix
      <3> HIDE DEF r
      <3>2. r # 0
        BY <1>6 DEF r
      <3>3. r \in 1 .. sc_bufSize - 1
        BY <1>2, <3>2 DEF sc_bufSize
      <3> QED BY <3>1, <3>3, ByteKeepsCounts
    <2>2. Prefix \in Nat /\ r + Prefix = sc_bufSize /\ Prefix <= k
      <3> HIDE DEF r, k
      <3> QED BY <1>2, <1>3, <2>1 DEF sc_bufSize
    <2>3. /\ filled \in Seq(Byte) /\ Len(filled) = sc_bufSize
          /\ Load(message, 0, x) \o filled = Load(message \o piece, 0, n + Prefix)
          /\ Aligned(n + Prefix)
      <3> DEFINE first == Prefix
      <3>1. m_remainder + first = sc_bufSize /\ first <= Len(piece) /\ first \in Nat
            /\ m_remainder \in Nat
        BY <1>2, <2>2
      <3> HIDE DEF first
      <3>2. LET f == Store(m_data, m_remainder, Load(piece, 0, first))
            IN  /\ f \in Seq(Byte) /\ Len(f) = sc_bufSize
                /\ Load(message, 0, m_length - m_remainder) \o f
                     = Load(message \o piece, 0, Len(message) + first)
                /\ Aligned(Len(message) + first)
        BY <1>1, <3>1, BufferCompleted
      <3> QED BY <3>2 DEF first
    <2>4. Load(message, 0, x) \in Seq(Byte)
      <3>1. x \in Int /\ 0 >= 0 /\ 0 + x <= Len(message)
        BY <1>2
      <3> HIDE DEF x
      <3> QED BY <1>1, <1>2, <3>1, LoadType
    <2> HIDE DEF x, n, k, filled
    <2>5. Mix(Both(seed, Load(message, 0, x)), filled) = Both(seed, Load(message, 0, x) \o filled)
      BY <2>3, <2>4, MixBoth
    <2>6. (IF m_remainder # 0 THEN Mix(Words, filled) ELSE Words)
            = Both(seed, Load(message \o piece, 0, n + Prefix))
      BY <1>4, <1>6, <2>3, <2>5
    <2> QED BY <2>2, <2>3, <2>6 DEF n, k, filled
  <1> QED BY <1>5, <1>6

\* How a fragment that fills m_data up is divided: into what completes the buffer,
\* whole blocks, and a rest.
Divides(n, k, first, blocks, rest) ==
  /\ blocks \in Nat /\ rest \in Nat /\ rest \in 0 .. sc_blockSize - 1
  /\ first + blocks + rest = k
  /\ first + blocks <= k
  /\ Aligned(n + first + blocks)

\* The numbers of such a fragment.
LEMMA LongNumbers ==
  ASSUME NEW n \in Nat, NEW k \in Nat, NEW first \in Nat
  PROVE  first <= k /\ Aligned(n + first) =>
           Divides(n, k, first, WholeBlocks(k - first),
                   uint8(k - first - WholeBlocks(k - first)))
  <1> DEFINE length == k - first
             blocks == WholeBlocks(length)
             rest == uint8(length - blocks)
  <1> SUFFICES ASSUME first <= k, Aligned(n + first)
               PROVE  Divides(n, k, first, blocks, rest)
    OBVIOUS
  <1>1. length \in Nat /\ first + length = k
    OBVIOUS
  <1> HIDE DEF length
  <1>2. blocks \in Nat /\ length - blocks \in 0 .. sc_blockSize - 1 /\ Aligned(blocks)
    BY <1>1, BlockFacts
  <1> HIDE DEF blocks
  <1>3. length - blocks \in 0 .. sc_bufSize - 1
    BY <1>1, <1>2 DEF sc_blockSize, sc_bufSize
  <1>4. rest = length - blocks
    BY <1>3, ByteKeepsCounts, Zenon
  <1> HIDE DEF rest
  <1>5. first + blocks + rest = k
    BY <1>1, <1>2, <1>4
  <1>6. Aligned((n + first) + blocks)
    <2>1. n + first \in Nat
      OBVIOUS
    <2> QED BY <1>2, <2>1, AlignedSum
  <1>7. rest \in Nat /\ rest \in 0 .. sc_blockSize - 1 /\ first + blocks <= k
    BY <1>1, <1>2, <1>4
  <1> QED BY <1>2, <1>5, <1>6, <1>7 DEF Divides

\* A fragment that fills m_data up: the invariant holds of the longer message.
LEMMA LongHolds ==
  ASSUME Inv, NEW piece \in Seq(Byte), UpdateLong(piece)
  PROVE  Holds(m_data', m_state', m_length', m_remainder', seed, message \o piece)
  <1> DEFINE n == Len(message)
             k == Len(piece)
             first == Prefix
             filled == Store(m_data, m_remainder, Load(piece, 0, first))
             start == IF m_remainder # 0 THEN Mix(Words, filled) ELSE Words
             blocks == WholeBlocks(k - first)
             rest == uint8(k - first - blocks)
             md == message \o piece
             block == Load(piece, first, blocks)
             p == Load(md, 0, n + first)
  <1>1. /\ k + m_remainder >= sc_bufSize
        /\ m_state' = Mix(start, block)
        /\ m_data' = Store(filled, 0, Load(piece, first + blocks, rest))
        /\ m_length' = k + m_length
        /\ m_remainder' = rest
    BY Zenon DEF UpdateLong
  <1>2. /\ message \in Seq(Byte) /\ m_length = n /\ n \in Nat /\ k \in Nat
        /\ m_remainder \in Nat /\ m_length - m_remainder \in Nat
        /\ (m_length - m_remainder) + m_remainder = m_length
    BY HoldsNumbers DEF Inv
  <1>3. /\ first \in Nat /\ first <= k
        /\ filled \in Seq(Byte) /\ Len(filled) = sc_bufSize
        /\ Aligned(n + first)
        /\ start = Both(seed, p)
    <2>1. Len(piece) + m_remainder >= sc_bufSize
      BY <1>1
    <2> QED BY <2>1, LongParts, Zenon
  <1>4. k + n >= sc_bufSize
    <2> DEFINE x == m_length - m_remainder
    <2>1. x \in Nat /\ x + m_remainder = n /\ k + m_remainder >= sc_bufSize
      BY <1>1, <1>2
    <2> HIDE DEF x, n, k
    <2> QED BY <1>2, <2>1, BufferAligned
  <1>5. Divides(n, k, first, blocks, rest)
    <2> HIDE DEF n, k, first
    <2> QED BY <1>2, <1>3, LongNumbers
  <1>6. md \in Seq(Byte) /\ Len(md) = n + k
    BY <1>2, LoadConcat
  <1>7. p \in Seq(Byte)
    <2> DEFINE i == n + first
    <2>1. i \in Nat /\ i <= Len(md)
      BY <1>2, <1>3, <1>6
    <2> HIDE DEF i, md
    <2> QED BY <1>6, <2>1, LoadType DEF i
  <1>8. block \in Seq(Byte)
    <2>1. first \in Int /\ first >= 0
      BY <1>3
    <2>2. first + blocks <= Len(piece) /\ blocks \in Nat
      BY <1>5, Zenon DEF Divides
    <2> HIDE DEF first, blocks
    <2> QED BY <2>1, <2>2, LoadType
  <1> HIDE DEF filled, start, blocks, rest, first, block, p
  <1>9. m_state' = Both(seed, p \o block)
    BY <1>1, <1>3, <1>7, <1>8, MixBoth
  <1>10. Holds(Store(filled, 0, Load(piece, first + blocks, rest)),
               Both(seed, Load(message \o piece, 0, Len(message) + first)
                            \o Load(piece, first, blocks)),
               Len(piece) + Len(message), rest, seed, message \o piece)
    BY <1>2, <1>3, <1>4, <1>5, RestHolds DEF Divides
  <1> QED BY <1>1, <1>2, <1>9, <1>10 DEF p, block

\* Update keeps the invariant.
LEMMA UpdateHolds ==
  ASSUME Inv, Update
  PROVE  Inv'
  <1>1. Len(message) \in DOMAIN Fragments
    BY DEF Update
  <1>2. PICK piece \in Fragments[Len(message)] :
          (UpdateShort(piece) \/ UpdateLong(piece)) /\ message' = message \o piece
    BY DEF Update
  <1>3. piece \in Seq(Byte)
    BY <1>1, Parameters, Zenon
  <1>4. message \in Seq(Byte) /\ seed \in Seeds /\ seed' = seed
        /\ Holds(m_data, m_state, m_length, m_remainder, seed, message)
    BY DEF Inv, Update
  <1>5. Holds(m_data', m_state', m_length', m_remainder', seed, message \o piece)
    <2>1. CASE UpdateShort(piece)
      <3> DEFINE k == Len(piece)
      <3>1. /\ k + m_remainder < sc_bufSize
            /\ m_data' = Store(m_data, m_remainder, piece)
            /\ m_length' = k + m_length
            /\ m_remainder' = uint8(k + m_remainder)
            /\ m_state' = m_state
        BY <2>1 DEF UpdateShort
      <3>2. k + m_remainder \in 0 .. sc_bufSize - 1
        <4>1. m_remainder \in Nat /\ k \in Nat
          BY <1>3, <1>4, HoldsNumbers
        <4> HIDE DEF k
        <4> QED BY <3>1, <4>1 DEF sc_bufSize
      <3>3. m_remainder' = k + m_remainder
        BY <3>1, <3>2, ByteKeepsCounts, Zenon
      <3>4. Holds(Store(m_data, m_remainder, piece), m_state, Len(piece) + m_length,
                  Len(piece) + m_remainder, seed, message \o piece)
        BY <1>3, <1>4, <3>1, ShortHolds
      <3> QED BY <3>1, <3>3, <3>4, Zenon
    <2>2. CASE UpdateLong(piece)
      BY <1>3, <2>2, LongHolds
    <2> QED BY <1>2, <2>1, <2>2
  <1>6. message \o piece \in Seq(Byte)
    BY <1>3, <1>4
  <1> QED BY <1>2, <1>4, <1>5, <1>6, Zenon DEF Inv

-----------------------------------------------------------------------------
\* Of the bytes that wait, those behind the last whole block of the message.
LEMMA FinalNumbers ==
  ASSUME NEW x \in Nat, NEW r \in Nat, NEW n \in Nat
  PROVE  x + r = n /\ Aligned(x) /\ r <= sc_bufSize - 1 =>
           LET first == IF r >= sc_blockSize THEN sc_blockSize ELSE 0
           IN  /\ first <= r /\ r - first \in 0 .. sc_blockSize - 1
               /\ x + first = WholeBlocks(n)
               /\ n - WholeBlocks(n) = r - first
               /\ first + sc_blockSize <= sc_bufSize
  BY DEF Aligned, WholeBlocks, sc_blockSize, sc_bufSize

\* The last block is a block.
LEMMA LastBlockType ==
  ASSUME NEW bytes \in Seq(Byte), NEW r \in 0 .. sc_blockSize - 1, Len(bytes) = r
  PROVE  /\ LastBlock(bytes, r) \in Seq(Byte) /\ Len(LastBlock(bytes, r)) = sc_blockSize
         /\ \A j \in 1 .. r : LastBlock(bytes, r)[j] = bytes[j]
  <1> DEFINE padded == Padded(bytes, sc_blockSize)
             last == LastBlock(bytes, r)
  <1>1. r \in Byte /\ 0 \in Byte /\ r < sc_blockSize /\ sc_blockSize \in 1 .. sc_blockSize
        /\ sc_blockSize \in Nat /\ r \in Nat
    BY DEF Byte, sc_blockSize
  <1>2. \A i \in 1 .. sc_blockSize : (IF i <= Len(bytes) THEN bytes[i] ELSE 0) \in Byte
    BY <1>1
  <1>3. padded \in [1 .. sc_blockSize -> Byte]
    BY <1>2, Zenon DEF Padded
  <1>4. \A j \in 1 .. r : padded[j] = bytes[j] /\ j # sc_blockSize /\ j \in 1 .. sc_blockSize
    BY <1>1 DEF Padded
  <1>5. last = [padded EXCEPT ![sc_blockSize] = r]
    BY Zenon DEF LastBlock
  <1> HIDE DEF padded, last
  <1>6. last \in [1 .. sc_blockSize -> Byte]
    BY <1>1, <1>3, <1>5
  <1>7. \A j \in 1 .. r : last[j] = padded[j]
    BY <1>3, <1>4, <1>5
  <1>8. last \in Seq(Byte) /\ Len(last) = sc_blockSize
    BY <1>1, <1>6
  <1> QED BY <1>4, <1>7, <1>8 DEF last

\* The padding of the last block, stored behind what is left of a buffer.
Pads(b, first, r, last) ==
  LET padded == Store(b, first + r, SubSeq(last, r + 1, sc_blockSize))
  IN  /\ padded \in Seq(Byte) /\ Len(padded) = Len(b)
      /\ Load(padded, 0, first + r) = Load(b, 0, first + r)
      /\ Load(padded, first, sc_blockSize) = last

\* Padding behind what is left in a buffer completes it to the last block.
LEMMA PaddedInPlace ==
  ASSUME NEW b \in Seq(Byte), NEW first \in Nat, NEW r \in 0 .. sc_blockSize - 1,
         first + sc_blockSize <= Len(b),
         NEW last \in Seq(Byte), Len(last) = sc_blockSize,
         \A j \in 1 .. r : last[j] = b[first + j]
  PROVE  Pads(b, first, r, last)
  <1> DEFINE padding == SubSeq(last, r + 1, sc_blockSize)
             padded  == Store(b, first + r, padding)
  <1>1. /\ r \in Nat /\ sc_blockSize \in Nat /\ r < sc_blockSize /\ Len(b) \in Nat
        /\ first + r \in Nat
    BY DEF sc_blockSize
  <1>2. padding \in Seq(Byte) /\ Len(padding) = sc_blockSize - r
        /\ \A j \in 1 .. sc_blockSize - r : padding[j] = last[r + j]
    BY <1>1
  <1> HIDE DEF padding
  <1>3. (first + r) + Len(padding) <= Len(b)
    BY <1>1, <1>2
  <1>4. padded \in Seq(Byte) /\ Len(padded) = Len(b)
    BY <1>1, <1>2, StoreType
  <1>5. Load(padded, 0, first + r) = Load(b, 0, first + r)
    <2> DEFINE i == first + r
    <2>1. i \in Nat /\ i <= i /\ i + Len(padding) <= Len(b)
      BY <1>1, <1>3
    <2> HIDE DEF i
    <2>2. Load(Store(b, i, padding), 0, i) = Load(b, 0, i)
      BY <1>2, <2>1, LoadBefore
    <2> QED BY <2>2 DEF i
  <1>6. \A j \in 1 .. sc_blockSize : padded[first + j] = last[j]
    <2> SUFFICES ASSUME NEW j \in 1 .. sc_blockSize PROVE padded[first + j] = last[j]
      OBVIOUS
    <2>1. first + j \in 1 .. Len(b) /\ j \in Nat
      BY <1>1
    <2>2. CASE j <= r
      <3>1. padded[first + j] = b[first + j]
        BY <1>1, <2>1, <2>2 DEF Store
      <3> QED BY <1>1, <2>1, <2>2, <3>1
    <2>3. CASE ~(j <= r)
      <3>1. first + j \in (first + r) + 1 .. (first + r) + Len(padding)
            /\ (first + j) - (first + r) = j - r
        BY <1>1, <1>2, <2>1, <2>3
      <3>2. padded[first + j] = padding[j - r]
        BY <2>1, <3>1 DEF Store
      <3>3. j - r \in 1 .. sc_blockSize - r /\ r + (j - r) = j
        BY <1>1, <2>1, <2>3
      <3> QED BY <1>2, <3>2, <3>3
    <2> QED BY <2>2, <2>3
  <1> HIDE DEF padded
  <1>7. Load(padded, first, sc_blockSize) = Load(last, 0, sc_blockSize)
    <2>1. ASSUME NEW j \in 1 .. sc_blockSize
          PROVE  At(padded, first + j - 1) = At(last, 0 + j - 1)
      <3>1. padded[first + j] = last[j]
        BY <1>6
      <3> QED BY <1>1, <1>4, <3>1 DEF At
    <2> QED BY <2>1 DEF Load
  <1>8. Load(last, 0, sc_blockSize) = last
    BY LoadWhole
  <1> QED BY <1>4, <1>5, <1>7, <1>8, Zenon DEF Pads, padded, padding

\* The bytes at i of a buffer are those at j of the message.
LoadsAlike(b, i, m, j, k) == Load(b, i, k) = Load(m, j, k)

\* What waits in a buffer is, part by part, what the message has there.
LEMMA PartEqual ==
  ASSUME NEW b \in Seq(Byte), NEW m \in Seq(Byte), NEW x \in Nat, NEW r \in Nat,
         NEW i \in Nat, NEW k \in Nat, NEW y \in Nat
  PROVE  LoadsAlike(b, 0, m, x, r) /\ i + k <= r /\ y = x + i => LoadsAlike(b, i, m, y, k)
  <1> SUFFICES ASSUME Load(b, 0, r) = Load(m, x, r), i + k <= r, y = x + i
               PROVE  Load(b, i, k) = Load(m, y, k)
    BY DEF LoadsAlike
  <1>1. ASSUME NEW j \in 1 .. k PROVE At(b, i + j - 1) = At(m, y + j - 1)
    <2>1. i + j \in 1 .. r
      OBVIOUS
    <2>2. Load(b, 0, r)[i + j] = Load(m, x, r)[i + j]
      OBVIOUS
    <2>3. Load(b, 0, r)[i + j] = At(b, 0 + (i + j) - 1) /\ Load(m, x, r)[i + j] = At(m, x + (i + j) - 1)
      BY <2>1 DEF Load
    <2>4. 0 + (i + j) - 1 = i + j - 1 /\ x + (i + j) - 1 = y + j - 1
      BY <2>1
    <2> QED BY <2>2, <2>3, <2>4
  <1> QED BY <1>1 DEF Load

\* The same of its beginning.
LEMMA BeginningEqual ==
  ASSUME NEW b \in Seq(Byte), NEW m \in Seq(Byte), NEW x \in Nat, NEW r \in Nat, NEW k \in Nat
  PROVE  Load(b, 0, r) = Load(m, x, r) /\ k <= r => Load(b, 0, k) = Load(m, x, k)
  <1>1. 0 \in Nat /\ 0 + k = k /\ x + 0 = x
    OBVIOUS
  <1>2. LoadsAlike(b, 0, m, x, r) /\ k <= r => LoadsAlike(b, 0, m, x, k)
    BY <1>1, PartEqual
  <1> QED BY <1>2, Zenon DEF LoadsAlike

\* The one-shot hash of a long message.
LEMMA LongHash128 ==
  ASSUME NEW s, NEW m \in Seq(Byte), ~(Len(m) < sc_bufSize)
  PROVE  LET whole == WholeBlocks(Len(m))
             rest  == Len(m) - whole
         IN  Hash128(s, m) = End(Both(s, Load(m, 0, whole)), LastBlock(Load(m, whole, rest), rest))
  <1> DEFINE whole == WholeBlocks(Len(m))
             rest  == Len(m) - whole
             start == [head |-> Fresh(s), rest |-> Fresh(s)]
             blocks == Load(m, 0, whole)
  <1>1. Hash128(s, m) = End(Mix(start, blocks), LastBlock(Load(m, whole, rest), rest))
    BY Zenon DEF Hash128
  <1>2. start = Both(s, <<>>)
    BY DEF Fresh, Both
  <1>3. blocks \in Seq(Byte) /\ <<>> \in Seq(Byte) /\ <<>> \o blocks = blocks
    <2>1. whole \in Nat /\ whole <= Len(m)
      BY BlockFacts
    <2>2. blocks \in Seq(Byte)
      <3> HIDE DEF whole
      <3> QED BY <2>1, LoadType
    <2> HIDE DEF blocks
    <2> QED BY <2>2
  <1> HIDE DEF blocks, start
  <1>4. Mix(Both(s, <<>>), blocks) = Both(s, <<>> \o blocks)
    BY <1>3, MixBoth
  <1> QED BY <1>1, <1>2, <1>3, <1>4, Zenon DEF blocks

\* Final on a long message: it is the one-shot hash, and although the padding is
\* written into m_data, the members still hold the message.
LEMMA FinalLongHolds ==
  ASSUME Inv, FinalLong
  PROVE  /\ Holds(m_data', m_state, m_length, m_remainder, seed, message)
         /\ digest' = Hash128(seed, message)
  <1> DEFINE n == Len(message)
             r == m_remainder
             x == m_length - m_remainder
             first == FirstBlock
             rest == r - first
             waiting == Load(m_data, first, rest)
             last == LastBlock(waiting, rest)
             padding == SubSeq(last, rest + 1, sc_blockSize)
             words == IF first > 0 THEN Mix(m_state, Load(m_data, 0, first)) ELSE m_state
             whole == WholeBlocks(n)
  <1>1. /\ m_length >= sc_bufSize
        /\ m_data' = Store(m_data, first + rest, padding)
        /\ digest' = End(words, Load(m_data', first, sc_blockSize))
    BY Zenon DEF FinalLong
  <1>2. /\ message \in Seq(Byte) /\ m_length = n /\ n \in Nat /\ r \in Nat
        /\ r <= sc_bufSize - 1 /\ x \in Nat /\ x + r = n /\ Aligned(x)
        /\ m_data \in Seq(Byte) /\ Len(m_data) = sc_bufSize
    BY HoldsNumbers DEF Inv
  <1>3. /\ first \in Nat /\ first <= r /\ rest \in 0 .. sc_blockSize - 1
        /\ x + first = whole /\ n - whole = rest
        /\ first + sc_blockSize <= sc_bufSize
        /\ first = 0 \/ first = sc_blockSize
    <2>1. first = IF r >= sc_blockSize THEN sc_blockSize ELSE 0
      BY DEF FirstBlock
    <2>2. first \in Nat /\ (first = 0 \/ first = sc_blockSize)
      BY DEF FirstBlock, sc_blockSize
    <2> HIDE DEF n, r, x, first
    <2> QED BY <1>2, <2>1, <2>2, FinalNumbers
  <1>4. /\ rest \in Nat /\ first + rest = r /\ first + rest <= Len(m_data) /\ first \in Int /\ first >= 0
        /\ whole \in Nat /\ whole + rest = n /\ x <= n
    <2> HIDE DEF n, r, x, first, whole
    <2>1. rest \in Nat /\ first + rest = r
      BY <1>2, <1>3
    <2>2. r <= sc_bufSize
      BY <1>2 DEF sc_bufSize
    <2> QED BY <1>2, <1>3, <2>1, <2>2
  <1>5. /\ m_state = Both(seed, Load(message, 0, x))
        /\ Load(m_data, 0, r) = Load(message, x, r)
        /\ Load(message, 0, x) \in Seq(Byte)
    <2>1. /\ m_state = [head |-> m_state.head, rest |-> m_state.rest]
          /\ m_state.head = [seed |-> seed, mixed |-> Load(message, 0, x)]
          /\ m_state.rest = m_state.head
          /\ Load(m_data, 0, r) = Load(message, x, r)
      BY <1>1 DEF Inv, Holds
    <2>2. Load(message, 0, x) \in Seq(Byte)
      <3>1. 0 \in Int /\ 0 + x <= Len(message)
        BY <1>2, <1>4
      <3> HIDE DEF x
      <3> QED BY <1>2, <3>1, LoadType
    <2> HIDE DEF x, r
    <2> QED BY <2>1, <2>2, Zenon DEF Both
  <1>6. waiting \in Seq(Byte) /\ Len(waiting) = rest
        /\ \A j \in 1 .. rest : waiting[j] = m_data[first + j]
    <2> HIDE DEF first, rest
    <2>1. waiting \in Seq(Byte) /\ Len(waiting) = rest
          /\ \A j \in 1 .. rest : waiting[j] = At(m_data, first + j - 1)
      BY <1>2, <1>4, LoadType
    <2>2. ASSUME NEW j \in 1 .. rest PROVE At(m_data, first + j - 1) = m_data[first + j]
      <3>1. first + j - 1 \in 0 .. Len(m_data) - 1 /\ (first + j - 1) + 1 = first + j
        BY <1>2, <1>3, <1>4, BufferAligned
      <3> QED BY <3>1 DEF At
    <2> QED BY <2>1, <2>2
  <1>7. last \in Seq(Byte) /\ Len(last) = sc_blockSize
        /\ \A j \in 1 .. rest : last[j] = m_data[first + j]
    <2> HIDE DEF rest, waiting, first
    <2>1. /\ last \in Seq(Byte) /\ Len(last) = sc_blockSize
          /\ \A j \in 1 .. rest : last[j] = waiting[j]
      BY <1>3, <1>6, LastBlockType
    <2> HIDE DEF last
    <2> QED BY <1>6, <2>1, Zenon
  <1>8. /\ m_data' \in Seq(Byte) /\ Len(m_data') = sc_bufSize
        /\ Load(m_data', 0, r) = Load(m_data, 0, r)
        /\ Load(m_data', first, sc_blockSize) = last
    <2> HIDE DEF rest, last, first, r
    <2>1. first + sc_blockSize <= Len(m_data)
      BY <1>2, <1>3
    <2>2. Pads(m_data, first, rest, last)
      BY <1>2, <1>3, <1>7, <2>1, PaddedInPlace
    <2> QED BY <1>1, <1>2, <1>4, <2>2, Zenon DEF Pads
  <1>9. Holds(m_data', m_state, m_length, m_remainder, seed, message)
    <2>1. Holds(m_data, m_state, m_length, m_remainder, seed, message)
      BY DEF Inv
    <2>2. /\ m_data' \in Seq(Byte) /\ Len(m_data') = sc_bufSize
          /\ Load(m_data', 0, m_remainder) = Load(m_data, 0, m_remainder)
      BY <1>8
    <2> QED BY <2>1, <2>2, Zenon DEF Holds
  <1>10. words = Both(seed, Load(message, 0, whole))
    <2>1. CASE first = 0
      <3>1. whole = x /\ ~(first > 0)
        BY <1>2, <1>3, <2>1
      <3> HIDE DEF whole, x, first
      <3> QED BY <1>5, <3>1
    <2>2. CASE first = sc_blockSize
      <3> DEFINE block == Load(m_data, 0, first)
      <3>1. first > 0 /\ first <= Len(m_data) /\ 0 \in Int /\ 0 + first <= Len(m_data)
        BY <1>2, <1>3, <2>2 DEF sc_blockSize
      <3>2. block \in Seq(Byte)
        <4> HIDE DEF first
        <4> QED BY <1>2, <1>3, <3>1, LoadType
      <3>3. block = Load(message, x, first)
        <4> HIDE DEF first, x, r, n
        <4> QED BY <1>2, <1>3, <1>5, BeginningEqual
      <3>4. Load(message, 0, x) \o Load(message, x, first) = Load(message, 0, whole)
        <4>1. Load(message, 0, x) \o Load(message, x, first) = Load(message, 0, x + first)
          <5> HIDE DEF x, first
          <5> QED BY <1>2, <1>3, LoadPrefix
        <4> QED BY <1>3, <4>1
      <3> DEFINE mixed == Load(message, 0, x)
      <3> HIDE DEF block, mixed, whole, x, first
      <3>5. Mix(Both(seed, mixed), block) = Both(seed, mixed \o block)
        BY <1>5, <3>2, MixBoth DEF mixed
      <3>6. words = Mix(m_state, block)
        BY <3>1 DEF block
      <3> QED BY <1>5, <3>3, <3>4, <3>5, <3>6 DEF mixed
    <2> QED BY <1>3, <2>1, <2>2
  <1>3a. waiting = Load(message, whole, rest)
    <2>1. Load(m_data, first, rest) = Load(message, x + first, rest)
      <3>1. first + rest <= r
        BY <1>4
      <3>2. LoadsAlike(m_data, 0, message, x, r)
        BY <1>5 DEF LoadsAlike
      <3> DEFINE y == x + first
      <3>3. y \in Nat /\ y = x + first
        BY <1>3, <1>4
      <3> HIDE DEF first, rest, x, r, n, y
      <3>4. LoadsAlike(m_data, first, message, y, rest)
        BY <1>2, <1>3, <1>4, <3>1, <3>2, <3>3, PartEqual
      <3> QED BY <3>4, Zenon DEF LoadsAlike, y
    <2> QED BY <1>3, <2>1
  <1>12. digest' = Hash128(seed, message)
    <2>1. ~(n < sc_bufSize)
      <3> HIDE DEF n
      <3> QED BY <1>1, <1>2 DEF sc_bufSize
    <2>2. Hash128(seed, message) = End(Both(seed, Load(message, 0, whole)),
                                       LastBlock(Load(message, whole, n - whole), n - whole))
      BY <1>2, <2>1, LongHash128
    <2> HIDE DEF n, words, whole, rest, first
    <2> QED BY <1>1, <1>3, <1>8, <1>10, <1>3a, <2>2
  <1> QED BY <1>9, <1>12

\* Short reads nothing but the message.
LEMMA ShortEqual ==
  ASSUME NEW b \in Seq(Byte), NEW m \in Seq(Byte), NEW n \in Nat, NEW words
  PROVE  LoadsAlike(b, 0, m, 0, n) => Short(b, n, words) = Short(m, n, words)
  <1> SUFFICES ASSUME LoadsAlike(b, 0, m, 0, n)
               PROVE  Short(b, n, words) = Short(m, n, words)
    OBVIOUS
  <1> DEFINE remainder == n % 16
             pairs == n - remainder
  <1>1. /\ remainder \in Nat /\ pairs \in Nat /\ pairs + remainder <= n
        /\ 0 + pairs <= n /\ 0 = 0 + 0 /\ pairs = 0 + pairs /\ 0 \in Nat
    OBVIOUS
  <1> HIDE DEF remainder, pairs
  <1>2. Load(b, 0, pairs) = Load(m, 0, pairs)
    <2>1. LoadsAlike(b, 0, m, 0, pairs)
      BY <1>1, PartEqual
    <2> QED BY <2>1, Zenon DEF LoadsAlike
  <1>3. Load(b, pairs, remainder) = Load(m, pairs, remainder)
    <2>1. LoadsAlike(b, pairs, m, pairs, remainder)
      BY <1>1, PartEqual
    <2> QED BY <2>1, Zenon DEF LoadsAlike
  <1>4. LastPair(b, pairs, remainder) = LastPair(m, pairs, remainder)
    BY <1>3, Zenon DEF LastPair
  <1> QED BY <1>2, <1>4, Zenon DEF Short, remainder, pairs

\* Final on a short message is the one-shot hash.
LEMMA FinalShortReports ==
  ASSUME Inv, FinalShort
  PROVE  digest' = Hash128(seed, message)
  <1> DEFINE n == Len(message)
  <1>1. m_length < sc_bufSize /\ digest' = Short(m_data, m_length, m_state.head)
    BY DEF FinalShort
  <1>2. /\ message \in Seq(Byte) /\ m_length = n /\ n \in Nat
        /\ m_data \in Seq(Byte)
    BY HoldsNumbers DEF Inv
  <1>3. /\ m_remainder = n
        /\ m_state.head = [seed |-> seed, mixed |-> Load(message, 0, m_length - m_remainder)]
        /\ Load(m_data, 0, m_remainder) = Load(message, m_length - m_remainder, m_remainder)
    BY <1>1 DEF Inv, Holds
  <1>4. m_length - m_remainder = 0
    BY <1>2, <1>3
  <1>5. m_state.head = Fresh(seed)
    BY <1>2, <1>3, <1>4, LoadNothing DEF Fresh
  <1>6. LoadsAlike(m_data, 0, message, 0, n)
    BY <1>3, <1>4 DEF LoadsAlike
  <1> HIDE DEF n
  <1>7. Short(m_data, n, Fresh(seed)) = Short(message, n, Fresh(seed))
    BY <1>2, <1>6, ShortEqual
  <1>8. Hash128(seed, message) = Short(message, n, Fresh(seed))
    BY <1>1, <1>2, Zenon DEF Hash128, n
  <1> QED BY <1>1, <1>2, <1>5, <1>7, <1>8, Zenon

\* After Init of the object the members hold the empty message.
LEMMA InitInv == Init => Inv
  <1> SUFFICES ASSUME Init PROVE Inv
    OBVIOUS
  <1> DEFINE rest == [seed |-> seed, mixed |-> <<NoByte>>]
  <1>1. /\ seed \in Seeds /\ message = <<>> /\ m_data \in Stale
        /\ m_state = [head |-> Fresh(seed), rest |-> rest]
        /\ m_length = 0 /\ m_remainder = 0
    BY DEF Init
  <1>2. m_data \in Seq(Byte) /\ Len(m_data) = sc_bufSize
    BY <1>1, Parameters, Zenon
  <1> HIDE DEF rest
  <1>3. Holds(m_data, [head |-> Fresh(seed), rest |-> rest], 0, 0, seed, <<>>)
    BY <1>2, NewHolds
  <1>4. message \in Seq(Byte)
    BY <1>1
  <1> QED BY <1>1, <1>3, <1>4, Zenon DEF Inv

\* Every call preserves the invariant.
LEMMA NextInv == Inv /\ [Next]_vars => Inv'
  <1> SUFFICES ASSUME Inv, [Next]_vars PROVE Inv'
    OBVIOUS
  <1>1. CASE SpookyInit
    <2> DEFINE rest == m_state.rest
    <2>1. /\ seed' \in Seeds /\ message' = <<>> /\ m_data' = m_data
          /\ m_state' = [head |-> Fresh(seed'), rest |-> rest]
          /\ m_length' = 0 /\ m_remainder' = 0
      BY <1>1 DEF SpookyInit
    <2>2. m_data \in Seq(Byte) /\ Len(m_data) = sc_bufSize
      BY DEF Inv, Holds
    <2> HIDE DEF rest
    <2>3. Holds(m_data, [head |-> Fresh(seed'), rest |-> rest], 0, 0, seed', <<>>)
      BY <2>2, NewHolds
    <2>4. message' \in Seq(Byte)
      BY <2>1
    <2> QED BY <2>1, <2>3, <2>4, Zenon DEF Inv
  <1>2. CASE Update
    BY <1>2, UpdateHolds
  <1>3. CASE FinalShort
    <2>1. UNCHANGED <<m_data, m_state, m_length, m_remainder, seed, message>>
      BY <1>3 DEF FinalShort, members
    <2> QED BY <2>1, Zenon DEF Inv
  <1>4. CASE FinalLong
    <2>1. UNCHANGED <<m_state, m_length, m_remainder, seed, message>>
      BY <1>4 DEF FinalLong
    <2>2. Holds(m_data', m_state, m_length, m_remainder, seed, message)
      BY <1>4, FinalLongHolds
    <2>3. seed \in Seeds /\ message \in Seq(Byte)
      BY DEF Inv
    <2> QED BY <2>1, <2>2, <2>3, Zenon DEF Inv
  <1>5. CASE UNCHANGED vars
    <2>1. UNCHANGED <<m_data, m_state, m_length, m_remainder, seed, message>>
      BY <1>5 DEF vars
    <2> QED BY <2>1, Zenon DEF Inv
  <1> QED BY <1>1, <1>2, <1>3, <1>4, <1>5 DEF Next

\* The invariant holds throughout.
LEMMA Invariant == Spec => []Inv
  BY InitInv, NextInv, PTL DEF Spec

\* The members keep their types: there is room left in m_data between two calls,
\* and what waits there fits in the byte that counts it (SpookyV2.cpp:298).
THEOREM TypeCorrect == Spec => []TypeOK
  <1>1. Inv => TypeOK
    <2> SUFFICES ASSUME Inv PROVE TypeOK
      OBVIOUS
    <2> DEFINE x == m_length - m_remainder
    <2>1. /\ message \in Seq(Byte) /\ seed \in Seeds /\ m_length \in Nat
          /\ m_data \in Seq(Byte) /\ Len(m_data) = sc_bufSize
          /\ m_remainder \in 0 .. sc_bufSize - 1
          /\ m_state.head = [seed |-> seed, mixed |-> Load(message, 0, x)]
      BY HoldsNumbers DEF Inv, Holds
    <2>2. x \in Nat /\ 0 \in Int /\ 0 >= 0 /\ 0 + x <= Len(message)
      BY HoldsNumbers DEF Inv
    <2> HIDE DEF x
    <2>3. Load(message, 0, x) \in Seq(Byte)
      BY <2>1, <2>2, LoadType
    <2> QED BY <2>1, <2>3 DEF TypeOK
  <1> QED BY <1>1, Invariant, PTL

\* However a message is cut and whenever Final is called, the members hold the
\* message: its blocks mixed in once and in order, the rest waiting, and all
\* twelve words of one message as soon as their use is told by the length alone
\* (SpookyV2.cpp:202-302).
THEOREM StateDescribed == Spec => []StateDescribesMessage
  <1>1. Inv => StateDescribesMessage
    BY DEF Inv, Holds, Aligned, StateDescribesMessage, MixedLength
  <1> QED BY <1>1, Invariant, PTL

\* "The result is the same as if SpookyHash() had been called with all the pieces
\* concatenated into one message" (SpookyV2.h:106), and updating may go on.
THEOREM Implements == Spec => ImplementsStreamingHash
  <1>1. Init => Promise!Init
    BY DEF Init, Promise!Init
  <1>2. Inv /\ [Next]_vars => [Promise!Next]_(Promise!vars)
    <2> SUFFICES ASSUME Inv, [Next]_vars PROVE [Promise!Next]_(Promise!vars)
      OBVIOUS
    <2>1. CASE SpookyInit
      BY <2>1 DEF SpookyInit, Promise!Start, Promise!Next
    <2>2. CASE Update
      <3>1. Len(message) \in DOMAIN Fragments /\ UNCHANGED seed /\ digest' = Promise!NoDigest
        BY <2>2 DEF Update
      <3>2. PICK piece \in Fragments[Len(message)] : message' = message \o piece
        BY <2>2 DEF Update
      <3>3. piece \in Seq(Byte) /\ message \in Seq(Byte)
        BY <3>1, Parameters, Zenon DEF Inv
      <3>4. Len(message) <= Len(message \o piece)
            /\ SubSeq(message \o piece, 1, Len(message)) = message
        BY <3>3
      <3>5. Promise!Extend
        BY <3>1, <3>2, <3>4 DEF Promise!Extend
      <3> QED BY <3>5 DEF Promise!Next
    <2>3. CASE FinalShort
      <3>1. UNCHANGED <<seed, message>>
        BY <2>3 DEF FinalShort
      <3>2. digest' = Hash128(seed, message)
        BY <2>3, FinalShortReports
      <3>3. Promise!Report
        BY <3>1, <3>2 DEF Promise!Report
      <3> QED BY <3>3 DEF Promise!Next
    <2>4. CASE FinalLong
      <3>1. UNCHANGED <<seed, message>>
        BY <2>4 DEF FinalLong
      <3>2. digest' = Hash128(seed, message)
        BY <2>4, FinalLongHolds
      <3>3. Promise!Report
        BY <3>1, <3>2 DEF Promise!Report
      <3> QED BY <3>3 DEF Promise!Next
    <2>5. CASE UNCHANGED vars
      BY <2>5 DEF vars, Promise!vars
    <2> QED BY <2>1, <2>2, <2>3, <2>4, <2>5 DEF Next
  <1> QED BY <1>1, <1>2, Invariant, PTL DEF Spec, ImplementsStreamingHash, Promise!Spec

-----------------------------------------------------------------------------
\* What a digest depends on

\* Padding keeps the bytes before it.
LEMMA PaddedRest ==
  ASSUME NEW bytes \in Seq(Byte), NEW size \in Nat, Len(bytes) <= size
  PROVE  SubSeq(Padded(bytes, size), 1, Len(bytes)) = bytes
  <1> DEFINE padded == Padded(bytes, size)
             n == Len(bytes)
  <1>1. n \in Nat /\ n <= size /\ 0 \in Byte
    BY DEF Byte
  <1>2. \A i \in 1 .. size : (IF i <= n THEN bytes[i] ELSE 0) \in Byte
    BY <1>1
  <1>3. padded \in [1 .. size -> Byte] /\ \A i \in 1 .. n : padded[i] = bytes[i]
    BY <1>1, <1>2 DEF Padded
  <1> HIDE DEF padded
  <1>4. padded \in Seq(Byte) /\ Len(padded) = size
    BY <1>1, <1>3
  <1>5. /\ SubSeq(padded, 1, n) \in Seq(Byte) /\ Len(SubSeq(padded, 1, n)) = n
        /\ \A i \in 1 .. n : SubSeq(padded, 1, n)[i] = padded[i]
    BY <1>1, <1>4
  <1> QED BY <1>1, <1>3, <1>5 DEF padded

\* The last 0 to 15 bytes are all among what is added to c and d.
LEMMA LastPairRest ==
  ASSUME NEW b \in Seq(Byte), NEW i \in Nat, NEW r \in 0 .. 15, i + r <= Len(b)
  PROVE  SubSeq(LastPair(b, i, r), 1, r) = Load(b, i, r)
  <1>1. CASE r = 0
    <2>1. SubSeq("sc_const", 1, 0) = <<>>
      OBVIOUS
    <2>2. Load(b, i, 0) = <<>>
      BY LoadNothing
    <2> QED BY <1>1, <2>1, <2>2, Zenon DEF LastPair
  <1>2. CASE r # 0
    <2> DEFINE bytes == Load(b, i, r)
    <2>1. bytes \in Seq(Byte) /\ Len(bytes) = r /\ r <= 15 /\ 15 \in Nat
      BY LoadType
    <2>2. LastPair(b, i, r) = Padded(bytes, 15)
      BY <1>2, Zenon DEF LastPair
    <2> HIDE DEF bytes
    <2>3. SubSeq(Padded(bytes, 15), 1, r) = bytes
      BY <2>1, PaddedRest
    <2> QED BY <2>2, <2>3, Zenon DEF bytes
  <1> QED BY <1>1, <1>2

\* The message, of the one-shot hash of a short one.
LEMMA ShortHasAll ==
  ASSUME NEW s, NEW m \in Seq(Byte), Len(m) < sc_bufSize, NEW dg, dg = Hash128(s, m)
  PROVE  dg.pairs \o SubSeq(dg.cd, 1, dg.length - Len(dg.pairs)) = m
  <1> DEFINE n == Len(m)
             r == n % 16
             pairs == n - r
  <1>1. dg = Short(m, n, Fresh(s))
    BY Zenon DEF Hash128
  <1>2. n \in 0 .. sc_bufSize - 1 /\ n \in Nat
    <2>1. n \in Nat /\ n < sc_bufSize
      OBVIOUS
    <2> HIDE DEF n
    <2> QED BY <2>1 DEF sc_bufSize
  <1>3. uint8(n) = n
    BY <1>2, ByteKeepsCounts
  <1>4. r \in 0 .. 15 /\ r \in Nat /\ pairs \in Nat /\ pairs + r = n /\ n - pairs = r
    BY <1>2
  <1>5. dg.pairs = Load(m, 0, pairs) /\ dg.cd = LastPair(m, pairs, r) /\ dg.length = n
    BY <1>1, <1>3 DEF Short
  <1> HIDE DEF r, pairs
  <1>6. Len(dg.pairs) = pairs
    BY <1>4, <1>5, LoadType
  <1>7. SubSeq(LastPair(m, pairs, r), 1, r) = Load(m, pairs, r)
    <2>1. pairs + r <= Len(m)
      BY <1>2, <1>4
    <2> QED BY <1>4, <2>1, LastPairRest
  <1>8. Load(m, 0, pairs) \o Load(m, pairs, r) = Load(m, 0, pairs + r)
    BY <1>4, LoadPrefix, Zenon
  <1>9. Load(m, 0, n) = m
    BY LoadWhole
  <1> QED BY <1>4, <1>5, <1>6, <1>7, <1>8, <1>9, Zenon

\* The message, of the one-shot hash of a long one.
LEMMA LongHasAll ==
  ASSUME NEW s, NEW m \in Seq(Byte), ~(Len(m) < sc_bufSize), NEW dg, dg = Hash128(s, m)
  PROVE  dg.words.head.mixed \o SubSeq(dg.last, 1, dg.last[sc_blockSize]) = m
  <1> DEFINE whole == WholeBlocks(Len(m))
             rest  == Len(m) - whole
             bytes == Load(m, whole, rest)
             last  == LastBlock(bytes, rest)
  <1>1. dg = End(Both(s, Load(m, 0, whole)), last)
    BY LongHash128
  <1>2. Len(m) \in Nat /\ whole \in Nat /\ rest \in 0 .. sc_blockSize - 1
    BY BlockFacts
  <1>3. whole + rest = Len(m)
    BY <1>2
  <1> HIDE DEF whole, rest
  <1>3a. rest \in Nat /\ rest \in Byte
    BY <1>2 DEF sc_blockSize, Byte
  <1>4. bytes \in Seq(Byte) /\ Len(bytes) = rest
    BY <1>2, <1>3, <1>3a, LoadType
  <1>5. dg.words.head.mixed = Load(m, 0, whole) /\ dg.last = last
    BY <1>1 DEF End, Both
  <1> HIDE DEF bytes
  <1>6. /\ last \in Seq(Byte) /\ Len(last) = sc_blockSize
        /\ \A j \in 1 .. rest : last[j] = bytes[j]
    BY <1>2, <1>4, LastBlockType
  <1>7. last[sc_blockSize] = rest
    <2>1. sc_blockSize \in 1 .. sc_blockSize
      BY DEF sc_blockSize
    <2> QED BY <2>1 DEF LastBlock, Padded
  <1> HIDE DEF last
  <1>8. SubSeq(last, 1, rest) = bytes
    <2>1. rest <= sc_blockSize
      BY <1>2 DEF sc_blockSize
    <2>2. /\ SubSeq(last, 1, rest) \in Seq(Byte) /\ Len(SubSeq(last, 1, rest)) = rest
          /\ \A j \in 1 .. rest : SubSeq(last, 1, rest)[j] = last[j]
      BY <1>3a, <1>6, <2>1
    <2> QED BY <1>3a, <1>4, <1>6, <2>2
  <1>9. Load(m, 0, whole) \o Load(m, whole, rest) = Load(m, 0, whole + rest)
    BY <1>2, <1>3a, LoadPrefix, Zenon
  <1>10. Load(m, 0, Len(m)) = m
    BY LoadWhole
  <1> QED BY <1>3, <1>5, <1>7, <1>8, <1>9, <1>10, Zenon DEF bytes

\* The message can be read back from a digest of it: padding hides no byte, a
\* padded one is told from a real one by the length in the last byte, and old
\* bytes of m_data do not get in (SpookyV2.cpp:306-359).
THEOREM DependsOnEveryByte == Spec => []EveryByteCounts
  <1>1. Init => EveryByteCounts
    BY DEF Init, EveryByteCounts
  <1>2. Inv /\ EveryByteCounts /\ [Next]_vars => EveryByteCounts'
    <2> SUFFICES ASSUME Inv, EveryByteCounts, [Next]_vars PROVE EveryByteCounts'
      OBVIOUS
    <2>1. m_length = Len(message) /\ message \in Seq(Byte)
      BY HoldsNumbers DEF Inv
    <2>2. CASE SpookyInit
      BY <2>2 DEF SpookyInit, EveryByteCounts
    <2>3. CASE Update
      BY <2>3 DEF Update, EveryByteCounts
    <2>4. CASE FinalShort
      <3>1. m_length < sc_bufSize /\ m_length' = m_length /\ message' = message
        BY <2>4 DEF FinalShort, members
      <3>2. digest' = Hash128(seed, message)
        BY <2>4, FinalShortReports
      <3>3. digest'.pairs \o SubSeq(digest'.cd, 1, digest'.length - Len(digest'.pairs)) = message
        BY <2>1, <3>1, <3>2, ShortHasAll
      <3> QED BY <3>1, <3>3, Zenon DEF EveryByteCounts, Recovered
    <2>5. CASE FinalLong
      <3>1. ~(m_length < sc_bufSize) /\ m_length' = m_length /\ message' = message
        BY <2>1, <2>5 DEF FinalLong, sc_bufSize
      <3>2. digest' = Hash128(seed, message)
        BY <2>5, FinalLongHolds
      <3>3. digest'.words.head.mixed \o SubSeq(digest'.last, 1, digest'.last[sc_blockSize]) = message
        BY <2>1, <3>1, <3>2, LongHasAll
      <3> QED BY <3>1, <3>3, Zenon DEF EveryByteCounts, Recovered
    <2>6. CASE UNCHANGED vars
      BY <2>6, Zenon DEF vars, EveryByteCounts, Recovered
    <2> QED BY <2>2, <2>3, <2>4, <2>5, <2>6 DEF Next
  <1> QED BY <1>1, <1>2, Invariant, PTL DEF Spec

=============================================================================
