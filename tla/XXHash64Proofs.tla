--------------------------- MODULE XXHash64Proofs ---------------------------
(***************************************************************************)
(* For every message, however it is cut into pieces and however often the  *)
(* hash is asked for, XXHash64 implements StreamingHash.                   *)
(***************************************************************************)
EXTENDS XXHash64, BufferProofs

\* What the proofs use of the constants.
LEMMA Parameters ==
  /\ \A n \in DOMAIN Fragments : \A piece \in Fragments[n] : piece \in Seq(Byte)
  /\ \A buffer \in Garbage : buffer \in Seq(Byte) /\ Len(buffer) = MaxBufferSize
  /\ \E buffer \in Garbage : TRUE
  BY XXHash64Assumption, Zenon DEF XXHash64Assumption

\* Whole blocks: what is left behind them fits in the buffer with room to spare,
\* what still fits there adds none, and complete ones can be split off.
LEMMA WholeBlocksFacts ==
  ASSUME NEW n \in Nat, NEW k \in Nat
  PROVE  /\ WholeBlocks(n) \in Nat /\ WholeBlocks(n) <= n
         /\ n - WholeBlocks(n) \in 0 .. MaxBufferSize - 1
         /\ n < MaxBufferSize => WholeBlocks(n) = 0
         /\ n - WholeBlocks(n) + k < MaxBufferSize => WholeBlocks(n + k) = WholeBlocks(n)
         /\ WholeBlocks(n) = n => WholeBlocks(n + k) = n + WholeBlocks(k)
         /\ WholeBlocks(WholeBlocks(n)) = WholeBlocks(n)
         /\ WholeBlocks(WholeBlocks(n) + MaxBufferSize) = WholeBlocks(n) + MaxBufferSize
  BY DEF WholeBlocks, MaxBufferSize

\* Behind whole blocks, one more completes whole blocks.
LEMMA OneMoreBlock ==
  ASSUME NEW n \in Nat
  PROVE  WholeBlocks(WholeBlocks(n) + MaxBufferSize) = WholeBlocks(n) + MaxBufferSize
  BY DEF WholeBlocks, MaxBufferSize

\* Whole blocks, and nothing behind them.
Aligned(n) == WholeBlocks(n) = n

\* A hasher that describes a message, with the types of its members.
Holds(h, s, m) ==
  h \in Hashers /\ Len(h.buffer) = MaxBufferSize /\ StateDescribes(h, s, m)

\* A hasher, by its parts.
Hasher(s, processed, buffer, size, length) ==
  [state |-> [seed |-> s, processed |-> processed], buffer |-> buffer,
   bufferSize |-> size, totalLength |-> length]

\* How many bytes of a message wait.
Waiting(m) == Len(m) - WholeBlocks(Len(m))

\* The numbers that a message determines are in range.
LEMMA MessageNumbers ==
  ASSUME NEW m \in Seq(Byte)
  PROVE  /\ Len(m) \in Nat /\ WholeBlocks(Len(m)) \in Nat
         /\ Waiting(m) \in Nat /\ Waiting(m) \in 0 .. MaxBufferSize - 1
         /\ WholeBlocks(Len(m)) + Waiting(m) = Len(m)
         /\ WholeBlocks(Len(m)) <= Len(m)
  <1>1. Len(m) \in Nat
    OBVIOUS
  <1>2. WholeBlocks(Len(m)) \in Nat /\ WholeBlocks(Len(m)) <= Len(m)
        /\ Len(m) - WholeBlocks(Len(m)) \in 0 .. MaxBufferSize - 1
    BY <1>1, WholeBlocksFacts
  <1> QED BY <1>1, <1>2 DEF Waiting, MaxBufferSize

\* A hasher describes a message exactly if it has these parts.
LEMMA HasherHolds ==
  ASSUME NEW s \in Seeds, NEW m \in Seq(Byte), NEW b \in Seq(Byte), Len(b) = MaxBufferSize
  PROVE  Load(b, 0, Waiting(m)) = Load(m, WholeBlocks(Len(m)), Waiting(m)) =>
           Holds(Hasher(s, Load(m, 0, WholeBlocks(Len(m))), b, Waiting(m), Len(m)), s, m)
  <1> DEFINE h == Hasher(s, Load(m, 0, WholeBlocks(Len(m))), b, Waiting(m), Len(m))
  <1>1. Load(m, 0, WholeBlocks(Len(m))) \in Seq(Byte)
    BY MessageNumbers, LoadType
  <1>2. h \in Hashers
    BY <1>1, MessageNumbers DEF Hashers, Hasher
  <1>3. Len(h.buffer) = MaxBufferSize
    BY DEF Hasher
  <1>4. ASSUME Load(b, 0, Waiting(m)) = Load(m, WholeBlocks(Len(m)), Waiting(m))
        PROVE  StateDescribes(h, s, m)
    BY <1>4 DEF StateDescribes, Hasher, Waiting
  <1> QED BY <1>2, <1>3, <1>4 DEF Holds

\* A hasher that describes a message has these parts.
LEMMA HoldsHasher ==
  ASSUME NEW s \in Seeds, NEW m \in Seq(Byte), NEW h, Holds(h, s, m)
  PROVE  /\ h = Hasher(s, Load(m, 0, WholeBlocks(Len(m))), h.buffer, Waiting(m), Len(m))
         /\ h.buffer \in Seq(Byte) /\ Len(h.buffer) = MaxBufferSize
         /\ Load(h.buffer, 0, Waiting(m)) = Load(m, WholeBlocks(Len(m)), Waiting(m))
  <1>1. h \in Hashers /\ Len(h.buffer) = MaxBufferSize /\ StateDescribes(h, s, m)
    BY DEF Holds
  <1>2. h.state = [seed |-> s, processed |-> Load(m, 0, WholeBlocks(Len(m)))]
        /\ h.bufferSize = Waiting(m) /\ h.totalLength = Len(m)
    BY <1>1 DEF StateDescribes, Waiting
  <1>3. Load(h.buffer, 0, Waiting(m)) = Load(m, WholeBlocks(Len(m)), Waiting(m))
    BY <1>1, <1>2 DEF StateDescribes
  <1>4. h = [state |-> h.state, buffer |-> h.buffer, bufferSize |-> h.bufferSize,
             totalLength |-> h.totalLength] /\ h.buffer \in Seq(Byte)
    BY <1>1 DEF Hashers
  <1> QED BY <1>1, <1>2, <1>3, <1>4 DEF Hasher

\* What adding does to the parts of a hasher.
LEMMA AddToBufferParts ==
  ASSUME NEW s, NEW p, NEW b, NEW r \in Nat, NEW n \in Nat, NEW d \in Seq(Byte)
  PROVE  AddToBuffer(Hasher(s, p, b, r, n), d)
           = Hasher(s, p, Store(b, r, d), r + Len(d), n + Len(d))
  <1> DEFINE h == Hasher(s, p, b, r, n)
  <1>1. h.state = [seed |-> s, processed |-> p] /\ h.buffer = b /\ h.bufferSize = r
        /\ h.totalLength = n
    BY DEF Hasher
  <1> QED BY <1>1, Zenon DEF AddToBuffer, Hasher

\* Processing appends to what is processed.
LEMMA ProcessParts ==
  ASSUME NEW s, NEW p, NEW blocks
  PROVE  process([seed |-> s, processed |-> p], blocks) = [seed |-> s, processed |-> p \o blocks]
  <1> DEFINE state == [seed |-> s, processed |-> p]
             joined == p \o blocks
  <1>1. process(state, blocks) = [state EXCEPT !.processed = joined]
    BY DEF process
  <1> HIDE DEF joined
  <1>2. [state EXCEPT !.processed = joined] = [seed |-> s, processed |-> joined]
    OBVIOUS
  <1> QED BY <1>1, <1>2 DEF joined

\* Data beyond the buffer, when nothing waits: whole blocks are processed in place.
LEMMA AddBlocksEmpty ==
  ASSUME NEW s, NEW p, NEW b, NEW n \in Nat, NEW d \in Seq(Byte)
  PROVE  LET blocks == WholeBlocks(Len(d))
             rest   == Len(d) - blocks
         IN  AddBlocks(Hasher(s, p, b, 0, n), d)
               = Hasher(s, p \o Load(d, 0, blocks),
                        Store(Store(b, 0, Load(d, 0, 0)), 0, Load(d, blocks, rest)),
                        rest, n + Len(d))
  <1> DEFINE h == Hasher(s, p, b, 0, n)
             k == Len(d)
             blocks == WholeBlocks(k)
             rest == k - blocks
             filled == Store(b, 0, Load(d, 0, 0))
  <1>1. h.state = [seed |-> s, processed |-> p] /\ h.buffer = b /\ h.bufferSize = 0
        /\ h.totalLength = n
    BY DEF Hasher
  <1>2. k \in Nat /\ blocks \in Nat
    BY WholeBlocksFacts
  <1>3. k - 0 = k /\ 0 + blocks = blocks
    BY <1>2
  <1> HIDE DEF h, k
  <1>4. Missing(h) = 0
    BY <1>1 DEF Missing
  <1>5. AddBlocks(h, d) =
          [state |-> process([seed |-> s, processed |-> p], Load(d, 0, blocks)),
           buffer |-> Store(filled, 0, Load(d, blocks, rest)),
           bufferSize |-> rest, totalLength |-> n + k]
    <2>1. ~(h.bufferSize > 0)
      BY <1>1
    <2> QED BY <1>1, <1>3, <1>4, <2>1, Zenon DEF AddBlocks, k
  <1> QED BY <1>5, ProcessParts DEF Hasher, h, k

\* Data beyond the buffer, when bytes wait: they are completed to a block first.
LEMMA AddBlocksBuffered ==
  ASSUME NEW s, NEW p, NEW b, NEW r \in 1 .. MaxBufferSize - 1, NEW n \in Nat, NEW d \in Seq(Byte)
  PROVE  LET first  == MaxBufferSize - r
             filled == Store(b, r, Load(d, 0, first))
             blocks == WholeBlocks(Len(d) - first)
             rest   == Len(d) - first - blocks
         IN  AddBlocks(Hasher(s, p, b, r, n), d)
               = Hasher(s, (p \o filled) \o Load(d, first, blocks),
                        Store(filled, 0, Load(d, first + blocks, rest)),
                        rest, n + Len(d))
  <1> DEFINE h == Hasher(s, p, b, r, n)
             k == Len(d)
             first == MaxBufferSize - r
             filled == Store(b, r, Load(d, 0, first))
             blocks == WholeBlocks(k - first)
             rest == k - first - blocks
  <1>1. h.state = [seed |-> s, processed |-> p] /\ h.buffer = b /\ h.bufferSize = r
        /\ h.totalLength = n
    BY DEF Hasher
  <1> HIDE DEF h
  <1>2. h.bufferSize > 0
    BY <1>1
  <1>3. Missing(h) = first
    BY <1>1, <1>2 DEF Missing
  <1> HIDE DEF first
  <1>4. AddBlocks(h, d) =
          [state |-> process(process([seed |-> s, processed |-> p], filled),
                             Load(d, first, blocks)),
           buffer |-> Store(filled, 0, Load(d, first + blocks, rest)),
           bufferSize |-> rest, totalLength |-> n + k]
    BY <1>1, <1>2, <1>3, Zenon DEF AddBlocks
  <1> DEFINE block == Load(d, first, blocks)
  <1>5. process([seed |-> s, processed |-> p], filled) = [seed |-> s, processed |-> p \o filled]
    BY ProcessParts, Zenon
  <1>6. process([seed |-> s, processed |-> p \o filled], block)
          = [seed |-> s, processed |-> (p \o filled) \o block]
    BY ProcessParts, Zenon
  <1> QED BY <1>4, <1>5, <1>6, Zenon DEF Hasher, h, first

\* A new hasher describes the empty message.
LEMMA NewHolds ==
  ASSUME NEW s \in Seeds, NEW buffer \in Garbage
  PROVE  Holds(XXHash64(s, buffer), s, <<>>)
  <1>1. buffer \in Seq(Byte) /\ Len(buffer) = MaxBufferSize
    BY Zenon, Parameters
  <1>2. <<>> \in Seq(Byte) /\ Len(<<>>) = 0 /\ WholeBlocks(0) = 0
    BY DEF WholeBlocks, MaxBufferSize
  <1>3. Waiting(<<>>) = 0
    BY <1>2 DEF Waiting
  <1>4. Load(<<>>, 0, 0) = <<>> /\ Load(buffer, 0, 0) = <<>>
    BY <1>1, <1>2, LoadNothing
  <1>5. XXHash64(s, buffer) = Hasher(s, <<>>, buffer, 0, 0)
    BY DEF XXHash64, Hasher
  <1> QED BY <1>1, <1>2, <1>3, <1>4, <1>5, HasherHolds

\* Data that still fits is appended to the bytes that wait.
LEMMA AddToBufferHolds ==
  ASSUME NEW s \in Seeds, NEW m \in Seq(Byte), NEW d \in Seq(Byte), NEW h,
         Holds(h, s, m)
  PROVE  Waiting(m) + Len(d) < MaxBufferSize => Holds(AddToBuffer(h, d), s, m \o d)
  <1> SUFFICES ASSUME Waiting(m) + Len(d) < MaxBufferSize
               PROVE  Holds(AddToBuffer(h, d), s, m \o d)
    OBVIOUS
  <1> DEFINE n == Len(m)
             k == Len(d)
             w == WholeBlocks(n)
             r == Waiting(m)
             b == h.buffer
             stored == Store(b, r, d)
  <1>1. n \in Nat /\ k \in Nat /\ w \in Nat /\ r \in Nat /\ w + r = n
    BY MessageNumbers
  <1>2. b \in Seq(Byte) /\ Len(b) = MaxBufferSize /\ Load(b, 0, r) = Load(m, w, r)
    BY HoldsHasher
  <1>3. AddToBuffer(h, d) = Hasher(s, Load(m, 0, w), stored, r + k, n + k)
    <2>1. h = Hasher(s, Load(m, 0, w), b, r, n)
      BY HoldsHasher
    <2>2. AddToBuffer(Hasher(s, Load(m, 0, w), b, r, n), d)
            = Hasher(s, Load(m, 0, w), stored, r + k, n + k)
      <3> DEFINE p == Load(m, 0, w)
      <3> HIDE DEF b, r, n, w, stored, p
      <3> QED BY <1>1, AddToBufferParts DEF k, stored
    <2> HIDE DEF b, r, n, w, stored
    <2> QED BY <2>1, <2>2
  <1>4. m \o d \in Seq(Byte) /\ Len(m \o d) = n + k
    BY LoadConcat, <1>1
  <1>5. WholeBlocks(n + k) = w
    BY <1>1, WholeBlocksFacts
  <1>6. Waiting(m \o d) = r + k
    BY <1>1, <1>4, <1>5 DEF Waiting
  <1>7. stored \in Seq(Byte) /\ Len(stored) = MaxBufferSize
    BY <1>1, <1>2, StoreType
  <1>8. Load(m \o d, 0, w) = Load(m, 0, w)
    BY LoadConcat, <1>1
  <1>9. r + k <= Len(b)
    BY <1>1, <1>2 DEF MaxBufferSize
  <1>10. Load(d, 0, k) = d
    BY LoadWhole
  <1> HIDE DEF n, k, w, r, b, stored
  <1>11. Load(stored, 0, r + k) = Load(m \o d, w, r + k)
    <2>1. Load(Store(b, r, Load(d, 0, k)), 0, r + k) = Load(m \o d, w, r + k)
      BY <1>1, <1>2, <1>9, StoreFollows DEF n, k
    <2> QED BY <2>1, <1>10 DEF stored
  <1> QED BY <1>3, <1>4, <1>5, <1>6, <1>7, <1>8, <1>11, HasherHolds

\* One block more of a message.
LEMMA LoadBlock ==
  ASSUME NEW m \in Seq(Byte), NEW k \in Nat
  PROVE  Load(m, 0, k) \o Load(m, k, MaxBufferSize) = Load(m, 0, k + MaxBufferSize)
  <1> DEFINE size == MaxBufferSize
  <1>1. size \in Nat
    BY DEF MaxBufferSize
  <1> HIDE DEF size
  <1>2. Load(m, 0, k) \o Load(m, k, size) = Load(m, 0, k + size)
    BY <1>1, LoadPrefix
  <1> QED BY <1>2 DEF size

\* Once the bytes that wait are completed to a block and processed, so are all
\* bytes up to a place in the data, and whole blocks they are.
LEMMA BlockCompleted ==
  ASSUME NEW m \in Seq(Byte), NEW d \in Seq(Byte), NEW b \in Seq(Byte), NEW first \in Nat
  PROVE  /\ Len(b) = MaxBufferSize /\ Waiting(m) + first = MaxBufferSize /\ first <= Len(d)
         /\ Load(b, 0, Waiting(m)) = Load(m, WholeBlocks(Len(m)), Waiting(m))
         => LET filled == Store(b, Waiting(m), Load(d, 0, first))
            IN  /\ filled \in Seq(Byte) /\ Len(filled) = MaxBufferSize
                /\ Load(m, 0, WholeBlocks(Len(m))) \o filled = Load(m \o d, 0, Len(m) + first)
                /\ Aligned(Len(m) + first)
  <1> DEFINE n == Len(m)
             w == WholeBlocks(n)
             r == Waiting(m)
             filled == Store(b, r, Load(d, 0, first))
  <1> SUFFICES ASSUME Len(b) = MaxBufferSize, r + first = MaxBufferSize, first <= Len(d),
                      Load(b, 0, r) = Load(m, w, r)
               PROVE  /\ filled \in Seq(Byte) /\ Len(filled) = MaxBufferSize
                      /\ Load(m, 0, w) \o filled = Load(m \o d, 0, n + first)
                      /\ Aligned(n + first)
    OBVIOUS
  <1>1. n \in Nat /\ w \in Nat /\ r \in Nat /\ w + r = n
    BY MessageNumbers
  <1>2. r + first = MaxBufferSize
    OBVIOUS
  <1>3. Load(d, 0, first) \in Seq(Byte) /\ Len(Load(d, 0, first)) = first
    BY LoadType
  <1>4. filled \in Seq(Byte) /\ Len(filled) = MaxBufferSize
    BY <1>1, <1>3, StoreType
  <1>5. WholeBlocks(n + first) = n + first
    <2>1. WholeBlocks(w + MaxBufferSize) = w + MaxBufferSize
      BY <1>1, OneMoreBlock, Zenon
    <2>2. w + MaxBufferSize = n + first
      <3> HIDE DEF n, w, r
      <3> QED BY <1>1, <1>2 DEF MaxBufferSize
    <2> QED BY <2>1, <2>2
  <1>6. m \o d \in Seq(Byte) /\ Load(m \o d, 0, w) = Load(m, 0, w)
    BY <1>1, LoadConcat
  <1>7. Load(m, 0, w) \o filled = Load(m \o d, 0, n + first)
    <2>1. Load(filled, 0, r + first) = Load(m \o d, w, r + first)
      <3>1. r + first <= Len(b)
        BY <1>2
      <3> HIDE DEF n, w, r
      <3> QED BY <1>1, <3>1, StoreFollows DEF n, w, r, filled
    <2>2. Load(filled, 0, MaxBufferSize) = filled
      BY <1>4, LoadWhole
    <2> HIDE DEF n, w, r
    <2>3. w + MaxBufferSize = n + first
      BY <1>1, <1>2 DEF MaxBufferSize
    <2>4. Load(m \o d, 0, w) \o Load(m \o d, w, MaxBufferSize) = Load(m \o d, 0, w + MaxBufferSize)
      BY <1>1, <1>6, LoadBlock
    <2> QED BY <1>2, <1>6, <2>1, <2>2, <2>3, <2>4
  <1> QED BY <1>4, <1>5, <1>7 DEF Aligned

\* How k bytes behind n split, once the first ones complete a block: whole blocks,
\* and a rest that the buffer can hold.
Splits(n, k, first) ==
  /\ WholeBlocks(k - first) \in Nat
  /\ k - first - WholeBlocks(k - first) \in 0 .. MaxBufferSize - 1
  /\ first + WholeBlocks(k - first) + (k - first - WholeBlocks(k - first)) = k
  /\ WholeBlocks(n + k) = n + first + WholeBlocks(k - first)

\* The numbers of a message to which more is added.
LEMMA RestNumbers ==
  ASSUME NEW n \in Nat, NEW k \in Nat, NEW first \in Nat
  PROVE  first <= k /\ Aligned(n + first) => Splits(n, k, first)
  <1> SUFFICES ASSUME first <= k, Aligned(n + first)
               PROVE  Splits(n, k, first)
    OBVIOUS
  <1> DEFINE behind == k - first
             blocks == WholeBlocks(behind)
  <1>1. behind \in Nat /\ first + behind = k /\ n + first \in Nat
    OBVIOUS
  <1> HIDE DEF behind
  <1>2. blocks \in Nat /\ blocks <= behind /\ behind - blocks \in 0 .. MaxBufferSize - 1
    BY <1>1, WholeBlocksFacts
  <1>3. WholeBlocks((n + first) + behind) = (n + first) + blocks
    BY <1>1, WholeBlocksFacts DEF Aligned
  <1>4. (n + first) + behind = n + k
    BY <1>1
  <1> HIDE DEF blocks
  <1>5. first + blocks + (behind - blocks) = k
    BY <1>1, <1>2
  <1> QED BY <1>2, <1>3, <1>4, <1>5 DEF Splits, behind, blocks

\* The bytes behind the whole blocks of the data are left in the buffer.
LEMMA RestHolds ==
  ASSUME NEW s \in Seeds, NEW m \in Seq(Byte), NEW d \in Seq(Byte),
         NEW b \in Seq(Byte), Len(b) = MaxBufferSize,
         NEW first \in Nat, NEW blocks \in Nat, NEW rest \in 0 .. MaxBufferSize - 1,
         first + blocks + rest = Len(d),
         WholeBlocks(Len(m) + Len(d)) = Len(m) + first + blocks
  PROVE  Holds(Hasher(s, Load(m \o d, 0, Len(m) + first) \o Load(d, first, blocks),
                      Store(b, 0, Load(d, first + blocks, rest)), rest, Len(m) + Len(d)),
               s, m \o d)
  <1> DEFINE n == Len(m)
             k == Len(d)
             md == m \o d
             i == first + blocks
             tail == Load(d, i, rest)
             stored == Store(b, 0, tail)
  <1>1. /\ n \in Nat /\ k \in Nat /\ rest \in Nat /\ rest <= Len(b) /\ i \in Nat
        /\ i + rest = k /\ n + i = n + first + blocks /\ n + first \in Nat /\ n + i \in Nat
        /\ n + k - (n + i) = rest /\ i + rest <= k /\ first + blocks <= k
    <2>1. n \in Nat /\ k \in Nat
      OBVIOUS
    <2>2. i + rest = k
      OBVIOUS
    <2>3. rest \in Nat /\ rest <= Len(b)
      BY DEF MaxBufferSize
    <2> HIDE DEF n, k
    <2> QED BY <2>1, <2>2, <2>3
  <1>2. md \in Seq(Byte) /\ Len(md) = n + k
    BY LoadConcat, <1>1
  <1>3. WholeBlocks(n + k) = n + i
    BY <1>1
  <1>4. Waiting(md) = rest
    <2> HIDE DEF n, k, md, i
    <2> QED BY <1>1, <1>2, <1>3 DEF Waiting
  <1>5. tail \in Seq(Byte) /\ Len(tail) = rest
    <2> HIDE DEF i
    <2>1. i \in Int /\ i >= 0
      BY <1>1
    <2> QED BY <1>1, <2>1, LoadType
  <1>6. stored \in Seq(Byte) /\ Len(stored) = MaxBufferSize
    <2> HIDE DEF tail
    <2> QED BY <1>5, StoreType
  <1>7. Load(stored, 0, rest) = tail
    <2> HIDE DEF tail
    <2>1. 0 + Len(tail) <= Len(b)
      BY <1>1, <1>5
    <2>2. Load(Store(b, 0, tail), 0, Len(tail)) = tail
      BY <1>5, <2>1, LoadStore
    <2> QED BY <1>5, <2>2
  <1>8. Load(md, n + i, rest) = tail
    <2> HIDE DEF i
    <2>1. i + rest <= Len(d)
      BY <1>1
    <2> QED BY <1>1, <2>1, LoadBehind
  <1>9. Load(md, n + first, blocks) = Load(d, first, blocks)
    <2>1. first + blocks <= Len(d)
      BY <1>1
    <2>2. Load(m \o d, Len(m) + first, blocks) = Load(d, first, blocks)
      BY <2>1, LoadBehind
    <2> QED BY <2>2
  <1> HIDE DEF md, n
  <1>10. Load(md, 0, n + first) \o Load(md, n + first, blocks) = Load(md, 0, n + first + blocks)
    <2> DEFINE start == n + first
    <2>1. start \in Nat /\ md \in Seq(Byte) /\ blocks \in Nat
      BY <1>1, <1>2
    <2> HIDE DEF start
    <2>2. Load(md, 0, start) \o Load(md, start, blocks) = Load(md, 0, start + blocks)
      BY <2>1, LoadPrefix
    <2> QED BY <2>2 DEF start
  <1> HIDE DEF i, k, tail, stored
  <1>11. Holds(Hasher(s, Load(md, 0, n + i), stored, rest, n + k), s, md)
    BY <1>1, <1>2, <1>3, <1>4, <1>6, <1>7, <1>8, HasherHolds
  <1>12. Load(md, 0, n + first) \o Load(d, first, blocks) = Load(md, 0, n + i)
    BY <1>1, <1>9, <1>10
  <1> QED BY <1>11, <1>12, Zenon DEF n, k, md, i, tail, stored

\* Data beyond the buffer is added to what a hasher describes.
LEMMA AddBlocksHolds ==
  ASSUME NEW s \in Seeds, NEW m \in Seq(Byte), NEW d \in Seq(Byte), NEW h,
         Holds(h, s, m)
  PROVE  Waiting(m) + Len(d) >= MaxBufferSize => Holds(AddBlocks(h, d), s, m \o d)
  <1> SUFFICES ASSUME Waiting(m) + Len(d) >= MaxBufferSize
               PROVE  Holds(AddBlocks(h, d), s, m \o d)
    OBVIOUS
  <1> DEFINE n == Len(m)
             k == Len(d)
             w == WholeBlocks(n)
             r == Waiting(m)
             b == h.buffer
             p == Load(m, 0, w)
  <1>1. n \in Nat /\ k \in Nat /\ w \in Nat /\ r \in 0 .. MaxBufferSize - 1 /\ r \in Nat /\ w + r = n
    BY MessageNumbers
  <1>2. /\ h = Hasher(s, p, b, r, n)
        /\ b \in Seq(Byte) /\ Len(b) = MaxBufferSize
        /\ Load(b, 0, r) = Load(m, w, r)
    BY HoldsHasher
  <1>3. CASE r = 0
    <2> DEFINE blocks == WholeBlocks(k)
               rest == k - blocks
               filled == Store(b, 0, Load(d, 0, 0))
    <2>1. AddBlocks(h, d)
            = Hasher(s, p \o Load(d, 0, blocks), Store(filled, 0, Load(d, blocks, rest)),
                     rest, n + k)
      <3>1. AddBlocks(Hasher(s, p, b, 0, n), d)
              = Hasher(s, p \o Load(d, 0, blocks), Store(filled, 0, Load(d, blocks, rest)),
                       rest, n + k)
        <4> HIDE DEF p, b, n
        <4> QED BY <1>1, AddBlocksEmpty
      <3> HIDE DEF p, b, r, n
      <3> QED BY <1>2, <1>3, <3>1
    <2>2. filled \in Seq(Byte) /\ Len(filled) = MaxBufferSize
      <3>1. Load(d, 0, 0) \in Seq(Byte)
        BY LoadType
      <3> QED BY <1>2, <3>1, StoreType
    <2>3. w = n /\ n + 0 = n
      BY <1>1, <1>3
    <2>4. p = Load(m \o d, 0, n)
      BY <1>1, <2>3, LoadConcat
    <2>5. /\ blocks \in Nat /\ rest \in 0 .. MaxBufferSize - 1 /\ 0 + blocks + rest = k
          /\ WholeBlocks(n + k) = n + 0 + blocks /\ 0 + blocks = blocks
      <3> DEFINE first == 0
      <3>1. /\ k - first = k /\ first <= k /\ first \in Nat /\ Aligned(n + first)
            /\ n + first = n + 0
        BY <1>1, <2>3 DEF Aligned
      <3> HIDE DEF n, k, first
      <3>2. Splits(n, k, first)
        BY <1>1, <3>1, RestNumbers
      <3> QED BY <1>1, <3>1, <3>2 DEF Splits, first
    <2> HIDE DEF filled, blocks, rest
    <2>6. Holds(Hasher(s, Load(m \o d, 0, Len(m) + 0) \o Load(d, 0, blocks),
                       Store(filled, 0, Load(d, 0 + blocks, rest)), rest, Len(m) + Len(d)),
                s, m \o d)
      BY <2>2, <2>5, RestHolds
    <2> QED BY <2>1, <2>3, <2>4, <2>5, <2>6
  <1>4. CASE r > 0
    <2> DEFINE first == MaxBufferSize - r
               filled == Store(b, r, Load(d, 0, first))
               blocks == WholeBlocks(k - first)
               rest == k - first - blocks
    <2>1. first \in Nat /\ first <= k /\ r \in 1 .. MaxBufferSize - 1
      <3> HIDE DEF r, k
      <3>1. r + k >= MaxBufferSize
        BY DEF r, k
      <3> QED BY <1>1, <1>4, <3>1 DEF MaxBufferSize
    <2>2. AddBlocks(h, d)
            = Hasher(s, (p \o filled) \o Load(d, first, blocks),
                     Store(filled, 0, Load(d, first + blocks, rest)), rest, n + k)
      <3>1. AddBlocks(Hasher(s, p, b, r, n), d)
              = Hasher(s, (p \o filled) \o Load(d, first, blocks),
                       Store(filled, 0, Load(d, first + blocks, rest)), rest, n + k)
        <4> HIDE DEF p, b, n, r
        <4> QED BY <1>1, <2>1, AddBlocksBuffered
      <3> HIDE DEF p, b, r, n, filled, blocks, rest, first
      <3> QED BY <1>2, <3>1
    <2>3. /\ filled \in Seq(Byte) /\ Len(filled) = MaxBufferSize
          /\ p \o filled = Load(m \o d, 0, n + first)
          /\ Aligned(n + first)
      <3>1. Waiting(m) + first = MaxBufferSize
        BY <1>1 DEF MaxBufferSize
      <3> HIDE DEF first, b
      <3> QED BY <1>2, <2>1, <3>1, BlockCompleted
    <2>4. /\ blocks \in Nat /\ rest \in 0 .. MaxBufferSize - 1 /\ first + blocks + rest = k
          /\ WholeBlocks(n + k) = n + first + blocks
      <3> HIDE DEF n, k, first
      <3>1. Aligned(n + first)
        BY <2>3
      <3>2. Splits(n, k, first)
        BY <1>1, <2>1, <3>1, RestNumbers
      <3> QED BY <3>2, Zenon DEF Splits
    <2> HIDE DEF filled, blocks, rest, first
    <2>5. Holds(Hasher(s, Load(m \o d, 0, Len(m) + first) \o Load(d, first, blocks),
                       Store(filled, 0, Load(d, first + blocks, rest)), rest, Len(m) + Len(d)),
                s, m \o d)
      BY <2>1, <2>3, <2>4, RestHolds
    <2> QED BY <2>2, <2>3, <2>5
  <1> QED BY <1>1, <1>3, <1>4

\* Whatever is added, the hasher describes the message with it.
LEMMA AddHolds ==
  ASSUME NEW s \in Seeds, NEW m \in Seq(Byte), NEW d \in Seq(Byte), NEW h,
         Holds(h, s, m)
  PROVE  Holds(add(h, d), s, m \o d)
  <1>1. Len(d) \in Nat /\ Waiting(m) \in Nat
    BY MessageNumbers
  <1>2. h.bufferSize = Waiting(m)
    BY DEF Holds, StateDescribes, Waiting
  <1>3. CASE Len(d) = 0
    <2>1. m \o d = m
      BY <1>3
    <2> QED BY <1>3, <2>1 DEF add
  <1>4. CASE Len(d) # 0 /\ Waiting(m) + Len(d) < MaxBufferSize
    <2>1. add(h, d) = AddToBuffer(h, d)
      BY <1>2, <1>4 DEF add
    <2> QED BY <1>4, <2>1, AddToBufferHolds
  <1>5. CASE Len(d) # 0 /\ ~(Waiting(m) + Len(d) < MaxBufferSize)
    <2>1. add(h, d) = AddBlocks(h, d)
      BY <1>2, <1>5 DEF add
    <2>2. Waiting(m) + Len(d) >= MaxBufferSize
      BY <1>1, <1>5 DEF MaxBufferSize
    <2> QED BY <2>1, <2>2, AddBlocksHolds
  <1> QED BY <1>3, <1>4, <1>5

\* Two buffers that agree on what waits give the last loops the same words.
LEMMA TailEqual ==
  ASSUME NEW a \in Seq(Byte), NEW b \in Seq(Byte), NEW r \in Nat
  PROVE  Load(a, 0, r) = Load(b, 0, r) => TailWords(a, r) = TailWords(b, r)
  <1> SUFFICES ASSUME Load(a, 0, r) = Load(b, 0, r)
               PROVE  TailWords(a, r) = TailWords(b, r)
    OBVIOUS
  <1> DEFINE eights == r \div 8
             fours  == (r % 8) \div 4
             ones   == r % 4
  <1>1. /\ eights \in Nat /\ fours \in Nat /\ ones \in Nat
        /\ 8 * eights <= r /\ 8 * eights + 4 * fours \in Nat
        /\ 8 * eights + 4 * fours + ones = r
        /\ \A k \in 1 .. eights : 8 * (k - 1) \in Nat /\ 8 * (k - 1) + 8 <= r
        /\ \A k \in 1 .. fours : 8 * eights \in Nat /\ 8 * eights + 4 <= r
    OBVIOUS
  <1> HIDE DEF eights, fours, ones
  <1>2. ASSUME NEW i \in Nat, NEW k \in Nat, i + k <= r
        PROVE  Load(a, i, k) = Load(b, i, k)
    BY <1>2, LoadPart
  <1>3. \A k \in 1 .. eights : Load(a, 8 * (k - 1), 8) = Load(b, 8 * (k - 1), 8)
    BY <1>1, <1>2
  <1>4. \A k \in 1 .. fours : Load(a, 8 * eights, 4) = Load(b, 8 * eights, 4)
    BY <1>1, <1>2
  <1>5. Load(a, 8 * eights + 4 * fours, ones) = Load(b, 8 * eights + 4 * fours, ones)
    BY <1>1, <1>2
  <1>6. [k \in 1 .. eights |-> Load(a, 8 * (k - 1), 8)]
          = [k \in 1 .. eights |-> Load(b, 8 * (k - 1), 8)]
    BY <1>3, Zenon
  <1>7. [k \in 1 .. fours |-> Load(a, 8 * eights, 4)]
          = [k \in 1 .. fours |-> Load(b, 8 * eights, 4)]
    BY <1>4, Zenon
  <1> QED BY <1>5, <1>6, <1>7, Zenon DEF TailWords, eights, fours, ones

\* A message and a seed determine the digest, whatever else the buffer holds.
LEMMA HashDetermined ==
  ASSUME NEW s \in Seeds, NEW m \in Seq(Byte), NEW g, NEW h, Holds(g, s, m), Holds(h, s, m)
  PROVE  hash(g) = hash(h)
  <1>1. g.state = h.state /\ g.totalLength = h.totalLength
    BY DEF Holds, StateDescribes
  <1>2. g.bufferSize = Waiting(m) /\ h.bufferSize = Waiting(m)
    BY DEF Holds, StateDescribes, Waiting
  <1>3. TailWords(g.buffer, Waiting(m)) = TailWords(h.buffer, Waiting(m))
    <2>1. /\ g.buffer \in Seq(Byte)
          /\ Load(g.buffer, 0, Waiting(m)) = Load(m, WholeBlocks(Len(m)), Waiting(m))
      BY HoldsHasher
    <2>2. /\ h.buffer \in Seq(Byte)
          /\ Load(h.buffer, 0, Waiting(m)) = Load(m, WholeBlocks(Len(m)), Waiting(m))
      BY HoldsHasher
    <2>3. Waiting(m) \in Nat
      BY MessageNumbers
    <2>4. Load(g.buffer, 0, Waiting(m)) = Load(h.buffer, 0, Waiting(m))
      BY <2>1, <2>2, Zenon
    <2> QED BY <2>1, <2>2, <2>3, <2>4, TailEqual
  <1> QED BY <1>1, <1>2, <1>3, Zenon DEF hash

\* The hasher of the one-shot hash describes its input.
LEMMA OneShotHolds ==
  ASSUME NEW s \in Seeds, NEW m \in Seq(Byte), NEW h, Holds(h, s, m)
  PROVE  hash(h) = OneShot(s, m)
  <1> DEFINE buffer == CHOOSE b \in Garbage : TRUE
             fresh == XXHash64(s, buffer)
  <1>1. buffer \in Garbage
    BY Parameters, Zenon
  <1> HIDE DEF buffer
  <1>2. Holds(fresh, s, <<>>)
    BY <1>1, NewHolds
  <1>3. <<>> \in Seq(Byte) /\ <<>> \o m = m
    OBVIOUS
  <1> HIDE DEF fresh
  <1>4. Holds(add(fresh, m), s, m)
    <2>1. Holds(add(fresh, m), s, <<>> \o m)
      BY <1>2, <1>3, AddHolds
    <2> QED BY <1>3, <2>1
  <1>5. hash(h) = hash(add(fresh, m))
    BY <1>4, HashDetermined
  <1> QED BY <1>5 DEF OneShot, fresh, buffer

-----------------------------------------------------------------------------
\* The inductive invariant: the hasher describes the message.
Inv == seed \in Seeds /\ message \in Seq(Byte) /\ Holds(hasher, seed, message)

\* A constructed hasher describes the empty message.
LEMMA InitInv == Init => Inv
  <1> SUFFICES ASSUME Init PROVE Inv
    OBVIOUS
  <1>1. seed \in Seeds /\ message = <<>>
    BY DEF Init
  <1>2. PICK buffer \in Garbage : hasher = XXHash64(seed, buffer)
    BY DEF Init
  <1>3. Holds(XXHash64(seed, buffer), seed, <<>>)
    BY <1>1, NewHolds
  <1>4. message \in Seq(Byte)
    BY <1>1
  <1> QED BY <1>1, <1>2, <1>3, <1>4, Zenon DEF Inv

\* Every call preserves the invariant.
LEMMA NextInv == Inv /\ [Next]_vars => Inv'
  <1> SUFFICES ASSUME Inv, [Next]_vars PROVE Inv'
    OBVIOUS
  <1>1. CASE Construct
    <2>1. seed' \in Seeds /\ message' = <<>>
      BY <1>1 DEF Construct
    <2>2. PICK buffer \in Garbage : hasher' = XXHash64(seed', buffer)
      BY <1>1 DEF Construct
    <2>3. Holds(XXHash64(seed', buffer), seed', <<>>)
      BY <2>1, NewHolds
    <2>4. message' \in Seq(Byte)
      BY <2>1
    <2> QED BY <2>1, <2>2, <2>3, <2>4, Zenon DEF Inv
  <1>2. CASE Add
    <2>1. Len(message) \in DOMAIN Fragments
      BY <1>2 DEF Add
    <2>2. PICK piece \in Fragments[Len(message)] :
            hasher' = add(hasher, piece) /\ message' = message \o piece
      BY <1>2 DEF Add
    <2>3. piece \in Seq(Byte)
      BY <2>1, Parameters, Zenon
    <2>4. seed' = seed /\ seed \in Seeds /\ message \in Seq(Byte) /\ Holds(hasher, seed, message)
      BY <1>2 DEF Add, Inv
    <2>5. Holds(add(hasher, piece), seed, message \o piece)
      BY <2>3, <2>4, AddHolds
    <2>6. message \o piece \in Seq(Byte)
      BY <2>3, <2>4
    <2> QED BY <2>2, <2>4, <2>5, <2>6, Zenon DEF Inv
  <1>3. CASE Hash
    <2>1. hasher' = hasher /\ seed' = seed /\ message' = message
      BY <1>3 DEF Hash
    <2> QED BY <2>1, Zenon DEF Inv
  <1>4. CASE UNCHANGED vars
    <2>1. hasher' = hasher /\ seed' = seed /\ message' = message
      BY <1>4 DEF vars
    <2> QED BY <2>1, Zenon DEF Inv
  <1> QED BY <1>1, <1>2, <1>3, <1>4 DEF Next

\* The invariant holds throughout.
LEMMA Invariant == Spec => []Inv
  BY InitInv, NextInv, PTL DEF Spec

\* The members keep their types, and fewer bytes wait than the buffer holds,
\* whatever is added (xxhash64.h:204).
THEOREM TypeCorrect == Spec => []TypeOK
  <1>1. Inv => TypeOK
    BY DEF Inv, Holds, TypeOK
  <1> QED BY <1>1, Invariant, PTL

\* However a message is cut, the hasher describes it: whole blocks are processed
\* once and in order, and what is left of it waits (xxhash64.h:52-91).
THEOREM StateDescribed == Spec => []StateDescribesMessage
  <1>1. Inv => StateDescribesMessage
    BY DEF Inv, Holds, StateDescribesMessage
  <1> QED BY <1>1, Invariant, PTL

\* Adding in pieces and asking for the hash, at any time, gives what the static
\* one-shot function returns (xxhash64.h:19).
THEOREM Implements == Spec => ImplementsStreamingHash
  <1>1. Init => Promise!Init
    BY DEF Init, Promise!Init
  <1>2. Inv /\ [Next]_vars => [Promise!Next]_(Promise!vars)
    <2> SUFFICES ASSUME Inv, [Next]_vars PROVE [Promise!Next]_(Promise!vars)
      OBVIOUS
    <2>1. CASE Construct
      BY <2>1 DEF Construct, Promise!Start, Promise!Next
    <2>2. CASE Add
      <3>1. Len(message) \in DOMAIN Fragments /\ UNCHANGED seed /\ digest' = Promise!NoDigest
        BY <2>2 DEF Add
      <3>2. PICK piece \in Fragments[Len(message)] : message' = message \o piece
        BY <2>2 DEF Add
      <3>3. piece \in Seq(Byte) /\ message \in Seq(Byte)
        BY <3>1, Parameters, Zenon DEF Inv
      <3>4. Len(message) <= Len(message \o piece)
            /\ SubSeq(message \o piece, 1, Len(message)) = message
        BY <3>3
      <3>5. Promise!Extend
        BY <3>1, <3>2, <3>4 DEF Promise!Extend
      <3> QED BY <3>5 DEF Promise!Next
    <2>3. CASE Hash
      <3>1. digest' = hash(hasher) /\ UNCHANGED <<seed, message>>
        BY <2>3 DEF Hash
      <3>2. hash(hasher) = OneShot(seed, message)
        BY OneShotHolds DEF Inv
      <3>3. Promise!Report
        BY <3>1, <3>2 DEF Promise!Report
      <3> QED BY <3>3 DEF Promise!Next
    <2>4. CASE UNCHANGED vars
      BY <2>4 DEF vars, Promise!vars
    <2> QED BY <2>1, <2>2, <2>3, <2>4 DEF Next
  <1> QED BY <1>1, <1>2, Invariant, PTL DEF Spec, ImplementsStreamingHash, Promise!Spec

-----------------------------------------------------------------------------
\* What a digest depends on

\* The words of a tail by their numbers.
LEMMA TailNumbers ==
  ASSUME NEW n \in Nat
  PROVE  /\ n \div 8 \in Nat /\ (n % 8) \div 4 \in {0, 1} /\ n % 4 \in Nat
         /\ 8 * (n \div 8) + 4 * ((n % 8) \div 4) + (n % 4) = n
  <1>1. n \div 8 \in Nat /\ n % 8 \in 0 .. 7 /\ n = 8 * (n \div 8) + (n % 8)
    OBVIOUS
  <1> DEFINE r == n % 8
  <1>2. n % 4 = r % 4
    BY <1>1
  <1> HIDE DEF r
  <1>3. r \in 0 .. 7 => r \div 4 \in {0, 1} /\ r % 4 \in Nat /\ 4 * (r \div 4) + (r % 4) = r
    OBVIOUS
  <1> QED BY <1>1, <1>2, <1>3 DEF r

\* The i-th of some bytes, in words of eight.
LEMMA ByteOfWord ==
  ASSUME NEW e \in Nat, NEW i \in 1 .. 8 * e
  PROVE  /\ (i + 7) \div 8 \in 1 .. e /\ ((i + 7) % 8) + 1 \in 1 .. 8
         /\ 8 * ((i + 7) \div 8 - 1) + (((i + 7) % 8) + 1) - 1 = 0 + i - 1
  <1> DEFINE k == (i + 7) \div 8
             j == (i + 7) % 8
  <1>1. k \in Int /\ j \in 0 .. 7 /\ i + 7 = 8 * k + j
    <2> DEFINE x == i + 7
    <2>1. x \in Nat
      OBVIOUS
    <2> HIDE DEF x
    <2>2. x \div 8 \in Int /\ x % 8 \in 0 .. 7 /\ x = 8 * (x \div 8) + (x % 8)
      BY <2>1
    <2> QED BY <2>2 DEF x
  <1> HIDE DEF k, j
  <1>2. k >= 1
    BY <1>1
  <1>3. k <= e
    BY <1>1
  <1>4. 8 * (k - 1) + (j + 1) - 1 = 0 + i - 1
    BY <1>1
  <1>5. k \in 1 .. e /\ j + 1 \in 1 .. 8
    BY <1>1, <1>2, <1>3
  <1> QED BY <1>4, <1>5 DEF k, j

\* The last loops of hash() eat the waiting bytes one after the other, each once.
LEMMA TailIsRest ==
  ASSUME NEW b \in Seq(Byte), NEW n \in Nat
  PROVE  TailBytes(TailWords(b, n)) = Load(b, 0, n)
  <1> DEFINE e == n \div 8
             f == (n % 8) \div 4
             words == [k \in 1 .. e |-> Load(b, 8 * (k - 1), 8)]
             four  == [k \in 1 .. f |-> Load(b, 8 * e, 4)]
             ones  == Load(b, 8 * e + 4 * f, n % 4)
  <1>1. e \in Nat /\ f \in {0, 1} /\ n % 4 \in Nat /\ 8 * e + 4 * f + (n % 4) = n
    BY TailNumbers
  <1>2. /\ TailWords(b, n).eights = words /\ TailWords(b, n).fours = four
        /\ TailWords(b, n).ones = ones
    BY DEF TailWords
  <1>3. Len(words) = e /\ Len(four) = f
    BY <1>1
  <1>4. TailBytes(TailWords(b, n))
          = [i \in 1 .. 8 * e |-> words[(i + 7) \div 8][((i + 7) % 8) + 1]]
              \o [i \in 1 .. 4 * f |-> four[1][i]] \o ones
    <2> HIDE DEF words, four, ones, e, f
    <2> QED BY <1>2, <1>3, Zenon DEF TailBytes
  <1>5. ASSUME NEW i \in 1 .. 8 * e
        PROVE  words[(i + 7) \div 8][((i + 7) % 8) + 1] = At(b, 0 + i - 1)
    <2> DEFINE k == (i + 7) \div 8
               j == ((i + 7) % 8) + 1
    <2>1. k \in 1 .. e /\ j \in 1 .. 8 /\ 8 * (k - 1) + j - 1 = 0 + i - 1
      BY <1>1, ByteOfWord
    <2> HIDE DEF k, j
    <2>2. words[k] = Load(b, 8 * (k - 1), 8)
      BY <2>1
    <2>3. Load(b, 8 * (k - 1), 8)[j] = At(b, 8 * (k - 1) + j - 1)
      BY <2>1 DEF Load
    <2> QED BY <2>1, <2>2, <2>3 DEF k, j
  <1>6. [i \in 1 .. 8 * e |-> words[(i + 7) \div 8][((i + 7) % 8) + 1]] = Load(b, 0, 8 * e)
    BY <1>5 DEF Load
  <1>7. [i \in 1 .. 4 * f |-> four[1][i]] = Load(b, 8 * e, 4 * f)
    <2>1. ASSUME NEW i \in 1 .. 4 * f PROVE four[1][i] = At(b, 8 * e + i - 1)
      <3>1. f = 1 /\ i \in 1 .. 4
        BY <1>1
      <3>2. four[1] = Load(b, 8 * e, 4)
        BY <3>1
      <3> QED BY <3>1, <3>2 DEF Load
    <2> QED BY <2>1 DEF Load
  <1> HIDE DEF words, four, ones, e, f
  <1>8. 8 * e \in Nat /\ 4 * f \in Nat /\ 8 * e + 4 * f \in Nat
    BY <1>1
  <1>9. Load(b, 0, 8 * e) \o Load(b, 8 * e, 4 * f) = Load(b, 0, 8 * e + 4 * f)
    BY <1>8, LoadPrefix
  <1>10. Load(b, 0, 8 * e + 4 * f) \o ones = Load(b, 0, n)
    <2> DEFINE k == 8 * e + 4 * f
               l == n % 4
    <2>1. k \in Nat /\ l \in Nat /\ k + l = n /\ ones = Load(b, k, l)
      BY <1>1, <1>8 DEF ones
    <2> HIDE DEF k, l
    <2>2. Load(b, 0, k) \o Load(b, k, l) = Load(b, 0, k + l)
      BY <2>1, LoadPrefix, Zenon
    <2> QED BY <2>1, <2>2, Zenon DEF k
  <1> QED BY <1>4, <1>6, <1>7, <1>9, <1>10, Zenon

\* What a hasher reports has every byte of the message it holds.
LEMMA DigestHasAll ==
  ASSUME NEW s \in Seeds, NEW m \in Seq(Byte), NEW h, Holds(h, s, m)
  PROVE  /\ hash(h).folded \/ hash(h).state.processed = <<>>
         /\ hash(h).state.processed \o TailBytes(hash(h).tail) = m
         /\ hash(h).state.seed = s /\ hash(h).length = Len(m)
  <1> DEFINE whole == WholeBlocks(Len(m))
  <1>1. /\ h.state = [seed |-> s, processed |-> Load(m, 0, whole)]
        /\ h.bufferSize = Waiting(m) /\ h.totalLength = Len(m)
        /\ Load(h.buffer, 0, Waiting(m)) = Load(m, whole, Waiting(m))
        /\ h.buffer \in Seq(Byte)
    BY DEF Holds, StateDescribes, Waiting, Hashers
  <1>2. /\ Len(m) \in Nat /\ whole \in Nat /\ Waiting(m) \in Nat
        /\ whole + Waiting(m) = Len(m)
    BY MessageNumbers, Zenon
  <1>3. /\ hash(h).folded = (Len(m) >= MaxBufferSize)
        /\ hash(h).state = [seed |-> s, processed |-> Load(m, 0, whole)]
        /\ hash(h).length = Len(m)
        /\ hash(h).tail = TailWords(h.buffer, Waiting(m))
    BY <1>1 DEF hash
  <1>4. TailBytes(hash(h).tail) = Load(m, whole, Waiting(m))
    BY <1>1, <1>2, <1>3, TailIsRest
  <1>5. Load(m, 0, whole) \o Load(m, whole, Waiting(m)) = m
    BY <1>2, LoadPrefix, LoadWhole
  <1>6. ASSUME ~(Len(m) >= MaxBufferSize) PROVE Load(m, 0, whole) = <<>>
    <2>1. whole = 0
      BY <1>2, <1>6, WholeBlocksFacts DEF MaxBufferSize
    <2> QED BY <2>1 DEF Load
  <1>7. hash(h).folded \/ hash(h).state.processed = <<>>
    <2>1. CASE Len(m) >= MaxBufferSize
      BY <1>3, <2>1
    <2>2. CASE ~(Len(m) >= MaxBufferSize)
      BY <1>3, <1>6, <2>2
    <2> QED BY <2>1, <2>2
  <1>8. hash(h).state.processed \o TailBytes(hash(h).tail) = m
    <2>1. hash(h).state.processed = Load(m, 0, whole)
      BY <1>3
    <2> QED BY <1>4, <1>5, <2>1, Zenon
  <1>9. hash(h).state.seed = s
    BY <1>3
  <1> QED BY <1>3, <1>7, <1>8, <1>9, Zenon

\* A digest depends on every byte of the message, each in one place, and on
\* nothing else: no byte is skipped where the loops over words of 8, 4 and 1
\* meet, and nothing of the uninitialized buffer gets in (xxhash64.h:116-147).
THEOREM DependsOnEveryByte == Spec => []EveryByteCounts
  <1>1. Init => EveryByteCounts
    BY DEF Init, EveryByteCounts
  <1>2. Inv /\ EveryByteCounts /\ [Next]_vars => EveryByteCounts'
    <2> SUFFICES ASSUME Inv, EveryByteCounts, [Next]_vars PROVE EveryByteCounts'
      OBVIOUS
    <2>1. CASE Construct
      BY <2>1 DEF Construct, EveryByteCounts
    <2>2. CASE Add
      BY <2>2 DEF Add, EveryByteCounts
    <2>3. CASE Hash
      <3>1. digest' = hash(hasher) /\ seed' = seed /\ message' = message
        BY <2>3 DEF Hash
      <3>2. /\ hash(hasher).folded \/ hash(hasher).state.processed = <<>>
            /\ hash(hasher).state.processed \o TailBytes(hash(hasher).tail) = message
            /\ hash(hasher).state.seed = seed /\ hash(hasher).length = Len(message)
        BY DigestHasAll, Zenon DEF Inv
      <3> QED BY <3>1, <3>2, Zenon DEF EveryByteCounts
    <2>4. CASE UNCHANGED vars
      BY <2>4, Zenon DEF vars, EveryByteCounts
    <2> QED BY <2>1, <2>2, <2>3, <2>4 DEF Next
  <1> QED BY <1>1, <1>2, Invariant, PTL DEF Spec

=============================================================================
