---------------------------- MODULE BufferProofs ----------------------------
(***************************************************************************)
(* What the theorems about the machines rest on: what loads and stores     *)
(* return, what a buffer holds after some of them, and the LZ4 blocks in   *)
(* it: what the helpers of LZ4Primitives return, that the length fields    *)
(* and the sequences they write read back as what was written, and what    *)
(* Describes says, by induction on the distance from the end of the block; *)
(* then how a block that encodes data is read, and what a copy of some of  *)
(* it leaves behind.                                                       *)
(***************************************************************************)
EXTENDS LZ4Block, TLAPS, SequenceTheorems, WellFoundedInduction

-----------------------------------------------------------------------------
\* Loads and stores

\* Bytes are naturals.
LEMMA ByteNat == \A x \in Byte : x \in Nat
  BY DEF Byte

\* An access inside a buffer delivers one of its bytes; any access delivers a
\* byte or NoByte, a natural in either case.
LEMMA AtType ==
  ASSUME NEW b \in Seq(Byte), NEW i \in Int
  PROVE  /\ At(b, i) \in Nat
         /\ i \in 0 .. Len(b) - 1 => At(b, i) = b[i + 1] /\ At(b, i) \in Byte
  <1>1. CASE i \in 0 .. Len(b) - 1
    <2>1. b[i + 1] \in Byte
      BY <1>1, ElementOfSeq, LenProperties
    <2>2. At(b, i) = b[i + 1]
      BY <1>1 DEF At
    <2> QED BY <2>1, <2>2, ByteNat
  <1>2. CASE i \notin 0 .. Len(b) - 1
    BY <1>2 DEF At, NoByte
  <1> QED BY <1>1, <1>2

\* A load that stays inside the buffer delivers a sequence of as many bytes.
LEMMA LoadType ==
  ASSUME NEW b \in Seq(Byte), NEW i \in Int, NEW k \in Nat
  PROVE  /\ Len(Load(b, i, k)) = k
         /\ \A j \in 1 .. k : Load(b, i, k)[j] = At(b, i + j - 1) /\ Load(b, i, k)[j] \in Nat
         /\ i >= 0 /\ i + k <= Len(b) => Load(b, i, k) \in Seq(Byte)
  <1>1. \A j \in 1 .. k : Load(b, i, k)[j] = At(b, i + j - 1) /\ Load(b, i, k)[j] \in Nat
    <2> TAKE j \in 1 .. k
    <2>1. i + j - 1 \in Int
      OBVIOUS
    <2> QED BY <2>1, AtType DEF Load
  <1>2. Len(Load(b, i, k)) = k
    BY DEF Load
  <1>3. ASSUME i >= 0, i + k <= Len(b) PROVE Load(b, i, k) \in Seq(Byte)
    <2>1. \A j \in 1 .. k : At(b, i + j - 1) \in Byte
      BY AtType, <1>3
    <2> QED BY <2>1 DEF Load
  <1> QED BY <1>1, <1>2, <1>3

\* A store changes neither the length of the buffer nor what it consists of.
LEMMA StoreType ==
  ASSUME NEW b \in Seq(Byte), NEW i \in Int, NEW bytes \in Seq(Byte)
  PROVE  /\ Store(b, i, bytes) \in Seq(Byte)
         /\ Len(Store(b, i, bytes)) = Len(b)
  BY DEF Store

\* Every load is a sequence of naturals.
LEMMA LoadSeq ==
  ASSUME NEW b \in Seq(Byte), NEW i \in Int, NEW k \in Nat
  PROVE  Load(b, i, k) \in Seq(Nat)
  <1>1. \A j \in 1 .. k : At(b, i + j - 1) \in Nat
    BY AtType
  <1> QED BY <1>1 DEF Load

\* Loading a buffer from end to end gives its bytes.
LEMMA LoadWhole ==
  ASSUME NEW b \in Seq(Byte)
  PROVE  Load(b, 0, Len(b)) = b
  <1>1. Len(b) \in Nat
    OBVIOUS
  <1>2. \A j \in 1 .. Len(b) : At(b, 0 + j - 1) = b[j]
    BY <1>1 DEF At
  <1>3. Load(b, 0, Len(b)) \in Seq(Nat) /\ b \in Seq(Nat)
    BY <1>1, LoadSeq, ByteNat
  <1>4. Len(Load(b, 0, Len(b))) = Len(b)
    BY <1>1, LoadType
  <1>5. \A j \in 1 .. Len(b) : Load(b, 0, Len(b))[j] = b[j]
    BY <1>2 DEF Load
  <1> QED BY <1>3, <1>4, <1>5, SeqEqual

\* Two adjacent loads join.
LEMMA LoadJoin ==
  ASSUME NEW b \in Seq(Byte), NEW i \in Nat, NEW k \in Nat, NEW l \in Nat
  PROVE  Load(b, i, k) \o Load(b, i + k, l) = Load(b, i, k + l)
  <1> DEFINE s == Load(b, i, k)
             t == Load(b, i + k, l)
             u == Load(b, i, k + l)
  <1>1. s \in Seq(Nat) /\ t \in Seq(Nat) /\ u \in Seq(Nat)
    BY LoadSeq
  <1>2. Len(s) = k /\ Len(t) = l /\ Len(u) = k + l
    BY LoadType
  <1>3. \A j \in 1 .. k : s[j] = u[j]
    BY DEF Load
  <1>4. \A j \in k + 1 .. k + l : t[j - k] = u[j]
    BY DEF Load
  <1> HIDE DEF s, t, u
  <1>5. s \o t \in Seq(Nat) /\ Len(s \o t) = k + l
    BY <1>1, <1>2, ConcatProperties
  <1>6. ASSUME NEW j \in 1 .. k + l PROVE (s \o t)[j] = u[j]
    <2>1. (s \o t)[j] = IF j <= k THEN s[j] ELSE t[j - k]
      BY <1>1, <1>2, ConcatProperties
    <2> QED BY <2>1, <1>3, <1>4
  <1> QED BY <1>1, <1>2, <1>5, <1>6, SeqEqual DEF s, t, u

\* Two loads that follow each other, the first one from the first byte.
LEMMA LoadPrefix ==
  ASSUME NEW b \in Seq(Byte), NEW k \in Nat, NEW l \in Nat
  PROVE  Load(b, 0, k) \o Load(b, k, l) = Load(b, 0, k + l)
  <1>1. 0 \in Nat /\ 0 + k = k
    OBVIOUS
  <1>2. Load(b, 0, k) \o Load(b, 0 + k, l) = Load(b, 0, k + l)
    BY Zenon, <1>1, LoadJoin
  <1> QED BY <1>1, <1>2

\* A load from a part of two buffers that agree there.
LEMMA LoadPart ==
  ASSUME NEW a \in Seq(Byte), NEW b \in Seq(Byte), NEW n \in Nat,
         NEW i \in Nat, NEW k \in Nat, i + k <= n,
         Load(a, 0, n) = Load(b, 0, n)
  PROVE  Load(a, i, k) = Load(b, i, k)
  <1>1. ASSUME NEW j \in 1 .. k PROVE At(a, i + j - 1) = At(b, i + j - 1)
    <2>1. i + j \in 1 .. n
      OBVIOUS
    <2>2. Load(a, 0, n)[i + j] = Load(b, 0, n)[i + j]
      OBVIOUS
    <2>3. Load(a, 0, n)[i + j] = At(a, 0 + (i + j) - 1) /\ Load(b, 0, n)[i + j] = At(b, 0 + (i + j) - 1)
      BY <2>1, LoadType
    <2> QED BY <2>2, <2>3
  <1> QED BY <1>1 DEF Load

\* The bytes of two messages joined.
LEMMA LoadConcat ==
  ASSUME NEW a \in Seq(Byte), NEW b \in Seq(Byte), NEW i \in Nat, NEW k \in Nat
  PROVE  /\ a \o b \in Seq(Byte) /\ Len(a \o b) = Len(a) + Len(b)
         /\ i + k <= Len(a) => Load(a \o b, i, k) = Load(a, i, k)
         /\ i + k <= Len(b) => Load(a \o b, Len(a) + i, k) = Load(b, i, k)
  <1>1. a \o b \in Seq(Byte) /\ Len(a \o b) = Len(a) + Len(b) /\ Len(a) \in Nat /\ Len(b) \in Nat
    OBVIOUS
  <1>2. ASSUME i + k <= Len(a) PROVE Load(a \o b, i, k) = Load(a, i, k)
    <2>1. ASSUME NEW j \in 1 .. k PROVE At(a \o b, i + j - 1) = At(a, i + j - 1)
      <3>1. (a \o b)[i + j] = a[i + j]
        BY <1>1, <1>2, ConcatProperties
      <3> QED BY <1>1, <1>2, <3>1 DEF At
    <2> QED BY <2>1 DEF Load
  <1>3. ASSUME i + k <= Len(b) PROVE Load(a \o b, Len(a) + i, k) = Load(b, i, k)
    <2>1. ASSUME NEW j \in 1 .. k PROVE At(a \o b, Len(a) + i + j - 1) = At(b, i + j - 1)
      <3>1. (a \o b)[Len(a) + i + j] = b[i + j]
        BY <1>1, <1>3, ConcatProperties
      <3> QED BY <1>1, <1>3, <3>1 DEF At
    <2> QED BY <2>1 DEF Load
  <1> QED BY <1>1, <1>2, <1>3

\* The bytes of the second message, where they are in the two joined.
LEMMA LoadBehind ==
  ASSUME NEW a \in Seq(Byte), NEW b \in Seq(Byte), NEW i \in Nat, NEW k \in Nat
  PROVE  i + k <= Len(b) => Load(a \o b, Len(a) + i, k) = Load(b, i, k)
  BY LoadConcat

\* What a store that stays inside the buffer leaves, before it and in its place.
LEMMA LoadStore ==
  ASSUME NEW b \in Seq(Byte), NEW bytes \in Seq(Byte), NEW i \in Nat, i + Len(bytes) <= Len(b)
  PROVE  /\ \A k \in Nat : k <= i => Load(Store(b, i, bytes), 0, k) = Load(b, 0, k)
         /\ Load(Store(b, i, bytes), i, Len(bytes)) = bytes
  <1> DEFINE c == Store(b, i, bytes)
  <1>1. c \in Seq(Byte) /\ Len(c) = Len(b) /\ Len(b) \in Nat /\ Len(bytes) \in Nat
    BY StoreType
  <1>2. \A j \in 1 .. i : c[j] = b[j]
    BY <1>1 DEF Store
  <1>3. \A j \in 1 .. Len(bytes) : c[i + j] = bytes[j]
    BY <1>1 DEF Store
  <1> HIDE DEF c
  <1>4. ASSUME NEW k \in Nat, k <= i PROVE Load(c, 0, k) = Load(b, 0, k)
    <2>1. ASSUME NEW j \in 1 .. k PROVE At(c, 0 + j - 1) = At(b, 0 + j - 1)
      <3>1. c[j] = b[j] /\ j \in 1 .. Len(b) /\ j \in 1 .. Len(c)
        BY <1>1, <1>2, <1>4
      <3> QED BY <3>1, <1>1 DEF At
    <2> QED BY <2>1 DEF Load
  <1>5. Load(c, i, Len(bytes)) = Load(bytes, 0, Len(bytes))
    <2>1. ASSUME NEW j \in 1 .. Len(bytes) PROVE At(c, i + j - 1) = At(bytes, 0 + j - 1)
      BY <1>1, <1>3 DEF At
    <2> QED BY <2>1 DEF Load
  <1> QED BY <1>4, <1>5, LoadWhole DEF c

\* A store leaves what is before it.
LEMMA LoadBefore ==
  ASSUME NEW b \in Seq(Byte), NEW bytes \in Seq(Byte), NEW i \in Nat
  PROVE  i + Len(bytes) <= Len(b) => Load(Store(b, i, bytes), 0, i) = Load(b, 0, i)
  <1>1. i <= i
    OBVIOUS
  <1> QED BY <1>1, LoadStore

\* A load of nothing.
LEMMA LoadNothing ==
  ASSUME NEW b \in Seq(Byte), NEW i \in Nat
  PROVE  Load(b, i, 0) = <<>>
  BY DEF Load

\* A store behind k bytes of the buffer appends to what a load of them gives.
LEMMA StoreAppends ==
  ASSUME NEW b \in Seq(Byte), NEW bytes \in Seq(Byte), NEW i \in Nat, i + Len(bytes) <= Len(b)
  PROVE  Load(Store(b, i, bytes), 0, i + Len(bytes)) = Load(b, 0, i) \o bytes
  <1> DEFINE c == Store(b, i, bytes)
             k == Len(bytes)
  <1>1. c \in Seq(Byte) /\ k \in Nat
    BY StoreType
  <1>2. Load(c, 0, i) = Load(b, 0, i) /\ Load(c, i, k) = bytes
    BY LoadStore
  <1> HIDE DEF c, k
  <1>3. Load(c, 0, i) \o Load(c, i, k) = Load(c, 0, i + k)
    BY <1>1, LoadPrefix
  <1> QED BY <1>2, <1>3 DEF c, k

\* The end of a message and the beginning of what is joined to it, loaded as one.
LEMMA LoadAcross ==
  ASSUME NEW m \in Seq(Byte), NEW d \in Seq(Byte), NEW i \in Nat, NEW r \in Nat, NEW k \in Nat,
         i + r = Len(m), k <= Len(d)
  PROVE  Load(m \o d, i, r + k) = Load(m, i, r) \o Load(d, 0, k)
  <1> DEFINE c == m \o d
  <1>1. c \in Seq(Byte)
    BY LoadConcat
  <1>2. Load(c, i, r) = Load(m, i, r)
    BY LoadConcat
  <1>3. Load(c, i + r, k) = Load(d, 0, k)
    <2>1. Load(c, Len(m) + 0, k) = Load(d, 0, k)
      BY LoadConcat
    <2>2. Len(m) + 0 = i + r
      OBVIOUS
    <2> QED BY <2>1, <2>2
  <1> HIDE DEF c
  <1>4. Load(c, i, r) \o Load(c, i + r, k) = Load(c, i, r + k)
    BY Zenon, <1>1, LoadJoin
  <1> QED BY <1>2, <1>3, <1>4 DEF c

\* If a buffer begins with the end of a message, it still does once the message
\* goes on and the new bytes are stored behind it.
LEMMA StoreFollows ==
  ASSUME NEW m \in Seq(Byte), NEW d \in Seq(Byte), NEW b \in Seq(Byte),
         NEW i \in Nat, NEW r \in Nat, NEW k \in Nat,
         i + r = Len(m), k <= Len(d), r + k <= Len(b)
  PROVE  Load(b, 0, r) = Load(m, i, r) =>
           Load(Store(b, r, Load(d, 0, k)), 0, r + k) = Load(m \o d, i, r + k)
  <1> DEFINE bytes == Load(d, 0, k)
  <1>1. bytes \in Seq(Byte) /\ Len(bytes) = k
    BY LoadType
  <1>2. Load(m \o d, i, r + k) = Load(m, i, r) \o bytes
    BY LoadAcross, SMTT(15)
  <1> HIDE DEF bytes
  <1>3. r + Len(bytes) <= Len(b)
    BY <1>1
  <1>4. Load(Store(b, r, bytes), 0, r + Len(bytes)) = Load(b, 0, r) \o bytes
    BY <1>1, <1>3, StoreAppends
  <1> QED BY <1>1, <1>2, <1>4 DEF bytes

-----------------------------------------------------------------------------
\* The types and sizes of what the helpers return

\* The or of two nibbles is a nibble, whatever they are.
LEMMA OrNibbleType ==
  ASSUME NEW a, NEW b PROVE OrNibble(a, b) \in Nat /\ OrNibble(a, b) <= 15
  <1>1. \A w \in Nat : OrBit(a, b, w) \in {0, w}
    BY DEF OrBit
  <1>2. /\ OrBit(a, b, 1) \in {0, 1} /\ OrBit(a, b, 2) \in {0, 2}
        /\ OrBit(a, b, 4) \in {0, 4} /\ OrBit(a, b, 8) \in {0, 8}
    BY <1>1
  <1> QED BY <1>2 DEF OrNibble

\* The or of two bytes is a byte: the token stays one.
LEMMA BitOrType ==
  ASSUME NEW a, NEW b PROVE BitOr(a, b) \in Byte
  BY OrNibbleType DEF BitOr, Byte

\* The extension of a length consists of bytes, one more than 255 goes into it.
LEMMA ExtensionType ==
  ASSUME NEW r \in Nat
  PROVE  Extension(r) \in Seq(Byte) /\ Len(Extension(r)) = r \div 255 + 1
  <1>1. r \div 255 + 1 \in Nat /\ r % 255 \in Byte /\ 255 \in Byte
    BY DEF Byte
  <1> QED BY <1>1 DEF Extension

\* The number of bytes that EncodeRunLength yields.
RunSize(length) == IF length >= 15 THEN 2 + (length - 15) \div 255 ELSE 1

\* encodeRunLength writes RunSize(length) bytes.
LEMMA RunLengthType ==
  ASSUME NEW length \in Nat
  PROVE  /\ EncodeRunLength(length) \in Seq(Byte)
         /\ Len(EncodeRunLength(length)) = RunSize(length)
  <1>1. CASE length >= 15
    <2>1. length - 15 \in Nat
      BY <1>1
    <2>2. /\ Extension(length - 15) \in Seq(Byte)
          /\ Len(Extension(length - 15)) = (length - 15) \div 255 + 1
      BY <2>1, ExtensionType
    <2>3. <<240>> \in Seq(Byte) /\ Len(<<240>>) = 1
      BY DEF Byte
    <2>4. EncodeRunLength(length) = <<240>> \o Extension(length - 15)
      BY <1>1 DEF EncodeRunLength, RUN_MASK
    <2> QED BY <1>1, <2>1, <2>2, <2>3, <2>4, ConcatProperties DEF RunSize
  <1>2. CASE length < 15
    <2>1. EncodeRunLength(length) = <<length * 16>>
      BY <1>2 DEF EncodeRunLength, RUN_MASK
    <2>2. length * 16 \in Byte
      BY <1>2 DEF Byte
    <2>3. RunSize(length) = 1
      BY <1>2 DEF RunSize
    <2> QED BY <2>1, <2>2, <2>3
  <1> QED BY <1>1, <1>2

\* The number of bytes that follow the literals of a match.
MatchSize(matchLength) == IF matchLength >= 15 THEN 3 + (matchLength - 15) \div 255 ELSE 2

\* Behind the literals of a match emitMatch writes MatchSize bytes, whatever
\* the offset.
LEMMA MatchBytesType ==
  ASSUME NEW offset \in Int, NEW matchLength \in Nat
  PROVE  /\ MatchBytes(offset, matchLength) \in Seq(Byte)
         /\ Len(MatchBytes(offset, matchLength)) = MatchSize(matchLength)
  <1> DEFINE short == offset % OFFSET_RANGE
             low   == <<short % 256, short \div 256>>
             ext   == IF matchLength >= 15 THEN Extension(matchLength - 15) ELSE <<>>
  <1>1. short \in Nat /\ short < 65536
    BY DEF OFFSET_RANGE
  <1>2. short % 256 \in Byte /\ short \div 256 \in Byte
    BY <1>1 DEF Byte
  <1>3. low \in Seq(Byte) /\ Len(low) = 2
    BY <1>2
  <1>4. /\ ext \in Seq(Byte)
        /\ Len(ext) = IF matchLength >= 15 THEN (matchLength - 15) \div 255 + 1 ELSE 0
    <2>1. CASE matchLength >= 15
      <3>1. matchLength - 15 \in Nat
        BY <2>1
      <3> QED BY <2>1, <3>1, ExtensionType
    <2>2. CASE matchLength < 15
      BY <2>2
    <2> QED BY <2>1, <2>2
  <1>5. MatchBytes(offset, matchLength) = low \o ext
    BY DEF MatchBytes, ML_MASK
  <1> HIDE DEF low, ext
  <1>6. low \o ext \in Seq(Byte) /\ Len(low \o ext) = Len(low) + Len(ext)
    BY <1>3, <1>4, ConcatProperties
  <1>7. Len(ext) = (IF matchLength >= 15 THEN (matchLength - 15) \div 255 + 1 ELSE 0)
          => 2 + Len(ext) = MatchSize(matchLength)
    BY DEF MatchSize
  <1> QED BY <1>3, <1>4, <1>5, <1>6, <1>7

-----------------------------------------------------------------------------
\* Bytes at two places

\* Two loads deliver the same bytes when byte after byte is the same.
LEMMA LoadSame ==
  ASSUME NEW a, NEW b, NEW i \in Int, NEW j \in Int, NEW n \in Nat
  PROVE  Load(a, i, n) = Load(b, j, n) <=> SameBytes(a, i, b, j, n)
  <1>1. ASSUME Load(a, i, n) = Load(b, j, n), NEW k \in 0 .. n - 1
        PROVE  At(a, i + k) = At(b, j + k)
    <2>1. k + 1 \in 1 .. n /\ i + (k + 1) - 1 = i + k /\ j + (k + 1) - 1 = j + k
      OBVIOUS
    <2>2. Load(a, i, n)[k + 1] = Load(b, j, n)[k + 1]
      BY <1>1
    <2>3. Load(a, i, n)[k + 1] = At(a, i + (k + 1) - 1) /\ Load(b, j, n)[k + 1] = At(b, j + (k + 1) - 1)
      BY <2>1 DEF Load
    <2> QED BY <2>1, <2>2, <2>3
  <1>2. ASSUME SameBytes(a, i, b, j, n)
        PROVE  Load(a, i, n) = Load(b, j, n)
    <2>1. ASSUME NEW k \in 1 .. n PROVE At(a, i + k - 1) = At(b, j + k - 1)
      <3>1. k - 1 \in 0 .. n - 1 /\ i + (k - 1) = i + k - 1 /\ j + (k - 1) = j + k - 1
        OBVIOUS
      <3>2. At(a, i + (k - 1)) = At(b, j + (k - 1))
        BY <3>1, <1>2 DEF SameBytes
      <3> QED BY <3>1, <3>2
    <2> QED BY <2>1 DEF Load
  <1>3. Load(a, i, n) = Load(b, j, n) => SameBytes(a, i, b, j, n)
    BY <1>1 DEF SameBytes
  <1> QED BY <1>2, <1>3

\* Fewer bytes are the same when more are.
LEMMA SameFewer ==
  ASSUME NEW a, NEW b, NEW i \in Int, NEW j \in Int, NEW n \in Int, NEW m \in Int, m <= n,
         SameBytes(a, i, b, j, n)
  PROVE  SameBytes(a, i, b, j, m)
  BY DEF SameBytes

\* The same bytes, and the same bytes behind them.
LEMMA SameJoin ==
  ASSUME NEW a, NEW b, NEW i \in Int, NEW j \in Int, NEW n \in Nat, NEW m \in Nat,
         SameBytes(a, i, b, j, n), SameBytes(a, i + n, b, j + n, m)
  PROVE  SameBytes(a, i, b, j, n + m)
  <1> SUFFICES ASSUME NEW k \in 0 .. n + m - 1 PROVE At(a, i + k) = At(b, j + k)
    BY DEF SameBytes
  <1>1. CASE k < n
    BY <1>1 DEF SameBytes
  <1>2. CASE k >= n
    <2>1. k - n \in 0 .. m - 1 /\ (i + n) + (k - n) = i + k /\ (j + n) + (k - n) = j + k
      BY <1>2
    <2>2. At(a, (i + n) + (k - n)) = At(b, (j + n) + (k - n))
      BY <2>1 DEF SameBytes
    <2> QED BY <2>1, <2>2
  <1> QED BY <1>1, <1>2

\* The same bytes within the same bytes.
LEMMA SameSlice ==
  ASSUME NEW a, NEW b, NEW i \in Int, NEW j \in Int, NEW n \in Nat, NEW m \in Nat, NEW k \in Nat,
         m + k <= n, SameBytes(a, i, b, j, n)
  PROVE  SameBytes(a, i + m, b, j + m, k)
  <1> SUFFICES ASSUME NEW r \in 0 .. k - 1 PROVE At(a, (i + m) + r) = At(b, (j + m) + r)
    BY DEF SameBytes
  <1>1. m + r \in 0 .. n - 1 /\ i + (m + r) = (i + m) + r /\ j + (m + r) = (j + m) + r
    OBVIOUS
  <1>2. At(a, i + (m + r)) = At(b, j + (m + r))
    BY <1>1 DEF SameBytes
  <1> QED BY <1>1, <1>2

-----------------------------------------------------------------------------
\* Induction: every set of naturals that is not empty has a least element.

NatLess == {pair \in Nat \X Nat : pair[1] < pair[2]}

\* The order of the naturals is well founded.
LEMMA NatLessWellFounded == IsWellFoundedOn(NatLess, Nat)
  <1>1. NatLess = OpToRel(<, Nat)
    BY DEF NatLess, OpToRel
  <1> QED BY <1>1, NatLessThanWellFounded, Zenon

\* The least number principle, which the inductions over data rest on.
LEMMA LeastNumber ==
  ASSUME NEW T, T \subseteq Nat, T # {}
  PROVE  \E least \in T : \A n \in T : least <= n
  <1>1. PICK least \in T : \A n \in T : <<n, least>> \notin NatLess
    BY NatLessWellFounded, WFMin, Zenon
  <1>2. ASSUME NEW n \in T PROVE least <= n
    <2>1. least \in Nat /\ n \in Nat /\ <<n, least>> \notin NatLess
      BY <1>1
    <2> QED BY <2>1 DEF NatLess
  <1> QED BY <1>2

-----------------------------------------------------------------------------
\* Sequences

\* An extension ends behind its first byte below 255.
LEMMA ExtensionEndAt ==
  ASSUME NEW block \in Seq(Byte), NEW p \in Nat, NEW q \in p .. Len(block) - 1,
         At(block, q) # 255, \A r \in p .. q - 1 : At(block, r) = 255
  PROVE  ExtensionEnd(block, p) = q + 1
  <1> DEFINE First(i) == At(block, i) # 255 /\ \A r \in p .. i - 1 : At(block, r) = 255
             e == CHOOSE i \in p .. Len(block) - 1 : First(i)
  <1>1. First(q)
    OBVIOUS
  <1>2. e \in p .. Len(block) - 1 /\ First(e)
    BY <1>1
  <1>3. ExtensionEnd(block, p) = 1 + e
    BY <1>1 DEF ExtensionEnd
  <1> HIDE DEF e
  <1>4. e = q
    <2>1. e \in Int /\ q \in Int
      BY <1>2
    <2>2. ~(e < q)
      BY <1>2
    <2>3. ~(q < e)
      BY <1>1, <1>2
    <2> QED BY <2>1, <2>2, <2>3
  <1> QED BY <1>2, <1>3, <1>4

\* An extension ends behind such a byte, or the block ends before it does.
LEMMA ExtensionEndCases ==
  ASSUME NEW block \in Seq(Byte), NEW p \in Nat
  PROVE  \/ ExtensionEnd(block, p) = Len(block) + 1
         \/ \E q \in p .. Len(block) - 1 :
              /\ ExtensionEnd(block, p) = q + 1
              /\ At(block, q) # 255 /\ \A r \in p .. q - 1 : At(block, r) = 255
  <1>1. Len(block) \in Nat
    OBVIOUS
  <1> DEFINE T == {q \in p .. Len(block) - 1 : At(block, q) # 255}
  <1>2. CASE T = {}
    BY <1>2 DEF ExtensionEnd
  <1>3. CASE T # {}
    <2>1. T \subseteq Nat
      OBVIOUS
    <2>2. PICK q \in T : \A n \in T : q <= n
      <3> HIDE DEF T
      <3> QED BY <1>3, <2>1, LeastNumber
    <2>3. q \in p .. Len(block) - 1 /\ At(block, q) # 255
      BY <2>2
    <2>4. \A r \in p .. q - 1 : At(block, r) = 255
      <3> TAKE r \in p .. q - 1
      <3>1. r \in p .. Len(block) - 1 /\ ~(q <= r)
        BY <1>1, <2>3
      <3> QED BY <2>2, <3>1
    <2>5. ExtensionEnd(block, p) = q + 1
      BY <2>3, <2>4, ExtensionEndAt
    <2> QED BY <2>3, <2>4, <2>5
  <1> QED BY <1>2, <1>3

\* A length field holds a natural if it begins within the block, and ends behind
\* where it begins if it ends there.
LEMMA LengthFieldType ==
  ASSUME NEW block \in Seq(Byte), NEW nibble \in Nat, NEW p \in Nat
  PROVE  LET field == LengthField(block, nibble, p)
         IN  /\ field.next \in Nat
             /\ p <= Len(block) \/ field.next <= Len(block) => p <= field.next /\ field.length \in Nat
  <1> DEFINE end == ExtensionEnd(block, p)
             field == LengthField(block, nibble, p)
  <1>1. CASE nibble < 15
    BY <1>1 DEF LengthField
  <1>2. CASE ~(nibble < 15)
    <2>1. field.length = 15 + 255 * (end - 1 - p) + At(block, end - 1) /\ field.next = end
      BY <1>2 DEF LengthField
    <2>2. Len(block) \in Nat
      OBVIOUS
    <2>3. end \in Nat /\ (p <= Len(block) \/ end <= Len(block) => p < end)
      BY <2>2, ExtensionEndCases
    <2>4. At(block, end - 1) \in Nat
      <3>1. end - 1 \in Int
        BY <2>3
      <3> QED BY <3>1, AtType
    <2> HIDE DEF end, field
    <2>5. field.next \in Nat /\ (p <= Len(block) \/ field.next <= Len(block) => p <= field.next)
      BY <2>1, <2>3
    <2>6. p < end => field.length \in Nat
      BY <2>1, <2>3, <2>4
    <2> QED BY <2>1, <2>3, <2>5, <2>6 DEF field
  <1> QED BY <1>1, <1>2

\* A length field is where its bytes are: another block with the same ones has
\* the same field.
LEMMA LengthFieldStable ==
  ASSUME NEW a \in Seq(Byte), NEW b \in Seq(Byte), NEW limit \in Nat,
         limit <= Len(a), limit <= Len(b),
         \A i \in 0 .. limit - 1 : At(a, i) = At(b, i),
         NEW nibble \in Nat, NEW p \in Nat,
         LengthField(a, nibble, p).next <= limit
  PROVE  LengthField(b, nibble, p) = LengthField(a, nibble, p)
  <1>1. CASE nibble < 15
    BY <1>1 DEF LengthField
  <1>2. CASE ~(nibble < 15)
    <2>1. LengthField(a, nibble, p).next = ExtensionEnd(a, p)
      BY <1>2 DEF LengthField
    <2>2. ExtensionEnd(a, p) <= limit /\ Len(a) \in Nat /\ Len(b) \in Nat
      BY <2>1
    <2>3. PICK q \in p .. Len(a) - 1 :
            /\ ExtensionEnd(a, p) = q + 1
            /\ At(a, q) # 255 /\ \A r \in p .. q - 1 : At(a, r) = 255
      BY <2>2, ExtensionEndCases
    <2>4. q \in p .. Len(b) - 1 /\ q \in 0 .. limit - 1
      BY <2>2, <2>3
    <2>5. At(b, q) = At(a, q) /\ \A r \in p .. q - 1 : At(b, r) = 255
      BY <2>3, <2>4
    <2>6. ExtensionEnd(b, p) = q + 1
      BY <2>3, <2>4, <2>5, ExtensionEndAt
    <2>7. At(b, ExtensionEnd(b, p) - 1) = At(a, ExtensionEnd(a, p) - 1)
      BY <2>3, <2>5, <2>6
    <2> QED BY <1>2, <2>3, <2>6, <2>7 DEF LengthField
  <1> QED BY <1>1, <1>2

\* The two length fields of the sequence at p, and the end of its literals.
LiteralField(block, p) == LengthField(block, At(block, p) \div 16, p + 1)
LiteralEnd(block, p)   == LiteralField(block, p).next + LiteralField(block, p).length
MatchField(block, p)   == LengthField(block, At(block, p) % 16, LiteralEnd(block, p) + 2)

\* The parts of a sequence, by name.
LEMMA SequenceParts ==
  ASSUME NEW block, NEW p
  PROVE  /\ SequenceAt(block, p)
              = [literals    |-> LiteralField(block, p).length,
                 literalsAt  |-> LiteralField(block, p).next,
                 literalsEnd |-> LiteralEnd(block, p),
                 offset      |-> At(block, LiteralEnd(block, p))
                                   + 256 * At(block, LiteralEnd(block, p) + 1),
                 match       |-> 4 + MatchField(block, p).length,
                 next        |-> MatchField(block, p).next]
         /\ SequenceAt(block, p).literals = LiteralField(block, p).length
         /\ SequenceAt(block, p).literalsAt = LiteralField(block, p).next
         /\ SequenceAt(block, p).literalsEnd = LiteralEnd(block, p)
         /\ SequenceAt(block, p).offset
              = At(block, LiteralEnd(block, p)) + 256 * At(block, LiteralEnd(block, p) + 1)
         /\ SequenceAt(block, p).match = 4 + MatchField(block, p).length
         /\ SequenceAt(block, p).next = MatchField(block, p).next
  <1>1. SequenceAt(block, p)
          = [literals    |-> LiteralField(block, p).length,
             literalsAt  |-> LiteralField(block, p).next,
             literalsEnd |-> LiteralEnd(block, p),
             offset      |-> At(block, LiteralEnd(block, p))
                               + 256 * At(block, LiteralEnd(block, p) + 1),
             match       |-> 4 + MatchField(block, p).length,
             next        |-> MatchField(block, p).next]
    BY DEF SequenceAt, LiteralField, LiteralEnd, MatchField
  <1> QED BY <1>1

\* The order of the parts of a sequence that begins in a block, and of one that
\* ends in it, too.
LEMMA SequenceType ==
  ASSUME NEW block \in Seq(Byte), NEW p \in Nat, p < Len(block)
  PROVE  LET s == SequenceAt(block, p)
         IN  /\ s.literals \in Nat /\ s.literalsAt \in Nat /\ s.literalsEnd \in Nat
             /\ p + 1 <= s.literalsAt /\ s.literalsEnd = s.literalsAt + s.literals
             /\ s.offset \in Nat /\ s.next \in Nat
             /\ s.next <= Len(block) => s.match \in Nat /\ s.match >= 4 /\ s.literalsEnd + 2 <= s.next
  <1> DEFINE token == At(block, p)
             lit   == LiteralField(block, p)
             end   == LiteralEnd(block, p)
             match == MatchField(block, p)
             s     == SequenceAt(block, p)
  <1>1. Len(block) \in Nat /\ token \in Nat /\ token \div 16 \in Nat /\ token % 16 \in Nat
    <2>1. token \in Nat
      BY AtType
    <2> QED BY <2>1
  <1>2. /\ s.literals = lit.length /\ s.literalsAt = lit.next /\ s.literalsEnd = end
        /\ s.offset = At(block, end) + 256 * At(block, end + 1)
        /\ s.match = 4 + match.length /\ s.next = match.next
    BY SequenceParts
  <1>3. lit.next \in Nat /\ p + 1 <= lit.next /\ lit.length \in Nat
    <2>1. p + 1 \in Nat /\ p + 1 <= Len(block)
      BY <1>1
    <2> QED BY <1>1, <2>1, LengthFieldType DEF LiteralField
  <1>4. end = lit.next + lit.length
    BY DEF LiteralEnd
  <1>5. end \in Nat /\ end + 1 \in Nat /\ end + 2 \in Nat
    BY <1>3, <1>4
  <1>6. match.next \in Nat /\ (match.next <= Len(block) => match.length \in Nat /\ end + 2 <= match.next)
    BY <1>1, <1>5, LengthFieldType DEF MatchField
  <1>7. At(block, end) \in Nat /\ At(block, end + 1) \in Nat
    BY <1>5, AtType
  <1> HIDE DEF lit, end, match, s
  <1>8. s.literals \in Nat /\ s.literalsAt \in Nat /\ p + 1 <= s.literalsAt
    BY <1>2, <1>3
  <1>9. s.literalsEnd = s.literalsAt + s.literals
    BY <1>2, <1>4
  <1>10. s.literalsEnd \in Nat /\ s.offset \in Nat /\ s.next \in Nat
    BY <1>2, <1>5, <1>6, <1>7
  <1>11. s.next <= Len(block) => s.match \in Nat /\ s.match >= 4 /\ s.literalsEnd + 2 <= s.next
    BY <1>2, <1>6
  <1> QED BY <1>8, <1>9, <1>10, <1>11 DEF s

\* A sequence is where its bytes are.
LEMMA SequenceStable ==
  ASSUME NEW a \in Seq(Byte), NEW b \in Seq(Byte), NEW limit \in Nat,
         limit <= Len(a), limit <= Len(b),
         \A i \in 0 .. limit - 1 : At(a, i) = At(b, i),
         NEW p \in Nat, p < limit, SequenceAt(a, p).next <= limit
  PROVE  SequenceAt(b, p) = SequenceAt(a, p)
  <1> DEFINE s   == SequenceAt(a, p)
             end == LiteralEnd(a, p)
  <1>1. Len(a) \in Nat /\ Len(b) \in Nat /\ p < Len(a)
    OBVIOUS
  <1>2. At(b, p) = At(a, p) /\ At(a, p) \in Nat
    <2>1. p \in 0 .. limit - 1 /\ p \in Int
      OBVIOUS
    <2> QED BY <2>1, AtType
  <1>3. s.literalsAt = LiteralField(a, p).next /\ s.literalsEnd = end /\ s.next = MatchField(a, p).next
    BY SequenceParts
  <1>4. /\ s.literals \in Nat /\ s.literalsAt \in Nat /\ s.literalsEnd \in Nat /\ s.next \in Nat
        /\ s.literalsEnd = s.literalsAt + s.literals
        /\ s.next <= Len(a) => s.literalsEnd + 2 <= s.next
    <2> HIDE DEF s
    <2> QED BY <1>1, SequenceType DEF s
  <1>5. s.next <= limit
    OBVIOUS
  <1> HIDE DEF s, end
  <1>6. s.literalsEnd + 2 <= limit /\ s.literalsAt <= limit
    BY <1>1, <1>4, <1>5
  <1>7. LiteralField(b, p) = LiteralField(a, p)
    <2>1. LengthField(a, At(a, p) \div 16, p + 1).next <= limit
      BY <1>3, <1>6 DEF LiteralField
    <2>2. At(a, p) \div 16 \in Nat /\ p + 1 \in Nat
      BY <1>2
    <2>3. LengthField(b, At(a, p) \div 16, p + 1) = LengthField(a, At(a, p) \div 16, p + 1)
      BY <2>1, <2>2, LengthFieldStable
    <2> QED BY <1>2, <2>3 DEF LiteralField
  <1>8. LiteralEnd(b, p) = end
    BY <1>7 DEF LiteralEnd, end
  <1>9. MatchField(b, p) = MatchField(a, p)
    <2>1. LengthField(a, At(a, p) % 16, end + 2).next <= limit
      BY <1>3, <1>5 DEF MatchField, end
    <2>2. At(a, p) % 16 \in Nat /\ end + 2 \in Nat
      BY <1>2, <1>3, <1>4
    <2>3. LengthField(b, At(a, p) % 16, end + 2) = LengthField(a, At(a, p) % 16, end + 2)
      BY <2>1, <2>2, LengthFieldStable
    <2> QED BY <1>2, <1>8, <2>3 DEF MatchField, end
  <1>10. At(b, end) = At(a, end) /\ At(b, end + 1) = At(a, end + 1)
    <2>1. end \in 0 .. limit - 1 /\ end + 1 \in 0 .. limit - 1
      BY <1>3, <1>4, <1>6
    <2> QED BY <2>1
  <1>11. LiteralEnd(b, p) = LiteralEnd(a, p)
    BY <1>8 DEF end
  <1>12. /\ At(b, LiteralEnd(a, p)) = At(a, LiteralEnd(a, p))
         /\ At(b, LiteralEnd(a, p) + 1) = At(a, LiteralEnd(a, p) + 1)
    BY <1>10 DEF end
  <1> QED BY <1>7, <1>9, <1>11, <1>12, SequenceParts

-----------------------------------------------------------------------------
(***************************************************************************)
(* Describes without its recursion: there is a set of points, each of      *)
(* which is the end or has a fitting sequence that leads to another one.   *)
(***************************************************************************)

Points(limit, upto) == (0 .. limit) \X (0 .. upto)

Chained(block, limit, data, upto, S) ==
  \A x \in S : IF x[1] = limit THEN x[2] = upto
               ELSE Fits(block, limit, data, upto, x) /\ Behind(block, x) \in S

Reaches(block, limit, data, upto, x) ==
  \E S \in SUBSET Points(limit, upto) : x \in S /\ Chained(block, limit, data, upto, S)

IsRest(rest, block, limit, data, upto) ==
  rest = [x \in Points(limit, upto) |->
            IF x[1] = limit THEN x[2] = upto
            ELSE Fits(block, limit, data, upto, x) /\ rest[Behind(block, x)]]

\* A sequence that fits leads to another point.
LEMMA FitsLeads ==
  ASSUME NEW block \in Seq(Byte), NEW limit \in Nat, limit <= Len(block), NEW data, NEW upto \in Nat,
         NEW x \in Points(limit, upto), x[1] # limit, Fits(block, limit, data, upto, x)
  PROVE  Behind(block, x) \in Points(limit, upto) /\ x[1] < Behind(block, x)[1]
  <1> DEFINE s == SequenceAt(block, x[1])
  <1>1. x[1] \in Nat /\ x[2] \in Nat /\ x[1] < limit /\ x[1] < Len(block) /\ Len(block) \in Nat
    BY DEF Points
  <1>2. s.next \in x[1] + 1 .. limit /\ (x[2] + s.literals) + s.match <= upto
    BY Zenon DEF Fits
  <1>3. Behind(block, x) = <<s.next, x[2] + s.literals + s.match>>
    BY DEF Behind
  <1>4. s.literals \in Nat /\ (s.next <= Len(block) => s.match \in Nat)
    BY <1>1, SequenceType
  <1> HIDE DEF s
  <1>5. s.next <= Len(block)
    BY <1>1, <1>2
  <1>6. x[2] + s.literals + s.match \in 0 .. upto
    BY <1>1, <1>2, <1>4, <1>5
  <1> QED BY <1>1, <1>2, <1>3, <1>6 DEF Points

\* What the recursion asks for at each point, a chain from there gives.
LEMMA ReachesRest ==
  ASSUME NEW block \in Seq(Byte), NEW limit \in Nat, limit <= Len(block), NEW data, NEW upto \in Nat,
         NEW x \in Points(limit, upto)
  PROVE  Reaches(block, limit, data, upto, x)
           <=> IF x[1] = limit THEN x[2] = upto
               ELSE Fits(block, limit, data, upto, x) /\ Reaches(block, limit, data, upto, Behind(block, x))
  <1>1. ASSUME NEW S \in SUBSET Points(limit, upto), x \in S, Chained(block, limit, data, upto, S)
        PROVE  IF x[1] = limit THEN x[2] = upto
               ELSE Fits(block, limit, data, upto, x) /\ Reaches(block, limit, data, upto, Behind(block, x))
    BY Zenon, <1>1 DEF Chained, Reaches
  <1>2. ASSUME x[1] = limit, x[2] = upto PROVE Reaches(block, limit, data, upto, x)
    <2>1. Chained(block, limit, data, upto, {x})
      BY <1>2 DEF Chained
    <2>2. {x} \in SUBSET Points(limit, upto) /\ x \in {x}
      OBVIOUS
    <2> QED BY Zenon, <2>1, <2>2 DEF Reaches
  <1>3. ASSUME x[1] # limit, Fits(block, limit, data, upto, x),
               Reaches(block, limit, data, upto, Behind(block, x))
        PROVE  Reaches(block, limit, data, upto, x)
    <2>1. PICK S \in SUBSET Points(limit, upto) :
            Behind(block, x) \in S /\ Chained(block, limit, data, upto, S)
      BY Zenon, <1>3 DEF Reaches
    <2>2. Chained(block, limit, data, upto, S \cup {x})
      BY <1>3, <2>1 DEF Chained
    <2>3. S \cup {x} \in SUBSET Points(limit, upto) /\ x \in S \cup {x}
      OBVIOUS
    <2> QED BY Zenon, <2>2, <2>3 DEF Reaches
  <1> QED BY Zenon, <1>1, <1>2, <1>3 DEF Reaches

\* The recursive function of Describes exists.
LEMMA RestExists ==
  ASSUME NEW block \in Seq(Byte), NEW limit \in Nat, limit <= Len(block), NEW data, NEW upto \in Nat
  PROVE  \E rest : IsRest(rest, block, limit, data, upto)
  <1> DEFINE R(x)  == Reaches(block, limit, data, upto, x)
             F(x)  == Fits(block, limit, data, upto, x)
             B(x)  == Behind(block, x)
             P     == Points(limit, upto)
             rest  == [x \in P |-> R(x)]
  <1>1. \A x \in P : x[1] # limit /\ F(x) => B(x) \in P
    BY FitsLeads
  <1>2. \A x \in P : R(x) <=> IF x[1] = limit THEN x[2] = upto ELSE F(x) /\ R(B(x))
    BY ReachesRest
  <1>3. \A x \in P : R(x) \in BOOLEAN /\ F(x) \in BOOLEAN
    BY DEF Reaches, Fits
  <1> HIDE DEF R, F, B, P
  <1>4. \A x \in P : rest[x] = R(x)
    BY Zenon
  <1>5. ASSUME NEW x \in P
        PROVE  rest[x] = IF x[1] = limit THEN x[2] = upto ELSE F(x) /\ rest[B(x)]
    <2> HIDE DEF rest
    <2>1. CASE x[1] = limit
      <3>1. R(x) <=> x[2] = upto
        BY <1>2, <2>1
      <3>2. R(x) = (x[2] = upto)
        BY Zenon, <3>1, <1>3
      <3> QED BY Zenon, <1>4, <2>1, <3>2
    <2>2. CASE x[1] # limit
      <3>1. R(x) <=> F(x) /\ R(B(x))
        BY <1>2, <2>2
      <3>2. F(x) => rest[B(x)] = R(B(x))
        BY <1>1, <1>4, <2>2
      <3>3. R(x) <=> F(x) /\ rest[B(x)]
        BY Zenon, <3>1, <3>2
      <3>4. R(x) = (F(x) /\ rest[B(x)])
        BY Zenon, <3>3, <1>3
      <3> QED BY Zenon, <1>4, <2>2, <3>4
    <2> QED BY Zenon, <2>1, <2>2
  <1>6. rest = [x \in P |-> IF x[1] = limit THEN x[2] = upto ELSE F(x) /\ rest[B(x)]]
    BY Zenon, <1>4, <1>5
  <1>7. IsRest(rest, block, limit, data, upto)
    BY Zenon, <1>6 DEF IsRest, P, F, B
  <1> QED BY Zenon, <1>7

\* Whatever function satisfies the recursion, it tells from which points the end
\* is reached: by induction on the distance from the end.
LEMMA RestReaches ==
  ASSUME NEW block \in Seq(Byte), NEW limit \in Nat, limit <= Len(block), NEW data, NEW upto \in Nat,
         NEW rest, IsRest(rest, block, limit, data, upto), NEW x \in Points(limit, upto)
  PROVE  rest[x] <=> Reaches(block, limit, data, upto, x)
  <1> DEFINE R(y)  == Reaches(block, limit, data, upto, y)
             F(y)  == Fits(block, limit, data, upto, y)
             B(y)  == Behind(block, y)
             P     == Points(limit, upto)
  <1>1. \A y \in P : rest[y] = IF y[1] = limit THEN y[2] = upto ELSE F(y) /\ rest[B(y)]
    BY Zenon DEF IsRest
  <1>2. \A y \in P : y[1] # limit /\ F(y) => B(y) \in P /\ y[1] < B(y)[1]
    BY FitsLeads
  <1>3. \A y \in P : y[1] \in Nat /\ y[1] <= limit
    BY DEF Points
  <1>4. ASSUME rest[x] PROVE R(x)
    <2> DEFINE S == {y \in P : rest[y]}
    <2>1. x \in S /\ S \in SUBSET P
      BY <1>4
    <2>2. \A y \in S : IF y[1] = limit THEN y[2] = upto ELSE F(y) /\ B(y) \in S
      <3> HIDE DEF F, B, P
      <3> QED BY Zenon, <1>1, <1>2
    <2>3. Chained(block, limit, data, upto, S)
      BY Zenon, <2>2 DEF Chained
    <2> HIDE DEF S
    <2> QED BY Zenon, <2>1, <2>3 DEF Reaches
  <1>5. ASSUME R(x) PROVE rest[x]
    <2>1. PICK S \in SUBSET P : x \in S /\ Chained(block, limit, data, upto, S)
      BY Zenon, <1>5 DEF Reaches
    <2>2. \A y \in S : IF y[1] = limit THEN y[2] = upto ELSE F(y) /\ B(y) \in S
      BY Zenon, <2>1 DEF Chained
    <2> HIDE DEF F, B, P
    <2> DEFINE Wrong == {limit - y[1] : y \in {z \in S : ~rest[z]}}
    <2>3. SUFFICES ASSUME ~rest[x] PROVE FALSE
      OBVIOUS
    <2>4. Wrong \subseteq Nat
      BY <1>3
    <2>5. Wrong # {}
      BY <2>1, <2>3
    <2>6. PICK least \in Wrong : \A n \in Wrong : least <= n
      <3> HIDE DEF Wrong
      <3> QED BY <2>4, <2>5, LeastNumber
    <2>7. PICK y \in S : ~rest[y] /\ least = limit - y[1]
      BY <2>6
    <2>8. y \in P /\ y[1] # limit /\ F(y) /\ B(y) \in S /\ ~rest[B(y)]
      BY Zenon, <1>1, <2>2, <2>7
    <2>9. y[1] \in Nat /\ B(y)[1] \in Nat /\ y[1] < B(y)[1]
      BY <1>2, <1>3, <2>8
    <2>10. limit - B(y)[1] \in Wrong
      BY <2>8
    <2>11. least <= limit - B(y)[1]
      BY <2>6, <2>10
    <2> QED BY <2>7, <2>9, <2>11
  <1> QED BY <1>4, <1>5

\* Describes, without its recursion.
LEMMA DescribesReaches ==
  ASSUME NEW block \in Seq(Byte), NEW limit \in Nat, limit <= Len(block), NEW data, NEW upto \in Nat
  PROVE  Describes(block, limit, data, upto) <=> Reaches(block, limit, data, upto, <<0, 0>>)
  <1> DEFINE rest == CHOOSE f : IsRest(f, block, limit, data, upto)
  <1>1. Describes(block, limit, data, upto) = rest[<<0, 0>>]
    BY DEF Describes, IsRest, Points
  <1>2. IsRest(rest, block, limit, data, upto)
    BY Zenon, RestExists
  <1>3. <<0, 0>> \in Points(limit, upto)
    BY DEF Points
  <1> HIDE DEF rest
  <1> QED BY <1>1, <1>2, <1>3, RestReaches

\* A block of nothing describes no data.
LEMMA DescribesNothing ==
  ASSUME NEW block \in Seq(Byte), NEW data
  PROVE  Describes(block, 0, data, 0)
  <1>1. <<0, 0>> \in Points(0, 0)
    BY DEF Points
  <1>2. Reaches(block, 0, data, 0, <<0, 0>>)
    BY <1>1, ReachesRest
  <1> QED BY <1>2, DescribesReaches

\* Fits looks at nothing behind the limit.
LEMMA FitsStable ==
  ASSUME NEW a \in Seq(Byte), NEW b \in Seq(Byte), NEW limit \in Nat, NEW data, NEW upto \in Nat,
         limit <= Len(a), limit <= Len(b),
         \A i \in 0 .. limit - 1 : At(a, i) = At(b, i),
         NEW x \in Points(limit, upto), x[1] # limit, Fits(a, limit, data, upto, x)
  PROVE  Fits(b, limit, data, upto, x) /\ Behind(b, x) = Behind(a, x)
  <1> DEFINE s == SequenceAt(a, x[1])
  <1>1. x[1] \in Nat /\ x[1] < limit /\ x[1] < Len(a) /\ Len(a) \in Nat
    BY DEF Points
  <1>2. s.next \in x[1] + 1 .. limit /\ SameBytes(a, s.literalsAt, data, x[2], s.literals)
    BY Zenon DEF Fits
  <1>3. SequenceAt(b, x[1]) = s
    <2>1. SequenceAt(a, x[1]).next <= limit
      BY <1>1, <1>2
    <2> QED BY <1>1, <2>1, SequenceStable
  <1>4. /\ s.literals \in Nat /\ s.literalsAt \in Nat /\ s.literalsEnd = s.literalsAt + s.literals
        /\ s.next <= Len(a) => s.literalsEnd + 2 <= s.next
    BY <1>1, SequenceType
  <1> HIDE DEF s
  <1>5. SameBytes(b, s.literalsAt, data, x[2], s.literals)
    <2>1. s.literalsAt + s.literals <= limit
      BY <1>1, <1>2, <1>4
    <2>2. \A k \in 0 .. s.literals - 1 : At(b, s.literalsAt + k) = At(a, s.literalsAt + k)
      BY <1>4, <2>1
    <2> QED BY <1>2, <2>2 DEF SameBytes
  <1>6. Behind(b, x) = Behind(a, x)
    BY Zenon, <1>3 DEF Behind, s
  <1>7. Fits(b, limit, data, upto, x)
    BY Zenon, <1>3, <1>5 DEF Fits, s
  <1> QED BY <1>6, <1>7

\* A block that describes some data still does when it is written on behind
\* what describes them, and one more sequence that fits describes more.
LEMMA DescribesMore ==
  ASSUME NEW a \in Seq(Byte), NEW b \in Seq(Byte), NEW limit \in Nat, NEW data, NEW upto \in Nat,
         limit <= Len(a), \A i \in 0 .. limit - 1 : At(a, i) = At(b, i),
         Describes(a, limit, data, upto),
         NEW end \in Nat, limit <= end, end <= Len(b), NEW more \in Nat, upto <= more,
         \/ end = limit /\ more = upto
         \/ Fits(b, end, data, more, <<limit, upto>>) /\ Behind(b, <<limit, upto>>) = <<end, more>>
  PROVE  Describes(b, end, data, more)
  <1>1. limit <= Len(b) /\ Len(a) \in Nat /\ Len(b) \in Nat
    OBVIOUS
  <1>2. Reaches(a, limit, data, upto, <<0, 0>>)
    BY DescribesReaches
  <1>3. PICK S \in SUBSET Points(limit, upto) : <<0, 0>> \in S /\ Chained(a, limit, data, upto, S)
    BY Zenon, <1>2 DEF Reaches
  <1>4. ASSUME NEW x \in S, x[1] # limit
        PROVE  Fits(b, end, data, more, x) /\ Behind(b, x) \in S
    <2>1. Fits(a, limit, data, upto, x) /\ Behind(a, x) \in S
      BY Zenon, <1>3, <1>4 DEF Chained
    <2>2. Fits(b, limit, data, upto, x) /\ Behind(b, x) = Behind(a, x)
      BY <1>1, <1>4, <2>1, FitsStable
    <2>3. Behind(b, x) \in Points(limit, upto)
      BY <2>1, <2>2
    <2>4. Fits(b, end, data, more, x)
      <3> DEFINE s == SequenceAt(b, x[1])
      <3>1. s.next \in x[1] + 1 .. limit /\ (x[2] + s.literals) + s.match <= upto
        BY Zenon, <2>2 DEF Fits
      <3>2. Behind(b, x) = <<s.next, x[2] + s.literals + s.match>>
        BY DEF Behind
      <3> HIDE DEF s
      <3>3. x[2] + s.literals + s.match \in Nat /\ x[1] \in Nat
        BY <2>3, <3>2 DEF Points
      <3>4. x \in Points(limit, upto) /\ x[1] < Len(b)
        BY <1>1, <1>4 DEF Points
      <3>5. s.next \in x[1] + 1 .. end
        BY <3>1, <3>3
      <3>6. x[2] + s.literals + s.match <= more
        BY <3>1, <3>3
      <3> QED BY Zenon, <2>2, <3>5, <3>6 DEF Fits, s
    <2> QED BY <2>1, <2>2, <2>4
  <1>5. <<end, more>> \in Points(end, more) /\ S \subseteq Points(end, more)
    BY <1>3 DEF Points
  <1> DEFINE T == S \cup {<<end, more>>}
  <1>6. T \in SUBSET Points(end, more) /\ <<0, 0>> \in T
    BY <1>3, <1>5
  <1>7. ASSUME NEW x \in T
        PROVE  IF x[1] = end THEN x[2] = more ELSE Fits(b, end, data, more, x) /\ Behind(b, x) \in T
    <2>1. CASE x = <<end, more>>
      BY <2>1
    <2>2. CASE x \in S /\ x[1] = limit
      <3>1. x[2] = upto /\ x = <<limit, upto>>
        <4>1. x[2] = upto
          BY Zenon, <1>3, <2>2 DEF Chained
        <4>2. x \in Points(limit, upto)
          BY <2>2
        <4> QED BY <2>2, <4>1, <4>2 DEF Points
      <3>2. CASE end = limit /\ more = upto
        BY <2>2, <3>1, <3>2
      <3>3. CASE Fits(b, end, data, more, <<limit, upto>>) /\ Behind(b, <<limit, upto>>) = <<end, more>>
        <4>1. limit # end
          <5>1. Fits(b, end, data, more, <<limit, upto>>)
            BY <3>3
          <5>2. SequenceAt(b, limit).next \in limit + 1 .. end
            BY <5>1 DEF Fits
          <5> QED BY <5>2
        <4>2. Fits(b, end, data, more, x) /\ Behind(b, x) \in T
          BY Zenon, <3>1, <3>3
        <4> QED BY <2>2, <4>1, <4>2
      <3> QED BY <3>2, <3>3
    <2>3. CASE x \in S /\ x[1] # limit
      <3>1. x[1] # end
        BY <2>3 DEF Points
      <3> QED BY Zenon, <1>4, <2>3, <3>1
    <2> QED BY <2>1, <2>2, <2>3
  <1> HIDE DEF T
  <1>8. Chained(b, end, data, more, T)
    BY Zenon, <1>7 DEF Chained
  <1>9. Reaches(b, end, data, more, <<0, 0>>)
    BY Zenon, <1>6, <1>8 DEF Reaches
  <1> QED BY <1>9, DescribesReaches

-----------------------------------------------------------------------------
\* What the helpers of the compressor write, read as a sequence

Saturated(n) == IF n >= 15 THEN 15 ELSE n

\* The number of bytes that extend a length.
ExtensionSize(n) == IF n >= 15 THEN (n - 15) \div 255 + 1 ELSE 0

\* The sizes of the two length fields, and of what they belong to.
LEMMA Sizes ==
  ASSUME NEW n \in Nat
  PROVE  /\ ExtensionSize(n) \in Nat /\ Saturated(n) \in 0 .. 15
         /\ RunSize(n) = 1 + ExtensionSize(n) /\ MatchSize(n) = 2 + ExtensionSize(n)
  <1>1. n >= 15 => (n - 15) \div 255 \in Nat
    OBVIOUS
  <1> QED BY <1>1 DEF ExtensionSize, Saturated, RunSize, MatchSize

\* A saturated nibble and the extension behind it read as the length that was
\* written.
LEMMA LengthWritten ==
  ASSUME NEW block \in Seq(Byte), NEW p \in Nat, NEW n \in Nat,
         p + ExtensionSize(n) <= Len(block),
         n >= 15 => Load(block, p, ExtensionSize(n)) = Extension(n - 15)
  PROVE  LengthField(block, Saturated(n), p) = [length |-> n, next |-> p + ExtensionSize(n)]
  <1>1. CASE n < 15
    BY <1>1 DEF LengthField, Saturated, ExtensionSize
  <1>2. CASE n >= 15
    <2> DEFINE r == n - 15
               k == r \div 255
    <2>1. r \in Nat /\ k \in Nat /\ ExtensionSize(n) = k + 1 /\ r = 255 * k + (r % 255) /\ r % 255 \in 0 .. 254
      <3>1. r \in Nat
        BY <1>2
      <3>2. ExtensionSize(n) = k + 1
        BY <1>2 DEF ExtensionSize
      <3> HIDE DEF r
      <3>3. k \in Nat /\ r = 255 * k + (r % 255) /\ r % 255 \in 0 .. 254
        BY <3>1
      <3> QED BY <3>1, <3>2, <3>3
    <2>2. Extension(r) = [i \in 1 .. k + 1 |-> IF i <= k THEN 255 ELSE r % 255]
      BY DEF Extension
    <2> HIDE DEF r, k
    <2>3. \A i \in 1 .. k + 1 : At(block, p + i - 1) = IF i <= k THEN 255 ELSE r % 255
      <3>1. Load(block, p, k + 1) = Extension(r)
        BY <1>2, <2>1 DEF r
      <3>2. \A i \in 1 .. k + 1 : Load(block, p, k + 1)[i] = At(block, p + i - 1)
        BY DEF Load
      <3>3. \A i \in 1 .. k + 1 : Extension(r)[i] = IF i <= k THEN 255 ELSE r % 255
        BY <2>2
      <3> QED BY <3>1, <3>2, <3>3
    <2>4. At(block, p + k) = r % 255
      <3>1. k + 1 \in 1 .. k + 1 /\ ~(k + 1 <= k) /\ p + (k + 1) - 1 = p + k
        BY <2>1
      <3> QED BY <2>3, <3>1
    <2>5. \A q \in p .. (p + k) - 1 : At(block, q) = 255
      <3> TAKE q \in p .. (p + k) - 1
      <3>1. q - p + 1 \in 1 .. k + 1 /\ q - p + 1 <= k /\ p + (q - p + 1) - 1 = q
        BY <2>1
      <3> QED BY <2>3, <3>1
    <2>6. p + k \in p .. Len(block) - 1
      BY <2>1
    <2>7. ExtensionEnd(block, p) = p + k + 1
      <3>1. At(block, p + k) # 255
        BY <2>1, <2>4
      <3> QED BY <2>1, <2>5, <2>6, <3>1, ExtensionEndAt
    <2>8. LengthField(block, Saturated(n), p)
            = [length |-> 15 + 255 * ((p + k + 1) - 1 - p) + At(block, (p + k + 1) - 1), next |-> p + k + 1]
      BY <1>2, <2>7 DEF LengthField, Saturated
    <2>9. (p + k + 1) - 1 - p = k /\ (p + k + 1) - 1 = p + k
      BY <2>1
    <2>10. (15 + 255 * k) + (r % 255) = n
      <3>1. r = n - 15
        BY DEF r
      <3> QED BY <2>1, <3>1
    <2>11. p + k + 1 = p + ExtensionSize(n)
      BY <2>1
    <2>12. LengthField(block, Saturated(n), p)
             = [length |-> (15 + 255 * k) + (r % 255), next |-> p + k + 1]
      BY <2>4, <2>8, <2>9
    <2> QED BY <2>10, <2>11, <2>12
  <1> QED BY <1>1, <1>2

\* The or of a nibble and nothing is the nibble.
LEMMA OrNibbleZero ==
  ASSUME NEW a \in 0 .. 15
  PROVE  OrNibble(a, 0) = a /\ OrNibble(0, a) = a
  <1>1. \/ a = 0 \/ a = 1 \/ a = 2 \/ a = 3 \/ a = 4 \/ a = 5 \/ a = 6 \/ a = 7
        \/ a = 8 \/ a = 9 \/ a = 10 \/ a = 11 \/ a = 12 \/ a = 13 \/ a = 14 \/ a = 15
    OBVIOUS
  <1> QED BY <1>1 DEF OrNibble, OrBit

\* The two nibbles of a token do not disturb each other.
LEMMA TokenNibbles ==
  ASSUME NEW high \in 0 .. 15, NEW low \in 0 .. 15
  PROVE  BitOr(16 * high, low) \div 16 = high /\ BitOr(16 * high, low) % 16 = low
  <1>1. (16 * high) \div 16 = high /\ (16 * high) % 16 = 0 /\ low \div 16 = 0 /\ low % 16 = low
    OBVIOUS
  <1>2. BitOr(16 * high, low) = 16 * high + low
    BY <1>1, OrNibbleZero DEF BitOr
  <1> QED BY <1>2

\* The elements of two sequences, one behind the other.
LEMMA ConcatAt ==
  ASSUME NEW a \in Seq(Nat), NEW b \in Seq(Nat), NEW i \in 1 .. Len(a) + Len(b)
  PROVE  (a \o b)[i] = IF i <= Len(a) THEN a[i] ELSE b[i - Len(a)]
  BY ConcatProperties

\* A number that two bytes can hold is its own remainder.
LEMMA ShortOffset ==
  ASSUME NEW n \in Nat, n < 65536
  PROVE  n % 65536 = n /\ (n % 256) + 256 * (n \div 256) = n
  OBVIOUS

\* What emitMatch writes behind the literals: the offset, then the extension.
LEMMA MatchWritten ==
  ASSUME NEW block \in Seq(Byte), NEW p \in Nat, NEW m \in Nat, NEW offset \in 1 .. OFFSET_RANGE - 1,
         p + MatchSize(m) <= Len(block),
         Load(block, p, MatchSize(m)) = MatchBytes(offset, m)
  PROVE  /\ At(block, p) + 256 * At(block, p + 1) = offset
         /\ m >= 15 => Load(block, p + 2, ExtensionSize(m)) = Extension(m - 15)
  <1> DEFINE low == <<offset % 256, offset \div 256>>
             ext == IF m >= 15 THEN Extension(m - 15) ELSE <<>>
  <1>1. MatchBytes(offset, m) = low \o ext
    <2>1. offset \in Nat /\ offset < 65536 /\ OFFSET_RANGE = 65536
      <3>1. OFFSET_RANGE = 65536
        BY DEF OFFSET_RANGE
      <3> QED BY <3>1, SMTT(30)
    <2>2. offset % 65536 = offset
      BY <2>1, ShortOffset
    <2>3. offset % OFFSET_RANGE = offset
      BY <2>1, <2>2
    <2> QED BY <2>3 DEF MatchBytes, ML_MASK
  <1>2. low \in Seq(Nat) /\ Len(low) = 2 /\ low[1] = offset % 256 /\ low[2] = offset \div 256
    BY DEF OFFSET_RANGE
  <1>3. ext \in Seq(Byte) /\ Len(ext) = ExtensionSize(m)
    <2>1. CASE m >= 15
      <3>1. m - 15 \in Nat
        BY <2>1
      <3>2. Extension(m - 15) \in Seq(Byte) /\ Len(Extension(m - 15)) = (m - 15) \div 255 + 1
        BY <3>1, ExtensionType
      <3> QED BY <2>1, <3>2 DEF ExtensionSize
    <2>2. CASE m < 15
      BY <2>2 DEF ExtensionSize
    <2> QED BY <2>1, <2>2
  <1>4. ExtensionSize(m) \in Nat /\ MatchSize(m) = 2 + ExtensionSize(m)
    BY Sizes
  <1> HIDE DEF ext
  <1>5. ext \in Seq(Nat)
    BY <1>3, ByteNat
  <1> HIDE DEF low
  <1>6. \A i \in 1 .. 2 + ExtensionSize(m) :
          At(block, p + i - 1) = IF i <= 2 THEN low[i] ELSE ext[i - 2]
    <2>1. \A i \in 1 .. 2 + ExtensionSize(m) :
            (low \o ext)[i] = IF i <= 2 THEN low[i] ELSE ext[i - 2]
      <3>1. \A i \in 1 .. Len(low) + Len(ext) :
              (low \o ext)[i] = IF i <= Len(low) THEN low[i] ELSE ext[i - Len(low)]
        BY <1>2, <1>5, ConcatAt
      <3>2. Len(ext) = ExtensionSize(m) /\ Len(low) = 2
        BY <1>2, <1>3
      <3> QED BY <3>1, <3>2
    <2>2. \A i \in 1 .. 2 + ExtensionSize(m) :
            Load(block, p, MatchSize(m))[i] = At(block, p + i - 1)
      BY <1>4 DEF Load
    <2> QED BY <1>1, <2>1, <2>2
  <1>7. At(block, p) = low[1] /\ At(block, p + 1) = low[2]
    <2>1. 1 \in 1 .. 2 + ExtensionSize(m) /\ 2 \in 1 .. 2 + ExtensionSize(m)
      BY <1>4
    <2>2. p + 1 - 1 = p /\ p + 2 - 1 = p + 1
      OBVIOUS
    <2> QED BY <1>6, <2>1, <2>2
  <1>8. (offset % 256) + 256 * (offset \div 256) = offset
    <2>1. offset \in Nat /\ offset < 65536
      BY DEF OFFSET_RANGE
    <2> QED BY <2>1, ShortOffset
  <1>9. Load(block, p + 2, ExtensionSize(m)) = ext
    <2> DEFINE k == ExtensionSize(m)
    <2>1. \A i \in 1 .. k : At(block, (p + 2) + i - 1) = ext[i]
      <3> TAKE i \in 1 .. k
      <3>1. i + 2 \in 1 .. 2 + k /\ ~(i + 2 <= 2) /\ p + (i + 2) - 1 = (p + 2) + i - 1 /\ (i + 2) - 2 = i
        BY <1>4
      <3> QED BY <1>6, <3>1
    <2>2. Load(block, p + 2, k) \in Seq(Nat) /\ Len(Load(block, p + 2, k)) = k
      BY <1>4, LoadType, LoadSeq
    <2>3. \A i \in 1 .. k : Load(block, p + 2, k)[i] = ext[i]
      BY <2>1 DEF Load
    <2> HIDE DEF k
    <2> QED BY <1>3, <1>5, <2>2, <2>3, SeqEqual DEF k
  <1> QED BY <1>2, <1>7, <1>8, <1>9 DEF ext

-----------------------------------------------------------------------------
\* Bytes that are written, and the block they make

\* A store changes the bytes it writes, and no other.
LEMMA StoreAt ==
  ASSUME NEW b \in Seq(Byte), NEW i \in Nat, NEW bytes \in Seq(Byte), i + Len(bytes) <= Len(b),
         NEW q \in Int
  PROVE  At(Store(b, i, bytes), q)
           = IF q \in i .. i + Len(bytes) - 1 THEN bytes[(q - i) + 1] ELSE At(b, q)
  <1>1. /\ Store(b, i, bytes) \in Seq(Byte) /\ Len(Store(b, i, bytes)) = Len(b)
        /\ Len(b) \in Nat /\ Len(bytes) \in Nat
    BY StoreType
  <1>2. CASE q \in 0 .. Len(b) - 1
    <2>1. At(Store(b, i, bytes), q) = Store(b, i, bytes)[q + 1] /\ At(b, q) = b[q + 1]
      BY <1>1, <1>2 DEF At
    <2>2. q + 1 \in 1 .. Len(b)
      BY <1>1, <1>2
    <2>3. Store(b, i, bytes)[q + 1]
            = IF q + 1 \in i + 1 .. i + Len(bytes) THEN bytes[(q + 1) - i] ELSE b[q + 1]
      BY <2>2 DEF Store
    <2>4. /\ q + 1 \in i + 1 .. i + Len(bytes) <=> q \in i .. (i + Len(bytes)) - 1
          /\ (q + 1) - i = (q - i) + 1 /\ i + Len(bytes) - 1 = (i + Len(bytes)) - 1
      BY <1>1
    <2> QED BY <2>1, <2>3, <2>4
  <1>3. CASE q \notin 0 .. Len(b) - 1
    BY <1>1, <1>3 DEF At
  <1> QED BY <1>2, <1>3

\* A store of what was loaded elsewhere copies it.
LEMMA StoreCopies ==
  ASSUME NEW b \in Seq(Byte), NEW a \in Seq(Byte), NEW i \in Nat, NEW j \in Nat, NEW n \in Nat,
         i + n <= Len(b), j + n <= Len(a)
  PROVE  SameBytes(Store(b, i, Load(a, j, n)), i, a, j, n)
  <1>1. Load(a, j, n) \in Seq(Byte) /\ Len(Load(a, j, n)) = n
    BY LoadType
  <1>2. ASSUME NEW k \in 0 .. n - 1
        PROVE  At(Store(b, i, Load(a, j, n)), i + k) = At(a, j + k)
    <2>1. i + k \in i .. i + n - 1 /\ ((i + k) - i) + 1 = k + 1 /\ k + 1 \in 1 .. n /\ j + (k + 1) - 1 = j + k
      OBVIOUS
    <2>2. At(Store(b, i, Load(a, j, n)), i + k) = Load(a, j, n)[k + 1]
      <3>1. i + Len(Load(a, j, n)) <= Len(b)
        BY <1>1
      <3>2. i + k \in Int /\ i + k \in i .. i + Len(Load(a, j, n)) - 1
        BY <1>1, <2>1
      <3>3. At(Store(b, i, Load(a, j, n)), i + k) = Load(a, j, n)[((i + k) - i) + 1]
        BY <1>1, <3>1, <3>2, StoreAt
      <3> QED BY <2>1, <3>3
    <2>3. Load(a, j, n)[k + 1] = At(a, j + (k + 1) - 1)
      BY <2>1 DEF Load
    <2> QED BY <2>1, <2>2, <2>3
  <1> QED BY <1>2 DEF SameBytes

\* The same bytes, looked at from the other side.
LEMMA SameSymmetric ==
  ASSUME NEW a, NEW b, NEW i, NEW j, NEW n, SameBytes(a, i, b, j, n)
  PROVE  SameBytes(b, j, a, i, n)
  BY DEF SameBytes

\* The first bytes of a buffer, taken alone.
LEMMA SubSeqAt ==
  ASSUME NEW b \in Seq(Byte), NEW n \in Nat, n <= Len(b)
  PROVE  /\ SubSeq(b, 1, n) \in Seq(Byte) /\ Len(SubSeq(b, 1, n)) = n
         /\ \A q \in 0 .. n - 1 : At(SubSeq(b, 1, n), q) = At(b, q)
  <1>1. Len(b) \in Nat /\ SubSeq(b, 1, n) = [i \in 1 .. n |-> b[i]]
    OBVIOUS
  <1>2. SubSeq(b, 1, n) \in Seq(Byte) /\ Len(SubSeq(b, 1, n)) = n
    BY <1>1
  <1>3. ASSUME NEW q \in 0 .. n - 1 PROVE At(SubSeq(b, 1, n), q) = At(b, q)
    <2>1. q \in 0 .. Len(b) - 1 /\ q + 1 \in 1 .. n
      BY <1>1
    <2> QED BY <1>1, <1>2, <2>1 DEF At
  <1> QED BY <1>2, <1>3

\* What encodeRunLength writes: the nibble of the token, and the extension.
LEMMA RunWritten ==
  ASSUME NEW block \in Seq(Byte), NEW p \in Nat, NEW l \in Nat,
         p + RunSize(l) <= Len(block),
         Load(block, p, RunSize(l)) = EncodeRunLength(l)
  PROVE  /\ At(block, p) = 16 * Saturated(l)
         /\ l >= 15 => Load(block, p + 1, ExtensionSize(l)) = Extension(l - 15)
  <1> DEFINE k == ExtensionSize(l)
  <1>1. k \in Nat /\ RunSize(l) = 1 + k
    BY Sizes
  <1>2. At(block, p) = EncodeRunLength(l)[1]
    <2>1. 1 \in 1 .. RunSize(l) /\ p + 1 - 1 = p
      BY <1>1
    <2>2. Load(block, p, RunSize(l))[1] = At(block, p + 1 - 1)
      BY <2>1 DEF Load
    <2> QED BY <2>1, <2>2
  <1>3. CASE l < 15
    <2>1. EncodeRunLength(l) = <<l * 16>>
      BY <1>3 DEF EncodeRunLength, RUN_MASK
    <2> QED BY <1>2, <1>3, <2>1 DEF Saturated
  <1>4. CASE l >= 15
    <2> DEFINE ext == Extension(l - 15)
    <2>1. l - 15 \in Nat
      BY <1>4
    <2>2. ext \in Seq(Byte) /\ Len(ext) = (l - 15) \div 255 + 1 /\ (l - 15) \div 255 \in Nat
      <3> DEFINE r == l - 15
      <3>1. r \in Nat
        BY <2>1
      <3> HIDE DEF r
      <3>2. Extension(r) \in Seq(Byte) /\ Len(Extension(r)) = r \div 255 + 1
        BY <3>1, ExtensionType
      <3>3. r \div 255 \in Nat
        BY <3>1
      <3> QED BY <3>2, <3>3 DEF r
    <2>3. k = (l - 15) \div 255 + 1
      BY <1>4 DEF ExtensionSize
    <2>4. EncodeRunLength(l) = <<240>> \o ext
      BY <1>4 DEF EncodeRunLength, RUN_MASK
    <2> HIDE DEF ext, k
    <2>5. <<240>> \in Seq(Nat) /\ Len(<<240>>) = 1 /\ ext \in Seq(Nat) /\ Len(ext) = k
      BY <2>2, <2>3, ByteNat
    <2>6. \A i \in 1 .. 1 + k : EncodeRunLength(l)[i] = IF i <= 1 THEN <<240>>[i] ELSE ext[i - 1]
      BY <2>4, <2>5, ConcatAt
    <2>7. At(block, p) = 240
      <3>1. 1 \in 1 .. 1 + k /\ <<240>>[1] = 240
        BY <1>1
      <3> QED BY <1>2, <2>6, <3>1
    <2>8. \A i \in 1 .. k : Load(block, p + 1, k)[i] = ext[i]
      <3> TAKE i \in 1 .. k
      <3>1. /\ i + 1 \in 1 .. 1 + k /\ ~(i + 1 <= 1) /\ (i + 1) - 1 = i
            /\ p + (i + 1) - 1 = (p + 1) + i - 1
        BY <1>1
      <3>2. Load(block, p, RunSize(l))[i + 1] = At(block, p + (i + 1) - 1)
        BY <1>1, <3>1 DEF Load
      <3>3. Load(block, p + 1, k)[i] = At(block, (p + 1) + i - 1)
        BY DEF Load
      <3>4. EncodeRunLength(l)[i + 1] = ext[i]
        BY <2>6, <3>1
      <3> QED BY <3>1, <3>2, <3>3, <3>4
    <2>9. Load(block, p + 1, k) \in Seq(Nat) /\ Len(Load(block, p + 1, k)) = k
      BY <1>1, LoadSeq, LoadType
    <2>10. Load(block, p + 1, k) = ext
      BY <2>5, <2>8, <2>9, SeqEqual
    <2> QED BY <1>4, <2>7, <2>10 DEF Saturated, ext, k
  <1> QED BY <1>3, <1>4

\* Where a sequence of l literals whose token is at p has its offset, and where
\* it ends.
OffsetAt(p, l) == (p + RunSize(l)) + l
SequenceEnd(p, l, m) == OffsetAt(p, l) + MatchSize(m)

\* A token with its run, and a match behind the literals, as they are written.
HasRun(block, p, l, low) ==
  /\ At(block, p) = BitOr(16 * Saturated(l), low)
  /\ l >= 15 => Load(block, p + 1, ExtensionSize(l)) = Extension(l - 15)
HasMatch(block, e, offset, m) == Load(block, e, MatchSize(m)) = MatchBytes(offset, m)
HasSequence(block, p, l, offset, m) ==
  /\ SequenceEnd(p, l, m) <= Len(block)
  /\ HasRun(block, p, l, Saturated(m))
  /\ HasMatch(block, OffsetAt(p, l), offset, m)

\* What the sequence at p is read as.
ReadsAs(block, p, l, offset, m) ==
  /\ SequenceAt(block, p).literals = l
  /\ SequenceAt(block, p).literalsAt = p + RunSize(l)
  /\ SequenceAt(block, p).offset = offset
  /\ SequenceAt(block, p).match = 4 + m
  /\ SequenceAt(block, p).next = SequenceEnd(p, l, m)

\* A sequence is longer than its literals.
LEMMA SequenceSize ==
  ASSUME NEW p \in Nat, NEW l \in Nat, NEW m \in Nat
  PROVE  /\ OffsetAt(p, l) \in Nat /\ SequenceEnd(p, l, m) \in Nat
         /\ p + 1 <= p + RunSize(l) /\ p + RunSize(l) + l = OffsetAt(p, l)
         /\ SequenceEnd(p, l, m) = OffsetAt(p, l) + 2 + ExtensionSize(m)
         /\ p + 1 <= OffsetAt(p, l) /\ OffsetAt(p, l) + 2 <= SequenceEnd(p, l, m)
         /\ SequenceEnd(p, l, m) \in p + 1 .. SequenceEnd(p, l, m)
  <1>1. /\ ExtensionSize(l) \in Nat /\ RunSize(l) = 1 + ExtensionSize(l)
        /\ ExtensionSize(m) \in Nat /\ MatchSize(m) = 2 + ExtensionSize(m)
    BY Sizes
  <1> QED BY <1>1 DEF OffsetAt, SequenceEnd

\* A sequence that was written reads back as what it was written from.
LEMMA SequenceWritten ==
  ASSUME NEW block \in Seq(Byte), NEW p \in Nat, NEW l \in Nat, NEW m \in Nat,
         NEW offset \in 1 .. OFFSET_RANGE - 1, HasSequence(block, p, l, offset, m)
  PROVE  ReadsAs(block, p, l, offset, m)
  <1> DEFINE e == OffsetAt(p, l)
  <1>1. /\ ExtensionSize(l) \in Nat /\ Saturated(l) \in 0 .. 15 /\ RunSize(l) = 1 + ExtensionSize(l)
        /\ ExtensionSize(m) \in Nat /\ Saturated(m) \in 0 .. 15 /\ MatchSize(m) = 2 + ExtensionSize(m)
        /\ Len(block) \in Nat
    BY Sizes
  <1>2. e \in Nat /\ p + RunSize(l) + l = e /\ e + MatchSize(m) = SequenceEnd(p, l, m)
    BY SequenceSize DEF SequenceEnd
  <1>3. /\ e + MatchSize(m) <= Len(block)
        /\ At(block, p) = BitOr(16 * Saturated(l), Saturated(m))
        /\ l >= 15 => Load(block, p + 1, ExtensionSize(l)) = Extension(l - 15)
        /\ Load(block, e, MatchSize(m)) = MatchBytes(offset, m)
    BY <1>2 DEF HasSequence, HasRun, HasMatch
  <1>4. At(block, p) \div 16 = Saturated(l) /\ At(block, p) % 16 = Saturated(m)
    BY <1>1, <1>3, TokenNibbles
  <1> HIDE DEF e
  <1>5. LiteralField(block, p) = [length |-> l, next |-> (p + 1) + ExtensionSize(l)]
    <2>1. p + 1 \in Nat /\ (p + 1) + ExtensionSize(l) <= Len(block)
      BY <1>1, <1>2, <1>3
    <2> QED BY <1>3, <1>4, <2>1, LengthWritten DEF LiteralField
  <1>6. LiteralEnd(block, p) = e
    BY <1>1, <1>2, <1>5 DEF LiteralEnd
  <1>7. /\ At(block, e) + 256 * At(block, e + 1) = offset
        /\ m >= 15 => Load(block, e + 2, ExtensionSize(m)) = Extension(m - 15)
    BY <1>2, <1>3, MatchWritten
  <1>8. MatchField(block, p) = [length |-> m, next |-> (e + 2) + ExtensionSize(m)]
    <2>1. e + 2 \in Nat /\ (e + 2) + ExtensionSize(m) <= Len(block)
      BY <1>1, <1>2, <1>3
    <2>2. LengthField(block, Saturated(m), e + 2) = [length |-> m, next |-> (e + 2) + ExtensionSize(m)]
      BY <1>7, <2>1, LengthWritten
    <2> QED BY <1>4, <1>6, <2>2 DEF MatchField
  <1>9. /\ SequenceAt(block, p).literals = l
        /\ SequenceAt(block, p).literalsAt = (p + 1) + ExtensionSize(l)
        /\ SequenceAt(block, p).offset = offset
        /\ SequenceAt(block, p).match = 4 + m
        /\ SequenceAt(block, p).next = (e + 2) + ExtensionSize(m)
    BY <1>5, <1>6, <1>7, <1>8, SequenceParts
  <1>10. (p + 1) + ExtensionSize(l) = p + RunSize(l) /\ (e + 2) + ExtensionSize(m) = SequenceEnd(p, l, m)
    BY <1>1, <1>2
  <1> QED BY <1>9, <1>10 DEF ReadsAs

\* A nibble in the upper half of a byte.
LEMMA HighNibble ==
  ASSUME NEW high \in 0 .. 15
  PROVE  (16 * high) \div 16 = high /\ (16 * high) % 16 = 0
  OBVIOUS

\* So do the last literals of a block.
LEMMA LastLiteralsWritten ==
  ASSUME NEW block \in Seq(Byte), NEW p \in Nat, NEW l \in Nat,
         (p + RunSize(l)) + l <= Len(block),
         At(block, p) = 16 * Saturated(l),
         l >= 15 => Load(block, p + 1, ExtensionSize(l)) = Extension(l - 15)
  PROVE  /\ At(block, p) % 16 = 0
         /\ SequenceAt(block, p).literals = l
         /\ SequenceAt(block, p).literalsAt = p + RunSize(l)
         /\ SequenceAt(block, p).literalsEnd = (p + RunSize(l)) + l
  <1>1. /\ ExtensionSize(l) \in Nat /\ Saturated(l) \in 0 .. 15 /\ RunSize(l) = 1 + ExtensionSize(l)
        /\ Len(block) \in Nat
    BY Sizes
  <1>2. At(block, p) \div 16 = Saturated(l) /\ At(block, p) % 16 = 0
    BY <1>1, HighNibble
  <1>3. LiteralField(block, p) = [length |-> l, next |-> (p + 1) + ExtensionSize(l)]
    <2>1. p + 1 \in Nat /\ (p + 1) + ExtensionSize(l) <= Len(block)
      BY <1>1
    <2> QED BY <1>2, <2>1, LengthWritten DEF LiteralField
  <1>4. LiteralEnd(block, p) = ((p + 1) + ExtensionSize(l)) + l
    BY <1>3 DEF LiteralEnd
  <1>5. (p + 1) + ExtensionSize(l) = p + RunSize(l)
    BY <1>1
  <1> QED BY <1>2, <1>3, <1>4, <1>5, SequenceParts

\* The data that a sequence at p describes from a position on: its literals, and a
\* match that ends where the end of a block allows it to.
Matches(block, p, l, offset, m, data, from) ==
  LET at == from + l
  IN  /\ SameBytes(block, p + RunSize(l), data, from, l)
      /\ SameBytes(data, at, data, at - offset, 4 + m)
      /\ offset <= at /\ at <= Len(data) - 12 /\ at + (4 + m) <= Len(data) - 5

\* One more sequence that was written behind bytes that describe some data: they
\* describe the literals and the match, too.
LEMMA SequenceDescribed ==
  ASSUME NEW a \in Seq(Byte), NEW b \in Seq(Byte), NEW data \in Seq(Byte),
         NEW p \in Nat, NEW l \in Nat, NEW m \in Nat, NEW from \in Nat,
         NEW offset \in 1 .. OFFSET_RANGE - 1,
         p <= Len(a), \A i \in 0 .. p - 1 : At(a, i) = At(b, i), Describes(a, p, data, from),
         HasSequence(b, p, l, offset, m), Matches(b, p, l, offset, m, data, from)
  PROVE  Describes(b, SequenceEnd(p, l, m), data, (from + l) + (4 + m))
  <1> DEFINE s    == SequenceAt(b, p)
             end  == SequenceEnd(p, l, m)
             at   == from + l
             more == at + (4 + m)
  <1>1. ReadsAs(b, p, l, offset, m)
    BY SequenceWritten
  <1>2. /\ s.literals = l /\ s.literalsAt = p + RunSize(l) /\ s.offset = offset
        /\ s.match = 4 + m /\ s.next = end
    BY <1>1 DEF ReadsAs
  <1>3. end \in Nat /\ end \in p + 1 .. end
    BY SequenceSize
  <1>4. end <= Len(b)
    BY DEF HasSequence
  <1>5. more \in Nat /\ from <= more /\ at \in Nat
    OBVIOUS
  <1>6. from + s.literals = at /\ at + s.match = more
    BY <1>2
  <1>7. Behind(b, <<p, from>>) = <<end, more>>
    BY <1>2, <1>6 DEF Behind
  <1>8. /\ SameBytes(b, s.literalsAt, data, from, s.literals)
        /\ SameBytes(data, at, data, at - s.offset, s.match)
        /\ s.offset <= at /\ at <= Len(data) - 12 /\ more <= Len(data) - 5
    BY Zenon, <1>2 DEF Matches
  <1>9. s.offset \in 1 .. at
    BY <1>2, <1>8
  <1>10. s.next \in p + 1 .. end
    BY <1>2, <1>3
  <1> HIDE DEF s, end, at, more
  <1>11. more <= more
    BY <1>5
  <1>12. Fits(b, end, data, more, <<p, from>>)
    BY <1>6, <1>8, <1>9, <1>10, <1>11 DEF Fits, s
  <1>13. p <= end
    BY <1>3
  <1>14. Describes(b, end, data, more)
    BY <1>3, <1>4, <1>5, <1>7, <1>12, <1>13, DescribesMore
  <1> QED BY <1>14 DEF end, more, at

\* A run and its literals, and more bytes than are needed behind them.
LEMMA RunStored ==
  ASSUME NEW out \in Seq(Byte), NEW run \in Seq(Byte), NEW data \in Seq(Byte),
         NEW e \in Nat, NEW from \in Nat, NEW n \in Nat, NEW copied \in Nat, n <= copied,
         (e + Len(run)) + copied <= Len(out), from + copied <= Len(data)
  PROVE  LET next == Store(Store(out, e, run), e + Len(run), Load(data, from, copied))
         IN  /\ next \in Seq(Byte) /\ Len(next) = Len(out)
             /\ \A q \in 0 .. e - 1 : At(out, q) = At(next, q)
             /\ Load(next, e, Len(run)) = run
             /\ SameBytes(next, e + Len(run), data, from, n)
  <1> DEFINE size  == Len(run)
             words == Load(data, from, copied)
             mid   == Store(out, e, run)
             next  == Store(mid, e + size, words)
  <1>1. size \in Nat /\ words \in Seq(Byte) /\ Len(words) = copied /\ Len(out) \in Nat
    BY LoadType
  <1>2. mid \in Seq(Byte) /\ Len(mid) = Len(out) /\ e + size \in Nat
    BY <1>1, StoreType
  <1>3. next \in Seq(Byte) /\ Len(next) = Len(out)
    <2> HIDE DEF mid, words
    <2> QED BY <1>1, <1>2, StoreType
  <1>4. \A q \in Int : At(mid, q) = IF q \in e .. e + size - 1 THEN run[(q - e) + 1] ELSE At(out, q)
    BY <1>1, StoreAt
  <1>5. \A q \in Int : q < e + size => At(next, q) = At(mid, q)
    <2> HIDE DEF mid, words
    <2> TAKE q \in Int
    <2> HAVE q < e + size
    <2>1. (e + size) + Len(words) <= Len(mid)
      BY <1>1, <1>2
    <2>2. q \notin e + size .. (e + size) + Len(words) - 1
      BY <1>1
    <2> QED BY <1>1, <1>2, <2>1, <2>2, StoreAt
  <1>6. \A q \in 0 .. e - 1 : At(out, q) = At(next, q)
    <2> HIDE DEF next, mid
    <2> QED BY <1>1, <1>4, <1>5
  <1>7. Load(next, e, size) = run
    <2>1. Load(mid, e, size) = run
      BY <1>1, LoadStore
    <2>2. SameBytes(next, e, mid, e, size)
      <3> HIDE DEF next, mid
      <3>1. \A k \in 0 .. size - 1 : e + k \in Int /\ e + k < e + size
        BY <1>1
      <3> QED BY <1>5, <3>1 DEF SameBytes
    <2> QED BY <1>1, <2>1, <2>2, LoadSame
  <1>8. SameBytes(next, e + size, data, from, n)
    <2>1. SameBytes(next, e + size, data, from, copied)
      <3> HIDE DEF mid
      <3> QED BY <1>1, <1>2, StoreCopies
    <2> QED BY <1>1, <1>2, <2>1, SameFewer
  <1> QED BY <1>3, <1>6, <1>7, <1>8

\* A store of one byte.
LEMMA OneStored ==
  ASSUME NEW out \in Seq(Byte), NEW p \in Nat, p < Len(out),
         NEW one \in Seq(Byte), Len(one) = 1, NEW q \in Int
  PROVE  At(Store(out, p, one), q) = IF q = p THEN one[1] ELSE At(out, q)
  <1>1. p + Len(one) <= Len(out) /\ Len(out) \in Nat
    OBVIOUS
  <1>2. At(Store(out, p, one), q)
          = IF q \in p .. p + Len(one) - 1 THEN one[(q - p) + 1] ELSE At(out, q)
    BY <1>1, StoreAt
  <1>3. q \in p .. p + Len(one) - 1 <=> q = p
    OBVIOUS
  <1> QED BY <1>2, <1>3

\* A token that is written again, and bytes written behind it.
LEMMA TokenStored ==
  ASSUME NEW out \in Seq(Byte), NEW p \in Nat, NEW e \in Nat, p < e, NEW token \in Byte,
         NEW bytes \in Seq(Byte), e + Len(bytes) <= Len(out)
  PROVE  LET next == Store(Store(out, p, <<token>>), e, bytes)
         IN  /\ next \in Seq(Byte) /\ Len(next) = Len(out)
             /\ At(next, p) = token
             /\ \A q \in 0 .. e - 1 : q # p => At(out, q) = At(next, q)
             /\ Load(next, e, Len(bytes)) = bytes
  <1> DEFINE one  == <<token>>
             mid  == Store(out, p, one)
             next == Store(mid, e, bytes)
  <1>1. one \in Seq(Byte) /\ Len(one) = 1 /\ one[1] = token /\ Len(bytes) \in Nat /\ Len(out) \in Nat
    OBVIOUS
  <1> HIDE DEF one
  <1>2. mid \in Seq(Byte) /\ Len(mid) = Len(out)
    BY <1>1, StoreType
  <1>3. next \in Seq(Byte) /\ Len(next) = Len(out)
    <2> HIDE DEF mid
    <2> QED BY <1>2, StoreType
  <1>4. \A q \in Int : At(mid, q) = IF q = p THEN token ELSE At(out, q)
    <2>1. p < Len(out)
      BY <1>1
    <2> QED BY <1>1, <2>1, OneStored
  <1>5. \A q \in Int : q < e => At(next, q) = At(mid, q)
    <2> HIDE DEF mid
    <2> TAKE q \in Int
    <2> HAVE q < e
    <2>1. q \notin e .. e + Len(bytes) - 1
      BY <1>1
    <2> QED BY <1>1, <1>2, <2>1, StoreAt
  <1>6. Load(next, e, Len(bytes)) = bytes
    <2> HIDE DEF mid
    <2> QED BY <1>1, <1>2, LoadStore
  <1> HIDE DEF next, mid
  <1>7. At(next, p) = token
    BY <1>4, <1>5
  <1>8. \A q \in 0 .. e - 1 : q # p => At(out, q) = At(next, q)
    BY <1>4, <1>5
  <1> QED BY <1>3, <1>6, <1>7, <1>8 DEF next, mid, one

-----------------------------------------------------------------------------
\* What the compressor's steps write

\* A run of n literals is written at p, behind bytes that describe the data up to
\* them.
Literals(block, p, n, data, from) ==
  /\ At(block, p) = 16 * Saturated(n)
  /\ n >= 15 => Load(block, p + 1, ExtensionSize(n)) = Extension(n - 15)
  /\ SameBytes(block, p + RunSize(n), data, from, n)
  /\ Describes(block, p, data, from)

\* What describes some data still does in a block with the same bytes there.
LEMMA DescribesStill ==
  ASSUME NEW a \in Seq(Byte), NEW b \in Seq(Byte), NEW limit \in Nat, NEW data, NEW upto \in Nat,
         limit <= Len(a), limit <= Len(b), \A i \in 0 .. limit - 1 : At(a, i) = At(b, i),
         Describes(a, limit, data, upto)
  PROVE  Describes(b, limit, data, upto)
  <1>1. limit <= limit /\ upto <= upto
    OBVIOUS
  <1> QED BY <1>1, DescribesMore

\* emitLiteral and emitLastLiteral write a run of literals, whatever is written
\* behind them.
LEMMA LiteralsWritten ==
  ASSUME NEW out \in Seq(Byte), NEW data \in Seq(Byte),
         NEW e \in Nat, NEW from \in Nat, NEW n \in Nat, NEW copied \in Nat, n <= copied,
         (e + RunSize(n)) + copied <= Len(out), from + copied <= Len(data),
         Describes(out, e, data, from)
  PROVE  LET run  == EncodeRunLength(n)
             next == Store(Store(out, e, run), e + Len(run), Load(data, from, copied))
         IN  next \in Seq(Byte) /\ Len(next) = Len(out) /\ Literals(next, e, n, data, from)
  <1> DEFINE run  == EncodeRunLength(n)
             next == Store(Store(out, e, run), e + Len(run), Load(data, from, copied))
  <1>1. run \in Seq(Byte) /\ Len(run) = RunSize(n)
    BY RunLengthType
  <1>2. RunSize(n) \in Nat /\ Len(out) \in Nat
    <2>1. ExtensionSize(n) \in Nat /\ RunSize(n) = 1 + ExtensionSize(n)
      BY Sizes
    <2> QED BY <2>1
  <1>3. (e + Len(run)) + copied <= Len(out)
    BY <1>1
  <1> HIDE DEF run
  <1>4. /\ next \in Seq(Byte) /\ Len(next) = Len(out)
        /\ \A q \in 0 .. e - 1 : At(out, q) = At(next, q)
        /\ Load(next, e, Len(run)) = run
        /\ SameBytes(next, e + Len(run), data, from, n)
    BY <1>1, <1>3, RunStored
  <1> HIDE DEF next
  <1>5. e + RunSize(n) <= Len(next) /\ e <= Len(out) /\ e <= Len(next)
    BY <1>2, <1>4
  <1>6. Describes(next, e, data, from)
    BY <1>4, <1>5, DescribesStill
  <1>7. Load(next, e, RunSize(n)) = EncodeRunLength(n)
    BY <1>1, <1>4 DEF run
  <1>8. /\ At(next, e) = 16 * Saturated(n)
        /\ n >= 15 => Load(next, e + 1, ExtensionSize(n)) = Extension(n - 15)
    BY <1>4, <1>5, <1>7, RunWritten
  <1>9. SameBytes(next, e + RunSize(n), data, from, n)
    BY <1>1, <1>4
  <1>10. Literals(next, e, n, data, from)
    BY <1>6, <1>8, <1>9 DEF Literals
  <1> QED BY <1>4, <1>10 DEF next, run

\* The bytes of a run are behind its token and before its end.
LEMMA RunInside ==
  ASSUME NEW p \in Nat, NEW n \in Nat
  PROVE  /\ \A k \in 0 .. ExtensionSize(n) - 1 :
              (p + 1) + k \in 0 .. OffsetAt(p, n) - 1 /\ (p + 1) + k # p
         /\ \A k \in 0 .. n - 1 :
              (p + RunSize(n)) + k \in 0 .. OffsetAt(p, n) - 1 /\ (p + RunSize(n)) + k # p
  <1>1. ExtensionSize(n) \in Nat /\ RunSize(n) = 1 + ExtensionSize(n)
    BY Sizes
  <1> QED BY <1>1 DEF OffsetAt

\* emitMatch completes a sequence, which describes the literals and the match.
LEMMA MatchCompletes ==
  ASSUME NEW out \in Seq(Byte), NEW data \in Seq(Byte),
         NEW p \in Nat, NEW l \in Nat, NEW m \in Nat, NEW from \in Nat,
         NEW offset \in 1 .. OFFSET_RANGE - 1,
         Literals(out, p, l, data, from), SequenceEnd(p, l, m) <= Len(out),
         SameBytes(data, from + l, data, (from + l) - offset, 4 + m),
         offset <= from + l, from + l <= Len(data) - 12, (from + l) + (4 + m) <= Len(data) - 5
  PROVE  LET token == BitOr(At(out, p), Saturated(m))
             next  == Store(Store(out, p, <<token>>), OffsetAt(p, l), MatchBytes(offset, m))
         IN  /\ next \in Seq(Byte) /\ Len(next) = Len(out)
             /\ Describes(next, SequenceEnd(p, l, m), data, (from + l) + (4 + m))
  <1> DEFINE token == BitOr(At(out, p), Saturated(m))
             e     == OffsetAt(p, l)
             bytes == MatchBytes(offset, m)
             next  == Store(Store(out, p, <<token>>), e, bytes)
  <1>1. /\ e \in Nat /\ p + 1 <= e /\ p + 1 <= p + RunSize(l) /\ p + RunSize(l) + l = e
        /\ e + MatchSize(m) = SequenceEnd(p, l, m)
    BY SequenceSize DEF SequenceEnd
  <1>2. /\ ExtensionSize(l) \in Nat /\ RunSize(l) = 1 + ExtensionSize(l) /\ MatchSize(m) \in Nat
    <2>1. /\ ExtensionSize(l) \in Nat /\ RunSize(l) = 1 + ExtensionSize(l)
          /\ ExtensionSize(m) \in Nat /\ MatchSize(m) = 2 + ExtensionSize(m)
      BY Zenon, Sizes
    <2> QED BY <2>1
  <1>3. token \in Byte
    BY BitOrType
  <1>4. bytes \in Seq(Byte) /\ Len(bytes) = MatchSize(m)
    <2>1. offset \in Int
      OBVIOUS
    <2> QED BY <2>1, MatchBytesType
  <1>5. /\ At(out, p) = 16 * Saturated(l)
        /\ l >= 15 => Load(out, p + 1, ExtensionSize(l)) = Extension(l - 15)
        /\ SameBytes(out, p + RunSize(l), data, from, l)
        /\ Describes(out, p, data, from)
    BY DEF Literals
  <1> HIDE DEF token, bytes, e
  <1>6. /\ next \in Seq(Byte) /\ Len(next) = Len(out)
        /\ At(next, p) = token
        /\ \A q \in 0 .. e - 1 : q # p => At(out, q) = At(next, q)
        /\ Load(next, e, Len(bytes)) = bytes
    <2>1. /\ e \in Nat /\ p < e /\ bytes \in Seq(Byte) /\ e + Len(bytes) <= Len(out)
          /\ token \in Byte
      BY <1>1, <1>3, <1>4
    <2> HIDE DEF next
    <2> QED BY <2>1, TokenStored DEF next
  <1> HIDE DEF next
  <1>7. \A i \in 0 .. p - 1 : At(out, i) = At(next, i)
    BY <1>1, <1>6
  <1>8. HasRun(next, p, l, Saturated(m))
    <2>1. At(next, p) = BitOr(16 * Saturated(l), Saturated(m))
      BY <1>5, <1>6 DEF token
    <2>2. Load(next, p + 1, ExtensionSize(l)) = Load(out, p + 1, ExtensionSize(l))
      <3>1. SameBytes(next, p + 1, out, p + 1, ExtensionSize(l))
        <4>1. \A k \in 0 .. ExtensionSize(l) - 1 : (p + 1) + k \in 0 .. e - 1 /\ (p + 1) + k # p
          BY Zenon, RunInside DEF e
        <4> QED BY <1>6, <4>1 DEF SameBytes
      <3>2. p + 1 \in Int
        OBVIOUS
      <3> QED BY <1>2, <3>1, <3>2, LoadSame
    <2> QED BY <1>5, <2>1, <2>2 DEF HasRun
  <1>9. HasMatch(next, e, offset, m)
    BY <1>4, <1>6 DEF HasMatch, bytes
  <1>10. HasSequence(next, p, l, offset, m)
    BY <1>6, <1>8, <1>9 DEF HasSequence, e
  <1>11. SameBytes(next, p + RunSize(l), data, from, l)
    <2>1. \A k \in 0 .. l - 1 : (p + RunSize(l)) + k \in 0 .. e - 1 /\ (p + RunSize(l)) + k # p
      BY Zenon, RunInside DEF e
    <2> QED BY <1>5, <1>6, <2>1 DEF SameBytes
  <1>12. Matches(next, p, l, offset, m, data, from)
    BY <1>11 DEF Matches
  <1>13. p <= Len(out)
    BY <1>1, <1>2
  <1>14. Describes(next, SequenceEnd(p, l, m), data, (from + l) + (4 + m))
    BY <1>5, <1>6, <1>7, <1>10, <1>12, <1>13, SequenceDescribed
  <1> QED BY <1>6, <1>14 DEF next, token, bytes, e

\* The last literals complete a block: the bytes up to their end encode the data.
LEMMA LastLiteralsComplete ==
  ASSUME NEW out \in Seq(Byte), NEW data \in Seq(Byte),
         NEW p \in Nat, NEW n \in Nat, NEW from \in Nat,
         Literals(out, p, n, data, from), OffsetAt(p, n) <= Len(out), from + n = Len(data)
  PROVE  Encodes(SubSeq(out, 1, OffsetAt(p, n)), data)
  <1> DEFINE size == OffsetAt(p, n)
             b    == SubSeq(out, 1, size)
  <1>1. /\ size \in Nat /\ p + 1 <= size /\ p + RunSize(n) + n = size /\ p + 1 <= p + RunSize(n)
    <2>1. 0 \in Nat
      OBVIOUS
    <2> QED BY <2>1, SequenceSize
  <1>2. ExtensionSize(n) \in Nat /\ RunSize(n) = 1 + ExtensionSize(n) /\ Len(out) \in Nat
    BY Sizes
  <1>3. /\ At(out, p) = 16 * Saturated(n)
        /\ n >= 15 => Load(out, p + 1, ExtensionSize(n)) = Extension(n - 15)
        /\ SameBytes(out, p + RunSize(n), data, from, n)
        /\ Describes(out, p, data, from)
    BY DEF Literals
  <1>4. size <= Len(out)
    OBVIOUS
  <1> HIDE DEF size
  <1>5. b \in Seq(Byte) /\ Len(b) = size /\ \A q \in 0 .. size - 1 : At(b, q) = At(out, q)
    BY <1>1, <1>4, SubSeqAt
  <1> HIDE DEF b
  <1>6. At(b, p) = 16 * Saturated(n)
    <2>1. p \in 0 .. size - 1
      BY <1>1
    <2> QED BY <1>3, <1>5, <2>1
  <1>7. n >= 15 => Load(b, p + 1, ExtensionSize(n)) = Extension(n - 15)
    <2>1. SameBytes(b, p + 1, out, p + 1, ExtensionSize(n))
      <3>1. \A k \in 0 .. ExtensionSize(n) - 1 : (p + 1) + k \in 0 .. size - 1
        BY Zenon, RunInside DEF size
      <3> QED BY <1>5, <3>1 DEF SameBytes
    <2>2. p + 1 \in Int
      OBVIOUS
    <2> QED BY <1>2, <1>3, <2>1, <2>2, LoadSame
  <1>8. SameBytes(b, p + RunSize(n), data, from, n)
    <2>1. \A k \in 0 .. n - 1 : (p + RunSize(n)) + k \in 0 .. size - 1
      BY Zenon, RunInside DEF size
    <2> QED BY <1>3, <1>5, <2>1 DEF SameBytes
  <1>9. Describes(b, p, data, from)
    <2>1. p <= Len(out) /\ p <= Len(b) /\ \A i \in 0 .. p - 1 : At(out, i) = At(b, i)
      BY <1>1, <1>2, <1>4, <1>5
    <2> QED BY <1>3, <1>5, <2>1, DescribesStill
  <1>10. /\ At(b, p) % 16 = 0
         /\ SequenceAt(b, p).literals = n
         /\ SequenceAt(b, p).literalsAt = p + RunSize(n)
         /\ SequenceAt(b, p).literalsEnd = (p + RunSize(n)) + n
    <2>1. (p + RunSize(n)) + n <= Len(b)
      BY <1>1, <1>5
    <2> QED BY <1>5, <1>6, <1>7, <2>1, LastLiteralsWritten
  <1>11. p \in 0 .. Len(b) - 1 /\ Len(data) - n = from
    BY <1>1, <1>5
  <1>12. SequenceAt(b, p).literalsEnd = Len(b) /\ Len(data) - SequenceAt(b, p).literals = from
    BY <1>1, <1>5, <1>10, <1>11
  <1>13. Encodes(b, data)
    <2>1. from >= 0
      OBVIOUS
    <2>2. SameBytes(b, SequenceAt(b, p).literalsAt, data, from, SequenceAt(b, p).literals)
      BY <1>8, <1>10
    <2> QED BY <1>9, <1>10, <1>11, <1>12, <2>1, <2>2 DEF Encodes
  <1> QED BY <1>13 DEF b, size

-----------------------------------------------------------------------------
\* The points of a block that encodes some data

\* The sequence at p has nothing but literals, and is the last of the block.
EndsWith(block, data, p) ==
  LET s == SequenceAt(block, p)
  IN  /\ At(block, p) % 16 = 0
      /\ s.literalsEnd = Len(block)
      /\ Len(data) - s.literals >= 0
      /\ SameBytes(block, s.literalsAt, data, Len(data) - s.literals, s.literals)

\* A sequence begins at p, and what is left of the block encodes data from o on.
OnPath(block, data, p, o) ==
  \E last \in 0 .. Len(block) - 1 :
    /\ EndsWith(block, data, last)
    /\ LET upto == Len(data) - SequenceAt(block, last).literals
       IN  /\ <<p, o>> \in Points(last, upto)
           /\ Reaches(block, last, data, upto, <<p, o>>)

\* The order of the parts of a sequence with a match.
Parts(s, p) ==
  /\ s.literals \in Nat /\ s.literalsAt \in Nat /\ s.literalsEnd \in Nat
  /\ s.offset \in Nat /\ s.match \in Nat /\ s.next \in Nat
  /\ p + 1 <= s.literalsAt /\ s.literalsEnd = s.literalsAt + s.literals
  /\ s.literalsEnd + 2 <= s.next

\* The sequence at p has a match: at least six bytes of the block are behind it,
\* and it describes data from o on.
WithMatch(block, data, p, o) ==
  LET s  == SequenceAt(block, p)
      at == o + s.literals
  IN  /\ Parts(s, p)
      /\ s.next <= Len(block) - 6 /\ s.match >= 4
      /\ at <= Len(data) - 12 /\ at + s.match <= Len(data) - 5
      /\ s.offset \in 1 .. at
      /\ SameBytes(block, s.literalsAt, data, o, s.literals)
      /\ SameBytes(data, at, data, at - s.offset, s.match)
      /\ OnPath(block, data, s.next, at + s.match)

\* The sequence at p is the last one, and has the rest of the data.
WithoutMatch(block, data, p, o) ==
  LET s == SequenceAt(block, p)
  IN  /\ s.literals \in Nat /\ s.literalsAt \in Nat
      /\ p + 1 <= s.literalsAt /\ s.literalsEnd = s.literalsAt + s.literals
      /\ At(block, p) % 16 = 0 /\ s.literalsEnd = Len(block)
      /\ o + s.literals = Len(data)
      /\ SameBytes(block, s.literalsAt, data, o, s.literals)

\* Where the decoder begins.
LEMMA PathBegins ==
  ASSUME NEW block \in Seq(Byte), NEW data \in Seq(Byte), Encodes(block, data)
  PROVE  OnPath(block, data, 0, 0)
  <1>1. PICK p \in 0 .. Len(block) - 1 :
          LET s == SequenceAt(block, p)
              o == Len(data) - s.literals
          IN  /\ At(block, p) % 16 = 0
              /\ s.literalsEnd = Len(block)
              /\ o >= 0
              /\ SameBytes(block, s.literalsAt, data, o, s.literals)
              /\ Describes(block, p, data, o)
    BY DEF Encodes
  <1> DEFINE upto == Len(data) - SequenceAt(block, p).literals
  <1>2. EndsWith(block, data, p) /\ Describes(block, p, data, upto) /\ upto >= 0
    BY <1>1 DEF EndsWith
  <1>3. p \in Nat /\ p <= Len(block) /\ p < Len(block) /\ Len(data) \in Nat /\ Len(block) \in Nat
    BY <1>1
  <1>4. upto \in Nat
    <2>1. SequenceAt(block, p).literals \in Nat
      BY <1>3, SequenceType
    <2> QED BY <1>2, <1>3, <2>1
  <1> HIDE DEF upto
  <1>5. Reaches(block, p, data, upto, <<0, 0>>)
    BY <1>2, <1>3, <1>4, DescribesReaches
  <1>6. <<0, 0>> \in Points(p, upto)
    BY <1>3, <1>4 DEF Points
  <1> QED BY <1>1, <1>2, <1>5, <1>6 DEF OnPath, upto

\* If a point before the end is reached, the last five bytes of the data are not:
\* by induction on the distance from the end.
LEMMA LastFiveAreLiterals ==
  ASSUME NEW block \in Seq(Byte), NEW limit \in Nat, limit <= Len(block), NEW data, NEW upto \in Nat,
         Len(data) \in Nat,
         NEW x \in Points(limit, upto), x[1] # limit, Reaches(block, limit, data, upto, x)
  PROVE  upto <= Len(data) - 5
  <1> DEFINE F(y) == Fits(block, limit, data, upto, y)
             B(y) == Behind(block, y)
             P    == Points(limit, upto)
  <1>1. PICK S \in SUBSET P : x \in S /\ Chained(block, limit, data, upto, S)
    BY Zenon DEF Reaches
  <1>2. \A y \in S : IF y[1] = limit THEN y[2] = upto ELSE F(y) /\ B(y) \in S
    BY Zenon, <1>1 DEF Chained
  <1>3. \A y \in P : y[1] \in Nat /\ y[1] <= limit
    BY DEF Points
  <1>4. \A y \in P : y[1] # limit /\ F(y) => y[1] < B(y)[1]
    BY FitsLeads
  <1>5. \A y \in P : F(y) => B(y)[2] <= Len(data) - 5
    <2> TAKE y \in P
    <2> HAVE F(y)
    <2> DEFINE s == SequenceAt(block, y[1])
    <2>1. (y[2] + s.literals) + s.match <= Len(data) - 5
      BY Zenon DEF Fits
    <2>2. B(y)[2] = y[2] + s.literals + s.match
      BY DEF Behind
    <2>3. y[2] + s.literals + s.match = (y[2] + s.literals) + s.match
      OBVIOUS
    <2> QED BY <2>1, <2>2, <2>3
  <1> HIDE DEF F, B, P
  <1> DEFINE T == {limit - y[1] : y \in {z \in S : z[1] # limit}}
  <1>6. T \subseteq Nat
    BY <1>3
  <1>7. T # {}
    BY <1>1
  <1>8. PICK least \in T : \A n \in T : least <= n
    <2> HIDE DEF T
    <2> QED BY <1>6, <1>7, LeastNumber
  <1>9. PICK y \in S : y[1] # limit /\ least = limit - y[1]
    BY <1>8
  <1>10. y \in P /\ F(y) /\ B(y) \in S
    BY Zenon, <1>2, <1>9
  <1>11. B(y)[1] = limit
    <2> SUFFICES ASSUME B(y)[1] # limit PROVE FALSE
      OBVIOUS
    <2>1. limit - B(y)[1] \in T
      BY <1>10
    <2>2. least <= limit - B(y)[1]
      BY <1>8, <2>1
    <2>3. B(y)[1] \in Nat /\ y[1] \in Nat /\ y[1] < B(y)[1]
      BY <1>3, <1>4, <1>9, <1>10
    <2> QED BY <1>9, <2>2, <2>3
  <1>12. B(y)[2] = upto
    BY Zenon, <1>2, <1>10, <1>11
  <1> QED BY <1>5, <1>10, <1>12

\* At every point there is either a sequence with a match, which leads to another
\* one, or the last sequence.
LEMMA PathGoesOn ==
  ASSUME NEW block \in Seq(Byte), NEW data \in Seq(Byte), NEW p, NEW o, OnPath(block, data, p, o)
  PROVE  /\ p \in 0 .. Len(block) - 1 /\ o \in 0 .. Len(data)
         /\ WithMatch(block, data, p, o) \/ WithoutMatch(block, data, p, o)
  <1>1. PICK last \in 0 .. Len(block) - 1 :
          /\ EndsWith(block, data, last)
          /\ LET upto == Len(data) - SequenceAt(block, last).literals
             IN  /\ <<p, o>> \in Points(last, upto)
                 /\ Reaches(block, last, data, upto, <<p, o>>)
    BY DEF OnPath
  <1> DEFINE z    == SequenceAt(block, last)
             upto == Len(data) - z.literals
             s    == SequenceAt(block, p)
             at   == o + s.literals
  <1>2. /\ last \in Nat /\ last <= Len(block) /\ last < Len(block)
        /\ Len(data) \in Nat /\ Len(block) \in Nat
    BY <1>1
  <1>3. /\ z.literals \in Nat /\ z.literalsAt \in Nat /\ last + 1 <= z.literalsAt
        /\ z.literalsEnd = z.literalsAt + z.literals
    BY <1>2, SequenceType
  <1>4. /\ At(block, last) % 16 = 0 /\ z.literalsEnd = Len(block) /\ upto >= 0
        /\ SameBytes(block, z.literalsAt, data, upto, z.literals)
    BY <1>1 DEF EndsWith
  <1>5. <<p, o>> \in Points(last, upto) /\ Reaches(block, last, data, upto, <<p, o>>)
    BY <1>1
  <1>6. upto \in Nat /\ upto <= Len(data) /\ upto + z.literals = Len(data)
    BY <1>2, <1>3, <1>4
  <1>7. p \in Nat /\ p <= last /\ o \in Nat /\ o <= upto
    BY <1>5, <1>6, <1>2 DEF Points
  <1> HIDE DEF upto
  <1>8. p \in 0 .. Len(block) - 1 /\ o \in 0 .. Len(data) /\ p < Len(block)
    BY <1>2, <1>6, <1>7
  <1>9. CASE p = last
    <2>1. o = upto
      <3> DEFINE x == <<p, o>>
      <3>1. x[1] = last /\ x[2] = o
        BY <1>9
      <3>2. last \in Nat /\ last <= Len(block) /\ upto \in Nat
        BY <1>2, <1>6
      <3> HIDE DEF x
      <3>3. x \in Points(last, upto) /\ Reaches(block, last, data, upto, x)
        BY <1>5 DEF x
      <3>4. IF x[1] = last THEN x[2] = upto
            ELSE Fits(block, last, data, upto, x) /\ Reaches(block, last, data, upto, Behind(block, x))
        BY <3>2, <3>3, ReachesRest
      <3> QED BY <3>1, <3>4
    <2>2. WithoutMatch(block, data, p, o)
      BY <1>3, <1>4, <1>6, <1>9, <2>1 DEF WithoutMatch
    <2> QED BY <1>8, <2>2
  <1>10. CASE p # last
    <2> DEFINE x == <<p, o>>
    <2>1. Fits(block, last, data, upto, x) /\ Reaches(block, last, data, upto, Behind(block, x))
      BY <1>2, <1>5, <1>6, <1>10, ReachesRest
    <2>2. Behind(block, x) \in Points(last, upto)
      BY <1>2, <1>5, <1>6, <1>10, <2>1, FitsLeads
    <2>3. upto <= Len(data) - 5
      BY <1>2, <1>5, <1>6, <1>10, LastFiveAreLiterals
    <2>4. last <= Len(block) - 6
      <3>1. z.literals >= 5
        BY <1>2, <1>3, <1>6, <2>3
      <3> HIDE DEF z
      <3> QED BY <1>2, <1>3, <1>4, <3>1
    <2>5. /\ s.next \in p + 1 .. last
          /\ at <= Len(data) - 12 /\ at + s.match <= Len(data) - 5
          /\ s.offset \in 1 .. at
          /\ SameBytes(block, s.literalsAt, data, o, s.literals)
          /\ SameBytes(data, at, data, at - s.offset, s.match)
      BY <2>1 DEF Fits
    <2>6. Behind(block, x) = <<s.next, o + s.literals + s.match>>
      BY DEF Behind
    <2> HIDE DEF x, z
    <2>7. /\ s.literals \in Nat /\ s.literalsAt \in Nat /\ s.literalsEnd \in Nat
          /\ p + 1 <= s.literalsAt /\ s.literalsEnd = s.literalsAt + s.literals
          /\ s.offset \in Nat /\ s.next \in Nat
          /\ s.next <= Len(block) => s.match \in Nat /\ s.match >= 4 /\ s.literalsEnd + 2 <= s.next
      BY <1>7, <1>8, SequenceType
    <2> HIDE DEF s
    <2>8. s.next <= Len(block) - 6 /\ s.next <= Len(block)
      BY <1>2, <1>7, <2>4, <2>5
    <2>9. Parts(s, p) /\ s.match >= 4
      BY <2>7, <2>8 DEF Parts
    <2>10. OnPath(block, data, s.next, at + s.match)
      <3>1. o + s.literals + s.match = at + s.match
        BY <1>7, <2>7, <2>8
      <3>2. Behind(block, x) = <<s.next, at + s.match>>
        BY <2>6, <3>1
      <3> QED BY <1>1, <2>1, <2>2, <3>2 DEF OnPath, upto, z
    <2>11. WithMatch(block, data, p, o)
      BY <2>5, <2>8, <2>9, <2>10 DEF WithMatch, s
    <2> QED BY <1>8, <2>11
  <1> QED BY <1>9, <1>10

\* While the bytes of an extension are 255, it goes on; the first one that is not
\* ends it.
LEMMA ExtensionRead ==
  ASSUME NEW block \in Seq(Byte), NEW p \in Nat, NEW k \in Nat,
         LengthField(block, 15, p).next <= Len(block),
         \A r \in p .. p + k - 1 : At(block, r) = 255
  PROVE  LET field == LengthField(block, 15, p)
         IN  /\ p + k < field.next
             /\ At(block, p + k) # 255 =>
                  field = [length |-> (15 + 255 * k) + At(block, p + k), next |-> p + k + 1]
             /\ At(block, p + k) = 255 =>
                  p + k + 1 < field.next /\ field.length >= 15 + 255 * (k + 1)
  <1> DEFINE end == ExtensionEnd(block, p)
             field == LengthField(block, 15, p)
  <1>1. field = [length |-> 15 + 255 * (end - 1 - p) + At(block, end - 1), next |-> end]
    BY DEF LengthField
  <1>2. Len(block) \in Nat /\ end <= Len(block)
    BY <1>1
  <1>3. PICK q \in p .. Len(block) - 1 :
          end = q + 1 /\ At(block, q) # 255 /\ \A r \in p .. q - 1 : At(block, r) = 255
    BY <1>2, ExtensionEndCases
  <1>4. q \in Nat /\ p <= q /\ end - 1 = q /\ end - 1 - p = q - p
    BY <1>2, <1>3
  <1>5. At(block, q) \in Nat
    BY <1>4, AtType
  <1>6. field = [length |-> 15 + 255 * (q - p) + At(block, q), next |-> q + 1]
    BY <1>1, <1>3, <1>4
  <1>7. ~(q < p + k)
    <2> SUFFICES ASSUME q < p + k PROVE FALSE
      OBVIOUS
    <2>1. q \in p .. p + k - 1
      BY <1>4
    <2> QED BY <1>3, <2>1
  <1> HIDE DEF field, end
  <1>8. p + k <= q /\ p + k + 1 = (p + k) + 1
    BY <1>4, <1>7
  <1>9. field.next = q + 1 /\ field.length = 15 + 255 * (q - p) + At(block, q)
    BY <1>6
  <1>10. ASSUME At(block, p + k) # 255
         PROVE  field = [length |-> (15 + 255 * k) + At(block, p + k), next |-> p + k + 1]
    <2>1. ~(p + k < q)
      <3> SUFFICES ASSUME p + k < q PROVE FALSE
        OBVIOUS
      <3>1. p + k \in p .. q - 1
        BY <1>4
      <3> QED BY <1>3, <1>10, <3>1
    <2>2. q = p + k /\ q - p = k
      BY <1>4, <1>8, <2>1
    <2>3. 15 + 255 * (q - p) + At(block, q) = (15 + 255 * k) + At(block, p + k)
      BY <1>5, <2>2
    <2> QED BY <1>6, <2>2, <2>3
  <1>11. ASSUME At(block, p + k) = 255
         PROVE  p + k + 1 < field.next /\ field.length >= 15 + 255 * (k + 1)
    <2>1. q # p + k
      BY <1>3, <1>11
    <2>2. q - p \in Nat /\ q - p >= k + 1
      BY <1>4, <1>8, <2>1
    <2>3. 255 * (q - p) >= 255 * (k + 1)
      BY <2>2
    <2> QED BY <1>4, <1>5, <1>8, <1>9, <2>1, <2>2, <2>3
  <1>12. p + k < field.next
    BY <1>4, <1>8, <1>9
  <1> QED BY <1>10, <1>11, <1>12 DEF field

\* What holds of every sequence on the path, with a match or without.
LEMMA PathParts ==
  ASSUME NEW block \in Seq(Byte), NEW data \in Seq(Byte), NEW p, NEW o, OnPath(block, data, p, o)
  PROVE  LET s == SequenceAt(block, p)
         IN  /\ p \in Nat /\ p < Len(block) /\ o \in Nat /\ o <= Len(data)
             /\ s.literals \in Nat /\ s.literalsAt \in Nat
             /\ p + 1 <= s.literalsAt /\ s.literalsEnd = s.literalsAt + s.literals
             /\ s.literalsEnd <= Len(block)
             /\ SameBytes(block, s.literalsAt, data, o, s.literals)
  <1> DEFINE s == SequenceAt(block, p)
  <1>1. /\ p \in 0 .. Len(block) - 1 /\ o \in 0 .. Len(data)
        /\ WithMatch(block, data, p, o) \/ WithoutMatch(block, data, p, o)
    BY PathGoesOn
  <1>2. Len(block) \in Nat /\ Len(data) \in Nat
    OBVIOUS
  <1>3. CASE WithMatch(block, data, p, o)
    <2>1. /\ Parts(s, p) /\ s.next <= Len(block) - 6
          /\ SameBytes(block, s.literalsAt, data, o, s.literals)
      BY <1>3 DEF WithMatch
    <2> HIDE DEF s
    <2>2. s.literalsEnd <= Len(block)
      BY <1>2, <2>1 DEF Parts
    <2> QED BY <1>1, <1>2, <2>1, <2>2 DEF Parts, s
  <1>4. CASE WithoutMatch(block, data, p, o)
    BY <1>1, <1>2, <1>4 DEF WithoutMatch
  <1> QED BY <1>1, <1>3, <1>4

\* The one block that encodes nothing.
LEMMA NothingEncoded ==
  ASSUME NEW block \in Seq(Byte), NEW data \in Seq(Byte), Encodes(block, data)
  PROVE  block = <<0>> <=> Len(data) = 0
  <1> DEFINE s == SequenceAt(block, 0)
             field == LengthField(block, At(block, 0) \div 16, 1)
             nothing == <<0>>
  <1>1. OnPath(block, data, 0, 0)
    BY PathBegins
  <1>2. Len(block) \in Nat /\ Len(data) \in Nat /\ At(block, 0) \in Nat
    <2>1. 0 \in Int /\ Len(block) \in Nat /\ Len(data) \in Nat
      OBVIOUS
    <2>2. At(block, 0) \in Nat
      BY <2>1, AtType
    <2> QED BY <2>1, <2>2
  <1>3. s.literals = field.length /\ s.literalsAt = field.next
    <2>1. LiteralField(block, 0) = field
      BY DEF LiteralField
    <2> QED BY <2>1, SequenceParts
  <1>4. CASE WithMatch(block, data, 0, 0)
    <2>1. Parts(s, 0) /\ s.next <= Len(block) - 6 /\ 0 + s.literals <= Len(data) - 12
      BY <1>4 DEF WithMatch
    <2> HIDE DEF s
    <2>2. Len(block) > 1 /\ Len(data) > 0
      BY <1>2, <2>1 DEF Parts
    <2>3. Len(<<0>>) = 1
      OBVIOUS
    <2>4. block # <<0>>
      <3> SUFFICES ASSUME block = nothing PROVE FALSE
        OBVIOUS
      <3>1. Len(block) = 1
        BY Zenon, <2>3
      <3> QED BY <2>2, <3>1
    <2>5. Len(data) # 0
      BY <2>2
    <2> QED BY <2>4, <2>5
  <1>5. CASE WithoutMatch(block, data, 0, 0)
    <2>1. /\ s.literals \in Nat /\ s.literalsAt \in Nat /\ s.literalsEnd = s.literalsAt + s.literals
          /\ At(block, 0) % 16 = 0 /\ s.literalsEnd = Len(block) /\ 0 + s.literals = Len(data)
      BY <1>5 DEF WithoutMatch
    <2>2. ASSUME block = nothing PROVE Len(data) = 0
      <3>1. At(block, 0) = 0
        BY <2>2 DEF At
      <3>2. field.length = 0
        BY <3>1 DEF LengthField
      <3> QED BY <1>2, <1>3, <2>1, <3>2
    <2>3. ASSUME Len(data) = 0 PROVE block = <<0>>
      <3>1. field.length = 0
        BY <1>2, <1>3, <2>1, <2>3
      <3>2. At(block, 0) \div 16 < 15
        <4> SUFFICES ASSUME ~(At(block, 0) \div 16 < 15) PROVE FALSE
          OBVIOUS
        <4> DEFINE end == ExtensionEnd(block, 1)
        <4>1. field.length = 15 + 255 * (end - 1 - 1) + At(block, end - 1) /\ field.next = end
          BY DEF LengthField
        <4>2. end <= Len(block)
          <5>1. s.literalsAt = end /\ s.literals = 0 /\ s.literalsEnd = Len(block)
            BY <1>3, <2>1, <3>1, <4>1
          <5> HIDE DEF s, end
          <5> QED BY <1>2, <2>1, <5>1
        <4>3. PICK q \in 1 .. Len(block) - 1 : end = q + 1
          <5>1. 1 \in Nat
            OBVIOUS
          <5> QED BY <1>2, <4>2, <5>1, ExtensionEndCases
        <4> HIDE DEF end, field
        <4>4. end - 1 \in Nat /\ end - 1 - 1 \in Nat
          BY <1>2, <4>3
        <4>5. At(block, end - 1) \in Nat
          BY <4>4, AtType
        <4> QED BY <3>1, <4>1, <4>4, <4>5
      <3>3. field = [length |-> At(block, 0) \div 16, next |-> 1]
        BY <3>2 DEF LengthField
      <3>4. At(block, 0) \div 16 = 0
        BY <3>1, <3>3
      <3>5. At(block, 0) = 0
        BY <1>2, <2>1, <3>4
      <3>6. Len(block) = 1
        <4>1. s.literalsAt = 1 /\ s.literals = 0
          BY <1>3, <3>1, <3>3
        <4> HIDE DEF s, field
        <4>2. s.literalsEnd = 1
          BY <2>1, <4>1
        <4> QED BY <2>1, <4>2
      <3>7. block[1] = 0
        BY <3>5, <3>6 DEF At
      <3> QED BY <3>6, <3>7
    <2> QED BY <2>2, <2>3
  <1> QED BY <1>1, <1>4, <1>5, PathGoesOn

-----------------------------------------------------------------------------
\* Copying

\* The first bytes, up to upto, of a buffer that held as many as keep of the data
\* are the data, once these bytes are stored at i.
Covers(bytes, i, data, keep, upto) ==
  \A j \in 0 .. upto - 1 :
    \/ j < i /\ j < keep
    \/ j \in i .. i + Len(bytes) - 1 /\ bytes[(j - i) + 1] = At(data, j)

\* A buffer after a store: the first bytes of it are the data, up to upto.
HoldsUpTo(next, out, data, upto) ==
  next \in Seq(Byte) /\ Len(next) = Len(out) /\ SameBytes(next, 0, data, 0, upto)

\* What a store leaves is the data, as far as it covers them.
LEMMA StoreSame ==
  ASSUME NEW out \in Seq(Byte), NEW data, NEW bytes \in Seq(Byte),
         NEW i \in Nat, i + Len(bytes) <= Len(out),
         NEW keep \in Nat, SameBytes(out, 0, data, 0, keep), NEW upto \in Nat,
         Covers(bytes, i, data, keep, upto)
  PROVE  HoldsUpTo(Store(out, i, bytes), out, data, upto)
  <1> DEFINE next == Store(out, i, bytes)
  <1>1. next \in Seq(Byte) /\ Len(next) = Len(out)
    BY StoreType
  <1>2. ASSUME NEW j \in 0 .. upto - 1 PROVE At(next, 0 + j) = At(data, 0 + j)
    <2>1. 0 + j = j /\ j \in Int
      OBVIOUS
    <2>2. At(next, j) = IF j \in i .. i + Len(bytes) - 1 THEN bytes[(j - i) + 1] ELSE At(out, j)
      BY <2>1, StoreAt
    <2> HIDE DEF next
    <2>5. \/ j < i /\ j < keep
          \/ j \in i .. i + Len(bytes) - 1 /\ bytes[(j - i) + 1] = At(data, j)
      BY DEF Covers
    <2>3. CASE j < i /\ j < keep
      <3>1. j \notin i .. i + Len(bytes) - 1
        BY <2>3
      <3>2. At(out, 0 + j) = At(data, 0 + j)
        BY <2>3 DEF SameBytes
      <3> QED BY <2>1, <2>2, <3>1, <3>2
    <2>4. CASE j \in i .. i + Len(bytes) - 1 /\ bytes[(j - i) + 1] = At(data, j)
      BY <2>1, <2>2, <2>4
    <2> QED BY <2>3, <2>4, <2>5
  <1> QED BY <1>1, <1>2 DEF SameBytes, HoldsUpTo

\* Some of n bytes copied from the block are the data behind what is there.
LEMMA CopyFromBlock ==
  ASSUME NEW out \in Seq(Byte), NEW block \in Seq(Byte), NEW data,
         NEW i \in Nat, NEW from \in Nat, NEW n \in Nat, NEW k \in Nat, k <= n,
         i + n <= Len(out), from + n <= Len(block),
         SameBytes(out, 0, data, 0, i), SameBytes(block, from, data, i, k)
  PROVE  HoldsUpTo(Store(out, i, Load(block, from, n)), out, data, i + k)
  <1> DEFINE bytes == Load(block, from, n)
  <1>1. bytes \in Seq(Byte) /\ Len(bytes) = n
    BY LoadType
  <1>2. ASSUME NEW j \in 0 .. (i + k) - 1
        PROVE  \/ j < i /\ j < i
               \/ j \in i .. i + Len(bytes) - 1 /\ bytes[(j - i) + 1] = At(data, j)
    <2>1. CASE j < i
      BY <2>1
    <2>2. CASE j >= i
      <3> DEFINE r == j - i
      <3>1. r \in 0 .. k - 1 /\ r + 1 \in 1 .. n /\ i + r = j /\ from + (r + 1) - 1 = from + r
        BY <2>2
      <3>2. At(block, from + r) = At(data, i + r)
        BY <3>1 DEF SameBytes
      <3>3. bytes[r + 1] = At(block, from + (r + 1) - 1)
        BY <3>1 DEF Load
      <3>4. j \in i .. i + Len(bytes) - 1
        BY <1>1, <2>2
      <3> QED BY <3>1, <3>2, <3>3, <3>4
    <2> QED BY <2>1, <2>2
  <1>3. i + Len(bytes) <= Len(out) /\ i + k \in Nat
    BY <1>1
  <1>4. Covers(bytes, i, data, i, i + k)
    BY <1>2 DEF Covers
  <1> HIDE DEF bytes
  <1>5. HoldsUpTo(Store(out, i, bytes), out, data, i + k)
    BY Zenon, <1>1, <1>3, <1>4, StoreSame
  <1> QED BY <1>5 DEF bytes

\* The bytes from start to end repeat themselves.
Period(data, start, end, distance) ==
  \A j \in start + distance .. end - 1 : At(data, j) = At(data, j - distance)

\* A word copied from a period of the match behind the output is the data, as far
\* as the match goes.
LEMMA CopyFromOutput ==
  ASSUME NEW out \in Seq(Byte), NEW data,
         NEW i \in Nat, NEW from \in Nat, NEW n \in Nat, from + n <= i, i + n <= Len(out),
         NEW start \in Nat, start <= from, NEW end \in Nat,
         Period(data, start, end, i - from),
         NEW keep \in Nat, keep = (IF i > end THEN end ELSE i),
         NEW upto \in Nat, upto = (IF i + n > end THEN end ELSE i + n),
         SameBytes(out, 0, data, 0, keep)
  PROVE  HoldsUpTo(Store(out, i, Load(out, from, n)), out, data, upto)
  <1> DEFINE bytes == Load(out, from, n)
  <1>1. bytes \in Seq(Byte) /\ Len(bytes) = n
    BY LoadType
  <1>2. ASSUME NEW j \in 0 .. upto - 1
        PROVE  \/ j < i /\ j < keep
               \/ j \in i .. i + Len(bytes) - 1 /\ bytes[(j - i) + 1] = At(data, j)
    <2>1. CASE j < i
      BY <2>1
    <2>2. CASE j >= i
      <3> DEFINE r == j - i
      <3>1. /\ r \in 0 .. n - 1 /\ r + 1 \in 1 .. n /\ from + (r + 1) - 1 = from + r
            /\ j \in start + (i - from) .. end - 1 /\ j - (i - from) = from + r
            /\ from + r \in 0 .. keep - 1 /\ 0 + (from + r) = from + r
        BY <2>2
      <3>2. At(data, j) = At(data, from + r)
        BY <3>1 DEF Period
      <3>3. At(out, from + r) = At(data, from + r)
        BY <3>1 DEF SameBytes
      <3>4. bytes[r + 1] = At(out, from + (r + 1) - 1)
        BY <3>1 DEF Load
      <3>5. j \in i .. i + Len(bytes) - 1
        BY <1>1, <2>2, <3>1
      <3> QED BY <3>1, <3>2, <3>3, <3>4, <3>5
    <2> QED BY <2>1, <2>2
  <1>3. i + Len(bytes) <= Len(out)
    BY <1>1
  <1>4. Covers(bytes, i, data, keep, upto)
    BY <1>2 DEF Covers
  <1> HIDE DEF bytes
  <1>5. HoldsUpTo(Store(out, i, bytes), out, data, upto)
    BY Zenon, <1>1, <1>3, <1>4, StoreSame
  <1> QED BY <1>5 DEF bytes

\* Two periods make one.
LEMMA PeriodSum ==
  ASSUME NEW data, NEW start \in Int, NEW end \in Int, NEW d \in Nat, NEW e \in Nat,
         Period(data, start, end, d), Period(data, start, end, e)
  PROVE  Period(data, start, end, d + e)
  <1> SUFFICES ASSUME NEW j \in start + (d + e) .. end - 1 PROVE At(data, j) = At(data, j - (d + e))
    BY DEF Period
  <1>1. /\ j \in start + d .. end - 1 /\ j - d \in start + e .. end - 1
        /\ (j - d) - e = j - (d + e)
    OBVIOUS
  <1>2. At(data, j) = At(data, j - d) /\ At(data, j - d) = At(data, (j - d) - e)
    BY <1>1 DEF Period
  <1> QED BY <1>1, <1>2

\* The offset of a match is a period of what it copies.
LEMMA PeriodOfMatch ==
  ASSUME NEW data, NEW at \in Nat, NEW end \in Nat, NEW offset \in 1 .. at,
         SameBytes(data, at, data, at - offset, end - at)
  PROVE  Period(data, at - offset, end, offset)
  <1> SUFFICES ASSUME NEW j \in (at - offset) + offset .. end - 1
               PROVE  At(data, j) = At(data, j - offset)
    BY DEF Period
  <1>1. j - at \in 0 .. (end - at) - 1 /\ at + (j - at) = j /\ (at - offset) + (j - at) = j - offset
    OBVIOUS
  <1>2. At(data, at + (j - at)) = At(data, (at - offset) + (j - at))
    BY <1>1 DEF SameBytes
  <1> QED BY <1>1, <1>2

=============================================================================
