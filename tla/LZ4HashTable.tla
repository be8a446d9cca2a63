---------------------------- MODULE LZ4HashTable ----------------------------
(***************************************************************************)
(* The hash table of the compressor: how large it is, and where in it a    *)
(* word of the input belongs (folly/my_lz4.h, folly/my_lz4.cc).            *)
(***************************************************************************)
EXTENDS LZ4Primitives

MIN_TABLE_SIZE == 16
MAX_TABLE_SIZE == 4096

-----------------------------------------------------------------------------
(***************************************************************************)
(* hash: (value * 889523592379 >> 28) & mask on 64-bit words.  With a mask *)
(* of at most 12 bits the result is bits 28 to 39 of the product, which    *)
(* depend on the five low bytes of the word only; the product is formed    *)
(* byte column by byte column.  889523592379 is CF 1B BC DC BB.            *)
(***************************************************************************)
Column1(v) == v[1] * 187
Column2(v) == v[1] * 220 + v[2] * 187 + Column1(v) \div 256
Column3(v) == v[1] * 188 + v[2] * 220 + v[3] * 187 + Column2(v) \div 256
Column4(v) == v[1] * 27 + v[2] * 188 + v[3] * 220 + v[4] * 187 + Column3(v) \div 256
\* Seeded fault: the hash of four bytes only.
Column5OfFour(v) == v[1] * 207 + v[2] * 27 + v[3] * 188 + v[4] * 220 + Column4(v) \div 256

Column5(v) == v[1] * 207 + v[2] * 27 + v[3] * 188 + v[4] * 220 + v[5] * 187
                + Column4(v) \div 256

Hash(v, mask) ==
  ((Column4(v) % 256) \div 16 + 16 * (Column5(v) % 256)) % (mask + 1)

\* The word a long load delivers, and the one a uint32 load zero-extends to.
LongAt(base, i) == Load(base, i, SIZE_OF_LONG)
IntAt(base, i) ==
  [j \in 1 .. SIZE_OF_LONG |-> IF j <= SIZE_OF_INT THEN At(base, i + j - 1) ELSE 0]

\* highestOneBit of a number below 2^31; 0 has no bit.
PowersOfTwo ==
  {1, 2, 4, 8, 16, 32, 64, 128, 256, 512, 1024, 2048, 4096, 8192, 16384, 32768,
   65536, 131072, 262144, 524288, 1048576, 2097152, 4194304, 8388608, 16777216,
   33554432, 67108864, 134217728, 268435456, 536870912, 1073741824}

HighestOneBit(n) ==
  IF n = 0 THEN 0 ELSE CHOOSE p \in PowersOfTwo : p <= n /\ n - p < p

(***************************************************************************)
(* computeTableSize.  The argument of highestOneBit is unsigned and the    *)
(* doubled result becomes an int: for an empty input and for one beyond    *)
(* 2^30 the shift loses the bit or makes it the sign, and the smallest     *)
(* table is used.                                                          *)
(***************************************************************************)
ComputeTableSize(inputSize) ==
  IF inputSize = 0 \/ inputSize > 1073741824 THEN MIN_TABLE_SIZE
  ELSE LET target == 2 * HighestOneBit(inputSize - 1)
       IN  IF target > MAX_TABLE_SIZE THEN MAX_TABLE_SIZE
           ELSE IF target < MIN_TABLE_SIZE THEN MIN_TABLE_SIZE
           ELSE target

=============================================================================
