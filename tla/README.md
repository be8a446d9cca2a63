# Specifications of cxx_snippets

TLA+ models of the code in this repository that has a behaviour of its own:
model-checked with TLC on small instances, with the facts that hold for every
input proved with TLAPS.

The repository is a collection of C++ snippets around a folly/velox build. Most
of it is straight-line test code; the parts with state, loops and invariants
are few, and the LZ4 codec in `folly/` is by far the most intricate of them.

## 1. Inventory

| component | source | state | operations | what makes it correct |
|---|---|---|---|---|
| LZ4 compressor | `folly/my_lz4.{h,cc}` 9-306 | hash table, cursors, output buffer | one call, nested loops: search, catch up, emit, count | memory is respected, matches are real, the block encodes the input |
| LZ4 decompressor | `folly/my_lz4.cc` 307-465 | two cursors, output buffer | one call: literals, offset, match | memory is respected, copies see finished bytes only, the data comes back |
| LZ4Codec | `folly/my_lz4.cc` 467-541 | the buffers of both calls | `doCompress`, `doUncompress` | the two halves invert each other; a wrong size is noticed |
| SpookyHash V2 | `velox_/SpookyV2.{h,cpp}` | 2 blocks of buffered message, 12 words | `Init`, `Update`, `Final`, one-shot hashes | a message in pieces hashes as the whole |
| XXHash64 | `velox_/xxhash64.h` | 31 buffered bytes, 4 words | `add`, `hash`, one-shot hash | the same |
| Presto/Velox hashers | `velox_/presto_hasher.hpp`, `velox_/velox_hasher.hpp` | none; loops over elements | a hasher per type; arrays, maps, rows, tuples | widths, signs and halves; every element counts, and order only where it should |
| union-find | `algorithm/UnionFind_test.cc` | parent, rank, count; roots | `findRoot`, `unionOne`; `find`, `unite` | the partition is connectivity, the count its size |
| ScopedCleanup | `cxx17/ScopedCleanup.h` | cancelled flag | construct, cancel, destroy | the cleanup runs exactly once unless cancelled, in reverse order |
| mutex demonstration | `cxx17/mutex_test.cc` | a counter and a lock | ten threads of ten rounds, joined in order | no update is lost, the test ends |
| futures demonstration | `folly/future_test.cc` | promise, continuation, executor | set, then, get | the continuation runs before `get` returns |
| dependency resolution | `cmake/ResolveDependency.cmake`, `CMakeLists.txt` | cmake variables and cache | `set_source`, `resolve_dependency`, configuration after configuration | glog from where gflags is; a configuration repeats the last but for what the cache recalls |
| everything else | demos, benchmarks, recipes, CI | none | straight-line | - |

How they interact: `folly/compression_test.cc` and the benchmark drive
`LZ4Codec`, which calls the compressor on a buffer of `maxCompressedLength` and
the decompressor on a buffer of the size its caller names. The hashers of
`presto_hasher.hpp` call XXHash64; those of `velox_hasher.hpp` call SpookyHash.
`CMakeLists.txt` calls `resolve_dependency` for one package after the other, and
what it found for gflags decides what is asked for glog; folly looks for the
fmt that was built before it. Nothing else in the
repository calls anything else in it.

Hard behaviours, with their lines, are the `hazards` of `PROJECT.json`. In the
LZ4 code they are of one kind above all: loads and stores of whole words with
*no* check next to them, kept inside their buffers by a condition established
many steps earlier (a capacity check at the entry, the distance of the search
from the end of the input, the last-literals rule of the other half of the
codec). No unit test sees a word read or written beyond what it needed.
The demonstrations are small, but each is of something a test hardly reaches:
an interleaving, two walks through an array that both change it, scopes left in
the middle of cleaning up, a cache that outlives the environment it was filled
from.

## 2. Plan

In the order in which it was carried out, each part with what it still lacks:

1. **LZ4**: `LZ4Primitives`, `LZ4HashTable`, `LZ4Block`, `LZ4Compressor`,
   `LZ4Decompressor`, and `LZ4Codec`, which composes both and refines
   `LZ4CodecSpec`. Every safety property of both halves and the refinement are
   proved for every input.
2. **Streaming hashes**: `StreamingHash`, one abstract module of a hash that
   takes a message in pieces; `XXHash64` and `SpookyHash`, each shown to
   implement it; the buffer invariants, both refinements, and that every byte
   counts are proved.
3. **Hashers**: `Hashers` over `VeloxHasher` and `PrestoHasher`, which bring the
   arithmetic of both streaming hashes with them; that tuples are rows, that
   widths do not matter, and that the order of an array's elements does not,
   proved for every value.
4. **Union-find**: both classes against connectivity; the partition invariant of
   both and the count of `d2` proved.
5. **The mutex and ScopedCleanup**: small interleavings; the counter proved for
   every number of threads, the order of cleanups for every number of scopes.
6. **Dependency resolution**: repeated configurations with CMake's cache, an
   environment and installed packages that change in between; both properties
   proved for all of them.

## 3. Modules

| module | models | |
|---|---|---|
| `Memory` | buffers, loads and stores, as every module below uses them | byte sequences with C++ addresses from 0 |
| `LZ4Primitives` | constants of `my_lz4.h`, the encodings of lengths | |
| `LZ4HashTable` | `hash`, `computeTableSize` | |
| `LZ4Block` | nothing in the code: the LZ4 block format | the reference both halves are held against |
| `LZ4Compressor` | `compressor::compress` and its helpers | one action per loop iteration |
| `LZ4Decompressor` | `decompressor::decompress` | one action per loop iteration |
| `LZ4CodecSpec` | nothing in the code: the promise of a codec | abstract specification |
| `LZ4Codec` | `LZ4Codec::doCompress`, `doUncompress` | INSTANCEs of both machines, with what is proved about them, one after the other |
| `StreamingHash` | nothing in the code: the promise of a hash in pieces | abstract specification |
| `XXHash64` | class `XXHash64`: constructor, `add`, `hash`, the two static hashes | one action per call |
| `SpookyHash` | class `SpookyHash`: `Init`, `Update`, `Final`, `Hash128`, with `Short`, `Mix`, `End` | one action per call, or per early return of it |
| `Words` | unsigned words of any width as their bytes: sum, product, xor, shifts, rotation, conversions | arithmetic modulo 2^64 within TLC's integers |
| `XXHash64Words`, `SpookyHashWords` | the arithmetic of both classes: the value of a digest of `XXHash64` and `SpookyHash` | |
| `VeloxHasher`, `PrestoHasher` | `velox::hash` and `presto::hash`: combining hashes, the hash of one value | values are records of a type and bytes |
| `Hashers` | `hashArray`, `hashMap`, `hashRow` and `hasher<std::tuple>` of both | two calls, one action per iteration |
| `Partition` | nothing in the code: equivalence classes | what union-find is for |
| `UnionFind` | `d2::UnionFind` and the calls the test makes | one action per step of `findRoot`, one for the link |
| `UnionFindRoots` | `d1::UnionFind` | one action per call and return of the recursion |
| `UnionFindClasses` | both classes side by side | a behaviour uses one of them |
| `MutexCounter` | the test of `mutex_test.cc` | the increment is a load and a store |
| `ScopedCleanup` | class `ScopedCleanup`, `MakeScopedCleanup` | nested scopes and how they are left are the environment |
| `DependencyResolution` | `set_with_default`, `set_source`, `resolve_dependency` in the order of `CMakeLists.txt` | one action per call; a configuration is a sequence of them |
| `MC*` | inputs, blocks, messages, grids and hosts for TLC | |
| `BufferProofs` | nothing in the code: lemmas about loads, stores and LZ4 blocks | extended by the four modules that follow bytes through buffers |
| `StandaloneProofs` | lemmas and theorems about `MutexCounter`, `ScopedCleanup`, `DependencyResolution` and `Hashers` | extends all four; in the latter three `Init`, `Next` and `Spec` have a prefix for that |
| other `*Proofs` | lemmas and theorems about the module of that name (`UnionFindProofs`: `UnionFindClasses`) | |

Variables have the names of the locals they stand for, with these exceptions:
`pc` says in which loop the call is; `current` is the cursor of `count`, kept
between its iterations; `readEnd` and `writeEnd` are ghosts, the end of the
furthest load and store made so far. `inputAddress` and `outputAddress` are 0,
as both callers pass.

**Memory.** A buffer is a sequence of bytes and a load or a store is total: a
load outside returns `NoByte`, a store outside is dropped. Nothing is therefore
assumed about staying inside; every action records what it touches in
`readEnd` and `writeEnd`, at word size where the code moves words, and the
properties are about these. Loads in `count` and `emitLiteral` that look past
the bytes they need are recorded at their full width. The loads that compare a
candidate with the cursor read at positions below ones already recorded.

**Hashing.** `XXHash64` and `SpookyHash` follow every byte and leave the
arithmetic to `XXHash64Words` and `SpookyHashWords`: a word of state is represented by the seed and the
bytes mixed in since, a digest by the words that the last loops eat, their
padding and the length. Two digests are equal in the model exactly if the same
words go through the same rounds; if they are, they are equal in the code. That
different digests never collide is what good arithmetic is for, and is not
claimed. A state in which words of two messages meet is given a value that no
message has (`Mix`). Neither class initializes its buffer: `Garbage` and
`Stale` say what may be in it, and nothing of that may reach a digest. A new
`SpookyHash` can also be one that was used before: `SpookyInit` keeps the
buffer and ten of the twelve words. `message` is a ghost, all that was added.

**Hashers.** A value is its type and its bytes; a template's specializations
that differ in nothing but a name are one class of types. The arithmetic is
complete, so the answers of the model are the program's, and the run compares
nineteen of them with those in `velox_hasher_test.cc`. A behaviour makes two
calls, since what matters of hashes is which are equal.

**Union-find.** `class` is a ghost that unites sets as the arguments say;
everything about parents, ranks, roots and counts is held against it. The test
unites row by row; the model takes pairs of neighbours in any order and again.
In `d1::unite` C++17 evaluates the right side of the assignment first; the
model makes each call and return of the recursive `find` a step, so that the
second `find` runs on the array that the first one compressed.

**Dependency resolution.** What outlives a run of CMake is in `cache`
(`VELOX_DEPENDENCY_SOURCE`), `paths` and `fmt_DIR`; `d_SOURCE` are normal
variables, forgotten between runs. `find_package` has two ways to remember. A
Find module caches the paths of what it found and does not look again, wherever
these have gone: `Findglog.cmake`, CMake's `FindICU`, and `FindBoost` and
`FindGTest` if the host's package has no config file of its own (`Lasting`). For
the other packages the directory of the config file is cached, which counts as
long as the file is there. That matters for fmt only: its recipe writes a config
file into the build directory and has it found (`fmt.cmake:31-36`), and folly,
built or not, calls `find_package(fmt)` (`Located`). A later configuration that
includes that file needs the targets that only generating exports (`exported`,
`no-targets.patch`); without them CMake goes on to the end and reports failure
(`failing`, `Incomplete`). A recipe may fail for any reason, which ends the
configuration; what is in the cache by then stays. The environment and the host's
packages change between configurations only; `last` is a ghost, the last
configuration that succeeded. What `find_package` caches, and that folly calls
it, is modelled as CMake documents and as the comment of `fmt.cmake` says, as
the source of neither is in the repository.

**Abstraction in LZ4.** The output buffer starts with an arbitrary byte (`Stale`), not
with zeros. The table starts with zeros as `memset` leaves it. `hash` is
computed by byte columns since TLC's integers have 32 bits; the run
`lz4_compress` checks it against the test vector of the repository.
Texts of exceptions are left out, and the phase `thrown` stands for all of them.
`MAX_INPUT_SIZE` and `MAX_DISTANCE` are CONSTANTS so that a run can scale them.

**Seeded faults.** A definition introduced by the comment "Seeded fault" is not
part of a model: it is a plausible bug, and `PROJECT.json` says which property
fails when it replaces the definition that follows it.

## 4. Runs

| run | asks | states |
|---|---|---|
| `lz4_compress` | is every call correct: bounds, match, table, block, size, termination, the test vector | 121,299 |
| `lz4_decompress` | is every call correct: each copying path with each overlap and distance from the end, wrong sizes, damaged blocks | 95,117 |
| `lz4_codec` | compress, then uncompress: refinement of `LZ4CodecSpec` | 40,758 |
| `xxhash_pieces` | is a hash in pieces the one-shot hash; does it depend on every byte and no other | 1,540 |
| `spooky_pieces` | the same, with `Final` in between and the object used again | 81,616 |
| `hashers` | which containers hash alike, in both families; the test suite's answers | 12,979 |
| `hashers_int128` | does the low half of a 128-bit value count: **violated**, see below | |
| `union_find` | both classes: one root per class, the count, every call returns | 561,607 |
| `mutex` | no increment lost, the test ends | 12,965 |
| `dependencies` | glog follows gflags; what configuring again may change | 2,190,947 |
| `dependencies_auto` | does AUTO fall back: **violated**, see below | |
| `scoped_cleanup` | each cleanup once, in reverse order | 26,409 |

Why these bounds are enough:

- A call of LZ4 is deterministic; states are distinct positions in distinct
  calls. What has to be covered is the set of paths through the loops, so the
  inputs are built, not enumerated: chunks that repeat at distances 1, 3 and 8,
  runs, and fresh bytes, in every order, with tails that do and do not let a
  match run into the last bytes. They reach every action, matches behind a
  match, catching up by several bytes, and a match at the last possible
  position.
- Word-sized code has its edges at 4, 8 and 12 bytes from an end and at
  distances below 8. The decompressor's blocks take every offset up to 17, every
  match length from 4 to 20 and last literals from 5 to 15 bytes.
- Length extensions have their edges at 15 + k * 255: the long inputs and blocks
  take both sides of these for k = 0, 1, 2.
- Distances beyond 65535 cannot be reached with such inputs: `lz4_compress`
  scales `MAX_DISTANCE` to 320, which some candidates of the long inputs lie
  beyond, `lz4_codec` to 24 with inputs of up to 70 bytes, so that inputs are
  refused too. The theorems hold for every value up to 65535.
- A hash depends on where its message is cut, hardly on what it says: all
  messages are prefixes of one, in which no byte repeats within 251 and whose
  beginning differs from the 255s that the buffers hold before. XXHash64 is
  given pieces of 0, 1, 5, 8, 31, 32, 33, 64 and 71 bytes in every order, up to
  140 bytes: around a word, around a block of 32, and a piece that completes a
  block and brings another two. SpookyHash's messages are cut at every subset of
  0, 9, 95, 96, 97, 191, 192, 193 and 288: around one block of 96, around two,
  with which `m_data` fills up, and three; short messages of one piece have
  every length that its last switch tells apart. Two seeds suffice, since seeds
  are only carried.
- The hashers' loops know an element only by its hash, its position and whether
  it is the first: one, two and three elements cover the positions, values of
  every class and width near their edges (-128, -1, 0, 256, 65536, 2^31 - 1,
  strings of 0 to 201 bytes) the hashes. All 24 orders of four numbers, two of
  which are the same, and all of three strings, are given to the commutative
  accumulator.
- For union-find, every set of '1's on two rows of three, from none to the full
  grid with its circle, and a row of six, on which walks take up to five steps;
  unions in every order and again. `d1` has four roots instead of 26, enough for
  two trees to meet whose paths are compressed.
- Three threads of three rounds: a thread can be passed by one and by two
  others, at the beginning, in the middle and at the end of its rounds.
- A build directory is configured any number of times, with ten environments
  and seven sets of packages. They differ where a decision does: each default,
  sources of gflags, glog, Boost and ICU, misspelt ones; all packages, none, one
  missing, and one alone. The Boost of these hosts leaves paths in the cache, their
  GTest does not, so that both kinds of package are there.
- Four cleanups in three scopes: two in one scope, and a scope without any.

**Fairness.** In LZ4 and union-find `WF_vars(Step)`: one call is executed by one
thread that nothing blocks, so it goes on as long as it has not returned.
Calling again is not fair: nobody has to. For the mutex, each thread and the
main thread are scheduled (`WF`), but the lock promises no turns: no strong
fairness is assumed of `Lock`, and `Finishes` holds without, as every thread has
only so many rounds to pass the others by. The hashes are called, and each call
or iteration is an action that is always possible; `DependencyResolution` and
`ScopedCleanup` state safety only.

**Deadlock** is checked except where a system really stops: the mutex test ends,
`std::terminate` ends a program whose cleanup throws, and a grid without
neighbouring '1's is never united. Elsewhere `Returned` stutters after the end,
so that a call that has not returned can always go on.

**Findings.**

- `hashers_int128`: `hash_int128` (`presto_hasher.hpp:56`) takes `u >> 64` as
  `lo`, although the line above says "little endian: low + high". The mask that
  should drop the sign of the high half drops bit 63 of the low half: 7 and
  7 + 2^63 have one hash. The test value 7 does not show it, since its hash is
  the xor of both halves' hashes whichever is which.
- `dependencies_auto`: "AUTO: Try SYSTEM first fall back to BUNDLED"
  (`CMakeLists.txt:36`) is not what happens to glog: with a gflags on the host,
  `CMakeLists.txt:63` requires a glog there too, and the configuration fails.

Where a comment or document says something else than the code without such
consequences, no run is spent on it:

- `computeTableSize` says "smallest power of 2 larger than inputSize"; for an
  input of 2^k bytes it is 2^k, which is not larger. Nothing else depends on
  it, see `ResultEncodes`.
- `SpookyHash::Final` "does not modify the state" (`SpookyV2.h:104`); for a long
  message it pads `m_data` in place. The bytes written are ones that the next
  `Update` overwrites before it reads them, see `ImplementsStreamingHash`.
- `Mix` "is used if the input is 96 bytes long or longer" (`SpookyV2.h:122`); it
  is from 192 bytes on, below that `Short` does everything.
- `cmake/resolve_dependency_modules/README.md:6` lets the environment variable
  `VELOX_DEPENDENCY_SOURCE` choose; once a build directory was configured, even
  without success, the cached value does (`Cached`). `<package>_SOURCE` (line 7)
  has no effect for glog (`Requested`).
- "SYSTEM: Use installed dependencies via find_package" (`CMakeLists.txt:37`) is
  not what SYSTEM means the second time: on a host without fmt, AUTO builds one,
  folly's `find_package(fmt)` caches where, and the next configuration, of an
  unchanged host, finds it there and uses it as the system's. `NoLongerBuilt` is
  this case, an exception of `ReconfigureRepeats`.
- The comment of `resolve_dependency` (`ResolveDependency.cmake:57`) says SYSTEM
  where it describes AUTO.
- `-DBoost_SOURCE=BUNDLED` on CMake's command line, as in `ci.yml`, has no
  effect: `set_source` reads the environment, where `ci.yml` sets it too.

## 5. Proofs

### The compressor

| theorem of `LZ4CompressorProofs` | for every input, capacity and `MAX_INPUT_SIZE`, `MAX_DISTANCE` up to 65535 |
|---|---|
| `TypeCorrect` | `Spec => []TypeOK` |
| `ReadsStayInside`, `WritesStayInside` | no load leaves the input, no store the output buffer |
| `BudgetKept` | the size of the block |
| `MatchesAreSound` | a match is behind the cursor, within reach, and equal |
| `CountIsExact` | `count` stops at the first difference, and at no other place but the limit |
| `TableStaysBehind` | what a probe can find in the table is behind it |
| `PrefixIsDescribed` | between two sequences the block describes the data before the anchor |
| `ResultIsEncoding` | what is returned encodes the input |

`CompressorAssumption` only says that inputs are byte sequences and constants
are in range. There are three inductive invariants, each built on the one before.

`IInv` is `TypeOK /\ Located /\ OutputBudget /\ ReadsInBounds /\ WritesInBounds`.
`ReadsInBounds` and `WritesInBounds` are not inductive: that `emitLiteral` may
copy a word too much follows from where the cursor is, and that there is room
for it from how much has been written. `Located` says the former, phase by
phase: a search that goes on stays `MATCH_FIND_LIMIT` before the end, catching
up does not pass the anchor, `count` does not pass `matchLimit`. `OutputBudget`
says the latter: between two sequences `255 * output <= 256 * anchor`. Literals
cost one byte in 255 and a constant; a match costs the same for what it
compresses, but saves at least four bytes first, which pays for the token and
the offset. In the middle of a sequence the constant is owed, and the 16 bytes
of `maxCompressedLength` cover both the debt and the overcopied word.

`MatchInv` is needed because `TableBehind` is not inductive: catching up moves
the cursor back, behind positions that are already in the table. What saves the
next search is that the match is counted on from there. So there is a position
`p` at or behind the cursor that no entry of the table is beyond, and the match
is known to be equal up to four bytes behind `p`: wherever `count` stops, it
stops behind `p`. For `CountIsExact` the lemmas follow the loads of `count`,
eight bytes, then four, two and one, byte by byte (`Agree`).

`BlockInv` says what the output holds: between two sequences bytes that describe
the data before the anchor, within one the token and literals up to the match
(`HalfWritten`). Every store of the code, overcopies included, keeps what lies
before it. A match writes into two places: its length goes into the token, which
was written before the literals, and `emitMatch` keeps the other half of that
byte (`BitOr`).

### The LZ4 block format

`Describes` and `Encodes` (`LZ4Block`) are defined by a recursive function over
positions in a block and in the data, and the library's induction theorems,
whose parameters are operators, cannot be cited here. `BufferProofs` therefore
shows once that `Describes` is the same as a statement without recursion, that
there is a chain of such positions from the first to the last (`Reaches`,
`DescribesReaches`): the chain satisfies the recursive definition, and anything
that does agrees with it, since a disagreement nearest to the end of the block
would need another one nearer still (`LeastNumber`). What the machines' proofs
use are statements about one step: a described prefix and one more sequence are
described, and a sequence on the path through a block (`OnPath`) has its
literals, offset and length inside the block and leads on to the next one.

### The decompressor

| theorem of `LZ4DecompressorProofs` | for every block and size that a caller names |
|---|---|
| `TokenAlwaysLeft` | valid or damaged: the outer loop of `decompress` ends from its body only |
| `NoReadBeyond`, `NoWriteBeyond` | valid: no load leaves the block, no store the output, overcopied words included |
| `DecodesTheData` | valid: what lies behind the cursor is the data |
| `SourceStaysApart` | valid: a word is copied from finished bytes only |
| `DecodesExactly` | valid, and the right size: the data is returned |
| `NoticesOtherSizes` | valid, and another size: it throws, or returns something else than that size |

Valid means that the block encodes the data of the call;
`DecompressorAssumption` says that a block which is not called damaged does,
and TLC evaluates it on all blocks of `lz4_decompress`. Nothing is claimed of
accesses on damaged blocks but `TokenAlwaysLeft`.

The invariant of `TokenAlwaysLeft` is how many bytes of the block are left in
each phase: eight behind literals copied by words, six behind the offset, four
behind the match length.

The invariant of the others (`Good`) says in each phase where on the path
through the block the decoder is, what it has read of the sequence there, and
that the output before the cursor is the data. Two things make it inductive.
First, copies by words write beyond what they decode; `decoded` says how far the
output is data, and the code's limits, 12 and 8 bytes before the end of the
output, keep the excess inside, because the last five bytes of a valid block's
data are literals. Second, a match may overlap itself: when its offset
is below eight, the tables `DEC_32_TABLE` and `DEC_64_TABLE` move the source so
that it is at least a word away. The invariant says that the distance of source
and output is then a multiple of the offset, hence a period of the data that the
match makes (`AtWords`), so that words from there are the words of the data.
`NoticesOtherSizes` needs the same invariant for a buffer of another size: as
long as the output fits, the decoder is on the path, and the last literals tell.

### The codec

`LZ4CodecProofs!Implements`, `Spec => ImplementsCodecSpec`, is the refinement,
for every set of inputs and every error that callers make about a size: every
step of `LZ4Codec` is a step of `LZ4CodecSpec` or a stutter. Its invariant is
the three invariants of the compressor while it runs, that the compressed
block encodes the input once it has returned, and `Good` while the decompressor
runs on that block. `LZ4CodecSpec` and both machines each extend `LZ4Block`, so
the format occurs three times in the composition; `SharedEncoding` and
`PromisedEncoding` show that the three are the same. The compressor's
assumptions about constants are repeated in `CodecAssumption`.

### Streaming hashes

| theorem of `XXHash64Proofs`, `SpookyHashProofs` | for every message, cut, seed and old buffer |
|---|---|
| `TypeCorrect` | `Spec => []TypeOK` |
| `StateDescribed` | `Spec => []StateDescribesMessage` |
| `Implements` | `Spec => Promise!Spec`, the refinement of `StreamingHash` |
| `DependsOnEveryByte` | `Spec => []EveryByteCounts`: the message can be read off what a digest is computed from |

Assumptions: `XXHash64Assumption` and `SpookyHashAssumption`: what is added is
byte sequences, and buffers have their size.

Here the invariant is what the runs check, `TypeOK /\ StateDescribesMessage`
(`Holds` in the proofs): the processed bytes are a prefix of the message that
ends with a block, and the buffer begins with the rest. The lemmas of
`BufferProofs` say what loads and stores do to it: a store behind the bytes
that wait appends to them (`StoreFollows`), loads that follow each other join
(`LoadPrefix`), and a message is found again in a longer one (`LoadConcat`).
For `Update` and `add` there are three cases: the bytes still fit; some wait
and are completed first; none wait. For SpookyHash the invariant also says
that all twelve words agree once the message has 192 bytes, which is how
`Update` tells by the length alone, and `PaddedInPlace` that padding completes
what waits to the last block of the one-shot hash and touches nothing else.
The refinements follow: a hasher's digest is determined by the message
(`HashDetermined`), and the one-shot hash is the digest of a hasher that holds
it; for SpookyHash, whose one-shot hash is code of its own, both reads of the
last block are compared byte by byte. `DependsOnEveryByte` rests on this: for
XXHash64 the words of eight, four and one bytes that the last loops eat are
joined again (`TailIsRest`); for SpookyHash the one-shot hash's last bytes are
told from their padding by the length that is put next to them
(`ShortHasAll`, `LongHasAll`).

### Union-find

| theorem of `UnionFindProofs` | for every ... | |
|---|---|---|
| `OneRoot` | set of grids, order and repetition of unions | `Spec => []OneRootPerClass` |
| `CountIsComponents` | the same | `Spec => []CountIsClasses` |
| `OneRootWhileCompressing` | number of roots, order and repetition of `find` and `unite` | one root per class in `d1`, at every step of the recursion |

`UnionFindProofs` first proves what `Partition` needs, without mention of the
algorithm: that merging keeps classes a partition, that linking one root under
another represents the merged classes, and that merging two classes leaves one
fewer. The invariant of `d2` adds to the two properties where a walk is: the cursor is
in the class of the argument it started from, `rootx` and `rooty` are roots of
theirs, and all ranks are zero, so that roots that differ are always counted.
For `d1` it says that `find`, and every call that waits for it on the stack, is
in the class of the argument, and that what was found is a root and stays one
while the path to it is compressed: compressing changes no root, and moves an
index from one member of its class to another. That is why `right`, found
before the second `find` rewrites the array, may still be assigned after it.
`GridAssumption` says that the '1's are finitely many and inside the grid,
`RootsAssumption` that the number of roots is a natural number.

### The mutex, scoped cleanups, dependencies and hashers

| theorem of `StandaloneProofs` | for every ... | |
|---|---|---|
| `NoIncrementLost` | number of threads and of rounds, every interleaving | `Spec => []NothingLost` |
| `CleanupReverses` | number of scopes and objects, order of leaving and cancelling | `CleanupSpec => []CleanedUpInReverse` |
| `GlogStaysWithGflags` | set of environments and of installations | `ResolutionSpec => []GlogFollowsGflags` |
| `ConfigurationRepeats` | the same, and whatever packages leave their paths in the cache | `ResolutionSpec => ReconfigureRepeats` |
| `TuplesAreRows` | tuple, of values of any type | `HashersSpec => []TupleIsRow` |
| `WidthsDoNotMatter` | two arrays of the same integers | `HashersSpec => []WidthsAgree` |
| `OrderDoesNotMatter` | two arrays of the same values, in any order, of any length | `HashersSpec => []OrderIndependent` |
| `TimesStands` | width, and two words of it | `Times` is multiplication modulo `256^n` |
| `MixCommutes` | three words of 64 bits | `commutativeHashMix` takes two hashes in either order |
| `HasherIsWord` | value of any type and size | its hash is a word of 64 bits |

`NothingLost` is inductive only together with who may be where: no thread is
between lock and unlock but the holder of the mutex, and one about to store has
loaded what the counter still is. The proof counts the set `Stored`: a store
adds one element to it, an unlock moves none. At the end all threads have
stored all rounds, and the set is a product.

`CleanedUpInReverse` says nothing of the objects that live, and that is what the
next destructor needs. `CleanupInv` adds that objects are numbered upwards from
the outermost scope to the innermost and in each scope (`InOrderOfCreation`), so
the last object of the innermost scope is the youngest alive; and that an object
is outlived by those that were there when it was made (`Outlives`), so that none
of them has been cleaned up when its turn comes. Leaving several scopes at once
keeps both, since it takes one object at a time.

A configuration need not repeat the last one. AUTO builds what it does not find,
and may find it the next time without a change of the host: an fmt it built
itself, or a package that was there for a while, was found by a configuration
that failed, and left its paths in the cache. `ReconfigureRepeats` says that
nothing else can happen if the variables and packages are again those of the last
successful configuration. gflags, glog and folly, and with gflags the patch
that folly gets, never change; nothing of the system's is built; what was built
and is not any more is in the cache and not on the host. Dropping any of the
exceptions makes it false in the run.

`ResolutionInv` says which calls are left, and of what is resolved that the
environment, the cached default and the packages allow it (`Taken`): a source is
SYSTEM only if it is installed or kept in the cache (`Kept`), glog's is gflags',
ICU has one if Boost is built. The last successful configuration is allowed in
the same way (`Remembered`), with its own environment and packages, but the
default and the cache of today, since a build directory never changes the one and
never loses anything of the other. Thus, with the same variables and packages,
what the last one took as the system's is found when its call comes, and not built
(`Repeating`, `NotBuiltAgain`). What remains is BUNDLED then and SYSTEM now, which
both are allowed only if the cache has it. `LastingAssumption` says which packages
can leave paths. That glog is a system's only if it was found needs them too: a
package that is removed afterwards is still found.
`UnsetAssumption` says that an unset variable does not hold a source.

`TuplesAreRows` and `WidthsDoNotMatter` rest on one invariant of two calls that are
`Alike`: their functions do the same, and the hashes of their elements are the
same one by one. What the first call has computed is a sequence of hashes, from
the start, each made of the one before and of an element (`Hashes`). The second
call goes through the same sequence, so that `HashersInv` only says where in it
each call is; nothing is computed by induction, and no hash is looked into.
That a row starts with its first element while a tuple has a flag for it is one
step of that argument, and why `PairsAssumption` says that a row has an element,
as `hashRow` has a parameter. For `TuplesAreRows` the elements are the same.
For `WidthsDoNotMatter` they are the same numbers in other types, and it remains
that an integer's hash depends on the 64 bits that `hashInt` multiplies only
(`HashOfNumber`), which are those of the integer widened with its sign, but for
the upper half of a narrow negative one (`HashedBytes`, `SameNumberHashes`).
`PairsAssumption` makes the elements of an array values of the types there are
specializations of `hasher` for, and gives them the widths C++ has
(`IsValue`). The proof did not go through for the property as it once was: the bits of -1 are also those of
2^64 - 1, and -1 in 32 bits hashes unlike 2^64 - 1 in 64. `SameNumbers` now
asks for the same sign, and the run has that pair. `HashersInv` quantifies over
all sequences of hashes, so TLC checks its consequences only.

`OrderDoesNotMatter` does look into the hashes, since `commutativeHashMix` is
commutative for a reason: with numbers for words, mixing `y` into
`c + 2779 * (h + x) + 2 * h * x` gives a polynomial in which `x` and `y` can be
swapped (`MixNumberCommutes`). The constants see to that: `c` is 3860031, and
2 * 3860031 = 2779 * 2779 - 2779. Four arguments carry this over to the program.

- *Words are numbers.* `Words` computes byte by byte with a carry, by recursive
  functions. A word of `n` bytes *stands* for a number if what is left of the
  number, divided by 256 again and again, leaves these bytes (`Stands`): a
  sequence of quotients, without a power or a sum of unbounded length. Every word
  stands for a number, and two words for the same one are equal
  (`EveryWordStands`, `StandsUnique`). Carrying does not change what columns stand
  for (`CarriedStands`); `Plus` adds column by column (`PlusStands`), and `Times`
  adds one byte's multiples after the other (`OneColumn`, `TimesStands`).
- *Hashes are words.* A hash of more or fewer bytes, or with a byte above 255,
  would stand for nothing. `HasherIsWord` follows every specialization:
  `twang_mix64`, `jenkins_rev_mix32`, `hash_128_to_64`, and for strings the whole
  one-shot SpookyHash, its rounds, its blocks and the end of a block.
- *Counting suffices.* `Permuted` compares how often a value occurs. For functions
  of which two can be applied in either order, `OrderOfChain` shows by induction on
  the length that what they make of a start depends on these counts only: the last
  element of one sequence is somewhere in the other (`CountedIsThere`), can be
  moved to its end (`MovedToTheEnd`), and what remains has the same counts
  (`CountWithout`).
- *The calls do that.* `ArraysInv` says of each of the two calls that it has
  accumulated the hashes of the elements before `index`, and of each answer that it
  is the hash of its array. Like `HashersInv` it quantifies over sequences.

The inductions are over sets of numbers: `Induction` and `Recursion` follow from
the well-founded order of the naturals, and take a set where the library's theorems
take an operator. `XorNibble` is a function of pairs, and not of two arguments,
because the prover does not accept those.

### Only model-checked

- `KnownAnswer` and `KnownAnswers` compare with the repository's own test
  vectors: there is nothing to generalize.
- `EveryElementCounts` of `Hashers` is a statement about the values the run gives
  it and not about all: hashes collide.
- All liveness (`Termination` of both halves of LZ4, `Answered`, `BothReturn`,
  `Finishes`): it rests on fairness and ENABLED, which TLAPS does not handle.

## 6. Not modelled

- `cloneCoalescedAsValue`, `IOBuf::create` and folly's `Codec`: external; the
  codec model assumes of `create` only that the capacity is at least what was
  asked for (`Spare`).
- The `int` that keeps lengths in `doCompress`: inputs beyond 2^31 are not
  enumerated.
- Unaligned and aliasing word accesses: the build accepts them, and the models
  take them as the byte copies they are on the targets of the build.
- Lengths beyond the width of `size_t`; `XXHash64::add` of a null pointer, and
  what `add` returns. Of `Hash128` the second word: no caller in the repository
  uses it.
- Hashers of containers in containers; `Timestamp`, `StringView` and
  `UnknownValue` are velox's, and hash as the integer, the string and the zero
  they are turned into.
- Copies of a `ScopedCleanup`: the class can be copied, and the copy would run
  the function again, but nothing copies one; C++17 constructs what
  `MakeScopedCleanup` returns in place.
- In dependency resolution: the `velox` subdirectory, which is an empty
  submodule, other URLs (`resolve_dependency_url`), changes of the environment, of
  packages or of the cache's file while CMake runs or by hand, and packages of
  which only a part is there.
- The futures demonstration (`folly/future_test.cc`): the test is a straight
  line, and everything that runs concurrently in it, the promise, the
  continuation and the executor, is folly's, whose source is not here. The use
  of the executor that fails is commented out.
- The recipes but for what is said of them in section 3, and the other components
  of section 1: `PROJECT.json` gives the reason for each.
