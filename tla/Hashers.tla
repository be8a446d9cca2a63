------------------------------- MODULE Hashers -------------------------------
(***************************************************************************)
(* The loops that hash containers: hashArray, hashMap and hashRow of       *)
(* velox_/velox_hasher.hpp and of velox_/presto_hasher.hpp, and hasher of  *)
(* a std::tuple of both.  One call, one action per iteration.  A map is    *)
(* the sequence of its entries by increasing key, as std::map gives them.  *)
(***************************************************************************)
EXTENDS Words, FiniteSets

CONSTANT Pairs    \* of calls: records of a function and its elements

\* Values without parts, of the types there are specializations of hasher for,
\* with the widths C++ has; and values that may have two such parts.
IsSimple(v) ==
  /\ v.bytes \in Seq(0 .. 255)
  /\ \/ v.type \in {"signed", "unsigned"} /\ Len(v.bytes) \in {1, 2, 4, 8, 16}
     \/ v.type = "float" /\ Len(v.bytes) \in {4, 8}
     \/ v.type \in {"bool", "string"}
IsValue(v) == IF v.type = "pair" THEN IsSimple(v.first) /\ IsSimple(v.second) ELSE IsSimple(v)

\* hashRow takes at least one argument, and a vector is one of values.
ASSUME PairsAssumption ==
  \A p \in Pairs : \A c \in {1, 2} :
    /\ Len(p[c].elements) \in Nat
    /\ DOMAIN p[c].elements = 1 .. Len(p[c].elements)
    /\ p[c].function \in {"veloxRow", "prestoRow"} => Len(p[c].elements) > 0
    /\ p[c].function \in {"veloxArray", "prestoArray"} =>
         \A i \in 1 .. Len(p[c].elements) : IsValue(p[c].elements[i])

V == INSTANCE VeloxHasher
P == INSTANCE PrestoHasher

VARIABLES
  calls,      \* a caller hashes two containers, one after the other
  answers,    \* what the calls so far returned
  stage,
  index,      \* of the next element
  isFirst,    \* of the velox tuple
  hash

hashersVars == <<calls, answers, stage, index, isFirst, hash>>

function == calls[Len(answers) + 1].function
elements == calls[Len(answers) + 1].elements

HashersInit ==
  /\ calls \in Pairs
  /\ answers = <<>>
  /\ stage = "call"
  /\ index = 1
  /\ isFirst = TRUE
  /\ hash = ZeroWord(8)

-----------------------------------------------------------------------------
\* The value a loop starts with.
StartOf(f) ==
  CASE f \in {"veloxArray", "veloxMap", "veloxTuple"} -> V!nullHash
    [] f \in {"prestoArray", "prestoMap"} -> ZeroWord(8)
    [] f = "prestoTuple" -> Word(1, 8)

Begin ==
  /\ stage = "call"
  /\ function \notin {"veloxRow", "prestoRow"}
  /\ hash' = StartOf(function)
  /\ stage' = IF function = "veloxMap" THEN "keys" ELSE "loop"
  /\ UNCHANGED <<calls, answers, index, isFirst>>

\* hashRow takes its first argument apart.
BeginRow ==
  /\ stage = "call"
  /\ \/ function = "veloxRow" /\ hash' = V!hasher(elements[1])
     \/ function = "prestoRow" /\ hash' = P!combineHash(Word(1, 8), P!hasher(elements[1]))
  /\ stage' = "loop"
  /\ index' = 2
  /\ UNCHANGED <<calls, answers, isFirst>>

More == index <= Len(elements)

\* One iteration: the loop goes on with the next element and this hash.
Iterate(f, mixed) ==
  /\ stage = "loop" /\ function = f /\ More
  /\ hash' = mixed
  /\ index' = index + 1
  /\ UNCHANGED <<calls, answers, stage>>

VeloxArray ==
  /\ Iterate("veloxArray", V!commutativeHashMix(hash, V!hasher(elements[index])))
  /\ UNCHANGED isFirst

VeloxRow ==
  /\ Iterate("veloxRow", V!hashMix(hash, V!hasher(elements[index])))
  /\ UNCHANGED isFirst

\* Seeded fault: isFirst is captured by value.
VeloxTupleByValue ==
  /\ Iterate("veloxTuple",
             IF isFirst THEN V!hasher(elements[index])
             ELSE V!hashMix(hash, V!hasher(elements[index])))
  /\ UNCHANGED isFirst

VeloxTuple ==
  /\ Iterate("veloxTuple",
             IF isFirst THEN V!hasher(elements[index])
             ELSE V!hashMix(hash, V!hasher(elements[index])))
  /\ isFirst' = FALSE

\* hashMap hashes all keys first, then all values on top of them.
VeloxMapKeys ==
  /\ stage = "keys"
  /\ IF More
       THEN /\ hash' = V!commutativeHashMix(hash, V!hasher(elements[index].key))
            /\ index' = index + 1
            /\ UNCHANGED stage
       ELSE /\ index' = 1
            /\ stage' = "loop"
            /\ UNCHANGED hash
  /\ UNCHANGED <<calls, answers, isFirst>>

VeloxMapValues ==
  /\ Iterate("veloxMap", V!commutativeHashMix(hash, V!hasher(elements[index].value)))
  /\ UNCHANGED isFirst

PrestoArray ==
  /\ Iterate("prestoArray", P!combineHash(hash, P!hasher(elements[index])))
  /\ UNCHANGED isFirst

\* Seeded fault: the hash of the last entry is not added to the others.
PrestoMapLast ==
  /\ Iterate("prestoMap", Xor(P!hasher(elements[index].key), P!hasher(elements[index].value)))
  /\ UNCHANGED isFirst

PrestoMap ==
  /\ Iterate("prestoMap",
             Plus(hash, Xor(P!hasher(elements[index].key), P!hasher(elements[index].value))))
  /\ UNCHANGED isFirst

PrestoRow ==
  /\ \/ Iterate("prestoRow", P!combineHash(hash, P!hasher(elements[index])))
     \/ Iterate("prestoTuple", P!combineHash(hash, P!hasher(elements[index])))
  /\ UNCHANGED isFirst

Return ==
  /\ stage = "loop" /\ ~More
  /\ answers' = Append(answers, hash)
  /\ stage' = IF Len(answers') = 2 THEN "returned" ELSE "call"
  /\ index' = 1
  /\ isFirst' = TRUE
  /\ hash' = ZeroWord(8)
  /\ UNCHANGED calls

\* Both calls are over.
Returned == stage = "returned" /\ UNCHANGED hashersVars

HashersNext ==
  \/ Begin \/ BeginRow
  \/ VeloxArray \/ VeloxRow \/ VeloxTuple \/ VeloxMapKeys \/ VeloxMapValues
  \/ PrestoArray \/ PrestoMap \/ PrestoRow
  \/ Return \/ Returned

HashersSpec == HashersInit /\ [][HashersNext]_hashersVars

-----------------------------------------------------------------------------
(***************************************************************************)
(* Properties: what the answers to two calls tell of what was hashed.      *)
(***************************************************************************)
One   == calls[1].elements
Other == calls[2].elements
Of(f) == calls[1].function = f /\ calls[2].function = f
SameAnswer == answers[1] = answers[2]

Count(v, es) == Cardinality({i \in DOMAIN es : es[i] = v})
Permuted(es, fs) ==
  Len(es) = Len(fs) /\ \A i \in DOMAIN es : Count(es[i], es) = Count(es[i], fs)

DifferInOne(es, fs) ==
  Len(es) = Len(fs) /\ Cardinality({i \in DOMAIN es : es[i] # fs[i]}) = 1

IsInteger(v) == v.type \in {"signed", "unsigned"}
IsWide(v)    == IsInteger(v) /\ Len(v.bytes) = 16
Negative(v)  == v.type = "signed" /\ v.bytes[Len(v.bytes)] >= 128
Widened(v)   == IF v.type = "signed" THEN SignExtended(v.bytes, 8) ELSE ZeroExtended(v.bytes, 8)

\* Integers of at most 64 bits, with the same 64 bits in each.
SameBits(es, fs) ==
  /\ Len(es) = Len(fs)
  /\ \A i \in DOMAIN es : /\ IsInteger(es[i]) /\ ~IsWide(es[i])
                          /\ IsInteger(fs[i]) /\ ~IsWide(fs[i])
                          /\ Widened(es[i]) = Widened(fs[i])

\* The same numbers; -1 and 2^64 - 1 have the same bits too.
SameNumbers(es, fs) ==
  SameBits(es, fs) /\ \A i \in DOMAIN es : Negative(es[i]) = Negative(fs[i])

\* The high halves are the same, the low ones are not.
DifferInLowHalf(es, fs) ==
  /\ DifferInOne(es, fs)
  /\ \A i \in DOMAIN es : IsWide(es[i]) /\ SubSeq(es[i].bytes, 9, 16) = SubSeq(fs[i].bytes, 9, 16)

-----------------------------------------------------------------------------
\* "Order-independent way to reduce multiple 64 bit hashes" (velox_hasher.hpp
\* 23): arrays that differ in the order of their elements have one hash.
OrderIndependent ==
  stage = "returned" /\ Of("veloxArray") /\ Permuted(One, Other) => SameAnswer

\* No loop loses an element, or a part of one: containers that differ in one
\* element, the first as well as the last, have different hashes.  For Presto the
\* same bits in another type are not another element, see WidthsAgree; and its
\* 128-bit values are an exception, see LowHalfCounts.
EveryElementCounts ==
  stage = "returned" /\ calls[1].function = calls[2].function /\ DifferInOne(One, Other)
  /\ ~(/\ Of("prestoArray")
       /\ SameBits(One, Other) \/ \E i \in DOMAIN One : IsWide(One[i])) => ~SameAnswer

\* A tuple hashes as the row of its elements, in both families.
TupleIsRow ==
  stage = "returned" /\ One = Other
  /\ <<calls[1].function, calls[2].function>> \in
       {<<"veloxTuple", "veloxRow">>, <<"prestoTuple", "prestoRow">>} => SameAnswer

\* "Impl accident: sign-extends" (presto_hasher.hpp:81): the same numbers hash
\* alike in 8, 16 and 32 bits, and in 64 bits too unless one is negative.
WidthsAgree ==
  stage = "returned" /\ Of("prestoArray") /\ SameNumbers(One, Other) =>
    \/ SameAnswer
    \/ \E i \in DOMAIN One :
         Negative(One[i]) /\ (Len(One[i].bytes) = 8) # (Len(Other[i].bytes) = 8)

\* Of a 128-bit value the mask leaves out the sign, which is in the high half:
\* "little endian: low + high" (presto_hasher.hpp:55).  Values that differ in
\* their low halves only have different hashes.  It does not hold: the code
\* takes the upper half for the low one.
LowHalfCounts ==
  stage = "returned" /\ Of("prestoArray") /\ DifferInLowHalf(One, Other) => ~SameAnswer
=============================================================================
