------------------------------ MODULE MCHashers ------------------------------
(***************************************************************************)
(* Pairs of calls: a container, and one that differs from it by the order  *)
(* of its elements, by one element, by the width of its numbers, or by the *)
(* function it is given to.                                                *)
(***************************************************************************)
EXTENDS Hashers, TLC

Value(type, bytes) == [type |-> type, bytes |-> bytes]
Signed(n, k)   == Value("signed", IF n >= 0 THEN Word(n, k) ELSE Complement(Word(-n - 1, k)))
Unsigned(n, k) == Value("unsigned", Word(n, k))
Text(codes)    == Value("string", codes)
True  == Value("bool", <<1>>)
False == Value("bool", <<0>>)
PairOf(v, w)   == [type |-> "pair", first |-> v, second |-> w]
\* 7 as a float and as a double.
Float7  == Value("float", <<0, 0, 224, 64>>)
Double7 == Value("float", <<0, 0, 0, 0, 0, 0, 28, 64>>)
Double0 == Value("float", ZeroWord(8))

Ints(ns, k) == [i \in 1 .. Len(ns) |-> Signed(ns[i], k)]
Call(f, es) == [function |-> f, elements |-> es]
Same(f, es, fs) == <<Call(f, es), Call(f, fs)>>

-----------------------------------------------------------------------------
\* Arrays of four numbers and of three strings, in every order.
Numbers == <<0, 7, 7, -1>>
Strings == <<Text(<<>>), Text(<<97>>), Text([i \in 1 .. 17 |-> 97 + i])>>
Orders(es) == {[i \in 1 .. Len(es) |-> es[p[i]]] : p \in Permutations(1 .. Len(es))}
Reordered ==
  {Same("veloxArray", Ints(Numbers, 4), fs) : fs \in Orders(Ints(Numbers, 4))}
    \cup {Same("veloxArray", Strings, fs) : fs \in Orders(Strings)}

-----------------------------------------------------------------------------
\* Values of one type that are near each other, and ones for other places.
Alternatives ==
  {{Signed(n, 1) : n \in {-128, -1, 0, 127}}, {Signed(n, 2) : n \in {-1, 0, 256}},
   {Signed(n, 4) : n \in {-1, 0, 1, 65536}}, {Unsigned(n, 8) : n \in {0, 1, 2147483647}},
   {Signed(n, 16) : n \in {-2, 0, 1}},
   {Text(<<>>), Text(<<0>>), Text(<<0, 0>>), Text(<<128>>)},
   {Text([i \in 1 .. 200 |-> (7 * i) % 251]), Text([i \in 1 .. 201 |-> (7 * i) % 251])},
   {False, True}, {Float7, Value("float", <<0, 0, 224, 192>>)},
   {Double0, Double7, Value("float", <<1, 0, 0, 0, 0, 0, 0, 0>>)}}
AlternativePairs ==
  {PairOf(Signed(1, 4), Signed(n, 8)) : n \in {-1, 0}}
    \cup {PairOf(Signed(2, 4), Text(<<98>>)), PairOf(Signed(2, 4), Text(<<99>>))}

Families == {"veloxArray", "veloxRow", "veloxTuple", "prestoArray", "prestoRow", "prestoTuple"}

\* v, and w in its place: alone, first, and between others.  (A vector has
\* elements of one type, which makes no difference to the loop.)
Replaced(f, v, w) ==
  {Same(f, <<v>>, <<w>>), Same(f, <<v, Signed(0, 4)>>, <<w, Signed(0, 4)>>),
   Same(f, <<Signed(5, 8), v, True>>, <<Signed(5, 8), w, True>>)}
Entries(v) == <<[key |-> Signed(1, 4), value |-> v], [key |-> Signed(2, 4), value |-> True]>>

OnePlace ==
  UNION {UNION {Replaced(f, v, w) : f \in Families, v \in alike, w \in alike} : alike \in Alternatives}
    \cup UNION {Replaced("veloxRow", v, w) : v \in AlternativePairs, w \in AlternativePairs}
    \cup UNION {{Same(f, Entries(v), Entries(w)) : f \in {"veloxMap", "prestoMap"}, v \in alike, w \in alike}
                  : alike \in Alternatives \ {{Signed(n, 16) : n \in {-2, 0, 1}}}}

-----------------------------------------------------------------------------
Rows == {<<Signed(28, 4)>>, <<Signed(28, 4), Text(<<97>>)>>, Ints(<<0, 1, 2>>, 2),
         <<True, Float7, Double7, Signed(-7, 16)>>}
TupleAndRow ==
  {<<Call(f[1], es), Call(f[2], es)>> :
     f \in {<<"veloxTuple", "veloxRow">>, <<"prestoTuple", "prestoRow">>}, es \in Rows}

Widths == {1, 2, 4, 8}
OtherWidths ==
  {Same("prestoArray", Ints(ns, k), Ints(ns, m)) :
     ns \in {<<7>>, <<-1>>, <<-128>>, <<127, 0>>, <<0, -1, 1>>}, k \in Widths, m \in Widths}
    \cup {Same("prestoArray", <<Unsigned(n, k)>>, <<Unsigned(n, m)>>) :
            n \in {0, 200}, k \in Widths, m \in Widths}
    \cup {Same("prestoArray", <<Value("unsigned", Complement(ZeroWord(8)))>>, <<Signed(-1, k)>>) :
            k \in Widths}

-----------------------------------------------------------------------------
(***************************************************************************)
(* The answers that velox_hasher_test.cc expects, lowest byte first.       *)
(***************************************************************************)
Digits     == [i \in 1 .. 5 |-> Text(<<47 + i>>)]
TestString == <<97, 98, 99, 100, 101, 95, 98, 99, 100, 101, 102, 103, 104, 95, 97, 98, 99,
                100, 101, 102, 103, 104>> \o [i \in 1 .. 7 |-> 120]
Entry(k, v) == [key |-> Signed(k, 4), value |-> Signed(v, 4)]
ZeroToFour == Ints(<<0, 1, 2, 3, 4>>, 4)
Expected ==
  {[call |-> Call("veloxArray", ZeroToFour), answer |-> <<91, 62, 132, 124, 19, 44, 255, 68>>],
   [call |-> Call("veloxArray", Digits), answer |-> <<129, 83, 236, 198, 54, 53, 80, 247>>],
   [call |-> Call("veloxRow", ZeroToFour), answer |-> <<219, 32, 139, 82, 239, 166, 15, 122>>],
   [call |-> Call("veloxTuple", ZeroToFour), answer |-> <<219, 32, 139, 82, 239, 166, 15, 122>>],
   [call |-> Call("veloxRow", <<Signed(7, 8)>>), answer |-> <<99, 153, 20, 133, 196, 76, 138, 130>>],
   [call |-> Call("veloxMap", <<Entry(1, 1), Entry(2, 2)>>), answer |-> <<65, 22, 234, 90, 111, 195, 152, 204>>],
   [call |-> Call("veloxMap", <<Entry(2, 102), Entry(3, 103)>>), answer |-> <<137, 126, 134, 102, 80, 78, 133, 254>>],
   [call |-> Call("prestoArray", <<Signed(7, 1)>>), answer |-> <<218, 115, 111, 207, 247, 218, 115, 35>>],
   [call |-> Call("prestoArray", <<Signed(7, 8)>>), answer |-> <<218, 115, 111, 207, 247, 218, 115, 35>>],
   [call |-> Call("prestoArray", <<Float7>>), answer |-> <<240, 49, 175, 94, 103, 60, 246, 18>>],
   [call |-> Call("prestoArray", <<Double7>>), answer |-> <<0, 0, 62, 145, 147, 0, 76, 249>>],
   [call |-> Call("prestoArray", <<Unsigned(7, 16)>>), answer |-> <<238, 255, 38, 160, 141, 167, 191, 60>>],
   [call |-> Call("prestoArray", <<Text(TestString)>>), answer |-> <<180, 3, 247, 183, 2, 251, 243, 22>>],
   [call |-> Call("prestoArray", ZeroToFour), answer |-> <<82, 134, 110, 89, 152, 172, 235, 152>>],
   [call |-> Call("prestoArray", Digits), answer |-> <<200, 74, 39, 207, 107, 1, 79, 68>>],
   [call |-> Call("prestoRow", <<Signed(28, 4), Text(TestString)>>), answer |-> <<13, 37, 243, 177, 222, 71, 75, 167>>],
   [call |-> Call("prestoTuple", <<Signed(28, 4), Text(TestString)>>), answer |-> <<13, 37, 243, 177, 222, 71, 75, 167>>],
   [call |-> Call("prestoMap", <<Entry(1, 1), Entry(2, 2)>>), answer |-> ZeroWord(8)],
   [call |-> Call("prestoMap", <<Entry(2, 102), Entry(3, 103)>>), answer |-> <<207, 191, 2, 40, 18, 147, 251, 200>>]}

\* Each with itself: the hashers keep nothing from call to call.
Tested == {<<x.call, x.call>> : x \in Expected}

\* The test suite's answers are the model's: widths, constants and shifts.
KnownAnswers ==
  stage = "returned" =>
    \A x \in Expected : \A c \in 1 .. 2 : calls[c] = x.call => answers[c] = x.answer

MCPairs ==
  Reordered \cup {p \in OnePlace : p[1] # p[2]} \cup TupleAndRow \cup OtherWidths \cup Tested

\* 128-bit values near each other.
WidePairs ==
  UNION {Replaced("prestoArray", v, w) :
           v \in {Signed(n, 16) : n \in {0, 7}},
           w \in {Value("signed", <<7, 0, 0, 0, 0, 0, 0, 128>> \o ZeroWord(8)), Signed(8, 16)}}
=============================================================================
