-------------------------- MODULE UnionFindProofs --------------------------
(***************************************************************************)
(* Both classes of union-find, d2 for every grid and d1 for every number   *)
(* of roots: first what merging two classes does, with classes and parents *)
(* as data, then the invariant of the calls of each.                       *)
(***************************************************************************)
EXTENDS UnionFindClasses, FiniteSetTheorems, SequenceTheorems, TLAPS

\* The classes of a set L: each element is in its own, and shares it with all
\* others that are in it.
IsPartition(c, L) ==
  /\ c \in [L -> SUBSET L]
  /\ \A a \in L : a \in c[a]
  /\ \A a, b \in L : b \in c[a] => c[b] = c[a]

-----------------------------------------------------------------------------
(***************************************************************************)
(* Merging                                                                 *)
(***************************************************************************)
\* Each element alone is a partition, with as many classes as elements.
LEMMA SingletonsPartition ==
  ASSUME NEW L, IsFiniteSet(L)
  PROVE  /\ IsPartition(Singletons(L), L)
         /\ Cardinality(Classes(Singletons(L))) = Cardinality(L)
<1> DEFINE s == Singletons(L)
<1>1. s = [c \in L |-> {c}]
  BY DEF Singletons
<1>2. IsPartition(s, L)
  BY <1>1 DEF IsPartition
<1>3. Classes(s) = {{c} : c \in L}
  BY <1>1 DEF Classes
<1>4. s \in Injection(L, Classes(s))
  BY <1>1, <1>3 DEF Injection, IsInjective
<1>5. s \in Surjection(L, Classes(s))
  BY <1>1, <1>3 DEF Surjection
<1> HIDE DEF s
<1>6. Cardinality(Classes(s)) = Cardinality(L)
  BY <1>4, <1>5, FS_Surjection
<1>7. QED
  BY <1>2, <1>6 DEF s

\* Where two elements are in one class already, merging theirs changes nothing.
LEMMA MergedSame ==
  ASSUME NEW L, NEW c, IsPartition(c, L), NEW v \in L, NEW w \in L, c[v] = c[w]
  PROVE  Merged(c, v, w) = c
<1>1. \A a \in L : a \in c[v] \cup c[w] => c[a] = c[v] \cup c[w]
  BY DEF IsPartition
<1>2. c = [a \in L |-> c[a]] /\ DOMAIN c = L
  BY DEF IsPartition
<1>3. QED
  BY <1>1, <1>2 DEF Merged

\* Merging two classes of a partition leaves a partition.
LEMMA MergedPartition ==
  ASSUME NEW L, NEW c, IsPartition(c, L), NEW v \in L, NEW w \in L
  PROVE  IsPartition(Merged(c, v, w), L)
<1> DEFINE U == c[v] \cup c[w]
           m == Merged(c, v, w)
<1>1. DOMAIN c = L /\ U \subseteq L
  BY DEF IsPartition
<1>2. m = [a \in L |-> IF a \in U THEN U ELSE c[a]]
  BY <1>1 DEF Merged
<1>3. \A a, b \in L : b \in c[a] /\ b \in U => a \in U
  BY DEF IsPartition
<1>4. \A a, b \in L : b \in c[a] => c[b] = c[a] /\ c[a] \subseteq L
  BY DEF IsPartition
<1>5. \A a \in L : a \in c[a] /\ c[a] \in SUBSET L
  BY DEF IsPartition
<1> HIDE DEF U, m
<1>6. m \in [L -> SUBSET L]
  BY <1>1, <1>2, <1>5
<1>7. \A a \in L : a \in m[a]
  BY <1>2, <1>5
<1>8. ASSUME NEW a \in L, NEW b \in L, b \in m[a]
      PROVE  m[b] = m[a]
  <2>1. CASE a \in U
    BY <2>1, <1>2, <1>8
  <2>2. CASE a \notin U
    <3>1. b \in c[a] /\ m[a] = c[a]
      BY <2>2, <1>2, <1>8
    <3>2. b \notin U
      BY <3>1, <2>2, <1>3
    <3>3. QED
      BY <3>1, <3>2, <1>2, <1>4
  <2>3. QED
    BY <2>1, <2>2
<1>9. IsPartition(m, L)
  BY <1>6, <1>7, <1>8 DEF IsPartition
<1>10. QED
  BY <1>9 DEF m

\* Merging two different classes leaves one class fewer.
LEMMA MergedCount ==
  ASSUME NEW L, IsFiniteSet(L), NEW c, IsPartition(c, L),
         NEW v \in L, NEW w \in L, c[v] # c[w]
  PROVE  Cardinality(Classes(Merged(c, v, w))) = Cardinality(Classes(c)) - 1
<1> DEFINE U == c[v] \cup c[w]
           m == Merged(c, v, w)
           C == Classes(c)
<1>1. DOMAIN c = L /\ DOMAIN m = L
  BY DEF IsPartition, Merged
<1>2. C = {c[a] : a \in L} /\ Classes(m) = {m[a] : a \in L}
  BY <1>1 DEF Classes
<1>3. \A a \in L : m[a] = IF a \in U THEN U ELSE c[a]
  BY <1>1 DEF Merged
<1>4. v \in U /\ w \in U /\ v \in c[v] /\ w \in c[w]
  BY DEF IsPartition
<1>5. \A a \in L : a \in c[v] => c[a] = c[v]
  BY DEF IsPartition
<1>6. \A a \in L : a \in c[w] => c[a] = c[w]
  BY DEF IsPartition
<1>7. \A a \in L : v \in c[a] => c[a] = c[v]
  BY DEF IsPartition
<1>8. \A a \in L : w \in c[a] => c[a] = c[w]
  BY DEF IsPartition
<1>9. \A a \in L : a \in c[a]
  BY DEF IsPartition
<1>10. c \in Surjection(L, C)
  BY <1>1, <1>2 DEF Surjection, IsPartition
<1>11. \A a \in U : c[a] \in {c[v], c[w]} /\ a \in L
  BY <1>5, <1>6 DEF IsPartition
<1>12. \A a \in L : c[a] \in {c[v], c[w]} => a \in U
  BY <1>9
<1> HIDE DEF U, m, C
<1>13. IsFiniteSet(C)
  BY <1>10, FS_Surjection
<1>14. Classes(m) = ((C \ {c[v]}) \ {c[w]}) \cup {U}
  <2>1. ASSUME NEW a \in L
        PROVE  m[a] \in ((C \ {c[v]}) \ {c[w]}) \cup {U}
    BY <1>2, <1>3, <1>12
  <2>2. U \in Classes(m)
    BY <1>2, <1>3, <1>4
  <2>3. ASSUME NEW a \in L, c[a] # c[v], c[a] # c[w]
        PROVE  c[a] \in Classes(m)
    BY <2>3, <1>2, <1>3, <1>11
  <2>4. Classes(m) \subseteq ((C \ {c[v]}) \ {c[w]}) \cup {U}
    BY <2>1, <1>2
  <2>5. ((C \ {c[v]}) \ {c[w]}) \subseteq Classes(m)
    BY <2>3, <1>2
  <2>6. QED
    BY <2>2, <2>4, <2>5
<1>15. c[v] \in C /\ c[w] \in C
  BY <1>2
<1>16. U \notin (C \ {c[v]}) \ {c[w]}
  BY <1>2, <1>4, <1>7
<1>17. IsFiniteSet(C \ {c[v]}) /\ Cardinality(C \ {c[v]}) = Cardinality(C) - 1
  BY <1>13, <1>15, FS_RemoveElement
<1>18. /\ IsFiniteSet((C \ {c[v]}) \ {c[w]})
       /\ Cardinality((C \ {c[v]}) \ {c[w]}) = Cardinality(C \ {c[v]}) - 1
  BY <1>17, <1>15, FS_RemoveElement
<1>19. Cardinality(Classes(m)) = Cardinality((C \ {c[v]}) \ {c[w]}) + 1
  BY <1>14, <1>16, <1>18, FS_AddElement
<1>20. Cardinality(C) \in Nat /\ Cardinality(C \ {c[v]}) \in Nat
  BY <1>13, <1>17, FS_CardinalityType
<1>21. Cardinality(Classes(m)) = Cardinality(C) - 1
  BY <1>17, <1>18, <1>19, <1>20
<1>22. QED
  BY <1>21 DEF m, C

\* Linking the root of one class below the root of another represents the
\* merged classes.
LEMMA LinkRepresents ==
  ASSUME NEW L, NEW c, IsPartition(c, L), NEW I, L \subseteq I,
         NEW f \in [I -> Int], Represents(f, c),
         NEW v \in L, NEW w \in L, NEW rx \in c[v], NEW ry \in c[w],
         IsRoot(f, rx), IsRoot(f, ry)
  PROVE  Represents([f EXCEPT ![ry] = rx], Merged(c, v, w))
<1> DEFINE U == c[v] \cup c[w]
           m == Merged(c, v, w)
           g == [f EXCEPT ![ry] = rx]
<1>1. DOMAIN c = L /\ DOMAIN m = L /\ U \subseteq L /\ rx \in U /\ ry \in U
  BY DEF IsPartition, Merged
<1>2. \A a \in L : m[a] = IF a \in U THEN U ELSE c[a]
  BY <1>1 DEF Merged
<1>3. \A a \in L : g[a] = IF a = ry THEN rx ELSE f[a]
  OBVIOUS
<1>4. g[rx] = rx
  BY <1>1, <1>3 DEF IsRoot
<1>5. \A a \in L : f[a] \in c[a]
  BY <1>1 DEF Represents
<1>6. \A a \in L : \E r \in c[a] : f[r] = r
  BY <1>1 DEF Represents, IsRoot
<1>7. \A a, b \in L : c[a] = c[b] /\ f[a] = a /\ f[b] = b => a = b
  BY <1>1 DEF Represents, IsRoot
<1>8. \A a \in L : c[a] \subseteq L /\ a \in c[a]
  BY DEF IsPartition
<1>9. \A a, b \in L : b \in c[a] => c[b] = c[a]
  BY DEF IsPartition
<1>10. \A a \in U : c[a] = c[v] \/ c[a] = c[w]
  BY <1>9 DEF IsPartition
<1>11. \A a \in L : c[a] = c[v] \/ c[a] = c[w] => a \in U
  BY <1>8
<1>12. c[rx] = c[v] /\ c[ry] = c[w] /\ f[rx] = rx /\ f[ry] = ry
  BY <1>1, <1>9 DEF IsRoot
<1>13. c[v] \subseteq U /\ c[w] \subseteq U
  OBVIOUS
<1> HIDE DEF U, m, g
<1>14. ASSUME NEW a \in L
       PROVE  g[a] \in m[a]
  <2>1. CASE a \in U
    <3>1. f[a] \in U
      BY <2>1, <1>5, <1>10, <1>13
    <3>2. QED
      BY <2>1, <3>1, <1>1, <1>2, <1>3
  <2>2. CASE a \notin U
    BY <2>2, <1>1, <1>2, <1>3, <1>5
  <2>3. QED
    BY <2>1, <2>2
<1>15. ASSUME NEW a \in L
       PROVE  \E r \in m[a] : g[r] = r
  <2>1. CASE a \in U
    BY <2>1, <1>1, <1>2, <1>4
  <2>2. CASE a \notin U
    <3>1. PICK r \in c[a] : f[r] = r
      BY <1>6
    <3>2. r \in L /\ c[r] = c[a]
      BY <1>8, <1>9
    <3>3. r # ry
      BY <3>2, <2>2, <1>11, <1>12
    <3>4. g[r] = r
      BY <3>1, <3>2, <3>3, <1>3
    <3>5. QED
      BY <3>4, <2>2, <1>2
  <2>3. QED
    BY <2>1, <2>2
<1>16. ASSUME NEW a \in L, g[a] = a
       PROVE  f[a] = a /\ (a \in U => a = rx)
  <2>1. a # ry \/ rx = ry
    BY <1>3, <1>16
  <2>2. f[a] = a
    BY <2>1, <1>3, <1>12, <1>16
  <2>3. ASSUME a \in U
        PROVE  a = rx
    <3>1. CASE c[a] = c[v]
      BY <3>1, <2>2, <1>1, <1>7, <1>12
    <3>2. CASE c[a] = c[w]
      <4>1. a = ry
        BY <3>2, <2>2, <1>1, <1>7, <1>12
      <4>2. QED
        BY <4>1, <2>1
    <3>3. QED
      BY <2>3, <3>1, <3>2, <1>10
  <2>4. QED
    BY <2>2, <2>3
<1>17. ASSUME NEW a \in L, NEW b \in L, m[a] = m[b], g[a] = a, g[b] = b
       PROVE  a = b
  <2>1. a \in m[a] /\ b \in m[b]
    BY <1>2, <1>8
  <2>2. CASE a \in U /\ b \in U
    BY <2>2, <1>16, <1>17
  <2>3. CASE a \notin U /\ b \notin U
    BY <2>3, <1>2, <1>7, <1>16, <1>17
  <2>4. CASE a \in U /\ b \notin U
    <3>1. c[b] = U /\ a \in c[b]
      BY <2>1, <2>4, <1>2, <1>17
    <3>2. c[a] = c[b]
      BY <3>1, <1>9
    <3>3. QED
      BY <3>2, <2>4, <1>10, <1>11
  <2>5. CASE a \notin U /\ b \in U
    <3>1. c[a] = U /\ b \in c[a]
      BY <2>1, <2>5, <1>2, <1>17
    <3>2. c[a] = c[b]
      BY <3>1, <1>9
    <3>3. QED
      BY <3>2, <2>5, <1>10, <1>11
  <2>6. QED
    BY <2>2, <2>3, <2>4, <2>5
<1>18. Represents(g, m)
  BY <1>1, <1>14, <1>15, <1>17 DEF Represents, IsRoot
<1>19. QED
  BY <1>18 DEF m, g

-----------------------------------------------------------------------------
(***************************************************************************)
(* The invariant of d2                                                     *)
(***************************************************************************)
Cells == 0 .. grid.m * grid.n - 1

\* The object: ranks stay zero, and the parents represent the classes.
ObjectInv ==
  /\ grid \in Grids
  /\ parent \in [Cells -> Int]
  /\ rank = [i \in Cells |-> 0]
  /\ IsPartition(class, Land(grid))
  /\ OneRootPerClass
  /\ CountIsClasses
  /\ count \in Int

\* The walks of unionOne stay in the classes of its arguments.
CallInv ==
  /\ pc \in {"idle", "findx", "findy", "link"}
  /\ pc # "idle" => x \in Land(grid) /\ y \in Land(grid)
  /\ pc = "findx" => p \in class[x]
  /\ pc = "findy" => p \in class[y]
  /\ pc \in {"findy", "link"} => rootx \in class[x] /\ IsRoot(parent, rootx)
  /\ pc = "link" => rooty \in class[y] /\ IsRoot(parent, rooty)

IInv == ObjectInv /\ CallInv

\* The places that unionOne is called with hold a '1'.
LEMMA NeighboursOnLand ==
  ASSUME NEW g, NEW pair \in Neighbours(g)
  PROVE  pair[1] \in Land(g) /\ pair[2] \in Land(g)
BY DEF Neighbours, Land

\* The constructor makes every '1' a component of its own.
LEMMA InitInv == Init => IInv
<1> SUFFICES ASSUME Init
             PROVE  IInv
  OBVIOUS
<1> DEFINE L == Land(grid)
<1>1. grid \in Grids /\ L \subseteq Cells /\ IsFiniteSet(L)
  BY GridAssumption DEF Init, Cells
<1>2. class = Singletons(L) /\ count = Cardinality(L)
  BY DEF Init
<1>3. IsPartition(class, L) /\ Cardinality(Classes(class)) = Cardinality(L)
  BY <1>1, <1>2, SingletonsPartition
<1>4. parent = [i \in Cells |-> IF i \in L THEN i ELSE -1] /\ rank = [i \in Cells |-> 0]
  BY DEF Init, Cells
<1>5. Cells \subseteq Int
  BY DEF Cells
<1>6. parent \in [Cells -> Int]
  BY <1>4, <1>5
<1>7. DOMAIN class = L /\ \A c \in L : class[c] = {c} /\ parent[c] = c
  BY <1>1, <1>2, <1>4 DEF Singletons
<1>8. OneRootPerClass
  BY <1>7 DEF OneRootPerClass, Represents, IsRoot
<1>9. CountIsClasses /\ count \in Int
  BY <1>1, <1>2, <1>3, FS_CardinalityType DEF CountIsClasses
<1>10. ObjectInv
  BY <1>1, <1>3, <1>4, <1>6, <1>8, <1>9 DEF ObjectInv
<1>11. CallInv
  BY DEF Init, CallInv
<1>12. QED
  BY <1>10, <1>11 DEF IInv

\* A parent is in the class of its child.
LEMMA ParentInClass ==
  ASSUME IInv, NEW c \in Land(grid), NEW q \in class[c]
  PROVE  q \in Land(grid) /\ parent[q] \in class[c]
<1>1. q \in Land(grid) /\ class[q] = class[c] /\ DOMAIN class = Land(grid)
  BY DEF IInv, ObjectInv, IsPartition
<1>2. parent[q] \in class[q]
  BY <1>1 DEF IInv, ObjectInv, OneRootPerClass, Represents
<1>3. QED
  BY <1>1, <1>2

\* The end of unionOne: one component fewer if the roots differ, and none if not.
LEMMA LinkInv == IInv /\ Link => IInv'
<1> SUFFICES ASSUME IInv, Link
             PROVE  IInv'
  OBVIOUS
<1> DEFINE L == Land(grid)
<1>1. /\ grid' = grid /\ rank' = rank /\ class' = Merged(class, x, y) /\ pc' = "idle"
      /\ Cells' = Cells /\ Land(grid)' = L
  BY DEF Link, Cells
<1>2. /\ x \in L /\ y \in L /\ rootx \in class[x] /\ rooty \in class[y]
      /\ IsRoot(parent, rootx) /\ IsRoot(parent, rooty)
  BY DEF Link, IInv, CallInv
<1>3. /\ grid \in Grids /\ parent \in [Cells -> Int] /\ rank = [i \in Cells |-> 0]
      /\ IsPartition(class, L) /\ Represents(parent, class)
      /\ count = Cardinality(Classes(class)) /\ count \in Int
  BY DEF IInv, ObjectInv, OneRootPerClass, CountIsClasses
<1>4. L \subseteq Cells /\ IsFiniteSet(L)
  BY <1>3, GridAssumption DEF Cells
<1>5. rootx \in L /\ rooty \in L
  BY <1>2, <1>3 DEF IsPartition
<1>6. rank[rootx] = 0 /\ rank[rooty] = 0 /\ Cells \subseteq Int
  BY <1>3, <1>4, <1>5 DEF Cells
<1>7. Linked = [parent EXCEPT ![rooty] = rootx]
  BY <1>6 DEF Linked
<1>8. rootx = rooty => [parent EXCEPT ![rooty] = rootx] = parent
  BY <1>2, <1>3 DEF IsRoot
<1>9. parent' = [parent EXCEPT ![rooty] = rootx]
  BY <1>7, <1>8 DEF Link
<1>10. parent' \in [Cells -> Int]
  BY <1>3, <1>4, <1>5, <1>6, <1>9
<1>11. Represents(parent', class')
  BY <1>1, <1>2, <1>3, <1>4, <1>9, LinkRepresents
<1>12. IsPartition(class', L)
  BY <1>1, <1>2, <1>3, MergedPartition
<1>13. count' = Cardinality(Classes(class')) /\ count' \in Int
  <2>1. class[rootx] = class[x] /\ class[rooty] = class[y] /\ DOMAIN class = L
    BY <1>2, <1>3 DEF IsPartition
  <2>2. CASE rootx = rooty
    <3>1. count' = count
      BY <2>2 DEF Link, CountAfter
    <3>2. class' = class
      BY <2>1, <2>2, <1>1, <1>2, <1>3, MergedSame
    <3>3. QED
      BY <3>1, <3>2, <1>3
  <2>3. CASE rootx # rooty
    <3>1. count' = count - 1
      BY <2>3, <1>6 DEF Link, CountAfter
    <3>2. class[x] # class[y]
      BY <2>1, <2>3, <1>2, <1>3, <1>5 DEF Represents
    <3>3. Cardinality(Classes(class')) = Cardinality(Classes(class)) - 1
      BY <3>2, <1>1, <1>2, <1>3, <1>4, MergedCount
    <3>4. QED
      BY <3>1, <3>3, <1>3
  <2>4. QED
    BY <2>2, <2>3
<1>14. ObjectInv'
  BY <1>1, <1>3, <1>10, <1>11, <1>12, <1>13
     DEF ObjectInv, OneRootPerClass, CountIsClasses
<1>15. CallInv'
  BY <1>1 DEF CallInv
<1>16. QED
  BY <1>14, <1>15 DEF IInv

\* The other steps of unionOne change no object.
LEMMA CallInvKept == IInv /\ (UnionOne \/ Walk \/ FoundX \/ FoundY) => IInv'
<1> SUFFICES ASSUME IInv, UnionOne \/ Walk \/ FoundX \/ FoundY
             PROVE  IInv'
  OBVIOUS
<1>1. UNCHANGED <<object, class>>
  BY DEF UnionOne, Walk, FoundX, FoundY
<1>2. ObjectInv'
  BY <1>1 DEF IInv, ObjectInv, object, Cells, OneRootPerClass, CountIsClasses
<1>3. \A c \in Land(grid) : c \in class[c]
  BY DEF IInv, ObjectInv, IsPartition
<1>4. grid' = grid /\ parent' = parent /\ class' = class
  BY <1>1 DEF object
<1>5. CASE UnionOne
  <2>1. x' \in Land(grid) /\ y' \in Land(grid) /\ p' = parent[x'] /\ pc' = "findx"
    BY <1>5, NeighboursOnLand DEF UnionOne
  <2>2. p' \in class[x']
    BY <2>1, <1>3, ParentInClass
  <2>3. CallInv'
    BY <2>1, <2>2, <1>4 DEF CallInv
  <2>4. QED
    BY <2>3, <1>2 DEF IInv
<1>6. CASE Walk
  <2>1. /\ pc \in {"findx", "findy"} /\ p' = parent[p]
        /\ pc' = pc /\ x' = x /\ y' = y /\ rootx' = rootx /\ rooty' = rooty
    BY <1>6 DEF Walk
  <2>2. x \in Land(grid) /\ y \in Land(grid)
    BY <2>1 DEF IInv, CallInv
  <2>3. pc = "findx" => p' \in class[x]
    BY <2>1, <2>2, ParentInClass DEF IInv, CallInv
  <2>4. pc = "findy" => p' \in class[y]
    BY <2>1, <2>2, ParentInClass DEF IInv, CallInv
  <2>5. CallInv'
    BY <2>1, <2>3, <2>4, <1>4 DEF IInv, CallInv
  <2>6. QED
    BY <2>5, <1>2 DEF IInv
<1>7. CASE FoundX
  <2>1. /\ pc = "findx" /\ p = parent[p] /\ rootx' = p /\ p' = parent[y]
        /\ pc' = "findy" /\ x' = x /\ y' = y
    BY <1>7 DEF FoundX
  <2>2. x \in Land(grid) /\ y \in Land(grid) /\ p \in class[x]
    BY <2>1 DEF IInv, CallInv
  <2>3. parent[y] \in class[y]
    BY <2>2, <1>3, ParentInClass
  <2>4. CallInv'
    BY <2>1, <2>2, <2>3, <1>4 DEF CallInv, IsRoot
  <2>5. QED
    BY <2>4, <1>2 DEF IInv
<1>8. CASE FoundY
  <2>1. /\ pc = "findy" /\ p = parent[p] /\ rooty' = p
        /\ pc' = "link" /\ x' = x /\ y' = y /\ rootx' = rootx
    BY <1>8 DEF FoundY
  <2>2. /\ x \in Land(grid) /\ y \in Land(grid) /\ p \in class[y]
        /\ rootx \in class[x] /\ IsRoot(parent, rootx)
    BY <2>1 DEF IInv, CallInv
  <2>3. CallInv'
    BY <2>1, <2>2, <1>4 DEF CallInv, IsRoot
  <2>4. QED
    BY <2>3, <1>2 DEF IInv
<1>9. QED
  BY <1>5, <1>6, <1>7, <1>8

\* Every step keeps the invariant.
LEMMA NextInv == IInv /\ [Next]_vars => IInv'
<1>1. ASSUME IInv, UNCHANGED vars
      PROVE  IInv'
  BY <1>1 DEF vars, IInv, ObjectInv, CallInv, Cells, OneRootPerClass, CountIsClasses
<1>2. QED
  BY <1>1, LinkInv, CallInvKept DEF Next, Step

-----------------------------------------------------------------------------
(***************************************************************************)
(* The invariant of d1                                                     *)
(***************************************************************************)
\* The order of the arguments does not matter to their classes.
LEMMA MergedEitherWay ==
  ASSUME NEW c, NEW v, NEW w
  PROVE  Merged(c, v, w) = Merged(c, w, v)
<1>1. c[v] \cup c[w] = c[w] \cup c[v]
  OBVIOUS
<1>2. QED
  BY <1>1, Zenon DEF Merged

\* Pointing an element at the root of its class changes no class and no root.
LEMMA CompressRepresents ==
  ASSUME NEW L, NEW c, IsPartition(c, L), NEW f \in [L -> L], Represents(f, c),
         NEW v \in L, NEW h \in c[v], NEW r \in c[v], IsRoot(f, r)
  PROVE  /\ Represents([f EXCEPT ![h] = r], c)
         /\ \A a \in L : IsRoot(f, a) => IsRoot([f EXCEPT ![h] = r], a)
<1> DEFINE g == [f EXCEPT ![h] = r]
<1>1. DOMAIN c = L /\ h \in L /\ r \in L /\ c[h] = c[v] /\ c[r] = c[v]
  BY DEF IsPartition
<1>2. \A a \in L : g[a] = IF a = h THEN r ELSE f[a]
  OBVIOUS
<1>3. \A a \in L : f[a] \in c[a] /\ \E b \in c[a] : f[b] = b
  BY <1>1 DEF Represents, IsRoot
<1>4. \A a, b \in L : c[a] = c[b] /\ f[a] = a /\ f[b] = b => a = b
  BY <1>1 DEF Represents, IsRoot
<1>5. \A a \in L : c[a] \subseteq L
  BY DEF IsPartition
<1>6. f[r] = r
  BY DEF IsRoot
<1> HIDE DEF g
<1>7. ASSUME NEW a \in L
      PROVE  f[a] = a <=> g[a] = a
  <2>1. CASE a = h
    <3>1. f[a] = a => a = r
      BY <2>1, <1>1, <1>4, <1>6
    <3>2. QED
      BY <2>1, <3>1, <1>1, <1>2, <1>6
  <2>2. CASE a # h
    BY <2>2, <1>2
  <2>3. QED
    BY <2>1, <2>2
<1>8. \A a \in L : g[a] \in c[a]
  BY <1>1, <1>2, <1>3
<1>9. ASSUME NEW a \in L
      PROVE  \E b \in c[a] : g[b] = b
  <2>1. PICK b \in c[a] : f[b] = b
    BY <1>3
  <2>2. QED
    BY <2>1, <1>5, <1>7
<1>10. \A a, b \in L : c[a] = c[b] /\ g[a] = a /\ g[b] = b => a = b
  BY <1>4, <1>7
<1>11. QED
  BY <1>1, <1>7, <1>8, <1>9, <1>10 DEF Represents, IsRoot, g

Roots == 0 .. N - 1

\* The argument whose root the running find is for.
Wanted == IF purpose = "right" THEN index2 ELSE index1

\* The array represents what was united; the find that runs, with all the calls
\* that wait for it, stays in the class of its argument, and roots that were
\* found stay roots although paths are compressed meanwhile.
RootsInv ==
  /\ roots \in [Roots -> Roots]
  /\ IsPartition(rclass, Roots)
  /\ Represents(roots, rclass)
  /\ rpc \in {"idle", "down", "up"} /\ purpose \in {"find", "right", "left"}
  /\ rpc = "idle" => stack = <<>>
  /\ rpc # "idle" =>
       /\ index1 \in Roots
       /\ purpose # "find" => index2 \in Roots
       /\ stack \in Seq(rclass[Wanted])
       /\ purpose = "left" => right \in rclass[index2] /\ IsRoot(roots, right)
  /\ rpc = "down" => index \in rclass[Wanted]
  /\ rpc = "up" => found \in rclass[Wanted] /\ IsRoot(roots, found)

\* Each root alone, before any call.
LEMMA RootsInit == R!Init => RootsInv
<1> SUFFICES ASSUME R!Init
             PROVE  RootsInv
  OBVIOUS
<1>1. roots = [i \in Roots |-> i] /\ rclass = Singletons(Roots)
  BY DEF R!Init, R!Index, R!Singletons, Singletons, Roots
<1>2. IsFiniteSet(Roots)
  BY RootsAssumption, FS_Interval DEF Roots
<1>3. IsPartition(rclass, Roots)
  BY <1>1, <1>2, SingletonsPartition
<1>4. DOMAIN rclass = Roots /\ \A i \in Roots : rclass[i] = {i} /\ roots[i] = i
  BY <1>1 DEF Singletons
<1>5. Represents(roots, rclass)
  BY <1>4 DEF Represents, IsRoot
<1>6. QED
  BY <1>1, <1>3, <1>5 DEF R!Init, RootsInv

\* A find begins at its argument.
LEMMA CallRoots == RootsInv /\ (R!FindCalled \/ R!UniteCalled) => RootsInv'
<1> SUFFICES ASSUME RootsInv, R!FindCalled \/ R!UniteCalled
             PROVE  RootsInv'
  OBVIOUS
<1>1. /\ rpc = "idle" /\ rpc' = "down" /\ roots' = roots /\ rclass' = rclass /\ stack' = stack
      /\ index1' \in Roots /\ index' = Wanted' /\ purpose' \in {"find", "right"}
      /\ purpose' # "find" => index2' \in Roots
  BY DEF R!FindCalled, R!UniteCalled, R!Index, Roots, Wanted
<1>2. stack = <<>>
  BY <1>1 DEF RootsInv
<1>3. Wanted' \in Roots
  BY <1>1 DEF Wanted
<1>4. Wanted' \in rclass[Wanted']
  BY <1>3 DEF RootsInv, IsPartition
<1>5. Roots' = Roots
  BY DEF Roots
<1>6. QED
  BY <1>1, <1>2, <1>4, <1>5 DEF RootsInv

\* A parent is in the class of its child.
LEMMA NextInClass ==
  ASSUME RootsInv, NEW v \in Roots, NEW q \in rclass[v]
  PROVE  q \in Roots /\ roots[q] \in rclass[v]
<1>1. q \in Roots /\ rclass[q] = rclass[v] /\ DOMAIN rclass = Roots
  BY DEF RootsInv, IsPartition
<1>2. roots[q] \in rclass[q]
  BY <1>1 DEF RootsInv, Represents
<1>3. QED
  BY <1>1, <1>2

\* The argument of the find that runs is an index of the array.
LEMMA WantedRoot ==
  ASSUME RootsInv, rpc # "idle"
  PROVE  Wanted \in Roots
BY DEF RootsInv, Wanted

\* The walk to the root leaves the object alone.
LEMMA DownRoots == RootsInv /\ (R!Recurse \/ R!RootFound) => RootsInv'
<1> SUFFICES ASSUME RootsInv, R!Recurse \/ R!RootFound
             PROVE  RootsInv'
  OBVIOUS
<1>1. /\ rpc = "down" /\ roots' = roots /\ rclass' = rclass /\ purpose' = purpose
      /\ index1' = index1 /\ index2' = index2 /\ right' = right
  BY DEF R!Recurse, R!RootFound, R!arguments
<1>2. Roots' = Roots /\ Wanted' = Wanted
  BY <1>1 DEF Roots, Wanted
<1>3. Wanted \in Roots /\ index \in rclass[Wanted] /\ stack \in Seq(rclass[Wanted])
  BY <1>1, WantedRoot DEF RootsInv
<1>4. CASE R!Recurse
  <2>1. stack' = <<index>> \o stack /\ index' = roots[index] /\ rpc' = rpc
    BY <1>4 DEF R!Recurse
  <2>2. <<index>> \in Seq(rclass[Wanted])
    <3>1. ASSUME NEW S, NEW e \in S
          PROVE  <<e>> \in Seq(S)
      OBVIOUS
    <3>2. QED
      BY <1>3, <3>1, Zenon
  <2>3. stack' \in Seq(rclass[Wanted])
    BY <2>1, <2>2, <1>3, ConcatProperties
  <2>4. index' \in rclass[Wanted]
    BY <2>1, <1>3, NextInClass
  <2>5. QED
    BY <2>1, <2>3, <2>4, <1>1, <1>2 DEF RootsInv
<1>5. CASE R!RootFound
  <2>1. found' = index /\ rpc' = "up" /\ stack' = stack /\ index = roots[index]
    BY <1>5 DEF R!RootFound
  <2>2. QED
    BY <2>1, <1>1, <1>2, <1>3 DEF RootsInv, IsRoot
<1>6. QED
  BY <1>4, <1>5

\* A call that waited points at the root; no root is lost, not even the one the
\* other find has returned.
LEMMA CompressRoots == RootsInv /\ R!Compress => RootsInv'
<1> SUFFICES ASSUME RootsInv, R!Compress
             PROVE  RootsInv'
  OBVIOUS
<1>1. /\ rpc = "up" /\ stack # <<>> /\ stack' = Tail(stack)
      /\ roots' = [roots EXCEPT ![Head(stack)] = found]
      /\ rpc' = rpc /\ rclass' = rclass /\ purpose' = purpose /\ index1' = index1
      /\ index2' = index2 /\ index' = index /\ found' = found /\ right' = right
  BY DEF R!Compress, R!arguments
<1>2. Roots' = Roots /\ Wanted' = Wanted
  BY <1>1 DEF Roots, Wanted
<1>3. /\ Wanted \in Roots /\ stack \in Seq(rclass[Wanted])
      /\ found \in rclass[Wanted] /\ IsRoot(roots, found)
  BY <1>1, WantedRoot DEF RootsInv
<1>4. Head(stack) \in rclass[Wanted] /\ stack' \in Seq(rclass[Wanted])
  BY <1>1, <1>3, HeadTailProperties
<1>5. /\ roots \in [Roots -> Roots] /\ IsPartition(rclass, Roots) /\ Represents(roots, rclass)
  BY DEF RootsInv
<1>6. /\ Represents(roots', rclass)
      /\ \A a \in Roots : IsRoot(roots, a) => IsRoot(roots', a)
  BY <1>1, <1>3, <1>4, <1>5, CompressRepresents
<1>7. Head(stack) \in Roots /\ found \in Roots
  BY <1>3, <1>4, <1>5 DEF IsPartition
<1>8. roots' \in [Roots -> Roots]
  BY <1>1, <1>5, <1>7
<1>9. IsRoot(roots', found)
  BY <1>3, <1>6, <1>7
<1>10. ASSUME purpose = "left"
       PROVE  right \in rclass[index2] /\ IsRoot(roots', right)
  <2>1. right \in rclass[index2] /\ IsRoot(roots, right) /\ index2 \in Roots
    BY <1>1, <1>10 DEF RootsInv
  <2>2. right \in Roots
    BY <2>1, <1>5 DEF IsPartition
  <2>3. QED
    BY <2>1, <2>2, <1>6
<1>11. QED
  BY <1>1, <1>2, <1>3, <1>4, <1>5, <1>6, <1>8, <1>9, <1>10 DEF RootsInv

\* The root of the second argument is known, and the one of the first wanted.
LEMMA ReturnRoots == RootsInv /\ (R!FindReturns \/ R!RightFound) => RootsInv'
<1> SUFFICES ASSUME RootsInv, R!FindReturns \/ R!RightFound
             PROVE  RootsInv'
  OBVIOUS
<1>1. /\ rpc = "up" /\ stack = <<>> /\ stack' = stack /\ roots' = roots /\ rclass' = rclass
      /\ index1' = index1 /\ index2' = index2
  BY DEF R!FindReturns, R!RightFound, R!arguments
<1>2. Roots' = Roots
  BY DEF Roots
<1>3. CASE R!FindReturns
  BY <1>1, <1>2, <1>3 DEF R!FindReturns, RootsInv
<1>4. CASE R!RightFound
  <2>1. /\ purpose = "right" /\ right' = found /\ purpose' = "left" /\ index' = index1
        /\ rpc' = "down" /\ found' = found
    BY <1>4 DEF R!RightFound
  <2>2. /\ index1 \in Roots /\ index2 \in Roots
        /\ found \in rclass[index2] /\ IsRoot(roots, found)
    BY <2>1, <1>1 DEF RootsInv, Wanted
  <2>3. Wanted' = index1
    BY <2>1, <1>1 DEF Wanted
  <2>4. index1 \in rclass[index1]
    BY <2>2 DEF RootsInv, IsPartition
  <2>5. stack' \in Seq(rclass[Wanted'])
    BY <1>1
  <2>6. QED
    BY <2>1, <2>2, <2>3, <2>4, <2>5, <1>1, <1>2 DEF RootsInv
<1>5. QED
  BY <1>3, <1>4

\* The assignment in unite joins the two classes.
LEMMA UniteRoots == RootsInv /\ R!UniteReturns => RootsInv'
<1> SUFFICES ASSUME RootsInv, R!UniteReturns
             PROVE  RootsInv'
  OBVIOUS
<1>1. /\ rpc = "up" /\ stack = <<>> /\ stack' = stack /\ purpose = "left" /\ purpose' = purpose
      /\ roots' = [roots EXCEPT ![found] = right]
      /\ rclass' = Merged(rclass, index1, index2) /\ rpc' = "idle"
  BY DEF R!UniteReturns, R!Assigned, R!Merged, Merged
<1>2. Roots' = Roots /\ Roots \subseteq Int
  BY DEF Roots
<1>3. /\ index1 \in Roots /\ index2 \in Roots
      /\ found \in rclass[index1] /\ IsRoot(roots, found)
      /\ right \in rclass[index2] /\ IsRoot(roots, right)
  BY <1>1 DEF RootsInv, Wanted
<1>4. roots \in [Roots -> Roots] /\ IsPartition(rclass, Roots) /\ Represents(roots, rclass)
  BY DEF RootsInv
<1>5. found \in Roots /\ right \in Roots
  BY <1>3, <1>4 DEF IsPartition
<1>6. roots' \in [Roots -> Roots]
  BY <1>1, <1>4, <1>5
<1>7. rclass' = Merged(rclass, index2, index1)
  BY <1>1, MergedEitherWay
<1>8. roots \in [Roots -> Int]
  BY <1>2, <1>4
<1>9. Represents(roots', rclass')
  <2>1. Represents([roots EXCEPT ![found] = right], Merged(rclass, index2, index1))
    BY <1>3, <1>4, <1>8, LinkRepresents, Zenon
  <2>2. QED
    BY <2>1, <1>1, <1>7, Zenon
<1>10. IsPartition(rclass', Roots)
  BY <1>3, <1>4, <1>7, MergedPartition
<1>11. QED
  BY <1>1, <1>2, <1>6, <1>9, <1>10 DEF RootsInv

\* Every step keeps the invariant.
LEMMA RootsNext == RootsInv /\ [R!Next]_rvars => RootsInv'
<1>1. ASSUME RootsInv, UNCHANGED rvars
      PROVE  RootsInv'
  BY <1>1 DEF rvars, RootsInv, Roots, Wanted
<1>2. QED
  BY <1>1, CallRoots, DownRoots, CompressRoots, ReturnRoots, UniteRoots DEF R!Next, R!Step

-----------------------------------------------------------------------------
\* On every grid, whatever neighbours are united in whatever order, every
\* component has one root, which findRoot returns for all of it.
THEOREM OneRoot == Spec => []OneRootPerClass
<1>1. IInv => OneRootPerClass
  BY DEF IInv, ObjectInv
<1>2. QED
  BY <1>1, InitInv, NextInv, PTL DEF Spec

\* On every grid getCount() is the number of components, between any two calls.
THEOREM CountIsComponents == Spec => []CountIsClasses
<1>1. IInv => CountIsClasses
  BY DEF IInv, ObjectInv
<1>2. QED
  BY <1>1, InitInv, NextInv, PTL DEF Spec

\* For every number of roots and in every order of find and unite, also between
\* the two walks of one unite, each class of d1 has exactly one root.
THEOREM OneRootWhileCompressing == BothSpec => []RootsOnePerClass
<1>1. BothInit => RootsInv
  BY RootsInit DEF BothInit
<1>2. RootsInv /\ [BothNext]_<<which, vars, rvars>> => RootsInv'
  <2>1. [BothNext]_<<which, vars, rvars>> => [R!Next]_rvars
    BY DEF BothNext
  <2>2. QED
    BY <2>1, RootsNext
<1>3. RootsInv => RootsOnePerClass
  BY DEF RootsInv, RootsOnePerClass, R!RootsOnePerClass, R!Represents, R!IsRoot,
         Represents, IsRoot, Wanted
<1>4. QED
  BY <1>1, <1>2, <1>3, PTL DEF BothSpec
=============================================================================
