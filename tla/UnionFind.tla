----------------------------- MODULE UnionFind -----------------------------
(***************************************************************************)
(* d2::UnionFind (algorithm/UnionFind_test.cc): built for a grid, then     *)
(* given pairs of neighbouring '1's to unite, one action per step of the   *)
(* walks to the roots.  The test unites row by row and looks in four       *)
(* directions; here the order is open and pairs come again.                *)
(***************************************************************************)
EXTENDS Partition

CONSTANT Grids    \* records: rows m, columns n, and the places of the '1's

row2index(g, place) == place[1] * g.n + place[2]

\* The indices of the '1's.
Land(g) == {row2index(g, place) : place \in g.ones}

ASSUME GridAssumption ==
  \A g \in Grids : Land(g) \subseteq 0 .. g.m * g.n - 1 /\ IsFiniteSet(Land(g))

\* Up, left, right and down, as far as the grid has a '1' there.
Directions == {<<-1, 0>>, <<0, -1>>, <<0, 1>>, <<1, 0>>}
Neighbours(g) ==
  {<<row2index(g, ab[1]), row2index(g, ab[2])>> :
     ab \in {pair \in g.ones \X g.ones :
               \E d \in Directions : pair[2] = <<pair[1][1] + d[1], pair[1][2] + d[2]>>}}

VARIABLES
  grid, parent, rank, count,   \* the object
  pc, x, y,                    \* unionOne and its arguments
  p, rootx, rooty,             \* findRoot and its answers; -1 outside a call
  class                        \* ghost: what has been united

vars == <<grid, parent, rank, count, pc, x, y, p, rootx, rooty, class>>
object == <<grid, parent, rank, count>>

Init ==
  /\ grid \in Grids
  /\ parent = [i \in 0 .. grid.m * grid.n - 1 |-> IF i \in Land(grid) THEN i ELSE -1]
  /\ rank = [i \in 0 .. grid.m * grid.n - 1 |-> 0]
  /\ count = Cardinality(Land(grid))
  /\ pc = "idle"
  /\ x = -1 /\ y = -1 /\ p = -1 /\ rootx = -1 /\ rooty = -1
  /\ class = Singletons(Land(grid))

-----------------------------------------------------------------------------
UnionOne ==
  /\ pc = "idle"
  /\ \E pair \in Neighbours(grid) : x' = pair[1] /\ y' = pair[2]
  /\ p' = parent[x']
  /\ pc' = "findx"
  /\ UNCHANGED <<object, rootx, rooty, class>>

\* Seeded fault: the cursor stays where it is.
WalkInPlace ==
  /\ pc \in {"findx", "findy"}
  /\ p # parent[p]
  /\ UNCHANGED <<object, pc, x, y, p, rootx, rooty, class>>

\* The loop of findRoot.
Walk ==
  /\ pc \in {"findx", "findy"}
  /\ p # parent[p]
  /\ p' = parent[p]
  /\ UNCHANGED <<object, pc, x, y, rootx, rooty, class>>

FoundX ==
  /\ pc = "findx"
  /\ p = parent[p]
  /\ rootx' = p
  /\ p' = parent[y]
  /\ pc' = "findy"
  /\ UNCHANGED <<object, x, y, rooty, class>>

FoundY ==
  /\ pc = "findy"
  /\ p = parent[p]
  /\ rooty' = p
  /\ pc' = "link"
  /\ UNCHANGED <<object, x, y, p, rootx, class>>

\* Seeded fault: y itself is linked, not the root above it.
LinkedArgument == [parent EXCEPT ![y] = rootx]

\* The array after the link: equal ranks go to the first argument.
Linked ==
  IF rank[rootx] < rank[rooty] THEN [parent EXCEPT ![rootx] = rooty]
  ELSE [parent EXCEPT ![rooty] = rootx]

\* Seeded fault: two components are told by the arguments, not by their roots.
CountAfterOfArguments == IF x # y THEN count - 1 ELSE count

\* Only the branch of equal ranks counts.
CountAfter ==
  IF rootx # rooty /\ rank[rootx] = rank[rooty] THEN count - 1 ELSE count

Link ==
  /\ pc = "link"
  /\ parent' = IF rootx # rooty THEN Linked ELSE parent
  /\ count' = CountAfter
  /\ class' = Merged(class, x, y)
  /\ pc' = "idle"
  /\ x' = -1 /\ y' = -1 /\ p' = -1 /\ rootx' = -1 /\ rooty' = -1
  /\ UNCHANGED <<grid, rank>>

Step == Walk \/ FoundX \/ FoundY \/ Link

Next == UnionOne \/ Step

Spec == Init /\ [][Next]_vars /\ WF_vars(Step)

-----------------------------------------------------------------------------
(***************************************************************************)
(* Properties                                                              *)
(***************************************************************************)
\* However pairs are united, parents stay among what was united and every
\* component has exactly one root, which is what findRoot relies on.
OneRootPerClass == Represents(parent, class)

\* getCount() is the number of components, although only one of three branches
\* counts and the ranks that choose between them never change.
CountIsClasses == count = Cardinality(Classes(class))

\* unionOne returns: no walk goes round in a circle.
CallsReturn == pc # "idle" ~> pc = "idle"
=============================================================================
