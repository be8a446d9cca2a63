----------------------------- MODULE Partition -----------------------------
(***************************************************************************)
(* Equivalence classes, and arrays of parents that represent them: what a  *)
(* union-find structure is for.  A partition of a set is the function that *)
(* takes each element to its class.                                        *)
(***************************************************************************)
EXTENDS Integers, FiniteSets

Singletons(S) == [c \in S |-> {c}]

\* The classes of x and y become one.
Merged(class, x, y) ==
  [c \in DOMAIN class |->
     IF c \in class[x] \cup class[y] THEN class[x] \cup class[y] ELSE class[c]]

Classes(class) == {class[c] : c \in DOMAIN class}

IsRoot(parent, c) == parent[c] = c

\* Parents stay in the class, and each class has exactly one root.
Represents(parent, class) ==
  /\ \A c \in DOMAIN class : parent[c] \in class[c]
  /\ \A c \in DOMAIN class : \E r \in class[c] : IsRoot(parent, r)
  /\ \A c, d \in DOMAIN class :
       class[c] = class[d] /\ IsRoot(parent, c) /\ IsRoot(parent, d) => c = d
=============================================================================
