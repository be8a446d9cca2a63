-------------------------- MODULE UnionFindClasses --------------------------
(***************************************************************************)
(* Both classes of algorithm/UnionFind_test.cc side by side: d2 with the   *)
(* names of UnionFind, d1 as R.  A behaviour uses one of them, and the     *)
(* object of the other one stays as it was constructed.                    *)
(***************************************************************************)
EXTENDS UnionFind

CONSTANT N    \* the number of roots in d1

ASSUME RootsAssumption == N \in Nat

VARIABLES
  which,
  roots, rpc, purpose, index1, index2, stack, index, found, right, rclass

R == INSTANCE UnionFindRoots WITH pc <- rpc, class <- rclass

rvars == <<roots, rpc, purpose, index1, index2, stack, index, found, right, rclass>>

BothInit == which \in {"d1", "d2"} /\ Init /\ R!Init

BothNext ==
  /\ UNCHANGED which
  /\ \/ which = "d2" /\ Next /\ UNCHANGED rvars
     \/ which = "d1" /\ R!Next /\ UNCHANGED vars

\* A call, of whichever class, goes on as long as it has not returned.
BothFair ==
  /\ WF_vars(which = "d2" /\ Step /\ UNCHANGED <<which, rvars>>)
  /\ WF_rvars(which = "d1" /\ R!Step /\ UNCHANGED <<which, vars>>)

BothSpec == BothInit /\ [][BothNext]_<<which, vars, rvars>> /\ BothFair

-----------------------------------------------------------------------------
\* In d1, at every moment, each class has exactly one root, and what find has
\* found is it: also while one find compresses the path the other one walked.
RootsOnePerClass == R!RootsOnePerClass

\* No call of either class goes on forever.
BothReturn == CallsReturn /\ R!CallsReturn
=============================================================================
