---------------------------- MODULE MCUnionFind ----------------------------
(***************************************************************************)
(* Grids for the union-find run.  The object of d1 does not depend on the  *)
(* grid: one of them is enough for it.                                     *)
(***************************************************************************)
EXTENDS UnionFindClasses

\* Every way to put '1's on two rows of three, and a longer path.
TwoByThree == {[m |-> 2, n |-> 3, ones |-> s] : s \in SUBSET ({0, 1} \X {0, 1, 2})}
Line       == [m |-> 1, n |-> 6, ones |-> {0} \X (0 .. 5)]
MCGrids    == TwoByThree \cup {Line}

MCInit == BothInit /\ (which = "d1" => grid = Line)
MCSpec == MCInit /\ [][BothNext]_<<which, vars, rvars>> /\ BothFair
=============================================================================
