--------------------------- MODULE UnionFindRoots ---------------------------
(***************************************************************************)
(* d1::UnionFind (algorithm/UnionFind_test.cc), over an array of N roots   *)
(* (26 in the code): find, which compresses the path on its way back, and  *)
(* unite, one action per call and return of the recursion.  Of the         *)
(* assignment in unite the right side is evaluated first, as C++17 says.   *)
(***************************************************************************)
EXTENDS Partition, Sequences

CONSTANT N    \* a natural number

Index == 0 .. N - 1

VARIABLES
  roots,           \* the object
  pc,
  purpose,         \* whose result the running find is
  index1, index2,  \* the arguments of unite, or of find
  stack,           \* the indices whose calls of find wait
  index, found,    \* the argument of the innermost find, and its result
  right,           \* the value that unite will assign
  class            \* ghost: what has been united

vars == <<roots, pc, purpose, index1, index2, stack, index, found, right, class>>
arguments == <<index1, index2>>

Init ==
  /\ roots = [i \in Index |-> i]
  /\ pc = "idle"
  /\ purpose = "find"
  /\ index1 = 0 /\ index2 = 0
  /\ stack = <<>>
  /\ index = 0 /\ found = 0 /\ right = 0
  /\ class = Singletons(Index)

-----------------------------------------------------------------------------
FindCalled ==
  /\ pc = "idle"
  /\ index1' \in Index
  /\ index' = index1'
  /\ purpose' = "find"
  /\ pc' = "down"
  /\ UNCHANGED <<roots, index2, stack, found, right, class>>

UniteCalled ==
  /\ pc = "idle"
  /\ index1' \in Index /\ index2' \in Index
  /\ index' = index2'
  /\ purpose' = "right"
  /\ pc' = "down"
  /\ UNCHANGED <<roots, stack, found, right, class>>

Recurse ==
  /\ pc = "down"
  /\ index # roots[index]
  /\ stack' = <<index>> \o stack
  /\ index' = roots[index]
  /\ UNCHANGED <<roots, pc, purpose, arguments, found, right, class>>

RootFound ==
  /\ pc = "down"
  /\ index = roots[index]
  /\ found' = index
  /\ pc' = "up"
  /\ UNCHANGED <<roots, purpose, arguments, stack, index, right, class>>

\* The path is compressed on the way back.
Compress ==
  /\ pc = "up"
  /\ stack # <<>>
  /\ roots' = [roots EXCEPT ![Head(stack)] = found]
  /\ stack' = Tail(stack)
  /\ UNCHANGED <<pc, purpose, arguments, index, found, right, class>>

FindReturns ==
  /\ pc = "up" /\ stack = <<>>
  /\ purpose = "find"
  /\ pc' = "idle"
  /\ UNCHANGED <<roots, purpose, arguments, stack, index, found, right, class>>

RightFound ==
  /\ pc = "up" /\ stack = <<>>
  /\ purpose = "right"
  /\ right' = found
  /\ purpose' = "left"
  /\ index' = index1
  /\ pc' = "down"
  /\ UNCHANGED <<roots, arguments, stack, found, class>>

\* Seeded fault: the argument is assigned to, not its root.
AssignedArgument == [roots EXCEPT ![index1] = right]

Assigned == [roots EXCEPT ![found] = right]

UniteReturns ==
  /\ pc = "up" /\ stack = <<>>
  /\ purpose = "left"
  /\ roots' = Assigned
  /\ class' = Merged(class, index1, index2)
  /\ pc' = "idle"
  /\ UNCHANGED <<purpose, arguments, stack, index, found, right>>

Step == Recurse \/ RootFound \/ Compress \/ FindReturns \/ RightFound \/ UniteReturns

Next == FindCalled \/ UniteCalled \/ Step

Spec == Init /\ [][Next]_vars /\ WF_vars(Step)

-----------------------------------------------------------------------------
(***************************************************************************)
(* Properties                                                              *)
(***************************************************************************)
\* At every moment, also while one find compresses the path that the other one
\* has walked, each class has exactly one root, and what find has found is it.
RootsOnePerClass ==
  /\ Represents(roots, class)
  /\ pc = "up" => IsRoot(roots, found)
  /\ purpose = "left" /\ pc # "idle" => IsRoot(roots, right) /\ right \in class[index2]

\* find and unite return.
CallsReturn == pc # "idle" ~> pc = "idle"
=============================================================================
