---------------------------- MODULE MutexCounter ----------------------------
(***************************************************************************)
(* The test of cxx17/mutex_test.cc: the main thread creates threads that   *)
(* increment one counter, each round under a lock_guard, then joins them   *)
(* in the order of their creation and looks at the counter.  The increment *)
(* is a load and a store; the sleep that follows is under the lock too.    *)
(***************************************************************************)
EXTENDS Integers, FiniteSets

CONSTANTS
  iter,      \* threads
  Rounds     \* increments of each
ASSUME CountsAssumption == iter \in Nat /\ Rounds \in Nat

Thread == 1 .. iter

VARIABLES
  created, joined,   \* how many of the threads the main thread has created, and joined
  mutex_,            \* its holder, or 0
  count,
  pc, i,             \* of each thread: where it is, and the rounds behind it
  loaded             \* of each thread: the value it increments

vars == <<created, joined, mutex_, count, pc, i, loaded>>
main == <<created, joined>>

Init ==
  /\ created = 0 /\ joined = 0
  /\ mutex_ = 0
  /\ count = 0
  /\ pc = [t \in Thread |-> "none"]
  /\ i = [t \in Thread |-> 0]
  /\ loaded = [t \in Thread |-> 0]

-----------------------------------------------------------------------------
Create ==
  /\ created < iter
  /\ created' = created + 1
  /\ pc' = [pc EXCEPT ![created + 1] = "loop"]
  /\ UNCHANGED <<joined, mutex_, count, i, loaded>>

Join ==
  /\ created = iter
  /\ joined < iter
  /\ pc[joined + 1] = "ended"
  /\ joined' = joined + 1
  /\ UNCHANGED <<created, mutex_, count, pc, i, loaded>>

-----------------------------------------------------------------------------
\* Seeded fault: a guard of another mutex, one of the thread's own.
NotTaken == TRUE

Free == mutex_ = 0

Lock(t) ==
  /\ pc[t] = "loop" /\ i[t] < Rounds
  /\ Free
  /\ mutex_' = t
  /\ pc' = [pc EXCEPT ![t] = "load"]
  /\ UNCHANGED <<main, count, i, loaded>>

Load(t) ==
  /\ pc[t] = "load"
  /\ loaded' = [loaded EXCEPT ![t] = count]
  /\ pc' = [pc EXCEPT ![t] = "store"]
  /\ UNCHANGED <<main, mutex_, count, i>>

Store(t) ==
  /\ pc[t] = "store"
  /\ count' = loaded[t] + 1
  /\ pc' = [pc EXCEPT ![t] = "unlock"]
  /\ UNCHANGED <<main, mutex_, i, loaded>>

\* Seeded fault: the guard is never destroyed.
HolderAfterRound == mutex_

\* The guard's destructor, at the end of the round.
HolderAfter == 0

Unlock(t) ==
  /\ pc[t] = "unlock"
  /\ mutex_' = HolderAfter
  /\ i' = [i EXCEPT ![t] = i[t] + 1]
  /\ pc' = [pc EXCEPT ![t] = "loop"]
  /\ UNCHANGED <<main, count, loaded>>

End(t) ==
  /\ pc[t] = "loop" /\ i[t] = Rounds
  /\ pc' = [pc EXCEPT ![t] = "ended"]
  /\ UNCHANGED <<main, mutex_, count, i, loaded>>

Run(t) == Lock(t) \/ Load(t) \/ Store(t) \/ Unlock(t) \/ End(t)

Next == Create \/ Join \/ \E t \in Thread : Run(t)

\* A mutex promises no turns: a thread may wait while the others pass it.
Fairness == WF_vars(Create \/ Join) /\ \A t \in Thread : WF_vars(Run(t))

Spec == Init /\ [][Next]_vars /\ Fairness

-----------------------------------------------------------------------------
(***************************************************************************)
(* Properties                                                              *)
(***************************************************************************)
\* The rounds whose increment has been stored, of all threads.
Stored ==
  {tk \in Thread \X (1 .. Rounds) :
     tk[2] <= i[tk[1]] \/ (tk[2] = i[tk[1]] + 1 /\ pc[tk[1]] = "unlock")}

\* The counter has every stored increment, in whatever order threads ran; so
\* it has all of them when the last thread is joined, as the test expects.
NothingLost ==
  /\ count = Cardinality(Stored)
  /\ joined = iter => count = iter * Rounds

\* The test ends, although no thread is promised the lock.
Finishes == <>(joined = iter)
=============================================================================
