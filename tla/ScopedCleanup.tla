--------------------------- MODULE ScopedCleanup ---------------------------
(***************************************************************************)
(* common::ScopedCleanup (cxx17/ScopedCleanup.h) in nested scopes: objects *)
(* made by SCOPED_CLEANUP or MakeScopedCleanup, which C++17 constructs in  *)
(* place, cancelled by whoever sees them, the bodies of other cleanups     *)
(* included, and destroyed when their scope is left, in whatever way.      *)
(***************************************************************************)
EXTENDS Integers, SequencesExt

CONSTANTS MaxScopes, MaxObjects    \* bounds on the program that uses the class
ASSUME BoundsAssumption == MaxScopes \in Nat /\ MaxObjects \in Nat

VARIABLES
  scopes,      \* the objects of each open scope, the innermost scope last
  cancelled_,  \* of each object ever made, numbered in that order
  until,       \* how many scopes stay open, while others are being left
  phase,
  ran,         \* ghost: the objects whose function has been called
  below        \* ghost: of each object, the ones alive when it was made

cleanupVars == <<scopes, cancelled_, until, phase, ran, below>>

Alive    == UNION {ToSet(scopes[s]) : s \in DOMAIN scopes}
Objects  == DOMAIN cancelled_
innermost == Last(scopes)

CleanupInit ==
  /\ scopes = <<>>
  /\ cancelled_ = <<>>
  /\ until = 0
  /\ phase = "running"
  /\ ran = <<>> /\ below = <<>>

-----------------------------------------------------------------------------
Enter ==
  /\ phase = "running" /\ Len(scopes) < MaxScopes
  /\ scopes' = Append(scopes, <<>>)
  /\ UNCHANGED <<cancelled_, until, phase, ran, below>>

MakeScopedCleanup ==
  /\ phase = "running" /\ scopes # <<>> /\ Len(cancelled_) < MaxObjects
  /\ scopes' = [scopes EXCEPT ![Len(scopes)] = Append(@, Len(cancelled_) + 1)]
  /\ cancelled_' = Append(cancelled_, FALSE)
  /\ below' = Append(below, Alive)
  /\ UNCHANGED <<until, phase, ran>>

cancel ==
  /\ phase = "running"
  /\ \E g \in Alive : cancelled_' = [cancelled_ EXCEPT ![g] = TRUE]
  /\ UNCHANGED <<scopes, until, phase, ran, below>>

\* The end of the innermost scope; or a return, break or exception that leaves
\* several.
Leave ==
  /\ phase = "running" /\ scopes # <<>>
  /\ until' \in 0 .. Len(scopes) - 1
  /\ phase' = "leaving"
  /\ UNCHANGED <<scopes, cancelled_, ran, below>>

-----------------------------------------------------------------------------
\* Seeded fault: the destructor does not look.
RunsAlways(g) == TRUE

Runs(g) == ~cancelled_[g]

\* The last object of the scope goes.  Its function may cancel other objects.
Destroy ==
  /\ phase = "leaving" /\ innermost # <<>>
  /\ scopes' = [scopes EXCEPT ![Len(scopes)] = Front(innermost)]
  /\ IF Runs(Last(innermost))
     THEN /\ ran' = Append(ran, Last(innermost))
          /\ \E other \in SUBSET (Alive \ {Last(innermost)}) :
               cancelled_' = [g \in Objects |-> cancelled_[g] \/ g \in other]
     ELSE UNCHANGED <<ran, cancelled_>>
  /\ UNCHANGED <<until, phase, below>>

\* The destructor is noexcept, as destructors are.
CleanupThrows ==
  /\ phase = "leaving" /\ innermost # <<>>
  /\ Runs(Last(innermost))
  /\ ran' = Append(ran, Last(innermost))
  /\ scopes' = [scopes EXCEPT ![Len(scopes)] = Front(innermost)]
  /\ phase' = "terminated"
  /\ UNCHANGED <<cancelled_, until, below>>

ScopeLeft ==
  /\ phase = "leaving" /\ innermost = <<>>
  /\ scopes' = Front(scopes)
  /\ phase' = IF Len(scopes) - 1 = until THEN "running" ELSE "leaving"
  /\ UNCHANGED <<cancelled_, until, ran, below>>

CleanupNext ==
  \/ Enter \/ MakeScopedCleanup \/ cancel \/ Leave
  \/ Destroy \/ CleanupThrows \/ ScopeLeft

CleanupSpec == CleanupInit /\ [][CleanupNext]_cleanupVars

-----------------------------------------------------------------------------
(***************************************************************************)
(* Property                                                                *)
(***************************************************************************)
\* However scopes are left and whoever cancels what, the function of an object
\* has been called once if the object is gone and was not cancelled, and never
\* otherwise; and it was called before that of any object that was there first.
CleanedUpInReverse ==
  /\ \A g \in Objects : (g \in ToSet(ran)) = (g \notin Alive /\ ~cancelled_[g])
  /\ IsInjective(ran)
  /\ \A i, j \in DOMAIN ran : ran[i] \in below[ran[j]] => j < i
=============================================================================
