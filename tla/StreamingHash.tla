--------------------------- MODULE StreamingHash ---------------------------
(***************************************************************************)
(* What a hash that takes its message in pieces promises: whenever it is   *)
(* asked, it reports what the one-shot hash returns for the pieces joined. *)
(* Asking changes nothing: more pieces may follow.                         *)
(***************************************************************************)
EXTENDS Sequences, Integers

CONSTANTS
  Seeds,         \* the seeds a hash may be started with
  OneShot(_, _)  \* the hash of a seed and a whole message

VARIABLES seed, message, digest

vars == <<seed, message, digest>>

\* The digest while none has been asked for.
NoDigest == [reported |-> FALSE]

Init == seed \in Seeds /\ message = <<>> /\ digest = NoDigest

Start == seed' \in Seeds /\ message' = <<>> /\ digest' = NoDigest

Extend ==
  /\ Len(message) <= Len(message')
  /\ SubSeq(message', 1, Len(message)) = message
  /\ digest' = NoDigest
  /\ UNCHANGED seed

Report == digest' = OneShot(seed, message) /\ UNCHANGED <<seed, message>>

Next == Start \/ Extend \/ Report

Spec == Init /\ [][Next]_vars
=============================================================================
