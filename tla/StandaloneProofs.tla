-------------------------- MODULE StandaloneProofs --------------------------
(***************************************************************************)
(* The components that no other one uses: the mutex demonstration, the     *)
(* scoped cleanup, the resolution of dependencies, and the hashers.        *)
(***************************************************************************)
EXTENDS MutexCounter, ScopedCleanup, DependencyResolution, Hashers,
        FiniteSetTheorems, SequenceTheorems, WellFoundedInduction, TLAPS

-----------------------------------------------------------------------------
(***************************************************************************)
(* The mutex demonstration: no increment is lost                           *)
(***************************************************************************)
Inside == {"load", "store", "unlock"}

TypeOK ==
  /\ created \in 0 .. iter /\ joined \in 0 .. iter
  /\ count \in Int
  /\ pc \in [Thread -> {"none", "loop", "ended"} \cup Inside]
  /\ i \in [Thread -> 0 .. Rounds]
  /\ loaded \in [Thread -> Int]

\* Who is inside holds the mutex, and what it has loaded is still the counter.
Exclusion ==
  /\ \A t \in Thread : pc[t] \in Inside => mutex_ = t /\ i[t] < Rounds
  /\ \A t \in Thread : pc[t] = "store" => loaded[t] = count

\* The main thread joins what has ended, and that has done all its rounds; what
\* it has not created does nothing.
Progress ==
  /\ \A t \in Thread : t > created => pc[t] = "none"
  /\ \A t \in Thread : pc[t] = "ended" => i[t] = Rounds
  /\ \A t \in Thread : t <= joined => pc[t] = "ended"

Counted == count = Cardinality(Stored)

IInv == TypeOK /\ Exclusion /\ Progress /\ Counted

-----------------------------------------------------------------------------
\* Stored is a set of rounds, and finite.
LEMMA StoredFinite ==
  /\ IsFiniteSet(Thread \X (1 .. Rounds))
  /\ Cardinality(Thread \X (1 .. Rounds)) = iter * Rounds
  /\ IsFiniteSet(Stored)
<1>1. IsFiniteSet(Thread) /\ Cardinality(Thread) = iter
  BY CountsAssumption, FS_Interval DEF Thread
<1>2. IsFiniteSet(1 .. Rounds) /\ Cardinality(1 .. Rounds) = Rounds
  BY CountsAssumption, FS_Interval
<1>3. IsFiniteSet(Thread \X (1 .. Rounds)) /\ Cardinality(Thread \X (1 .. Rounds)) = iter * Rounds
  BY <1>1, <1>2, FS_Product
<1>4. Stored \in SUBSET (Thread \X (1 .. Rounds))
  BY DEF Stored
<1>5. QED
  BY <1>3, <1>4, FS_Subset

\* At first no thread runs and nothing is stored.
LEMMA InitInv == Init => IInv
<1> SUFFICES ASSUME Init
             PROVE  IInv
  OBVIOUS
<1>1. /\ created = 0 /\ joined = 0 /\ count = 0
      /\ pc = [t \in Thread |-> "none"] /\ i = [t \in Thread |-> 0]
      /\ loaded = [t \in Thread |-> 0]
  BY DEF Init
<1>2. iter \in Nat /\ Rounds \in Nat /\ \A t \in Thread : t >= 1
  BY CountsAssumption DEF Thread
<1>3. TypeOK
  BY <1>1, <1>2 DEF TypeOK
<1>4. Exclusion /\ Progress
  BY <1>1, <1>2 DEF Exclusion, Progress, Inside, Thread
<1>5. \A tk \in Thread \X (1 .. Rounds) : tk \notin Stored
  BY <1>1, <1>2 DEF Stored
<1>6. Stored = {}
  BY <1>5 DEF Stored
<1>7. Counted
  BY <1>1, <1>6, FS_EmptySet DEF Counted
<1>8. QED
  BY <1>3, <1>4, <1>7 DEF IInv

\* The main thread starts threads that have not run, and waits for the others.
LEMMA MainInv == IInv /\ (Create \/ Join) => IInv'
<1> SUFFICES ASSUME IInv, Create \/ Join
             PROVE  IInv'
  OBVIOUS
<1>1. iter \in Nat /\ Rounds \in Nat /\ Thread = 1 .. iter
  BY CountsAssumption DEF Thread
<1>2. /\ created \in 0 .. iter /\ joined \in 0 .. iter /\ count \in Int
      /\ pc \in [Thread -> {"none", "loop", "ended"} \cup Inside]
      /\ i \in [Thread -> 0 .. Rounds] /\ loaded \in [Thread -> Int]
  BY DEF IInv, TypeOK
<1>3. CASE Create
  <2>1. /\ created < iter /\ created' = created + 1
        /\ pc' = [pc EXCEPT ![created + 1] = "loop"]
        /\ joined' = joined /\ mutex_' = mutex_ /\ count' = count /\ i' = i /\ loaded' = loaded
    BY <1>3 DEF Create
  <2>2. created + 1 \in Thread /\ pc[created + 1] = "none"
    BY <1>1, <1>2, <2>1 DEF IInv, Progress
  <2>3. \A t \in Thread : pc'[t] = IF t = created + 1 THEN "loop" ELSE pc[t]
    BY <1>2, <2>1
  <2>4. TypeOK'
    BY <1>1, <1>2, <2>1 DEF TypeOK
  <2>5. Exclusion'
    BY <2>1, <2>3 DEF IInv, Exclusion, Inside
  <2>6. \A t \in Thread : t > created' => t > created /\ t # created + 1
    BY <1>1, <1>2, <2>1
  <2>7. Progress'
    BY <2>1, <2>2, <2>3, <2>6 DEF IInv, Progress
  <2>8. Stored' = Stored
    BY <2>1, <2>2, <2>3 DEF Stored
  <2>9. QED
    BY <2>1, <2>4, <2>5, <2>7, <2>8 DEF IInv, Counted
<1>4. CASE Join
  <2>1. /\ joined < iter /\ pc[joined + 1] = "ended" /\ joined' = joined + 1
        /\ created' = created /\ pc' = pc
        /\ mutex_' = mutex_ /\ count' = count /\ i' = i /\ loaded' = loaded
    BY <1>4 DEF Join
  <2>2. TypeOK'
    BY <1>1, <1>2, <2>1 DEF TypeOK
  <2>3. Exclusion'
    BY <2>1 DEF IInv, Exclusion
  <2>4. \A t \in Thread : t <= joined' => t <= joined \/ t = joined + 1
    BY <1>1, <1>2, <2>1
  <2>5. Progress'
    BY <2>1, <2>4 DEF IInv, Progress
  <2>6. Stored' = Stored
    BY <2>1 DEF Stored
  <2>7. QED
    BY <2>1, <2>2, <2>3, <2>5, <2>6 DEF IInv, Counted
<1>5. QED
  BY <1>3, <1>4

\* A thread's step: it takes the mutex when nobody is inside, and alone inside
\* it stores what it loaded plus one.
LEMMA RunInv == ASSUME IInv, NEW t \in Thread, Run(t) PROVE IInv'
<1>1. iter \in Nat /\ Rounds \in Nat /\ Thread = 1 .. iter
  BY CountsAssumption DEF Thread
<1>2. /\ created \in 0 .. iter /\ joined \in 0 .. iter /\ count \in Int
      /\ pc \in [Thread -> {"none", "loop", "ended"} \cup Inside]
      /\ i \in [Thread -> 0 .. Rounds] /\ loaded \in [Thread -> Int]
  BY DEF IInv, TypeOK
<1>3. /\ \A u \in Thread : pc[u] \in Inside => mutex_ = u /\ i[u] < Rounds
      /\ \A u \in Thread : pc[u] = "store" => loaded[u] = count
      /\ \A u \in Thread : u > created => pc[u] = "none"
      /\ \A u \in Thread : pc[u] = "ended" => i[u] = Rounds
      /\ \A u \in Thread : u <= joined => pc[u] = "ended"
      /\ count = Cardinality(Stored)
  BY DEF IInv, Exclusion, Progress, Counted
<1>4. CASE Lock(t)
  <2>1. /\ pc[t] = "loop" /\ i[t] < Rounds /\ mutex_ = 0 /\ mutex_' = t
        /\ pc' = [pc EXCEPT ![t] = "load"]
        /\ created' = created /\ joined' = joined /\ count' = count /\ i' = i /\ loaded' = loaded
    BY <1>4 DEF Lock, Free, main
  <2>2. \A u \in Thread : pc'[u] = IF u = t THEN "load" ELSE pc[u]
    BY <1>2, <2>1
  <2>3. \A u \in Thread : pc[u] \notin Inside
    BY <1>1, <1>3, <2>1
  <2>4. TypeOK'
    BY <1>2, <2>1 DEF TypeOK, Inside
  <2>5. Exclusion'
    BY <2>1, <2>2, <2>3 DEF Exclusion, Inside
  <2>6. Progress'
    BY <1>3, <2>1, <2>2 DEF Progress
  <2>7. Stored' = Stored
    BY <2>1, <2>2 DEF Stored
  <2>8. QED
    BY <1>3, <2>1, <2>4, <2>5, <2>6, <2>7 DEF IInv, Counted
<1>5. CASE Load(t)
  <2>1. /\ pc[t] = "load" /\ loaded' = [loaded EXCEPT ![t] = count]
        /\ pc' = [pc EXCEPT ![t] = "store"] /\ mutex_' = mutex_
        /\ created' = created /\ joined' = joined /\ count' = count /\ i' = i
    BY <1>5 DEF Load, main
  <2>2. /\ \A u \in Thread : pc'[u] = IF u = t THEN "store" ELSE pc[u]
        /\ \A u \in Thread : loaded'[u] = IF u = t THEN count ELSE loaded[u]
    BY <1>2, <2>1
  <2>3. TypeOK'
    BY <1>2, <2>1 DEF TypeOK, Inside
  <2>4. Exclusion'
    BY <1>3, <2>1, <2>2 DEF Exclusion, Inside
  <2>5. Progress'
    BY <1>3, <2>1, <2>2 DEF Progress
  <2>6. Stored' = Stored
    BY <2>1, <2>2 DEF Stored
  <2>7. QED
    BY <1>3, <2>1, <2>3, <2>4, <2>5, <2>6 DEF IInv, Counted
<1>6. CASE Store(t)
  <2>1. /\ pc[t] = "store" /\ count' = loaded[t] + 1
        /\ pc' = [pc EXCEPT ![t] = "unlock"] /\ mutex_' = mutex_
        /\ created' = created /\ joined' = joined /\ i' = i /\ loaded' = loaded
    BY <1>6 DEF Store, main
  <2>2. \A u \in Thread : pc'[u] = IF u = t THEN "unlock" ELSE pc[u]
    BY <1>2, <2>1
  <2>3. mutex_ = t /\ i[t] < Rounds /\ loaded[t] = count
    BY <1>3, <2>1 DEF Inside
  <2>4. count' = count + 1
    BY <2>1, <2>3
  <2>5. TypeOK'
    BY <1>2, <2>1, <2>4 DEF TypeOK, Inside
  <2>6. \A u \in Thread : pc[u] \in Inside => u = t
    BY <1>3, <2>3
  <2>7. Exclusion'
    BY <1>3, <2>1, <2>2, <2>6 DEF Exclusion, Inside
  <2>8. Progress'
    BY <1>3, <2>1, <2>2 DEF Progress
  <2>9. i[t] + 1 \in 1 .. Rounds /\ i[t] \in Int
    BY <1>1, <1>2, <2>3
  <2>10. Stored' = Stored \cup {<<t, i[t] + 1>>}
    BY <2>1, <2>2, <2>9 DEF Stored
  <2>11. <<t, i[t] + 1>> \notin Stored
    BY <2>1, <2>9 DEF Stored
  <2>12. Cardinality(Stored') = Cardinality(Stored) + 1
    BY <2>10, <2>11, StoredFinite, FS_AddElement
  <2>13. Counted'
    BY <1>3, <2>4, <2>12 DEF Counted
  <2>14. QED
    BY <2>5, <2>7, <2>8, <2>13 DEF IInv
<1>7. CASE Unlock(t)
  <2>1. /\ pc[t] = "unlock" /\ mutex_' = 0 /\ i' = [i EXCEPT ![t] = i[t] + 1]
        /\ pc' = [pc EXCEPT ![t] = "loop"]
        /\ created' = created /\ joined' = joined /\ count' = count /\ loaded' = loaded
    BY <1>7 DEF Unlock, HolderAfter, main
  <2>2. /\ \A u \in Thread : pc'[u] = IF u = t THEN "loop" ELSE pc[u]
        /\ \A u \in Thread : i'[u] = IF u = t THEN i[t] + 1 ELSE i[u]
    BY <1>2, <2>1
  <2>3. mutex_ = t /\ i[t] < Rounds /\ i[t] \in Int /\ i[t] >= 0
    BY <1>1, <1>2, <1>3, <2>1 DEF Inside
  <2>4. TypeOK'
    BY <1>1, <1>2, <2>1, <2>3 DEF TypeOK, Inside
  <2>5. \A u \in Thread : pc[u] \in Inside => u = t
    BY <1>3, <2>3
  <2>6. Exclusion'
    BY <2>2, <2>5 DEF Exclusion, Inside
  <2>7. Progress'
    BY <1>3, <2>1, <2>2 DEF Progress
  <2>8. ASSUME NEW tk \in Thread \X (1 .. Rounds)
        PROVE  (tk[2] <= i[tk[1]] \/ (tk[2] = i[tk[1]] + 1 /\ pc[tk[1]] = "unlock"))
               <=> (tk[2] <= i'[tk[1]] \/ (tk[2] = i'[tk[1]] + 1 /\ pc'[tk[1]] = "unlock"))
    <3>1. CASE tk[1] = t
      BY <3>1, <2>1, <2>2, <2>3
    <3>2. CASE tk[1] # t
      BY <3>2, <2>2
    <3>3. QED
      BY <3>1, <3>2
  <2>9. Stored' = Stored
    BY <2>8 DEF Stored
  <2>10. QED
    BY <1>3, <2>1, <2>4, <2>6, <2>7, <2>9 DEF IInv, Counted
<1>8. CASE End(t)
  <2>1. /\ pc[t] = "loop" /\ i[t] = Rounds /\ pc' = [pc EXCEPT ![t] = "ended"]
        /\ mutex_' = mutex_ /\ created' = created /\ joined' = joined
        /\ count' = count /\ i' = i /\ loaded' = loaded
    BY <1>8 DEF End, main
  <2>2. \A u \in Thread : pc'[u] = IF u = t THEN "ended" ELSE pc[u]
    BY <1>2, <2>1
  <2>3. TypeOK'
    BY <1>2, <2>1 DEF TypeOK
  <2>4. Exclusion'
    BY <1>3, <2>1, <2>2 DEF Exclusion, Inside
  <2>5. Progress'
    BY <1>3, <2>1, <2>2 DEF Progress
  <2>6. Stored' = Stored
    BY <2>1, <2>2 DEF Stored
  <2>7. QED
    BY <1>3, <2>1, <2>3, <2>4, <2>5, <2>6 DEF IInv, Counted
<1>9. QED
  BY <1>4, <1>5, <1>6, <1>7, <1>8 DEF Run

\* Every step keeps the invariant.
LEMMA NextInv == IInv /\ [Next]_vars => IInv'
<1>1. ASSUME IInv, UNCHANGED vars
      PROVE  IInv'
  <2>1. Stored' = Stored
    BY <1>1 DEF vars, Stored
  <2>2. QED
    BY <1>1, <2>1 DEF vars, IInv, TypeOK, Exclusion, Progress, Counted
<1>2. QED
  BY <1>1, MainInv, RunInv DEF Next

\* When all threads are joined, all rounds are stored.
LEMMA InvNothingLost == IInv => NothingLost
<1> SUFFICES ASSUME IInv
             PROVE  NothingLost
  OBVIOUS
<1>1. ASSUME joined = iter
      PROVE  count = iter * Rounds
  <2>1. \A t \in Thread : pc[t] = "ended" /\ i[t] = Rounds
    BY <1>1, CountsAssumption DEF IInv, Progress, Thread
  <2>2. \A tk \in Thread \X (1 .. Rounds) : tk[1] \in Thread /\ tk[2] <= Rounds
    BY CountsAssumption
  <2>3. Stored = Thread \X (1 .. Rounds)
    BY <2>1, <2>2 DEF Stored
  <2>4. QED
    BY <2>3, StoredFinite DEF IInv, Counted
<1>2. QED
  BY <1>1 DEF NothingLost, IInv, Counted

-----------------------------------------------------------------------------
\* For any number of threads and rounds, and however they run, the counter has
\* every stored increment, and all of them when the last thread is joined.
THEOREM NoIncrementLost == Spec => []NothingLost
<1>1. QED
  BY InitInv, NextInv, InvNothingLost, PTL DEF Spec

-----------------------------------------------------------------------------
(***************************************************************************)
(* The scoped cleanup: the reverse order, however scopes are left          *)
(***************************************************************************)
\* The scopes, from the outermost, and their objects, from the first, hold
\* ever later objects.
InOrderOfCreation ==
  \A s, t \in DOMAIN scopes : \A a \in DOMAIN scopes[s], b \in DOMAIN scopes[t] :
    s < t \/ (s = t /\ a < b) => scopes[s][a] < scopes[t][b]

CleanupTypeOK ==
  /\ scopes \in Seq(Seq(Nat))
  /\ cancelled_ \in Seq(BOOLEAN)
  /\ below \in Seq(SUBSET Nat) /\ Len(below) = Len(cancelled_)
  /\ ran \in Seq(Nat) /\ \A j \in DOMAIN ran : ran[j] \in Objects
  /\ until \in Nat /\ (phase = "leaving" => until < Len(scopes))

\* What was there first is older, and outlives what came later.
Outlives ==
  /\ Alive \subseteq Objects
  /\ \A g \in Objects : \A h \in below[g] : h < g
  /\ \A g \in Alive : below[g] \subseteq Alive

CleanupInv == CleanupTypeOK /\ InOrderOfCreation /\ Outlives /\ CleanedUpInReverse

-----------------------------------------------------------------------------
\* An object is alive if an open scope has it.
LEMMA AliveObjects ==
  \A g : g \in Alive <=> \E s \in DOMAIN scopes : \E a \in DOMAIN scopes[s] : scopes[s][a] = g
  BY DEF Alive, ToSet

\* The same after a step.
LEMMA AliveNext ==
  \A g : g \in Alive' <=> \E s \in DOMAIN scopes' : \E a \in DOMAIN scopes'[s] : scopes'[s][a] = g
  BY DEF Alive, ToSet

\* Positions are numbers; all but the last are before it.
LEMMA Positions ==
  /\ \A q \in Seq(Nat) : \A c \in DOMAIN q : c \in Nat
  /\ \A n \in Nat : \A c \in 1 .. n : c \in 1 .. n - 1 \/ c = n
  OBVIOUS

\* The innermost scope without its last object: what is left is the rest, and
\* older.
LEMMA LastGoes ==
  ASSUME scopes \in Seq(Seq(Nat)), InOrderOfCreation, scopes # <<>>, innermost # <<>>,
         scopes' = [scopes EXCEPT ![Len(scopes)] = Front(innermost)]
  PROVE  /\ scopes' \in Seq(Seq(Nat)) /\ InOrderOfCreation' /\ Len(scopes') = Len(scopes)
         /\ Last(innermost) \in Alive /\ Alive' = Alive \ {Last(innermost)}
         /\ \A h \in Alive : h <= Last(innermost)
  <1> DEFINE n == Len(scopes)
             top == scopes[n]
             m == Len(top)
             g == top[m]
             rest == Front(top)
  <1>1. n \in Nat /\ n > 0 /\ DOMAIN scopes = 1 .. n /\ n \in DOMAIN scopes
        /\ \A s \in DOMAIN scopes : scopes[s] \in Seq(Nat)
    OBVIOUS
  <1>2. innermost = top /\ Last(innermost) = g
    BY DEF innermost, Last
  <1>3. top \in Seq(Nat) /\ top # <<>>
    BY <1>1, <1>2
  <1>4. m \in Nat /\ m > 0 /\ DOMAIN top = 1 .. m
    BY <1>3
  <1>5. /\ rest \in Seq(Nat) /\ DOMAIN rest = 1 .. m - 1
        /\ \A a \in 1 .. m - 1 : rest[a] = top[a]
    <2>1. rest = SubSeq(top, 1, m - 1)
      BY DEF Front
    <2> QED BY <1>3, <1>4, <2>1
  <1>6. scopes' = [scopes EXCEPT ![n] = rest] /\ scopes[n] = top /\ scopes[n][m] = g
    BY <1>2
  <1> HIDE DEF rest, m, g, top, n
  <1>17. DOMAIN scopes' = DOMAIN scopes
    BY <1>6
  <1>18. \A s \in DOMAIN scopes' : scopes'[s] = IF s = n THEN rest ELSE scopes[s]
    BY <1>1, <1>6
  <1>19. scopes' \in Seq(Seq(Nat)) /\ Len(scopes') = n
    <2>1. scopes' \in [1 .. n -> Seq(Nat)]
      BY <1>1, <1>5, <1>6
    <2> QED BY <1>1, <2>1, IsASeq, LenProperties
  <1>7. \A s \in DOMAIN scopes' :
          /\ s \in DOMAIN scopes
          /\ \A a \in DOMAIN scopes'[s] : a \in DOMAIN scopes[s] /\ scopes'[s][a] = scopes[s][a]
    BY <1>4, <1>5, <1>6, <1>17, <1>18
  <1>8. InOrderOfCreation'
    BY <1>7 DEF InOrderOfCreation
  <1>9. ASSUME NEW s \in DOMAIN scopes, NEW a \in DOMAIN scopes[s]
        PROVE  \/ s = n /\ a = m
               \/ /\ s < n \/ a < m
                  /\ s \in DOMAIN scopes' /\ a \in DOMAIN scopes'[s] /\ scopes'[s][a] = scopes[s][a]
                  /\ scopes[s][a] < g
    <2>3. m \in DOMAIN scopes[n]
      BY <1>4, <1>6
    <2>4. s < n \/ (s = n /\ a < m) => scopes[s][a] < scopes[n][m]
      BY <1>1, <1>9, <2>3, Zenon DEF InOrderOfCreation
    <2>1. CASE s = n
      <3>1. a \in 1 .. m
        BY <1>4, <1>6, <1>9, <2>1
      <3>2. a < m => scopes[s][a] < g
        BY <1>6, <2>1, <2>4
      <3> QED BY <1>1, <1>4, <1>5, <1>6, <1>17, <1>18, <2>1, <3>1, <3>2
    <2>2. CASE s # n
      <3>1. s < n /\ scopes'[s] = scopes[s]
        BY <1>1, <1>9, <1>17, <1>18, <2>2
      <3>2. scopes[s][a] < g
        BY <1>6, <2>4, <3>1
      <3> QED BY <1>9, <1>17, <3>1, <3>2
    <2> QED BY <2>1, <2>2
  <1>10. g \in Alive
    BY <1>1, <1>4, <1>6, AliveObjects
  <1>11. g \in Nat /\ \A h \in Alive : h \in Nat
    BY <1>1, <1>10, AliveObjects, ElementOfSeq
  <1>12. \A h \in Alive : h = g \/ h < g
    BY <1>6, <1>9, AliveObjects
  <1>13. \A h \in Alive : h <= g
    BY <1>11, <1>12
  <1>14. \A h \in Alive' : h \in Alive /\ h < g
    <2>1. ASSUME NEW s \in DOMAIN scopes', NEW a \in DOMAIN scopes'[s]
          PROVE  scopes'[s][a] < g
      <3>1. ~(s = n /\ a = m)
        BY <1>4, <1>5, <1>18, <2>1
      <3> QED BY <1>7, <1>9, <2>1, <3>1
    <2> QED BY <1>7, <2>1, AliveNext, AliveObjects
  <1>15. \A h \in Alive : h # g => h \in Alive'
    <2>2. ASSUME NEW h \in Alive, h # g
          PROVE  h \in Alive'
      <3>1. PICK s \in DOMAIN scopes : \E a \in DOMAIN scopes[s] : scopes[s][a] = h
        BY <2>2, AliveObjects
      <3>2. PICK a \in DOMAIN scopes[s] : scopes[s][a] = h
        BY <3>1
      <3>3. ~(s = n /\ a = m)
        BY <1>6, <2>2, <3>2
      <3>4. s \in DOMAIN scopes' /\ a \in DOMAIN scopes'[s] /\ scopes'[s][a] = h
        BY <1>9, <3>2, <3>3
      <3> QED BY <3>4, AliveNext
    <2> QED BY <2>2
  <1>16. Alive' = Alive \ {g}
    BY <1>11, <1>14, <1>15
  <1> QED BY <1>2, <1>8, <1>10, <1>13, <1>16, <1>19 DEF n

\* A new object in the innermost scope is the youngest.
LEMMA OneMore ==
  ASSUME NEW k \in Nat, scopes \in Seq(Seq(Nat)), InOrderOfCreation, scopes # <<>>,
         \A h \in Alive : h < k,
         scopes' = [scopes EXCEPT ![Len(scopes)] = Append(@, k)]
  PROVE  scopes' \in Seq(Seq(Nat)) /\ InOrderOfCreation' /\ Len(scopes') = Len(scopes)
         /\ Alive' = Alive \cup {k}
  <1> DEFINE n == Len(scopes)
             top == scopes[n]
             m == Len(top)
             more == Append(top, k)
  <1>1. n \in Nat /\ n > 0 /\ DOMAIN scopes = 1 .. n /\ n \in DOMAIN scopes
        /\ \A s \in DOMAIN scopes : scopes[s] \in Seq(Nat)
    OBVIOUS
  <1>2. top \in Seq(Nat) /\ m \in Nat /\ DOMAIN top = 1 .. m
    BY <1>1
  <1>3. /\ more \in Seq(Nat) /\ DOMAIN more = 1 .. m + 1 /\ more[m + 1] = k
        /\ \A a \in 1 .. m : more[a] = top[a]
    BY <1>2
  <1>4. scopes' = [scopes EXCEPT ![n] = more] /\ scopes[n] = top
    OBVIOUS
  <1> HIDE DEF more, m, top, n
  <1>5. DOMAIN scopes' = DOMAIN scopes
    BY <1>4
  <1>6. \A s \in DOMAIN scopes' : scopes'[s] = IF s = n THEN more ELSE scopes[s]
    BY <1>1, <1>4
  <1>7. scopes' \in Seq(Seq(Nat)) /\ Len(scopes') = n
    <2>1. scopes' \in [1 .. n -> Seq(Nat)]
      BY <1>1, <1>3, <1>4
    <2> QED BY <1>1, <2>1, IsASeq, LenProperties
  <1>8. \A s \in DOMAIN scopes : \A a \in DOMAIN scopes[s] :
          a \in DOMAIN scopes'[s] /\ scopes'[s][a] = scopes[s][a]
    BY <1>2, <1>3, <1>4, <1>5, <1>6
  <1>9. n \in DOMAIN scopes' /\ m + 1 \in DOMAIN scopes'[n] /\ scopes'[n][m + 1] = k
    <2>1. n \in DOMAIN scopes' /\ scopes'[n] = more
      BY <1>1, <1>5, <1>6
    <2>2. m + 1 \in 1 .. m + 1
      BY <1>2
    <2> QED BY <1>3, <2>1, <2>2
  <1>10. ASSUME NEW s \in DOMAIN scopes', NEW a \in DOMAIN scopes'[s]
         PROVE  \/ s = n /\ a = m + 1 /\ scopes'[s][a] = k
                \/ /\ s < n \/ (s = n /\ a < m + 1)
                   /\ s \in DOMAIN scopes /\ a \in DOMAIN scopes[s]
                   /\ scopes'[s][a] = scopes[s][a] /\ scopes[s][a] < k
    <2>1. CASE s = n
      <3>1. scopes'[s] = more /\ a \in 1 .. m + 1
        BY <1>3, <1>6, <1>10, <2>1
      <3>2. CASE a = m + 1
        BY <1>9, <2>1, <3>2
      <3>3. CASE a # m + 1
        <4>1. a \in 1 .. m /\ a < m + 1
          BY <1>2, <3>1, <3>3, SMTT(20)
        <4>2. s \in DOMAIN scopes /\ a \in DOMAIN scopes[s] /\ scopes'[s][a] = scopes[s][a]
          BY <1>1, <1>2, <1>3, <1>4, <2>1, <3>1, <4>1
        <4> QED BY <2>1, <4>1, <4>2, AliveObjects
      <3> QED BY <3>2, <3>3
    <2>2. CASE s # n
      <3>1. s \in DOMAIN scopes /\ s < n /\ scopes'[s] = scopes[s]
        BY <1>1, <1>5, <1>6, <1>10, <2>2
      <3> QED BY <1>10, <3>1, AliveObjects
    <2> QED BY <2>1, <2>2
  <1>11. InOrderOfCreation'
    <2>1. ASSUME NEW s \in DOMAIN scopes', NEW t \in DOMAIN scopes',
                 NEW a \in DOMAIN scopes'[s], NEW b \in DOMAIN scopes'[t],
                 s < t \/ (s = t /\ a < b)
          PROVE  scopes'[s][a] < scopes'[t][b]
      <3>1. s \in 1 .. n /\ t \in 1 .. n /\ scopes'[s] \in Seq(Nat) /\ scopes'[t] \in Seq(Nat)
        BY <1>1, <1>5, <1>7, <2>1
      <3>7. a \in Nat /\ b \in Nat
        BY <2>1, <3>1, Positions, Zenon
      <3>3. ~(s = n /\ a = m + 1)
        <4>1. CASE t = n
          <5>1. b \in 1 .. m + 1
            BY <1>3, <1>6, <2>1, <4>1
          <5> QED BY <1>2, <2>1, <3>1, <3>7, <4>1, <5>1
        <4>2. CASE t # n
          BY <1>1, <2>1, <3>1, <4>2
        <4> QED BY <4>1, <4>2
      <3>4. s \in DOMAIN scopes /\ a \in DOMAIN scopes[s] /\ scopes'[s][a] = scopes[s][a]
            /\ scopes[s][a] < k
        BY <1>10, <3>3
      <3>5. CASE t = n /\ b = m + 1
        BY <1>9, <3>4, <3>5
      <3>6. CASE ~(t = n /\ b = m + 1)
        <4>1. t \in DOMAIN scopes /\ b \in DOMAIN scopes[t] /\ scopes'[t][b] = scopes[t][b]
          BY <1>10, <3>6
        <4> QED BY <2>1, <3>4, <4>1 DEF InOrderOfCreation
      <3> QED BY <3>5, <3>6
    <2> QED BY <2>1 DEF InOrderOfCreation
  <1>12. \A h : h \in Alive' <=> \E s \in DOMAIN scopes' : \E a \in DOMAIN scopes'[s] : scopes'[s][a] = h
    BY AliveNext, Zenon
  <1>13. k \in Alive'
    BY <1>9, <1>12
  <1>14. \A h \in Alive : h \in Alive'
    BY <1>5, <1>8, <1>12, AliveObjects
  <1>15. \A h \in Alive' : h = k \/ h \in Alive
    <2>1. ASSUME NEW h \in Alive'
          PROVE  h = k \/ h \in Alive
      <3>1. PICK s \in DOMAIN scopes' : \E a \in DOMAIN scopes'[s] : scopes'[s][a] = h
        BY <1>12, <2>1
      <3>2. PICK a \in DOMAIN scopes'[s] : scopes'[s][a] = h
        BY <3>1
      <3> QED BY <1>10, <3>2, AliveObjects
    <2> QED BY <2>1
  <1>16. Alive' = Alive \cup {k}
    BY <1>13, <1>14, <1>15
  <1> QED BY <1>7, <1>11, <1>16 DEF n

\* An empty scope comes or goes.
LEMMA EmptyScope ==
  ASSUME scopes \in Seq(Seq(Nat)), InOrderOfCreation,
         \/ scopes' = Append(scopes, <<>>)
         \/ scopes # <<>> /\ innermost = <<>> /\ scopes' = Front(scopes)
  PROVE  scopes' \in Seq(Seq(Nat)) /\ InOrderOfCreation' /\ Alive' = Alive
  <1>1. Len(scopes) \in Nat /\ DOMAIN scopes = 1 .. Len(scopes)
    OBVIOUS
  <1>2. DOMAIN <<>> = {} /\ <<>> \in Seq(Nat)
    OBVIOUS
  <1>3. CASE scopes' = Append(scopes, <<>>)
    <2>1. scopes' \in Seq(Seq(Nat)) /\ DOMAIN scopes' = 1 .. Len(scopes) + 1
          /\ scopes'[Len(scopes) + 1] = <<>>
          /\ \A s \in 1 .. Len(scopes) : scopes'[s] = scopes[s]
      BY <1>2, <1>3
    <2>2. \A s \in DOMAIN scopes' : s \in DOMAIN scopes \/ DOMAIN scopes'[s] = {}
      BY <1>1, <1>2, <2>1
    <2>3. \A s \in DOMAIN scopes : s \in DOMAIN scopes' /\ scopes'[s] = scopes[s]
      BY <1>1, <2>1
    <2>4. InOrderOfCreation'
      BY <2>2, <2>3 DEF InOrderOfCreation
    <2>5. Alive' = Alive
      BY <2>2, <2>3 DEF Alive, ToSet
    <2> QED BY <2>1, <2>4, <2>5
  <1>4. CASE scopes # <<>> /\ innermost = <<>> /\ scopes' = Front(scopes)
    <2>1. scopes[Len(scopes)] = <<>> /\ Len(scopes) > 0
      BY <1>4 DEF innermost, Last
    <2>2. scopes' = SubSeq(scopes, 1, Len(scopes) - 1)
      BY <1>4 DEF Front
    <2>3. scopes' \in Seq(Seq(Nat)) /\ DOMAIN scopes' = 1 .. Len(scopes) - 1
          /\ \A s \in 1 .. Len(scopes) - 1 : scopes'[s] = scopes[s]
      <3> DEFINE n == Len(scopes) - 1
                 S == Seq(Nat)
      <3>1. n \in 0 .. Len(scopes) /\ scopes \in Seq(S) /\ \A s \in 1 .. n : s \in 1 .. Len(scopes)
        BY <1>1, <2>1
      <3> HIDE DEF n, S
      <3>2. SubSeq(scopes, 1, n) \in Seq(S) /\ DOMAIN SubSeq(scopes, 1, n) = 1 .. n
            /\ \A s \in 1 .. n : SubSeq(scopes, 1, n)[s] = scopes[s]
        BY <3>1
      <3> QED BY <2>2, <3>2 DEF n, S
    <2>8. \A s \in 1 .. Len(scopes) : s \in 1 .. Len(scopes) - 1 \/ s = Len(scopes)
      BY <1>1, Positions, Zenon
    <2>4. \A s \in DOMAIN scopes : s \in DOMAIN scopes' \/ DOMAIN scopes[s] = {}
      BY <1>1, <1>2, <2>1, <2>3, <2>8, Zenon
    <2>9. \A s \in 1 .. Len(scopes) - 1 : s \in 1 .. Len(scopes)
      BY <1>1
    <2>5. \A s \in DOMAIN scopes' : s \in DOMAIN scopes /\ scopes'[s] = scopes[s]
      BY <1>1, <2>3, <2>9, Zenon
    <2>6. InOrderOfCreation'
      BY <2>4, <2>5 DEF InOrderOfCreation
    <2>7. Alive' = Alive
      BY <2>4, <2>5 DEF Alive, ToSet
    <2> QED BY <2>3, <2>6, <2>7
  <1> QED BY <1>3, <1>4

-----------------------------------------------------------------------------
\* The objects that lived when the youngest was made have not been cleaned up,
\* so its function may be called before theirs.
LEMMA YoungestGoes ==
  ASSUME CleanupInv, NEW g \in Alive, Alive' = Alive \ {g}, \A h \in Alive : h <= g,
         below' = below, cancelled_' \in Seq(BOOLEAN), DOMAIN cancelled_' = Objects,
         \A h \in Objects : h \notin Alive \ {g} => cancelled_'[h] = cancelled_[h],
         IF cancelled_[g] THEN ran' = ran ELSE ran' = Append(ran, g)
  PROVE  /\ Outlives' /\ CleanedUpInReverse'
         /\ ran' \in Seq(Nat) /\ \A j \in DOMAIN ran' : ran'[j] \in Objects'
  <1>1. Objects' = Objects /\ Objects = 1 .. Len(cancelled_) /\ Len(cancelled_) \in Nat
    BY DEF Objects, CleanupInv, CleanupTypeOK
  <1>2. /\ g \in Objects /\ g \in Nat /\ Alive \subseteq Objects
        /\ \A h \in Objects : \A o \in below[h] : o < h
        /\ \A h \in Alive : below[h] \subseteq Alive
        /\ \A h \in Objects : h \in Nat
    BY <1>1 DEF CleanupInv, Outlives
  <1>3. /\ \A h \in Objects : (h \in ToSet(ran)) = (h \notin Alive /\ ~cancelled_[h])
        /\ \A a, b \in DOMAIN ran : ran[a] = ran[b] => a = b
        /\ \A a, b \in DOMAIN ran : ran[a] \in below[ran[b]] => b < a
    BY DEF CleanupInv, CleanedUpInReverse, IsInjective
  <1>4. /\ ran \in Seq(Nat) /\ \A j \in DOMAIN ran : ran[j] \in Objects
        /\ \A h : h \in ToSet(ran) <=> \E j \in DOMAIN ran : ran[j] = h
    BY DEF CleanupInv, CleanupTypeOK, ToSet
  <1>5. \A h \in Alive : g \notin below[h]
    <2>1. \A h \in Alive : g \in below[h] => g < h /\ h <= g /\ h \in Nat
      BY <1>2
    <2> QED BY <1>2, <2>1
  <1>6. Outlives'
    <2>1. Alive' \subseteq Objects'
      BY <1>1, <1>2
    <2>2. \A h \in Objects' : \A o \in below'[h] : o < h
      BY <1>1, <1>2
    <2>3. \A h \in Alive' : below'[h] \subseteq Alive'
      BY <1>2, <1>5
    <2> QED BY <2>1, <2>2, <2>3 DEF Outlives
  <1>7. CASE cancelled_[g]
    <2>1. ran' = ran
      BY <1>7
    <2>2. \A h \in Objects' : (h \in ToSet(ran)') = (h \notin Alive' /\ ~cancelled_'[h])
      <3>1. ASSUME NEW h \in Objects
            PROVE  (h \in ToSet(ran)) = (h \notin Alive' /\ ~cancelled_'[h])
        <4>1. CASE h = g
          BY <1>2, <1>3, <1>7, <4>1
        <4>2. CASE h # g
          BY <1>3, <4>2
        <4> QED BY <4>1, <4>2
      <3>2. ToSet(ran)' = ToSet(ran)
        BY <2>1 DEF ToSet
      <3> QED BY <1>1, <3>1, <3>2
    <2>3. CleanedUpInReverse'
      BY <1>3, <2>1, <2>2 DEF CleanedUpInReverse, IsInjective
    <2> QED BY <1>1, <1>4, <1>6, <2>1, <2>3
  <1>8. CASE ~cancelled_[g]
    <2> DEFINE n == Len(ran)
    <2>1. /\ n \in Nat /\ DOMAIN ran = 1 .. n /\ ran' = Append(ran, g)
      BY <1>4, <1>8
    <2>2. /\ ran' \in Seq(Nat) /\ DOMAIN ran' = 1 .. n + 1 /\ ran'[n + 1] = g
          /\ \A j \in 1 .. n : ran'[j] = ran[j]
      <3>1. /\ ran' \in Seq(Nat) /\ Len(ran') = n + 1 /\ ran'[n + 1] = g
            /\ \A j \in 1 .. n : ran'[j] = ran[j]
        <4>1. g \in Nat /\ ran \in Seq(Nat) /\ n = Len(ran)
          BY <1>2, <1>4
        <4> HIDE DEF n
        <4>2. /\ Append(ran, g) \in Seq(Nat) /\ Len(Append(ran, g)) = n + 1
              /\ Append(ran, g)[n + 1] = g
              /\ \A j \in 1 .. n : Append(ran, g)[j] = ran[j]
          BY <4>1, AppendProperties
        <4> QED BY <2>1, <4>2
      <3> HIDE DEF n
      <3>2. DOMAIN ran' = 1 .. n + 1
        BY <3>1, LenProperties
      <3> QED BY <3>1, <3>2
    <2> HIDE DEF n
    <2>3. \A j \in DOMAIN ran' : j = n + 1 \/ (j \in DOMAIN ran /\ ran'[j] = ran[j] /\ j < n + 1)
      BY <2>1, <2>2
    <2>4. \A j \in DOMAIN ran : j \in DOMAIN ran' /\ n + 1 \in DOMAIN ran'
      BY <2>1, <2>2
    <2>5. \A j \in DOMAIN ran' : ran'[j] \in Objects
      BY <1>2, <1>4, <2>2, <2>3
    <2>6. n + 1 \in DOMAIN ran'
      BY <2>1, <2>2
    <2>7. \A h : h \in ToSet(ran)' <=> h \in ToSet(ran) \/ h = g
      <3>1. \A h : h \in ToSet(ran)' <=> \E j \in DOMAIN ran' : ran'[j] = h
        BY DEF ToSet
      <3>2. \A h \in ToSet(ran) : h \in ToSet(ran)'
        BY <1>4, <2>1, <2>2, <2>4, <3>1
      <3>3. g \in ToSet(ran)'
        BY <2>2, <2>6, <3>1
      <3>4. \A h \in ToSet(ran)' : h \in ToSet(ran) \/ h = g
        BY <1>4, <2>2, <2>3, <3>1
      <3> QED BY <3>2, <3>3, <3>4
    <2>8. \A j \in DOMAIN ran : ran[j] \notin Alive
      BY <1>3, <1>4
    <2>9. \A h \in Objects' : (h \in ToSet(ran)') = (h \notin Alive' /\ ~cancelled_'[h])
      <3>1. ASSUME NEW h \in Objects
            PROVE  (h \in ToSet(ran)') = (h \notin Alive' /\ ~cancelled_'[h])
        <4>1. CASE h = g
          BY <1>2, <1>8, <2>7, <4>1
        <4>2. CASE h # g /\ h \in Alive
          BY <1>3, <2>7, <4>2
        <4>3. CASE h # g /\ h \notin Alive
          <5>1. cancelled_'[h] = cancelled_[h]
            BY <4>3
          <5> QED BY <1>3, <2>7, <4>3, <5>1
        <4> QED BY <4>1, <4>2, <4>3
      <3> QED BY <1>1, <3>1
    <2>10. \A a, b \in DOMAIN ran' : ran'[a] = ran'[b] => a = b
      BY <1>3, <2>2, <2>3, <2>8
    <2>11. \A a, b \in DOMAIN ran' : ran'[a] \in below[ran'[b]] => b < a
      <3>1. ASSUME NEW a \in DOMAIN ran', NEW b \in DOMAIN ran', ran'[a] \in below[ran'[b]]
            PROVE  b < a
        <4>1. CASE b = n + 1
          <5>1. ran'[a] \in Alive \ {g}
            BY <1>2, <1>5, <2>2, <3>1, <4>1
          <5>2. ran'[a] \notin Alive \ {g}
            BY <2>2, <2>3, <2>8
          <5> QED BY <5>1, <5>2
        <4>2. CASE b # n + 1
          <5>1. b < n + 1 /\ b \in DOMAIN ran /\ ran'[b] = ran[b]
            BY <2>3, <4>2
          <5>2. CASE a = n + 1
            BY <5>1, <5>2
          <5>3. CASE a # n + 1
            <6>1. a \in DOMAIN ran /\ ran'[a] = ran[a]
              BY <2>3, <5>3
            <6> QED BY <1>3, <3>1, <5>1, <6>1
          <5> QED BY <5>2, <5>3
        <4> QED BY <4>1, <4>2
      <3> QED BY <3>1
    <2>12. CleanedUpInReverse'
      BY <2>9, <2>10, <2>11 DEF CleanedUpInReverse, IsInjective
    <2> QED BY <1>1, <1>6, <2>2, <2>5, <2>12
  <1> QED BY <1>7, <1>8

\* With no object made there is nothing to clean up.
LEMMA CleanupStarts == CleanupInit => CleanupInv
  <1> SUFFICES ASSUME CleanupInit
               PROVE  CleanupInv
    OBVIOUS
  <1>1. scopes = <<>> /\ cancelled_ = <<>> /\ until = 0 /\ phase = "running" /\ ran = <<>> /\ below = <<>>
    BY DEF CleanupInit
  <1>2. DOMAIN scopes = {} /\ DOMAIN ran = {} /\ DOMAIN cancelled_ = {}
    BY <1>1
  <1>3. Alive = {} /\ Objects = {}
    BY <1>2, AliveObjects DEF Objects
  <1>4. CleanupTypeOK
    BY <1>1, <1>2 DEF CleanupTypeOK
  <1>5. InOrderOfCreation
    BY <1>2 DEF InOrderOfCreation
  <1>6. Outlives
    BY <1>3 DEF Outlives
  <1>7. CleanedUpInReverse
    BY <1>2, <1>3 DEF CleanedUpInReverse, IsInjective
  <1> QED BY <1>4, <1>5, <1>6, <1>7 DEF CleanupInv

\* An object that is made is the youngest, and all alive were there first.
LEMMA MakeInv == CleanupInv /\ MakeScopedCleanup => CleanupInv'
  <1> SUFFICES ASSUME CleanupInv, MakeScopedCleanup
               PROVE  CleanupInv'
    OBVIOUS
  <1> DEFINE k == Len(cancelled_) + 1
  <1>1. /\ scopes # <<>> /\ scopes' = [scopes EXCEPT ![Len(scopes)] = Append(@, k)]
        /\ cancelled_' = Append(cancelled_, FALSE) /\ below' = Append(below, Alive)
        /\ until' = until /\ phase' = phase /\ ran' = ran
    BY DEF MakeScopedCleanup
  <1>2. /\ scopes \in Seq(Seq(Nat)) /\ cancelled_ \in Seq(BOOLEAN)
        /\ below \in Seq(SUBSET Nat) /\ Len(below) = Len(cancelled_)
        /\ ran \in Seq(Nat) /\ \A j \in DOMAIN ran : ran[j] \in Objects
        /\ until \in Nat /\ (phase = "leaving" => until < Len(scopes))
        /\ InOrderOfCreation /\ Alive \subseteq Objects
    BY DEF CleanupInv, CleanupTypeOK, Outlives
  <1>3. k \in Nat /\ Len(cancelled_) \in Nat /\ Objects = 1 .. k - 1
    BY <1>2 DEF Objects
  <1>4. Alive \in SUBSET Nat
    BY <1>2, <1>3
  <1>5. /\ cancelled_' \in Seq(BOOLEAN) /\ Len(cancelled_') = k /\ cancelled_'[k] = FALSE
        /\ \A h \in 1 .. k - 1 : cancelled_'[h] = cancelled_[h]
    BY <1>1, <1>2, <1>3, AppendProperties
  <1>6. /\ below' \in Seq(SUBSET Nat) /\ Len(below') = k /\ below'[k] = Alive
        /\ \A h \in 1 .. k - 1 : below'[h] = below[h]
    <2>1. /\ Append(below, Alive) \in Seq(SUBSET Nat) /\ Len(Append(below, Alive)) = Len(below) + 1
          /\ Append(below, Alive)[Len(below) + 1] = Alive
          /\ \A h \in 1 .. Len(below) : Append(below, Alive)[h] = below[h]
      BY <1>2, <1>4, AppendProperties
    <2> QED BY <1>1, <1>2, <1>3, <2>1
  <1> HIDE DEF k
  <1>7. Objects' = 1 .. k
    BY <1>3, <1>5, LenProperties DEF Objects
  <1>8. \A h \in Objects' : h = k \/ h \in Objects
    BY <1>3, <1>7
  <1>9. k \in Objects' /\ Objects \subseteq Objects' /\ k \notin Objects
    <2>1. k - 1 \in Nat
      BY <1>2, <1>3 DEF k
    <2> QED BY <1>3, <1>7, <2>1
  <1>10. \A h \in Alive : h < k
    BY <1>2, <1>3
  <1>11. scopes' \in Seq(Seq(Nat)) /\ InOrderOfCreation' /\ Len(scopes') = Len(scopes)
         /\ Alive' = Alive \cup {k}
    BY <1>1, <1>2, <1>3, <1>10, OneMore
  <1>12. CleanupTypeOK'
    BY <1>1, <1>2, <1>5, <1>6, <1>9, <1>11 DEF CleanupTypeOK
  <1>13. Outlives'
    <2>1. /\ \A h \in Objects : \A o \in below[h] : o < h
          /\ \A h \in Alive : below[h] \subseteq Alive
      BY DEF CleanupInv, Outlives
    <2>2. Alive' \subseteq Objects'
      BY <1>2, <1>9, <1>11
    <2>3. \A h \in Objects' : \A o \in below'[h] : o < h
      BY <1>3, <1>6, <1>8, <1>10, <2>1
    <2>4. \A h \in Alive' : below'[h] \subseteq Alive'
      BY <1>2, <1>3, <1>6, <1>11, <2>1
    <2> QED BY <2>2, <2>3, <2>4 DEF Outlives
  <1>14. CleanedUpInReverse'
    <2>1. /\ \A h \in Objects : (h \in ToSet(ran)) = (h \notin Alive /\ ~cancelled_[h])
          /\ IsInjective(ran)
          /\ \A a, b \in DOMAIN ran : ran[a] \in below[ran[b]] => b < a
      BY DEF CleanupInv, CleanedUpInReverse
    <2>2. k \notin ToSet(ran)
      BY <1>2, <1>9 DEF ToSet
    <2>3. \A h \in Objects : cancelled_'[h] = cancelled_[h] /\ below'[h] = below[h] /\ h # k
      BY <1>3, <1>5, <1>6, <1>9
    <2>4. ASSUME NEW h \in Objects'
          PROVE  (h \in ToSet(ran)) = (h \notin Alive' /\ ~cancelled_'[h])
      <3>1. CASE h = k
        BY <1>11, <2>2, <3>1
      <3>2. CASE h \in Objects
        BY <1>11, <2>1, <2>3, <3>2
      <3> QED BY <1>8, <3>1, <3>2
    <2>5. \A a, b \in DOMAIN ran : ran[a] \in below'[ran[b]] => b < a
      BY <1>2, <2>1, <2>3
    <2> QED BY <1>1, <2>1, <2>4, <2>5 DEF CleanedUpInReverse
  <1> QED BY <1>11, <1>12, <1>13, <1>14 DEF CleanupInv

\* An object can be cancelled while it lives.
LEMMA CancelInv == CleanupInv /\ cancel => CleanupInv'
  <1> SUFFICES ASSUME CleanupInv, cancel
               PROVE  CleanupInv'
    OBVIOUS
  <1>1. PICK g \in Alive : cancelled_' = [cancelled_ EXCEPT ![g] = TRUE]
    BY DEF cancel
  <1>2. scopes' = scopes /\ until' = until /\ phase' = phase /\ ran' = ran /\ below' = below
    BY DEF cancel
  <1>3. Alive' = Alive
    BY <1>2 DEF Alive
  <1>4. cancelled_ \in Seq(BOOLEAN) /\ Len(cancelled_) \in Nat /\ Objects = 1 .. Len(cancelled_)
    BY DEF CleanupInv, CleanupTypeOK, Objects
  <1>5. cancelled_' \in Seq(BOOLEAN) /\ Len(cancelled_') = Len(cancelled_) /\ Objects' = Objects
    <2>4. cancelled_ \in [Objects -> BOOLEAN]
      BY <1>4 DEF Objects
    <2>1. cancelled_' \in [1 .. Len(cancelled_) -> BOOLEAN]
      BY <1>1, <1>4, <2>4
    <2>2. cancelled_' \in Seq(BOOLEAN)
      BY <1>4, <2>1, IsASeq
    <2>3. DOMAIN cancelled_' = DOMAIN cancelled_
      BY <1>1
    <2> QED BY <1>4, <2>2, <2>3, LenProperties DEF Objects
  <1>6. \A h \in Objects : h \notin Alive => cancelled_'[h] = cancelled_[h]
    BY <1>1, <1>4 DEF Objects
  <1>7. CleanupTypeOK' /\ InOrderOfCreation' /\ Outlives'
    BY <1>2, <1>3, <1>5 DEF CleanupInv, CleanupTypeOK, InOrderOfCreation, Outlives
  <1>8. CleanedUpInReverse'
    <2>1. /\ \A h \in Objects : (h \in ToSet(ran)) = (h \notin Alive /\ ~cancelled_[h])
          /\ IsInjective(ran)
          /\ \A a, b \in DOMAIN ran : ran[a] \in below[ran[b]] => b < a
      BY DEF CleanupInv, CleanedUpInReverse
    <2>2. ASSUME NEW h \in Objects
          PROVE  (h \in ToSet(ran)) = (h \notin Alive /\ ~cancelled_'[h])
      <3>1. CASE h \in Alive
        BY <2>1, <3>1
      <3>2. CASE h \notin Alive
        BY <1>6, <2>1, <3>2
      <3> QED BY <3>1, <3>2
    <2> QED BY <1>2, <1>3, <1>5, <2>1, <2>2 DEF CleanedUpInReverse
  <1> QED BY <1>7, <1>8 DEF CleanupInv

\* Entering a scope, beginning to leave some, and leaving an empty one make and
\* destroy no object.
LEMMA ScopesInv == CleanupInv /\ (Enter \/ Leave \/ ScopeLeft) => CleanupInv'
  <1> SUFFICES ASSUME CleanupInv, Enter \/ Leave \/ ScopeLeft
               PROVE  CleanupInv'
    OBVIOUS
  <1>1. cancelled_' = cancelled_ /\ ran' = ran /\ below' = below
    BY DEF Enter, Leave, ScopeLeft
  <1>2. /\ scopes \in Seq(Seq(Nat)) /\ InOrderOfCreation /\ Len(scopes) \in Nat
        /\ until \in Nat /\ (phase = "leaving" => until < Len(scopes))
    BY DEF CleanupInv, CleanupTypeOK
  <1>3. /\ scopes' \in Seq(Seq(Nat)) /\ InOrderOfCreation' /\ Alive' = Alive
        /\ until' \in Nat /\ (phase' = "leaving" => until' < Len(scopes'))
    <2>1. CASE Enter
      <3>1. scopes' = Append(scopes, <<>>) /\ phase' = "running" /\ until' = until
        BY <2>1 DEF Enter
      <3> QED BY <1>2, <3>1, EmptyScope
    <2>2. CASE Leave
      <3>1. scopes' = scopes /\ until' \in 0 .. Len(scopes) - 1
        BY <2>2 DEF Leave
      <3>2. Alive' = Alive /\ InOrderOfCreation'
        BY <1>2, <3>1 DEF Alive, InOrderOfCreation
      <3>3. until' \in Nat /\ until' < Len(scopes)
        BY <1>2, <3>1
      <3> QED BY <1>2, <3>1, <3>2, <3>3
    <2>3. CASE ScopeLeft
      <3>1. /\ phase = "leaving" /\ innermost = <<>> /\ scopes' = Front(scopes) /\ until' = until
            /\ phase' = IF Len(scopes) - 1 = until THEN "running" ELSE "leaving"
        BY <2>3 DEF ScopeLeft
      <3>2. scopes # <<>> /\ Len(scopes) > 0
        BY <1>2, <3>1
      <3>3. scopes' \in Seq(Seq(Nat)) /\ InOrderOfCreation' /\ Alive' = Alive
        BY <1>2, <3>1, <3>2, EmptyScope
      <3>4. Len(scopes') = Len(scopes) - 1
        <4> DEFINE n == Len(scopes) - 1
        <4>1. n \in Nat /\ n <= Len(scopes) /\ scopes' = SubSeq(scopes, 1, n)
          BY <1>2, <3>1, <3>2 DEF Front
        <4> HIDE DEF n
        <4>2. Len(SubSeq(scopes, 1, n)) = n
          BY <4>1
        <4> QED BY <4>1, <4>2 DEF n
      <3>5. phase' = "leaving" => until' < Len(scopes')
        BY <1>2, <3>1, <3>4
      <3> QED BY <1>2, <3>1, <3>3, <3>5
    <2> QED BY <2>1, <2>2, <2>3
  <1>4. CleanupTypeOK'
    BY <1>1, <1>3 DEF CleanupInv, CleanupTypeOK, Objects
  <1>5. Outlives' /\ CleanedUpInReverse'
    BY <1>1, <1>3 DEF CleanupInv, Outlives, CleanedUpInReverse, Objects
  <1> QED BY <1>3, <1>4, <1>5 DEF CleanupInv

\* A destructor takes the youngest object, and its function cancels others at
\* most.
LEMMA DestroyInv == CleanupInv /\ (Destroy \/ CleanupThrows) => CleanupInv'
  <1> SUFFICES ASSUME CleanupInv, Destroy \/ CleanupThrows
               PROVE  CleanupInv'
    OBVIOUS
  <1> DEFINE g == Last(innermost)
  <1>1. /\ phase = "leaving" /\ innermost # <<>> /\ below' = below /\ until' = until
        /\ scopes' = [scopes EXCEPT ![Len(scopes)] = Front(innermost)]
        /\ IF cancelled_[g] THEN ran' = ran ELSE ran' = Append(ran, g)
    BY DEF Destroy, CleanupThrows, Runs
  <1>2. /\ scopes \in Seq(Seq(Nat)) /\ InOrderOfCreation /\ Len(scopes) \in Nat
        /\ until \in Nat /\ until < Len(scopes)
        /\ cancelled_ \in Seq(BOOLEAN)
        /\ below \in Seq(SUBSET Nat) /\ Len(below) = Len(cancelled_)
    BY <1>1 DEF CleanupInv, CleanupTypeOK
  <1>3. scopes # <<>>
    BY <1>2
  <1>4. /\ scopes' \in Seq(Seq(Nat)) /\ InOrderOfCreation' /\ Len(scopes') = Len(scopes)
        /\ g \in Alive /\ Alive' = Alive \ {g} /\ \A h \in Alive : h <= g
    BY <1>1, <1>2, <1>3, LastGoes
  <1> HIDE DEF g
  <1>5. Len(cancelled_) \in Nat /\ Objects = 1 .. Len(cancelled_)
    BY <1>2 DEF Objects
  <1>6. /\ cancelled_' \in Seq(BOOLEAN) /\ DOMAIN cancelled_' = Objects
        /\ \A h \in Objects : h \notin Alive \ {g} => cancelled_'[h] = cancelled_[h]
    <2>1. CASE cancelled_' = cancelled_
      BY <1>2, <2>1 DEF Objects
    <2>2. CASE cancelled_' # cancelled_
      <3>1. PICK other \in SUBSET (Alive \ {g}) :
              cancelled_' = [h \in Objects |-> cancelled_[h] \/ h \in other]
        BY <2>2 DEF Destroy, CleanupThrows, g
      <3>2. cancelled_' \in [1 .. Len(cancelled_) -> BOOLEAN]
        BY <1>5, <3>1
      <3>3. cancelled_' \in Seq(BOOLEAN)
        BY <1>5, <3>2, IsASeq
      <3>4. \A h \in Objects : cancelled_[h] \in BOOLEAN
        BY <1>2, <1>5
      <3>5. ASSUME NEW h \in Objects, h \notin Alive \ {g}
            PROVE  cancelled_'[h] = cancelled_[h]
        <4>1. cancelled_'[h] = (cancelled_[h] \/ h \in other) /\ h \notin other
          BY <3>1, <3>5
        <4> QED BY <3>4, <4>1, Zenon
      <3> QED BY <3>1, <3>3, <3>5
    <2> QED BY <2>1, <2>2
  <1>7. Len(cancelled_') = Len(cancelled_)
    BY <1>5, <1>6, LenProperties
  <1>8. /\ Outlives' /\ CleanedUpInReverse'
        /\ ran' \in Seq(Nat) /\ \A j \in DOMAIN ran' : ran'[j] \in Objects'
    BY <1>1, <1>4, <1>6, YoungestGoes
  <1>9. CleanupTypeOK'
    BY <1>1, <1>2, <1>4, <1>6, <1>7, <1>8 DEF CleanupTypeOK
  <1> QED BY <1>4, <1>8, <1>9 DEF CleanupInv

-----------------------------------------------------------------------------
\* Whatever scopes are entered and left and whoever cancels what, the function
\* of an object is called once, in the reverse order, unless it was cancelled.
THEOREM CleanupReverses == CleanupSpec => []CleanedUpInReverse
  <1>1. CleanupInit => CleanupInv
    BY CleanupStarts
  <1>2. CleanupInv /\ [CleanupNext]_cleanupVars => CleanupInv'
    <2>1. ASSUME CleanupInv, UNCHANGED cleanupVars
          PROVE  CleanupInv'
      <3>1. /\ scopes' = scopes /\ cancelled_' = cancelled_ /\ until' = until
            /\ phase' = phase /\ ran' = ran /\ below' = below
        BY <2>1 DEF cleanupVars
      <3>2. Alive' = Alive /\ Objects' = Objects
        BY <3>1 DEF Alive, Objects
      <3>3. CleanupTypeOK' /\ InOrderOfCreation'
        BY <2>1, <3>1, <3>2 DEF CleanupInv, CleanupTypeOK, InOrderOfCreation
      <3>4. Outlives' /\ CleanedUpInReverse'
        BY <2>1, <3>1, <3>2 DEF CleanupInv, Outlives, CleanedUpInReverse
      <3> QED BY <3>3, <3>4 DEF CleanupInv
    <2> QED BY <2>1, MakeInv, CancelInv, ScopesInv, DestroyInv DEF CleanupNext
  <1>3. CleanupInv => CleanedUpInReverse
    BY DEF CleanupInv
  <1> QED BY <1>1, <1>2, <1>3, PTL DEF CleanupSpec

-----------------------------------------------------------------------------
(***************************************************************************)
(* Dependencies: glog follows gflags, and what succeeded is repeated       *)
(***************************************************************************)
\* What set_source asks for, of a dependency whose source is open.
Asked(e, c, d) == IF e[d] # Unset THEN e[d] ELSE c

\* What find_package finds without the host, and goes on finding.
Kept(d) == d \in paths \/ (d = "fmt" /\ fmt_DIR = "build")

\* A source that a configuration can have taken d from.
Allowed(e, c, inst, s, d) ==
  \/ s[d] = "BUNDLED" /\ (Asked(e, c, d) = "BUNDLED" \/ (Asked(e, c, d) = "AUTO" /\ d \notin inst))
  \/ s[d] = "SYSTEM" /\ Asked(e, c, d) \in {"AUTO", "SYSTEM"} /\ (d \in inst \/ Kept(d))

\* The same of the two that depend on others.
Taken(e, c, inst, s, d) ==
  /\ d = "glog" => s["glog"] = s["gflags"]
  /\ d = "ICU" => IF s["Boost"] = "BUNDLED" THEN Allowed(e, c, inst, s, "ICU") ELSE s["ICU"] = Unset
  /\ d \notin {"glog", "ICU"} => Allowed(e, c, inst, s, d)

\* The calls that may be left.
All           == <<"gflags", "glog", "fmt", "Boost", "folly", "GTest">>
FromGlog      == <<"glog", "fmt", "Boost", "folly", "GTest">>
FromFmt       == <<"fmt", "Boost", "folly", "GTest">>
FromBoost     == <<"Boost", "folly", "GTest">>
FromICU       == <<"ICU", "BoostLibraries", "folly", "GTest">>
FromLibraries == <<"BoostLibraries", "folly", "GTest">>
FromFolly     == <<"folly", "GTest">>
FromGTest     == <<"GTest">>

\* With these, the packages that have not been resolved.
Waits(left, pending) ==
  \/ left = All /\ pending = Packages
  \/ left = FromGlog /\ pending = Packages \ {"gflags"}
  \/ left = FromFmt /\ pending = {"fmt", "Boost", "ICU", "folly", "GTest"}
  \/ left = FromBoost /\ pending = {"Boost", "ICU", "folly", "GTest"}
  \/ left = FromICU /\ pending = {"ICU", "folly", "GTest"}
  \/ left = FromLibraries /\ pending = {"folly", "GTest"}
  \/ left = FromFolly /\ pending = {"folly", "GTest"}
  \/ left = FromGTest /\ pending = {"GTest"}
  \/ left = <<>> /\ pending = {}

\* The others are resolved.
Settled(pending) ==
  \A d \in Packages :
    IF d \in pending THEN source[d] = Unset ELSE Taken(env, cache, installed, source, d)

\* A configuration that runs has resolved what it has passed, and nothing else.
Resolving(pending) ==
  /\ cache # Unset
  /\ Settled(pending)
  /\ todo # <<>> /\ Head(todo) = "ICU" => source["Boost"] = "BUNDLED"

Todo ==
  /\ Idle => todo = <<>>
  /\ \E pending \in SUBSET Packages : Waits(todo, pending) /\ (~Idle => Resolving(pending))

Answers == [Packages -> {Unset, "SYSTEM", "BUNDLED"}]

\* glog comes from where gflags does, and a system glog is not forgotten.
Follows ==
  /\ source["glog"] # Unset => source["glog"] = source["gflags"]
  /\ source["glog"] = "SYSTEM" => "glog" \in paths

\* What was taken last could be taken of the same packages now.
Remembered ==
  last # Never =>
    /\ cache # Unset
    /\ last.source \in Answers
    /\ \A d \in Packages : Taken(last.env, cache, last.installed, last.source, d)

\* The variables and the packages are what they were.
Same == last # Never /\ last.installed = installed /\ \A d \in Packages : last.env[d] = env[d]

\* Then nothing is built that was the system's.
Repeating ==
  ~Idle /\ Same => \A d \in Packages : last.source[d] = "SYSTEM" => source[d] # "BUNDLED"

ResolutionInv ==
  /\ source \in Answers /\ paths \subseteq Lasting
  /\ Follows /\ Remembered /\ Todo /\ Repeating

-----------------------------------------------------------------------------
\* An unset variable has none of the sources.
LEMMA UnsetIsNoSource == Unset # "AUTO" /\ Unset # "SYSTEM" /\ Unset # "BUNDLED"
  BY UnsetAssumption DEF UnsetAssumption, Sources

\* A sequence of two joined with another one.
LEMMA JoinTwo ==
  ASSUME NEW S, NEW p \in S, NEW q \in S, NEW r \in S, NEW t \in S
  PROVE  <<p, q>> \o <<r, t>> = <<p, q, r, t>>
  <1> DEFINE a == <<p, q>>
             b == <<r, t>>
             c == a \o b
             e == <<p, q, r, t>>
  <1>1. a \in Seq(S) /\ b \in Seq(S) /\ Len(a) = 2 /\ Len(b) = 2 /\ e \in Seq(S) /\ Len(e) = 4
    OBVIOUS
  <1>2. a[1] = p /\ a[2] = q /\ b[1] = r /\ b[2] = t
    OBVIOUS
  <1>3. e[1] = p /\ e[2] = q /\ e[3] = r /\ e[4] = t
    OBVIOUS
  <1> HIDE DEF a, b, e
  <1>4. c \in Seq(S) /\ Len(c) = 4
    <2>1. c \in Seq(S) /\ Len(c) = Len(a) + Len(b)
      BY <1>1, ConcatProperties, Zenon
    <2> HIDE DEF c
    <2> QED BY <1>1, <2>1
  <1>5. c[1] = a[1] /\ c[2] = a[2] /\ c[3] = b[1] /\ c[4] = b[2]
    <2>1. \A j \in 1 .. Len(a) + Len(b) : c[j] = IF j <= Len(a) THEN a[j] ELSE b[j - Len(a)]
      BY <1>1, ConcatProperties, Zenon
    <2> HIDE DEF c
    <2>2. \A j \in 1 .. 4 : c[j] = IF j <= 2 THEN a[j] ELSE b[j - 2]
      BY <1>1, <2>1
    <2> QED BY <2>2
  <1> HIDE DEF c
  <1>6. \A k \in 1 .. 4 : c[k] = e[k]
    BY <1>2, <1>3, <1>5
  <1>7. c = e
    BY <1>1, <1>4, <1>6, SMTT(20)
  <1> QED BY <1>7 DEF a, b, c, e

\* What the recipe of Boost leaves.
LEMMA RecipeLeaves == BoostRecipe \o FromFolly = FromICU
  <1> DEFINE S == {"ICU", "BoostLibraries", "folly", "GTest"}
  <1>1. "ICU" \in S /\ "BoostLibraries" \in S /\ "folly" \in S /\ "GTest" \in S
    OBVIOUS
  <1> HIDE DEF S
  <1> QED BY <1>1, JoinTwo DEF BoostRecipe, FromFolly, FromICU

\* Which call is next, and what is left then.
LEMMA Calls ==
  /\ Head(All) = "gflags" /\ Tail(All) = FromGlog /\ All # <<>>
  /\ Head(FromGlog) = "glog" /\ Tail(FromGlog) = FromFmt /\ FromGlog # <<>>
  /\ Head(FromFmt) = "fmt" /\ Tail(FromFmt) = FromBoost /\ FromFmt # <<>>
  /\ Head(FromBoost) = "Boost" /\ Tail(FromBoost) = FromFolly /\ FromBoost # <<>>
  /\ Head(FromICU) = "ICU" /\ Tail(FromICU) = FromLibraries /\ FromICU # <<>>
  /\ Head(FromLibraries) = "BoostLibraries" /\ Tail(FromLibraries) = FromFolly /\ FromLibraries # <<>>
  /\ Head(FromFolly) = "folly" /\ Tail(FromFolly) = FromGTest /\ FromFolly # <<>>
  /\ Head(FromGTest) = "GTest" /\ Tail(FromGTest) = <<>> /\ FromGTest # <<>>
  <1>1. Head(All) = "gflags" /\ Tail(All) = FromGlog /\ All # <<>>
    BY DEF All, FromGlog
  <1>2. Head(FromGlog) = "glog" /\ Tail(FromGlog) = FromFmt /\ FromGlog # <<>>
    BY DEF FromGlog, FromFmt
  <1>3. Head(FromFmt) = "fmt" /\ Tail(FromFmt) = FromBoost /\ FromFmt # <<>>
    BY DEF FromFmt, FromBoost
  <1>4. Head(FromBoost) = "Boost" /\ Tail(FromBoost) = FromFolly /\ FromBoost # <<>>
    BY DEF FromBoost, FromFolly
  <1>5. Head(FromICU) = "ICU" /\ Tail(FromICU) = FromLibraries /\ FromICU # <<>>
    BY DEF FromICU, FromLibraries
  <1>6. Head(FromLibraries) = "BoostLibraries" /\ Tail(FromLibraries) = FromFolly /\ FromLibraries # <<>>
    BY DEF FromLibraries, FromFolly
  <1>7. Head(FromFolly) = "folly" /\ Tail(FromFolly) = FromGTest /\ FromFolly # <<>>
    BY DEF FromFolly, FromGTest
  <1>8. Head(FromGTest) = "GTest" /\ Tail(FromGTest) = <<>> /\ FromGTest # <<>>
    BY DEF FromGTest
  <1> QED BY <1>1, <1>2, <1>3, <1>4, <1>5, <1>6, <1>7, <1>8, Zenon

\* What is left after each call.
LEMMA NextCall ==
  ASSUME NEW left, NEW pending, Waits(left, pending), left # <<>>
  PROVE  /\ Head(left) \in Packages \cup {"BoostLibraries"}
         /\ Head(left) \in Packages => Head(left) \in pending
         /\ Head(left) = "glog" => "gflags" \notin pending
         /\ Head(left) = "gflags" => "glog" \in pending
         /\ Head(left) = "ICU" => "Boost" \notin pending
         /\ Head(left) = "BoostLibraries" => Waits(Tail(left), pending)
         /\ Head(left) \in Packages \ {"Boost"} => Waits(Tail(left), pending \ {Head(left)})
         /\ Head(left) = "Boost" => /\ Waits(Tail(left), pending \ {"Boost", "ICU"})
                                    /\ Waits(BoostRecipe \o Tail(left), pending \ {"Boost"})
                                    /\ "ICU" \in pending
                                    /\ BoostRecipe \o Tail(left) # <<>>
         /\ Tail(left) # <<>> => Head(Tail(left)) # "ICU"
  <1>1. CASE left = All /\ pending = Packages
    <2>1. Head(left) = "gflags" /\ Tail(left) = FromGlog
      BY <1>1, Calls
    <2>2. Head(FromGlog) = "glog"
      BY Calls
    <2> QED BY <1>1, <2>1, <2>2 DEF Waits, Packages
  <1>2. CASE left = FromGlog /\ pending = Packages \ {"gflags"}
    <2>1. Head(left) = "glog" /\ Tail(left) = FromFmt
      BY <1>2, Calls
    <2>2. Head(FromFmt) = "fmt"
      BY Calls
    <2> QED BY <1>2, <2>1, <2>2 DEF Waits, Packages
  <1>3. CASE left = FromFmt /\ pending = {"fmt", "Boost", "ICU", "folly", "GTest"}
    <2>1. Head(left) = "fmt" /\ Tail(left) = FromBoost
      BY <1>3, Calls
    <2>2. Head(FromBoost) = "Boost"
      BY Calls
    <2> QED BY <1>3, <2>1, <2>2 DEF Waits, Packages
  <1>4. CASE left = FromBoost /\ pending = {"Boost", "ICU", "folly", "GTest"}
    <2>1. Head(left) = "Boost" /\ Tail(left) = FromFolly
      BY <1>4, Calls
    <2>2. BoostRecipe \o Tail(left) = FromICU /\ FromICU # <<>> /\ Head(FromFolly) = "folly"
      BY <2>1, RecipeLeaves, Calls
    <2> QED BY <1>4, <2>1, <2>2 DEF Waits, Packages
  <1>5. CASE left = FromICU /\ pending = {"ICU", "folly", "GTest"}
    <2>1. Head(left) = "ICU" /\ Tail(left) = FromLibraries
      BY <1>5, Calls
    <2>2. Head(FromLibraries) = "BoostLibraries"
      BY Calls
    <2> QED BY <1>5, <2>1, <2>2 DEF Waits, Packages
  <1>6. CASE left = FromLibraries /\ pending = {"folly", "GTest"}
    <2>1. Head(left) = "BoostLibraries" /\ Tail(left) = FromFolly
      BY <1>6, Calls
    <2>2. Head(FromFolly) = "folly"
      BY Calls
    <2> QED BY <1>6, <2>1, <2>2 DEF Waits, Packages
  <1>7. CASE left = FromFolly /\ pending = {"folly", "GTest"}
    <2>1. Head(left) = "folly" /\ Tail(left) = FromGTest
      BY <1>7, Calls
    <2>2. Head(FromGTest) = "GTest"
      BY Calls
    <2> QED BY <1>7, <2>1, <2>2 DEF Waits, Packages
  <1>8. CASE left = FromGTest /\ pending = {"GTest"}
    <2>1. Head(left) = "GTest" /\ Tail(left) = <<>>
      BY <1>8, Calls
    <2> QED BY <1>8, <2>1 DEF Waits, Packages
  <1> QED BY <1>1, <1>2, <1>3, <1>4, <1>5, <1>6, <1>7, <1>8, Zenon DEF Waits

-----------------------------------------------------------------------------
\* What find_package finds, and Found, of one package.
LEMMA FoundIsKept == \A d : Found(d) <=> d \in installed \/ Kept(d)
  BY DEF Found, Kept

\* What is asked for d when its call comes.
LEMMA RequestIsAsked ==
  ASSUME NEW d \in Packages, d # "glog"
  PROVE  Requested(d) = Asked(env, cache, d)
  BY DEF Requested, set_with_default, Asked, Packages

\* Nothing waits when no call is left.
LEMMA NothingWaits == \A pending : Waits(<<>>, pending) <=> pending = {}
  BY Calls DEF Waits

\* What a call answers, the environment and the packages allow.
LEMMA Answered ==
  ASSUME NEW d \in Packages, d # "glog"
  PROVE  /\ UsesSystem(d) =>
              Asked(env, cache, d) \in {"AUTO", "SYSTEM"} /\ (d \in installed \/ Kept(d))
         /\ Builds(d) =>
              \/ Asked(env, cache, d) = "BUNDLED"
              \/ Asked(env, cache, d) = "AUTO" /\ d \notin installed
  BY FoundIsKept, RequestIsAsked DEF UsesSystem, Builds

\* glog is asked for as gflags was resolved.
LEMMA GlogAnswered ==
  ASSUME source["gflags"] \in {"SYSTEM", "BUNDLED"}
  PROVE  /\ UsesSystem("glog") => source["gflags"] = "SYSTEM"
         /\ Builds("glog") => source["gflags"] = "BUNDLED"
  BY DEF UsesSystem, Builds, Requested

\* What was taken last stays possible, while what was found is kept.
LEMMA KeptRemembered ==
  ASSUME Remembered, last' = last, cache # Unset => cache' = cache,
         \A d \in Packages : Kept(d) => Kept(d)'
  PROVE  Remembered'
  <1> SUFFICES ASSUME last # Never
               PROVE  /\ cache' # Unset
                      /\ last.source \in Answers
                      /\ \A d \in Packages : Taken(last.env, cache, last.installed, last.source, d)'
    BY DEF Remembered
  <1>1. /\ cache # Unset /\ cache' = cache /\ last.source \in Answers
        /\ \A d \in Packages : Taken(last.env, cache, last.installed, last.source, d)
    BY DEF Remembered
  <1>2. ASSUME NEW d \in Packages, Allowed(last.env, cache, last.installed, last.source, d)
        PROVE  Allowed(last.env, cache, last.installed, last.source, d)'
    BY <1>1, <1>2 DEF Allowed, Asked
  <1>3. ASSUME NEW d \in Packages
        PROVE  Taken(last.env, cache, last.installed, last.source, d)'
    <2>1. Taken(last.env, cache, last.installed, last.source, d)
      BY <1>1
    <2>2. last.source' = last.source
      OBVIOUS
    <2> QED BY <1>2, <2>1, <2>2 DEF Taken
  <1> QED BY <1>1, <1>3

-----------------------------------------------------------------------------
\* Nothing is built that was the system's when variables and packages were the
\* same: it is still there, or kept.
LEMMA NotBuiltAgain ==
  ASSUME ResolutionInv, ~Idle, Same, NEW d \in Packages, last.source[d] = "SYSTEM",
         d = "glog" => source["gflags"] \in {"SYSTEM", "BUNDLED"}
  PROVE  ~Builds(d)
  <1>1. Taken(last.env, cache, last.installed, last.source, d)
    BY DEF ResolutionInv, Remembered, Same
  <1>2. CASE d = "glog"
    <2>1. last.source["gflags"] = "SYSTEM"
      BY <1>1, <1>2 DEF Taken
    <2>2. source["gflags"] # "BUNDLED"
      BY <2>1 DEF ResolutionInv, Repeating, Packages
    <2> QED BY <1>2, <2>2, GlogAnswered
  <1>3. CASE d # "glog"
    <2>1. Allowed(last.env, cache, last.installed, last.source, d)
      BY <1>1, <1>3, UnsetIsNoSource DEF Taken
    <2>2. Asked(env, cache, d) = Asked(last.env, cache, d) /\ last.installed = installed
      BY DEF Same, Asked
    <2>3. Asked(env, cache, d) \in {"AUTO", "SYSTEM"} /\ (d \in installed \/ Kept(d))
      BY <2>1, <2>2 DEF Allowed
    <2> QED BY <1>3, <2>3, FoundIsKept, RequestIsAsked DEF Builds
  <1> QED BY <1>2, <1>3

\* A call that resolves d as `answer` keeps the invariant.
LEMMA Advances ==
  ASSUME ResolutionInv, ~Idle, ~Idle', UNCHANGED <<world, cache, last>>,
         paths \subseteq paths', paths' \subseteq Lasting,
         fmt_DIR = "build" => fmt_DIR' = "build",
         NEW pending \in SUBSET Packages, NEW next \in SUBSET Packages,
         Settled(pending), NEW d \in pending, NEW answer \in {"SYSTEM", "BUNDLED"},
         source' = [source EXCEPT ![d] = answer],
         next = IF d = "Boost" /\ answer = "SYSTEM" THEN pending \ {"Boost", "ICU"} ELSE pending \ {d},
         d = "gflags" => "glog" \in pending, d = "Boost" => "ICU" \in pending,
         Waits(todo', next),
         todo' # <<>> /\ Head(todo') = "ICU" => d = "Boost" /\ answer = "BUNDLED",
         d = "ICU" => source["Boost"] = "BUNDLED",
         d = "glog" => source["gflags"] = answer /\ (answer = "SYSTEM" => "glog" \in paths'),
         d # "glog" => Allowed(env, cache, installed, source', d),
         answer = "BUNDLED" /\ Same => last.source[d] # "SYSTEM",
         cache # Unset
  PROVE  ResolutionInv'
  <1>1. /\ env' = env /\ installed' = installed /\ cache' = cache /\ last' = last
        /\ source \in Answers /\ Follows /\ Remembered /\ Repeating
    BY DEF ResolutionInv, world
  <1>2. source' \in Answers /\ \A f \in Packages : source'[f] = IF f = d THEN answer ELSE source[f]
    BY <1>1 DEF Answers
  <1>3. \A f \in Packages : Kept(f) => Kept(f)'
    BY DEF Kept
  <1>4. \A f \in Packages : IF f \in pending THEN source[f] = Unset
                             ELSE Taken(env, cache, installed, source, f)
    BY DEF Settled
  <1>5. "glog" \in Packages /\ "gflags" \in Packages /\ "Boost" \in Packages /\ "ICU" \in Packages
    BY DEF Packages
  <1>6. Settled(next)'
    <2> SUFFICES ASSUME NEW f \in Packages
                 PROVE  IF f \in next THEN source'[f] = Unset
                        ELSE Taken(env, cache, installed, source, f)'
      BY <1>1 DEF Settled
    <2>1. CASE f \in next
      BY <1>2, <1>4, <2>1
    <2>2. CASE f = d
      <3>1. d # "glog" => Allowed(env, cache, installed, source, d)'
        BY <1>1, <1>3 DEF Allowed, Asked
      <3>2. d = "glog" => source'["glog"] = source'["gflags"]
        BY <1>2, <1>5
      <3>3. d = "ICU" => source'["Boost"] = "BUNDLED"
        BY <1>2, <1>5
      <3> QED BY <2>2, <3>1, <3>2, <3>3 DEF Taken
    <2>3. CASE f # d /\ f \notin pending
      <3>1. Taken(env, cache, installed, source, f) /\ source'[f] = source[f]
        BY <1>2, <1>4, <2>3
      <3>2. f = "glog" => source'["gflags"] = source["gflags"]
        BY <1>2, <1>5, <2>3
      <3>3. f = "ICU" => source'["Boost"] = source["Boost"]
        BY <1>2, <1>5, <2>3
      <3>4. Taken(env, cache, installed, source, f)'
        <4>1. f # "glog" => (Allowed(env, cache, installed, source, f)
                               => Allowed(env, cache, installed, source, f)')
          BY <1>1, <1>3, <3>1 DEF Allowed, Asked
        <4> QED BY <1>1, <3>1, <3>2, <3>3, <4>1 DEF Taken
      <3> QED BY <2>3, <3>4
    <2>4. CASE f = "ICU" /\ d = "Boost" /\ answer = "SYSTEM" /\ f \in pending
      <3>1. source'["ICU"] = Unset /\ source'["Boost"] # "BUNDLED"
        BY <1>2, <1>4, <1>5, <2>4
      <3> QED BY <2>4, <3>1 DEF Taken
    <2> QED BY <2>1, <2>2, <2>3, <2>4
  <1>7. Follows'
    <2>1. CASE d = "glog"
      BY <1>1, <1>2, <1>5, <2>1 DEF Follows
    <2>2. CASE d = "gflags"
      <3>1. source'["glog"] = Unset
        BY <1>2, <1>4, <1>5, <2>2
      <3> QED BY <3>1, UnsetIsNoSource DEF Follows
    <2>3. CASE d \notin {"glog", "gflags"}
      BY <1>1, <1>2, <1>5, <2>3 DEF Follows
    <2> QED BY <2>1, <2>2, <2>3
  <1>8. Remembered'
    BY <1>1, <1>3, KeptRemembered
  <1>9. Repeating'
    BY <1>1, <1>2 DEF Repeating, Same
  <1>10. todo' # <<>> /\ Head(todo') = "ICU" => source'["Boost"] = "BUNDLED"
    BY <1>2, <1>5
  <1>11. Todo'
    <2>1. Resolving(next)'
      BY <1>1, <1>6, <1>10 DEF Resolving
    <2> QED BY <2>1 DEF Todo
  <1> QED BY <1>2, <1>7, <1>8, <1>9, <1>11 DEF ResolutionInv

\* The first call sees what the last configuration left.
LEMMA StartInv == ASSUME ResolutionInv, Configure PROVE ResolutionInv'
  <1>1. /\ cache' = Cached /\ source' = NoSources /\ todo' = All /\ outcome' = "running"
        /\ env' = env /\ installed' = installed /\ paths' = paths /\ fmt_DIR' = fmt_DIR
        /\ last' = last
    BY DEF Configure, InOrder, All, world, found
  <1>2. Cached # Unset /\ (cache # Unset => Cached = cache)
    BY UnsetIsNoSource DEF Cached, set_with_default
  <1>3. source' \in Answers /\ \A d \in Packages : source'[d] = Unset
    BY <1>1 DEF NoSources, Answers
  <1>4. Follows' /\ Repeating'
    BY <1>3, UnsetIsNoSource DEF Follows, Repeating, Packages
  <1>5. Remembered'
    BY <1>1, <1>2, KeptRemembered DEF ResolutionInv, Kept
  <1>6. Settled(Packages)' /\ Waits(todo', Packages)
    BY <1>1, <1>3 DEF Settled, Waits
  <1>7. todo' # <<>> /\ Head(todo') # "ICU"
    BY <1>1, Calls
  <1>8. Todo'
    BY <1>1, <1>2, <1>6, <1>7 DEF Todo, Resolving, Idle
  <1>9. paths' \subseteq Lasting
    BY <1>1 DEF ResolutionInv
  <1> QED BY <1>3, <1>4, <1>5, <1>8, <1>9 DEF ResolutionInv

\* What is known at a call.
LEMMA AtCall ==
  ASSUME ResolutionInv, todo # <<>>
  PROVE  /\ ~Idle /\ source \in Answers /\ paths \subseteq Lasting /\ cache # Unset
         /\ \E pending \in SUBSET Packages :
              /\ Waits(todo, pending) /\ Settled(pending)
              /\ Head(todo) = "ICU" => source["Boost"] = "BUNDLED"
              /\ Head(todo) = "glog" => source["gflags"] \in {"SYSTEM", "BUNDLED"}
  <1>1. ~Idle
    BY DEF ResolutionInv, Todo
  <1>2. PICK pending \in SUBSET Packages : Waits(todo, pending) /\ Resolving(pending)
    BY <1>1 DEF ResolutionInv, Todo
  <1>3. Head(todo) = "glog" => source["gflags"] \in {"SYSTEM", "BUNDLED"}
    <2> SUFFICES ASSUME Head(todo) = "glog"
                 PROVE  source["gflags"] \in {"SYSTEM", "BUNDLED"}
      OBVIOUS
    <2>1. "gflags" \notin pending /\ "gflags" \in Packages
      BY <1>2, NextCall DEF Packages
    <2>2. Taken(env, cache, installed, source, "gflags")
      BY <1>2, <2>1 DEF Resolving, Settled
    <2> QED BY <2>2 DEF Taken, Allowed
  <1> QED BY <1>1, <1>2, <1>3 DEF ResolutionInv, Resolving

\* fmt's directory in the build directory stays.
LEMMA DirectoryStays ==
  fmt_DIR = "build" => Located = "build" /\ AfterSearch = "build" /\ AfterFolly = "build"
  BY DEF Located, AfterSearch, AfterFolly

\* find_package resolves a dependency, and with a Boost of the system its ICU too.
LEMMA FindInv == ASSUME ResolutionInv, FindPackage PROVE ResolutionInv'
  <1> DEFINE d == Head(todo)
  <1>1. PICK pending \in SUBSET Packages :
          /\ Waits(todo, pending) /\ Settled(pending)
          /\ d = "ICU" => source["Boost"] = "BUNDLED"
          /\ d = "glog" => source["gflags"] \in {"SYSTEM", "BUNDLED"}
    BY AtCall DEF FindPackage
  <1> PICK next : next = IF d = "Boost" THEN pending \ {"Boost", "ICU"} ELSE pending \ {d}
    OBVIOUS
  <1>2. /\ todo # <<>> /\ UsesSystem(d) /\ source' = [source EXCEPT ![d] = "SYSTEM"]
        /\ paths' = paths \cup ({d} \cap Lasting) /\ fmt_DIR' = AfterFolly
        /\ todo' = Tail(todo) /\ outcome' \in {"failing", outcome}
        /\ UNCHANGED <<world, cache, last>> /\ env' = env /\ installed' = installed
    BY DEF FindPackage, Resolved, world
  <1>3. ~Idle /\ paths \subseteq Lasting /\ cache # Unset /\ source \in Answers
    BY <1>2, AtCall
  <1>4. ~Idle'
    BY <1>2, <1>3 DEF Idle
  <1>5. d \in Packages
    <2>1. d # "BoostLibraries"
      BY <1>2 DEF UsesSystem, Requested
    <2> QED BY <1>1, <1>2, <2>1, NextCall
  <1>6. /\ d \in pending
        /\ d = "gflags" => "glog" \in pending
        /\ d = "Boost" => "ICU" \in pending
        /\ Waits(todo', next) /\ next \in SUBSET Packages
        /\ todo' # <<>> => Head(todo') # "ICU"
    BY <1>1, <1>2, <1>5, NextCall
  <1>7. paths \subseteq paths' /\ paths' \subseteq Lasting /\ (fmt_DIR = "build" => fmt_DIR' = "build")
    BY <1>2, <1>3, DirectoryStays
  <1>8. d = "glog" => source["gflags"] = "SYSTEM" /\ "glog" \in paths'
    <2>1. "glog" \in Lasting
      BY LastingAssumption DEF LastingAssumption
    <2> QED BY <1>1, <1>2, <2>1, GlogAnswered
  <1>9. d # "glog" => Allowed(env, cache, installed, source', d)
    <2>1. source'[d] = "SYSTEM"
      BY <1>2, <1>3, <1>5 DEF Answers
    <2> QED BY <1>2, <1>5, <2>1, Answered DEF Allowed
  <1> HIDE DEF d
  <1> QED BY <1>1, <1>2, <1>3, <1>4, <1>6, <1>7, <1>8, <1>9, Advances

\* A recipe resolves a dependency; the one that builds the libraries of Boost
\* resolves none.
LEMMA BuildInv == ASSUME ResolutionInv, BuildDependency PROVE ResolutionInv'
  <1> DEFINE d == Head(todo)
  <1>1. PICK pending \in SUBSET Packages :
          /\ Waits(todo, pending) /\ Settled(pending)
          /\ d = "ICU" => source["Boost"] = "BUNDLED"
          /\ d = "glog" => source["gflags"] \in {"SYSTEM", "BUNDLED"}
    BY AtCall DEF BuildDependency
  <1> PICK next : next = pending \ {d}
    OBVIOUS
  <1>2. /\ todo # <<>> /\ d # "Boost" /\ Builds(d)
        /\ source' = IF d \in Packages THEN [source EXCEPT ![d] = "BUNDLED"] ELSE source
        /\ paths' = paths /\ fmt_DIR' = AfterFolly
        /\ todo' = Tail(todo) /\ outcome' = outcome
        /\ UNCHANGED <<world, cache, last>> /\ env' = env /\ installed' = installed
        /\ cache' = cache /\ last' = last
    BY DEF BuildDependency, Resolved, world
  <1>3. ~Idle /\ paths \subseteq Lasting /\ cache # Unset /\ source \in Answers
    BY <1>2, AtCall
  <1>4. ~Idle'
    BY <1>2, <1>3 DEF Idle
  <1>5. fmt_DIR = "build" => fmt_DIR' = "build"
    BY <1>2, DirectoryStays
  <1>6. /\ d \in Packages \cup {"BoostLibraries"}
        /\ d \in Packages => d \in pending
        /\ d = "gflags" => "glog" \in pending
        /\ d \in Packages => Waits(todo', next)
        /\ d = "BoostLibraries" => Waits(todo', pending)
        /\ todo' # <<>> => Head(todo') # "ICU"
    BY <1>1, <1>2, NextCall
  <1>7. CASE d \in Packages
    <2>1. d = "glog" => source["gflags"] = "BUNDLED"
      BY <1>1, <1>2, GlogAnswered
    <2>2. d # "glog" => Allowed(env, cache, installed, source', d)
      <3>1. source'[d] = "BUNDLED"
        BY <1>2, <1>3, <1>7 DEF Answers
      <3> QED BY <1>2, <1>7, <3>1, Answered DEF Allowed
    <2>3. Same => last.source[d] # "SYSTEM"
      BY <1>1, <1>2, <1>3, <1>7, NotBuiltAgain
    <2>4. next \in SUBSET Packages
      OBVIOUS
    <2> HIDE DEF d
    <2> QED BY <1>1, <1>2, <1>3, <1>4, <1>5, <1>6, <1>7, <2>1, <2>2, <2>3, <2>4, Advances
  <1>8. CASE d = "BoostLibraries"
    <2>1. source' = source
      BY <1>2, <1>8 DEF Packages
    <2>2. \A e \in Packages : Kept(e) => Kept(e)'
      BY <1>2, <1>5 DEF Kept
    <2>3. Remembered'
      BY <1>2, <2>2, KeptRemembered DEF ResolutionInv
    <2>4. Repeating'
      BY <1>2, <1>3, <2>1 DEF ResolutionInv, Repeating, Same
    <2>5. Settled(pending)'
      <3>1. ASSUME NEW e \in Packages, Allowed(env, cache, installed, source, e)
            PROVE  Allowed(env, cache, installed, source, e)'
        BY <1>2, <2>1, <2>2, <3>1 DEF Allowed, Asked
      <3> QED BY <1>1, <2>1, <3>1 DEF Settled, Taken, Packages
    <2>6. Todo'
      BY <1>2, <1>3, <1>4, <1>6, <1>8, <2>5 DEF Todo, Resolving
    <2>7. Follows'
      BY <1>2, <2>1 DEF ResolutionInv, Follows
    <2> QED BY <1>2, <1>3, <2>1, <2>3, <2>4, <2>6, <2>7 DEF ResolutionInv
  <1> QED BY <1>6, <1>7, <1>8

\* Boost is resolved before the ICU that its recipe asks for.
LEMMA BoostInv == ASSUME ResolutionInv, BuildBoost PROVE ResolutionInv'
  <1>1. PICK pending \in SUBSET Packages : Waits(todo, pending) /\ Settled(pending)
    BY AtCall DEF BuildBoost
  <1> PICK next : next = pending \ {"Boost"}
    OBVIOUS
  <1>2. /\ todo # <<>> /\ Head(todo) = "Boost" /\ Builds("Boost")
        /\ source' = [source EXCEPT !["Boost"] = "BUNDLED"]
        /\ todo' = BoostRecipe \o Tail(todo) /\ outcome' = outcome
        /\ paths' = paths /\ fmt_DIR' = fmt_DIR
        /\ UNCHANGED <<world, cache, last>>
    BY DEF BuildBoost, Resolved, found
  <1>3. ~Idle /\ paths \subseteq Lasting /\ cache # Unset /\ source \in Answers
    BY <1>2, AtCall
  <1>4. ~Idle'
    BY <1>2, <1>3 DEF Idle
  <1>5. "Boost" \in Packages /\ "Boost" # "glog" /\ "Boost" # "gflags" /\ "Boost" # "ICU"
    BY DEF Packages
  <1>6. "Boost" \in pending /\ "ICU" \in pending /\ Waits(todo', next) /\ next \in SUBSET Packages
    BY <1>1, <1>2, <1>5, NextCall
  <1>7. Allowed(env, cache, installed, source', "Boost")
    <2>1. source'["Boost"] = "BUNDLED"
      BY <1>2, <1>3, <1>5 DEF Answers
    <2> QED BY <1>2, <1>5, <2>1, Answered DEF Allowed
  <1>8. Same => last.source["Boost"] # "SYSTEM"
    BY <1>2, <1>3, <1>5, NotBuiltAgain
  <1> QED BY <1>1, <1>2, <1>3, <1>4, <1>5, <1>6, <1>7, <1>8, Advances

\* Between configurations, and when one ends without success, nothing is lost
\* of what was found.
LEMMA IdleInv ==
  ASSUME ResolutionInv, source' = source, cache' = cache, last' = last, todo' = <<>>, Idle',
         paths' = paths, fmt_DIR = "build" => fmt_DIR' = "build"
  PROVE  ResolutionInv'
  <1>1. Follows' /\ source' \in Answers /\ paths' \subseteq Lasting
    BY DEF ResolutionInv, Follows
  <1>2. Remembered'
    BY KeptRemembered DEF ResolutionInv, Kept
  <1>3. Todo' /\ Repeating'
    <2>1. {} \in SUBSET Packages /\ Waits(todo', {})
      BY NothingWaits
    <2> QED BY <2>1 DEF Todo, Repeating
  <1> QED BY <1>1, <1>2, <1>3 DEF ResolutionInv

\* A configuration without a call left has resolved everything, and what it has
\* is remembered.
LEMMA GenerateInv == ASSUME ResolutionInv, Generate PROVE ResolutionInv' /\ Settled({})
  <1>1. /\ todo = <<>> /\ ~Idle
        /\ last' = [env |-> env, installed |-> installed, source |-> source]
        /\ outcome' = "configured" /\ todo' = todo /\ source' = source /\ cache' = cache
        /\ env' = env /\ installed' = installed /\ paths' = paths /\ fmt_DIR' = fmt_DIR
    BY DEF Generate, Idle, world, found
  <1>2. PICK pending \in SUBSET Packages : Waits(todo, pending) /\ Resolving(pending)
    BY <1>1 DEF ResolutionInv, Todo
  <1>3. pending = {}
    BY <1>1, <1>2, NothingWaits
  <1>4. Settled({}) /\ cache # Unset
    BY <1>2, <1>3 DEF Resolving
  <1>5. last'.env = env /\ last'.installed = installed /\ last'.source = source
    BY <1>1
  <1>6. Remembered'
    <2>1. \A d \in Packages : Taken(env, cache, installed, source, d)
      BY <1>4 DEF Settled
    <2> QED BY <1>1, <1>4, <1>5, <2>1 DEF ResolutionInv, Remembered, Taken, Allowed, Asked, Kept
  <1>7. Follows' /\ source' \in Answers /\ paths' \subseteq Lasting
    BY <1>1 DEF ResolutionInv, Follows
  <1>8. Todo' /\ Repeating'
    <2>1. {} \in SUBSET Packages /\ Waits(todo', {})
      BY <1>1, NothingWaits
    <2>2. Idle'
      BY <1>1 DEF Idle
    <2> QED BY <1>1, <2>1, <2>2 DEF Todo, Repeating
  <1> QED BY <1>4, <1>6, <1>7, <1>8 DEF ResolutionInv

\* A new build directory knows nothing.
LEMMA FreshInv ==
  /\ ResolutionInit => ResolutionInv
  /\ ResolutionInv /\ DeleteBuildDirectory => ResolutionInv'
  <1>1. NoSources \in Answers /\ NoSources["glog"] = Unset
    BY DEF NoSources, Answers, Packages
  <1>2. {} \in SUBSET Packages /\ Waits(<<>>, {})
    BY NothingWaits
  <1>3. ASSUME ResolutionInit
        PROVE  ResolutionInv
    <2>1. source = NoSources /\ todo = <<>> /\ last = Never /\ paths = {} /\ outcome = "none"
      BY <1>3 DEF ResolutionInit, FreshBuildDirectory
    <2>2. Todo /\ Repeating
      BY <1>2, <2>1 DEF Todo, Idle, Repeating
    <2>3. Follows /\ Remembered
      BY <1>1, <2>1, UnsetIsNoSource DEF Follows, Remembered
    <2> QED BY <1>1, <2>1, <2>2, <2>3 DEF ResolutionInv
  <1>4. ASSUME ResolutionInv, DeleteBuildDirectory
        PROVE  ResolutionInv'
    <2>1. source' = NoSources /\ todo' = <<>> /\ last' = Never /\ paths' = {} /\ outcome' = "none"
      BY <1>4 DEF DeleteBuildDirectory, ResolutionInv, Todo
    <2>2. Todo' /\ Repeating'
      BY <1>2, <2>1 DEF Todo, Idle, Repeating
    <2>3. Follows' /\ Remembered'
      BY <1>1, <2>1, UnsetIsNoSource DEF Follows, Remembered
    <2> QED BY <1>1, <2>1, <2>2, <2>3 DEF ResolutionInv
  <1> QED BY <1>3, <1>4

\* Every step keeps the invariant.
LEMMA StepInv == ASSUME ResolutionInv, [ResolutionNext]_resolutionVars PROVE ResolutionInv'
  <1>1. CASE ChangeEnvironment \/ InstallOrRemove
    <2>1. todo' = <<>> /\ Idle'
      BY <1>1 DEF ResolutionInv, Todo, ChangeEnvironment, InstallOrRemove, Idle
    <2> QED BY <1>1, <2>1, IdleInv DEF ChangeEnvironment, InstallOrRemove, found
  <1>2. CASE DeleteBuildDirectory
    BY <1>2, FreshInv
  <1>3. CASE Configure
    BY <1>3, StartInv
  <1>4. CASE FindPackage
    BY <1>4, FindInv
  <1>5. CASE BuildBoost
    BY <1>5, BoostInv
  <1>6. CASE BuildDependency
    BY <1>6, BuildInv
  <1>7. CASE Generate
    BY <1>7, GenerateInv
  <1>8. ASSUME NEW reason \in {"recipeFailed", "notFound", "invalidSource"}, Fail(reason),
               fmt_DIR = "build" => fmt_DIR' = "build"
        PROVE  ResolutionInv'
    BY <1>8, IdleInv DEF Fail, Idle
  <1>9. CASE RecipeFails \/ NotFound \/ InvalidSource
    BY <1>8, <1>9, DirectoryStays DEF RecipeFails, NotFound, InvalidSource
  <1>10. CASE Incomplete
    BY <1>10, IdleInv DEF Incomplete, Idle, found
  <1>11. CASE UNCHANGED resolutionVars
    <2>1. /\ env' = env /\ installed' = installed /\ cache' = cache /\ paths' = paths
          /\ fmt_DIR' = fmt_DIR /\ todo' = todo /\ source' = source /\ outcome' = outcome /\ last' = last
      BY <1>11 DEF resolutionVars
    <2>2. Idle' <=> Idle
      BY <2>1 DEF Idle
    <2>3. Remembered'
      BY <2>1, KeptRemembered DEF ResolutionInv, Kept
    <2>4. Todo'
      BY <2>1, <2>2 DEF ResolutionInv, Todo, Resolving, Settled, Taken, Allowed, Asked, Kept
    <2>5. Follows' /\ Repeating' /\ source' \in Answers /\ paths' \subseteq Lasting
      BY <2>1, <2>2 DEF ResolutionInv, Follows, Repeating, Same
    <2> QED BY <2>3, <2>4, <2>5 DEF ResolutionInv
  <1> QED BY <1>1, <1>2, <1>3, <1>4, <1>5, <1>6, <1>7, <1>9, <1>10, <1>11 DEF ResolutionNext

\* What two configurations with the same variables and packages have in common.
LEMMA Repeats ==
  ASSUME ResolutionInv, ~Idle, Settled({}), Same
  PROVE  /\ \A d \in {"gflags", "glog", "folly"} : source[d] = last.source[d]
         /\ \A d \in Packages : \/ source[d] = last.source[d]
                                \/ NoLongerBuilt(d)
                                \/ d = "ICU" /\ NoLongerBuilt("Boost")
  <1>1. \A d \in Packages : /\ Taken(env, cache, installed, source, d)
                            /\ Taken(last.env, cache, last.installed, last.source, d)
                            /\ last.source[d] = "SYSTEM" => source[d] # "BUNDLED"
    BY DEF ResolutionInv, Remembered, Repeating, Settled, Same
  <1>2. ASSUME NEW d \in Packages,
               Allowed(env, cache, installed, source, d),
               Allowed(last.env, cache, last.installed, last.source, d)
        PROVE  source[d] = last.source[d] \/ (NoLongerBuilt(d) /\ Kept(d))
    <2>1. last.installed = installed /\ Asked(last.env, cache, d) = Asked(env, cache, d)
      BY DEF Same, Asked
    <2>2. CASE last.source[d] = "SYSTEM"
      BY <1>1, <1>2, <2>2 DEF Allowed
    <2>3. CASE last.source[d] = "BUNDLED" /\ source[d] = "SYSTEM"
      <3>1. d \notin installed /\ Kept(d)
        BY <1>2, <2>1, <2>3 DEF Allowed
      <3> QED BY <2>3, <3>1, FoundIsKept DEF NoLongerBuilt, Recalled
    <2> QED BY <1>2, <2>2, <2>3 DEF Allowed
  <1>3. \A d \in Packages \ {"glog", "ICU"} : source[d] = last.source[d] \/ (NoLongerBuilt(d) /\ Kept(d))
    BY <1>1, <1>2 DEF Taken
  <1>4. ~Kept("gflags") /\ ~Kept("folly")
    BY LastingAssumption DEF LastingAssumption, ResolutionInv, Kept
  <1>5. source["gflags"] = last.source["gflags"] /\ source["folly"] = last.source["folly"]
    BY <1>3, <1>4 DEF Packages
  <1>6. source["glog"] = last.source["glog"]
    BY <1>1, <1>5 DEF Taken, Packages
  <1>7. \/ source["ICU"] = last.source["ICU"] \/ NoLongerBuilt("ICU") \/ NoLongerBuilt("Boost")
    <2>1. /\ Taken(env, cache, installed, source, "ICU")
          /\ Taken(last.env, cache, last.installed, last.source, "ICU")
          /\ "ICU" \in Packages
          /\ source["Boost"] = last.source["Boost"] \/ NoLongerBuilt("Boost")
      BY <1>1, <1>3 DEF Packages
    <2> QED BY <1>2, <2>1 DEF Taken
  <1> QED BY <1>3, <1>5, <1>6, <1>7

-----------------------------------------------------------------------------
\* Whatever is installed and asked for, glog comes from where gflags does, and
\* a glog of the system is one that was found.
THEOREM GlogStaysWithGflags == ResolutionSpec => []GlogFollowsGflags
  <1>1. ResolutionInit => ResolutionInv
    BY FreshInv
  <1>2. ResolutionInv /\ [ResolutionNext]_resolutionVars => ResolutionInv'
    BY StepInv
  <1>3. ResolutionInv => GlogFollowsGflags
    BY DEF ResolutionInv, Follows, GlogFollowsGflags, Found
  <1> QED BY <1>1, <1>2, <1>3, PTL DEF ResolutionSpec

\* With the variables and packages of the last successful configuration, the
\* next one takes gflags, glog and folly from where that did, builds nothing
\* that was the system's, and builds again what it built, unless find_package
\* has found it by what is in the cache.
THEOREM ConfigurationRepeats == ResolutionSpec => ReconfigureRepeats
  <1> DEFINE Ends   == outcome = "running" /\ outcome' = "configured" /\ last # Never
                       /\ last.installed = installed /\ (\A d \in Packages : last.env[d] = env[d])
             Agrees == /\ \A d \in {"gflags", "glog", "folly"} : source[d] = last.source[d]
                       /\ \A d \in Packages : \/ source[d] = last.source[d]
                                              \/ NoLongerBuilt(d)
                                              \/ d = "ICU" /\ NoLongerBuilt("Boost")
  <1>1. ResolutionInit => ResolutionInv
    BY FreshInv
  <1>2. ResolutionInv /\ [ResolutionNext]_resolutionVars => ResolutionInv'
    BY StepInv
  <1>3. ASSUME ResolutionInv, [ResolutionNext]_resolutionVars
        PROVE  [Ends => Agrees]_resolutionVars
    <2> SUFFICES ASSUME Ends, ResolutionNext
                 PROVE  Agrees
      BY <1>3
    <2>1. Generate
      BY DEF ResolutionNext, ChangeEnvironment, InstallOrRemove, DeleteBuildDirectory, Configure,
             FindPackage, BuildBoost, BuildDependency, RecipeFails, NotFound, InvalidSource,
             Incomplete, Fail, Idle
    <2>2. ~Idle /\ Same
      BY DEF Idle, Same
    <2>3. Settled({})
      BY <1>3, <2>1, GenerateInv
    <2> HIDE DEF Ends
    <2> QED BY <1>3, <2>2, <2>3, Repeats
  <1> QED BY <1>1, <1>2, <1>3, PTL DEF ResolutionSpec, ReconfigureRepeats

-----------------------------------------------------------------------------
(***************************************************************************)
(* Hashers: a tuple is a row, and the width of a number does not matter    *)
(***************************************************************************)
Velox == {"veloxTuple", "veloxRow"}

\* The hash of an element, and what it makes, as number k, of the hash so far.
HashOf(f, e) == IF f \in Velox THEN V!hasher(e) ELSE P!hasher(e)

Mixed(f, k, h, x) ==
  IF f \in Velox THEN IF k = 1 THEN x ELSE V!hashMix(h, x) ELSE P!combineHash(h, x)

\* Calls that should give one answer: of functions that do the same, on elements
\* whose hashes are the same.
Alike ==
  /\ <<calls[1].function, calls[2].function>> \in
       {<<"veloxTuple", "veloxRow">>, <<"prestoTuple", "prestoRow">>, <<"prestoArray", "prestoArray">>}
  /\ Len(Other) = Len(One)
  /\ \A k \in 1 .. Len(One) : HashOf(calls[2].function, Other[k]) = HashOf(calls[1].function, One[k])

\* The hashes after each of the first n elements, from the start.
Hashes(hs, n) ==
  /\ hs[0] = StartOf(calls[1].function)
  /\ \A k \in 1 .. n :
       hs[k] = Mixed(calls[1].function, k, hs[k - 1], HashOf(calls[1].function, One[k]))

Reached(hs) == index \in 1 .. Len(One) + 1 /\ hash = hs[index - 1]

\* The first call, the second one, and afterwards.
FirstCall ==
  /\ answers = <<>>
  /\ \/ stage = "call" /\ index = 1 /\ isFirst = TRUE
     \/ /\ stage = "loop"
        /\ calls[1].function = "veloxTuple" => isFirst = (index = 1)
        /\ \E hs : Hashes(hs, index - 1) /\ Reached(hs)

SecondCall ==
  \E hs : /\ Hashes(hs, Len(One)) /\ answers = <<hs[Len(One)]>>
          /\ \/ stage = "call" /\ index = 1
             \/ /\ stage = "loop" /\ Reached(hs)
                /\ calls[2].function \in {"veloxRow", "prestoRow"} => index > 1

BothAnswered == stage = "returned" /\ SameAnswer

HashersInv ==
  /\ calls \in Pairs
  /\ Alike => FirstCall \/ SecondCall \/ BothAnswered

-----------------------------------------------------------------------------
\* No step changes the calls.
LEMMA CallsStay == [HashersNext]_hashersVars => calls' = calls
  BY DEF HashersNext, hashersVars, Begin, BeginRow, VeloxArray, VeloxRow, VeloxTuple,
         VeloxMapKeys, VeloxMapValues, PrestoArray, PrestoMap, PrestoRow, Return, Returned, Iterate

\* What calls that should give one answer are.
LEMMA Functions ==
  ASSUME calls \in Pairs, Alike
  PROVE  /\ Len(One) \in Nat /\ Len(Other) = Len(One)
         /\ \/ calls[1].function = "veloxTuple" /\ calls[2].function = "veloxRow" /\ Len(One) > 0
            \/ calls[1].function = "prestoTuple" /\ calls[2].function = "prestoRow" /\ Len(One) > 0
            \/ calls[1].function = "prestoArray" /\ calls[2].function = "prestoArray"
  <1>1. \/ calls[1].function = "veloxTuple" /\ calls[2].function = "veloxRow"
        \/ calls[1].function = "prestoTuple" /\ calls[2].function = "prestoRow"
        \/ calls[1].function = "prestoArray" /\ calls[2].function = "prestoArray"
    BY DEF Alike
  <1>2. /\ Len(calls[1].elements) \in Nat
        /\ calls[2].function \in {"veloxRow", "prestoRow"} => Len(calls[2].elements) > 0
    BY PairsAssumption DEF PairsAssumption
  <1>3. Len(Other) = Len(One)
    BY DEF Alike
  <1> QED BY <1>1, <1>2, <1>3 DEF One, Other

\* Which steps a call has: it begins, takes an element, or returns.
LEMMA StepsOf ==
  ASSUME HashersNext,
         function \in {"veloxTuple", "veloxRow", "prestoTuple", "prestoRow", "prestoArray"}
  PROVE  /\ stage = "call" => \/ Begin /\ function \notin {"veloxRow", "prestoRow"}
                              \/ BeginRow /\ function \in {"veloxRow", "prestoRow"}
         /\ stage = "loop" /\ ~More => Return
         /\ stage = "loop" /\ More =>
              /\ hash' = IF function = "veloxTuple" /\ isFirst THEN V!hasher(elements[index])
                         ELSE IF function \in Velox THEN V!hashMix(hash, V!hasher(elements[index]))
                         ELSE P!combineHash(hash, P!hasher(elements[index]))
              /\ index' = index + 1 /\ stage' = "loop" /\ answers' = answers
              /\ function = "veloxTuple" => isFirst' = FALSE
  <1>1. stage = "call" => \/ Begin /\ function \notin {"veloxRow", "prestoRow"}
                          \/ BeginRow /\ function \in {"veloxRow", "prestoRow"}
    BY DEF HashersNext, Begin, BeginRow, VeloxArray, VeloxRow, VeloxTuple,
         VeloxMapKeys, VeloxMapValues, PrestoArray, PrestoMap, PrestoRow, Return, Returned, Iterate
  <1>2. stage = "loop" /\ ~More => Return
    BY DEF HashersNext, Begin, BeginRow, VeloxArray, VeloxRow, VeloxTuple,
         VeloxMapKeys, VeloxMapValues, PrestoArray, PrestoMap, PrestoRow, Return, Returned, Iterate
  <1>3. ASSUME stage = "loop", More
        PROVE  \/ VeloxTuple /\ function = "veloxTuple"
               \/ VeloxRow /\ function = "veloxRow"
               \/ PrestoArray /\ function = "prestoArray"
               \/ PrestoRow /\ function \in {"prestoTuple", "prestoRow"}
    BY <1>3 DEF HashersNext, Begin, BeginRow, VeloxArray, VeloxRow, VeloxTuple,
         VeloxMapKeys, VeloxMapValues, PrestoArray, PrestoMap, PrestoRow, Return, Returned, Iterate
  <1>4. CASE VeloxTuple /\ function = "veloxTuple"
    BY <1>1, <1>2, <1>4 DEF VeloxTuple, Iterate, Velox
  <1>5. CASE VeloxRow /\ function = "veloxRow"
    BY <1>1, <1>2, <1>5 DEF VeloxRow, Iterate, Velox
  <1>6. CASE PrestoArray /\ function = "prestoArray"
    BY <1>1, <1>2, <1>6 DEF PrestoArray, Iterate, Velox
  <1>7. CASE PrestoRow /\ function \in {"prestoTuple", "prestoRow"}
    BY <1>1, <1>2, <1>7 DEF PrestoRow, Iterate, Velox
  <1> QED BY <1>1, <1>2, <1>3, <1>4, <1>5, <1>6, <1>7

\* One more hash, of the next element.
LEMMA HashedOneMore ==
  ASSUME NEW hs, NEW n \in Nat, Hashes(hs, n), NEW h, calls' = calls,
         h = Mixed(calls[1].function, n + 1, hs[n], HashOf(calls[1].function, One[n + 1]))
  PROVE  \E longer : Hashes(longer, n + 1)' /\ longer[n + 1] = h
  <1>1. PICK longer : longer = [k \in 0 .. n + 1 |-> IF k = n + 1 THEN h ELSE hs[k]]
    OBVIOUS
  <1>2. longer[n + 1] = h /\ \A k \in 0 .. n : longer[k] = hs[k]
    BY <1>1
  <1>3. One' = One
    BY DEF One
  <1>4. longer[0] = StartOf(calls[1].function)
    BY <1>2 DEF Hashes
  <1>5. ASSUME NEW k \in 1 .. n + 1
        PROVE  longer[k] = Mixed(calls[1].function, k, longer[k - 1], HashOf(calls[1].function, One[k]))
    <2>1. CASE k = n + 1
      <3>1. longer[k - 1] = hs[n]
        BY <1>2, <2>1
      <3> QED BY <1>2, <2>1, <3>1
    <2>2. CASE k # n + 1
      <3>1. k \in 1 .. n /\ longer[k] = hs[k] /\ longer[k - 1] = hs[k - 1]
        BY <1>2, <2>2
      <3> QED BY <3>1 DEF Hashes
    <2> QED BY <2>1, <2>2
  <1> QED BY <1>2, <1>3, <1>4, <1>5 DEF Hashes

\* The first call begins, goes on, or returns the hash of all elements.
LEMMA FirstInv ==
  ASSUME calls \in Pairs, Alike, FirstCall, HashersNext
  PROVE  FirstCall' \/ SecondCall'
  <1> DEFINE f == calls[1].function
  <1>1. /\ Len(answers) + 1 = 1 /\ function = f /\ elements = One /\ answers = <<>>
        /\ Len(One) \in Nat
        /\ f \in {"veloxTuple", "prestoTuple", "prestoArray"}
    BY Functions DEF FirstCall, function, elements, One
  <1>2. calls' = calls /\ One' = One
    BY CallsStay DEF One
  <1>3. CASE stage = "call" /\ index = 1 /\ isFirst = TRUE
    <2>1. Begin
      BY <1>1, <1>3, StepsOf
    <2>2. stage' = "loop" /\ answers' = answers /\ index' = 1 /\ isFirst' = TRUE
          /\ hash' = StartOf(f)
      BY <1>1, <1>3, <2>1 DEF Begin
    <2>3. PICK hs : hs[0] = hash'
      <3>1. [k \in {0} |-> hash'][0] = hash'
        OBVIOUS
      <3> QED BY <3>1
    <2>4. index' - 1 = 0 /\ 1 .. 0 = {} /\ index' \in 1 .. Len(One) + 1
      BY <1>1, <2>2
    <2>5. Hashes(hs, index - 1)' /\ Reached(hs)'
      BY <1>2, <2>2, <2>3, <2>4 DEF Hashes, Reached
    <2> QED BY <1>1, <2>2, <2>5 DEF FirstCall
  <1>4. CASE stage = "loop" /\ (f = "veloxTuple" => isFirst = (index = 1))
             /\ \E hs : Hashes(hs, index - 1) /\ Reached(hs)
    <2>1. PICK hs : Hashes(hs, index - 1) /\ Reached(hs)
      BY <1>4
    <2>2. index \in 1 .. Len(One) + 1 /\ hash = hs[index - 1]
      BY <2>1 DEF Reached
    <2>3. PICK n \in Nat : n = index - 1
      BY <1>1, <2>2
    <2>4. index = n + 1 /\ hash = hs[n] /\ Hashes(hs, n)
      BY <1>1, <2>1, <2>2, <2>3
    <2>5. CASE More
      <3>1. n + 1 \in 1 .. Len(One)
        BY <1>1, <2>2, <2>4, <2>5 DEF More
      <3>2. /\ hash' = IF f = "veloxTuple" /\ isFirst THEN V!hasher(One[index])
                       ELSE IF f \in Velox THEN V!hashMix(hash, V!hasher(One[index]))
                       ELSE P!combineHash(hash, P!hasher(One[index]))
            /\ index' = index + 1 /\ stage' = "loop" /\ answers' = answers
            /\ f = "veloxTuple" => isFirst' = FALSE
        BY <1>1, <1>4, <2>5, StepsOf
      <3>3. hash' = Mixed(f, n + 1, hs[n], HashOf(f, One[n + 1]))
        <4>1. f \in Velox <=> f = "veloxTuple"
          BY <1>1 DEF Velox
        <4>2. f = "veloxTuple" => (isFirst <=> n + 1 = 1)
          BY <1>4, <2>4
        <4> QED BY <2>4, <3>2, <4>1, <4>2 DEF Mixed, HashOf
      <3>4. PICK longer : Hashes(longer, n + 1)' /\ longer[n + 1] = hash'
        BY <1>2, <2>4, <3>3, HashedOneMore
      <3>5. index' - 1 = n + 1 /\ index' \in 1 .. Len(One) + 1 /\ index' # 1
        BY <1>1, <2>4, <3>1, <3>2
      <3>6. Hashes(longer, index - 1)' /\ Reached(longer)'
        BY <1>2, <3>4, <3>5 DEF Reached
      <3>7. calls'[1].function = "veloxTuple" => isFirst' = (index' = 1)
        BY <1>2, <3>2, <3>5
      <3> QED BY <1>1, <3>2, <3>6, <3>7 DEF FirstCall
    <2>6. CASE ~More
      <3>1. n = Len(One)
        BY <1>1, <2>2, <2>4, <2>6 DEF More
      <3>2. Return
        BY <1>1, <1>4, <2>6, StepsOf
      <3>3. answers' = <<hash>> /\ stage' = "call" /\ index' = 1
        <4>1. answers' = Append(answers, hash) /\ index' = 1
              /\ stage' = IF Len(answers') = 2 THEN "returned" ELSE "call"
          BY <3>2 DEF Return
        <4>2. Append(answers, hash) = <<hash>> /\ Len(<<hash>>) = 1
          BY <1>1
        <4> QED BY <4>1, <4>2
      <3>4. Hashes(hs, Len(One))'
        BY <1>2, <2>4, <3>1 DEF Hashes
      <3>5. answers' = <<hs[Len(One')]>>
        BY <1>2, <2>4, <3>1, <3>3
      <3> QED BY <3>3, <3>4, <3>5 DEF SecondCall
    <2> QED BY <2>5, <2>6
  <1> QED BY <1>3, <1>4 DEF FirstCall

\* The second answer is appended to the first.
LEMMA TwoAnswers ==
  ASSUME NEW h, NEW x
  PROVE  Append(<<h>>, x) = <<h, x>> /\ Len(<<h, x>>) = 2
  <1> DEFINE S == {h, x}
  <1>1. /\ h \in S /\ x \in S /\ <<h>> \in Seq(S) /\ <<h, x>> \in Seq(S)
        /\ Len(<<h, x>>) = 2 /\ Len(<<h>>) = 1
    OBVIOUS
  <1> HIDE DEF S
  <1>2. /\ Append(<<h>>, x) \in Seq(S) /\ Len(Append(<<h>>, x)) = Len(<<h>>) + 1
        /\ \A k \in 1 .. Len(<<h>>) : Append(<<h>>, x)[k] = <<h>>[k]
        /\ Append(<<h>>, x)[Len(<<h>>) + 1] = x
    <2>1. ASSUME NEW q \in Seq(S)
          PROVE  /\ Append(q, x) \in Seq(S) /\ Len(Append(q, x)) = Len(q) + 1
                 /\ \A k \in 1 .. Len(q) : Append(q, x)[k] = q[k]
                 /\ Append(q, x)[Len(q) + 1] = x
      BY <1>1, <2>1, AppendProperties
    <2> QED BY <1>1, <2>1, Zenon
  <1>3. Len(Append(<<h>>, x)) = 2 /\ Append(<<h>>, x)[1] = h /\ Append(<<h>>, x)[2] = x
    <2>1. 1 \in 1 .. 1 /\ 1 + 1 = 2 /\ <<h>>[1] = h
      OBVIOUS
    <2> QED BY <1>1, <1>2, <2>1, Zenon
  <1>4. \A k \in 1 .. 2 : Append(<<h>>, x)[k] = <<h, x>>[k]
    <2>1. <<h, x>>[1] = h /\ <<h, x>>[2] = x /\ \A k \in 1 .. 2 : k = 1 \/ k = 2
      OBVIOUS
    <2> QED BY <1>3, <2>1, Zenon
  <1> QED BY <1>1, <1>2, <1>3, <1>4, SeqEqual, Zenon

\* The second call makes the hashes the first one has made.
LEMMA SecondInv ==
  ASSUME calls \in Pairs, Alike, SecondCall, HashersNext
  PROVE  SecondCall' \/ BothAnswered'
  <1> DEFINE f == calls[2].function
             g == calls[1].function
  <1>1. PICK hs : /\ Hashes(hs, Len(One)) /\ answers = <<hs[Len(One)]>>
                  /\ \/ stage = "call" /\ index = 1
                     \/ /\ stage = "loop" /\ Reached(hs)
                        /\ f \in {"veloxRow", "prestoRow"} => index > 1
    BY DEF SecondCall
  <1>2. Len(answers) + 1 = 2 /\ function = f /\ elements = Other
    <2>1. Len(answers) = 1
      BY <1>1
    <2> QED BY <2>1 DEF function, elements, Other
  <1>3. calls' = calls /\ One' = One
    BY CallsStay DEF One
  <1>4. /\ Len(One) \in Nat /\ Len(Other) = Len(One)
        /\ f \in {"veloxRow", "prestoRow", "prestoArray"}
        /\ (f \in Velox <=> g \in Velox)
        /\ f = "prestoRow" => g = "prestoTuple"
        /\ f = "prestoArray" => g = "prestoArray"
        /\ f \in {"veloxRow", "prestoRow"} => Len(One) > 0
    BY Functions DEF Velox
  <1>5. Hashes(hs, Len(One))' /\ answers = <<hs[Len(One')]>>
    BY <1>1, <1>3 DEF Hashes
  <1>6. /\ hs[0] = StartOf(g)
        /\ \A k \in 1 .. Len(One) : hs[k] = Mixed(g, k, hs[k - 1], HashOf(f, Other[k]))
    <2>1. \A k \in 1 .. Len(One) : HashOf(f, Other[k]) = HashOf(g, One[k])
      BY DEF Alike
    <2> QED BY <1>1, <2>1 DEF Hashes
  <1>7. CASE stage = "call" /\ index = 1
    <2>1. CASE f = "prestoArray"
      <3>1. Begin
        BY <1>2, <1>7, <2>1, StepsOf
      <3>2. hash' = StartOf(f) /\ stage' = "loop" /\ index' = 1 /\ answers' = answers
        BY <1>2, <1>7, <2>1, <3>1 DEF Begin
      <3>3. Reached(hs)'
        BY <1>3, <1>4, <1>6, <2>1, <3>2 DEF Reached
      <3> QED BY <1>3, <1>5, <2>1, <3>2, <3>3 DEF SecondCall
    <2>2. CASE f \in {"veloxRow", "prestoRow"}
      <3>1. BeginRow
        BY <1>2, <1>7, <2>2, StepsOf
      <3>2. /\ hash' = IF f \in Velox THEN V!hasher(Other[1])
                       ELSE P!combineHash(Word(1, 8), P!hasher(Other[1]))
            /\ stage' = "loop" /\ index' = 2 /\ answers' = answers
        BY <1>2, <2>2, <3>1 DEF BeginRow, Velox
      <3>3. hs[1] = Mixed(g, 1, hs[0], HashOf(f, Other[1])) /\ 2 \in 1 .. Len(One) + 1
        <4>1. 1 \in 1 .. Len(One) /\ 1 - 1 = 0 /\ 2 \in 1 .. Len(One) + 1
          BY <1>4, <2>2
        <4> QED BY <1>6, <4>1
      <3>4. hash' = hs[1]
        <4>1. CASE f \in Velox
          BY <1>4, <3>2, <3>3, <4>1 DEF Mixed, HashOf
        <4>2. CASE f \notin Velox
          <5>1. f = "prestoRow" /\ g = "prestoTuple" /\ hs[0] = Word(1, 8)
            BY <1>4, <1>6, <2>2, <4>2 DEF StartOf, Velox
          <5> QED BY <1>4, <3>2, <3>3, <4>2, <5>1 DEF Mixed, HashOf
        <4> QED BY <4>1, <4>2
      <3>5. Reached(hs)'
        BY <1>3, <3>2, <3>3, <3>4 DEF Reached
      <3> QED BY <1>3, <1>5, <3>2, <3>5 DEF SecondCall
    <2> QED BY <1>4, <2>1, <2>2
  <1>8. CASE stage = "loop" /\ Reached(hs) /\ (f \in {"veloxRow", "prestoRow"} => index > 1)
    <2>1. index \in 1 .. Len(One) + 1 /\ hash = hs[index - 1]
      BY <1>8 DEF Reached
    <2>2. CASE More
      <3>1. index \in 1 .. Len(One)
        BY <1>2, <1>4, <2>1, <2>2 DEF More
      <3>2. /\ hash' = IF f \in Velox THEN V!hashMix(hash, V!hasher(Other[index]))
                       ELSE P!combineHash(hash, P!hasher(Other[index]))
            /\ index' = index + 1 /\ stage' = "loop" /\ answers' = answers
        BY <1>2, <1>4, <1>8, <2>2, StepsOf
      <3>3. hash' = hs[index]
        <4>1. hs[index] = Mixed(g, index, hash, HashOf(f, Other[index]))
          BY <1>6, <2>1, <3>1
        <4>2. f \in Velox => index # 1
          BY <1>4, <1>8, <3>1 DEF Velox
        <4> QED BY <1>4, <3>2, <4>1, <4>2 DEF Mixed, HashOf
      <3>4. index' \in 1 .. Len(One) + 1 /\ index' - 1 = index /\ index' > 1
        BY <1>4, <3>1, <3>2
      <3>5. Reached(hs)'
        BY <1>3, <3>3, <3>4 DEF Reached
      <3> QED BY <1>3, <1>5, <3>2, <3>4, <3>5 DEF SecondCall
    <2>3. CASE ~More
      <3>1. index = Len(One) + 1
        BY <1>2, <1>4, <2>1, <2>3 DEF More
      <3>2. hash = hs[Len(One)]
        BY <1>4, <2>1, <3>1
      <3>3. Return
        BY <1>2, <1>4, <1>8, <2>3, StepsOf
      <3>4. answers' = <<hash, hash>> /\ stage' = "returned"
        <4>1. answers' = Append(answers, hash) /\ stage' = IF Len(answers') = 2 THEN "returned" ELSE "call"
          BY <3>3 DEF Return
        <4>2. answers = <<hash>>
          BY <1>1, <3>2
        <4>3. Append(<<hash>>, hash) = <<hash, hash>> /\ Len(<<hash, hash>>) = 2
          BY TwoAnswers
        <4> QED BY <4>1, <4>2, <4>3
      <3> QED BY <3>4 DEF BothAnswered, SameAnswer
    <2> QED BY <2>2, <2>3
  <1> QED BY <1>1, <1>7, <1>8

\* When both have returned, the answers stay.
LEMMA AnsweredInv ==
  ASSUME BothAnswered, HashersNext
  PROVE  BothAnswered'
  <1>1. Returned
    BY DEF BothAnswered, HashersNext, Begin, BeginRow, VeloxArray, VeloxRow, VeloxTuple,
       VeloxMapKeys, VeloxMapValues, PrestoArray, PrestoMap, PrestoRow, Return, Returned, Iterate
  <1> QED BY <1>1 DEF BothAnswered, SameAnswer, Returned, hashersVars

\* Every step keeps the invariant.
LEMMA HashersStep == HashersInv /\ [HashersNext]_hashersVars => HashersInv'
  <1> SUFFICES ASSUME HashersInv, [HashersNext]_hashersVars
               PROVE  HashersInv'
    OBVIOUS
  <1>1. calls' = calls
    BY CallsStay
  <1>2. calls' \in Pairs /\ (Alike' <=> Alike)
    BY <1>1 DEF HashersInv, Alike, One, Other
  <1>3. CASE HashersNext
    BY <1>2, <1>3, FirstInv, SecondInv, AnsweredInv DEF HashersInv
  <1>4. CASE UNCHANGED hashersVars
    BY <1>2, <1>4 DEF HashersInv, hashersVars, FirstCall, SecondCall, BothAnswered,
       Reached, Hashes, One, SameAnswer
  <1> QED BY <1>3, <1>4

\* What the invariant says in the end.
LEMMA AlikeAnswers == HashersInv /\ stage = "returned" /\ Alike => SameAnswer
  BY DEF HashersInv, FirstCall, SecondCall, BothAnswered

-----------------------------------------------------------------------------
\* Whatever the elements are, a tuple hashes as the row of them.
THEOREM TuplesAreRows == HashersSpec => []TupleIsRow
  <1>1. HashersInit => HashersInv
    BY DEF HashersInit, HashersInv, FirstCall
  <1>2. HashersInv => TupleIsRow
    <2> SUFFICES ASSUME HashersInv, stage = "returned", One = Other,
                        <<calls[1].function, calls[2].function>> \in
                          {<<"veloxTuple", "veloxRow">>, <<"prestoTuple", "prestoRow">>}
                 PROVE  SameAnswer
      BY DEF TupleIsRow
    <2>1. calls[1].function \in Velox <=> calls[2].function \in Velox
      BY DEF Velox
    <2>2. Alike
      BY <2>1 DEF Alike, HashOf
    <2> QED BY <2>2, AlikeAnswers
  <1> QED BY <1>1, <1>2, HashersStep, PTL DEF HashersSpec

-----------------------------------------------------------------------------
\* A word and as many bytes c as it has less than n.
Padded(x, n, c) == x \o [k \in 1 .. n - Len(x) |-> c]

\* What an integer is widened with.
Filler(v) == IF Negative(v) THEN 255 ELSE 0

\* A C++ integer of at most 64 bits.
IsNumber(v) ==
  /\ IsInteger(v)
  /\ v.bytes \in Seq(0 .. 255) /\ Len(v.bytes) \in {1, 2, 4, 8}

\* Those widths are at most 32 bits or all of the 64.
LEMMA Widths ==
  ASSUME NEW n \in {1, 2, 4, 8}
  PROVE  n <= 8 /\ (n <= 4 \/ (n = 8 /\ ~(n <= 4)))
  OBVIOUS

\* The bytes of a padded word.
LEMMA PaddedBytes ==
  ASSUME NEW B, NEW x \in Seq(B), NEW n \in Nat, Len(x) <= n, NEW c \in B
  PROVE  /\ Padded(x, n, c) \in Seq(B) /\ Len(Padded(x, n, c)) = n
         /\ \A k \in 1 .. n : Padded(x, n, c)[k] = IF k <= Len(x) THEN x[k] ELSE c
  <1> DEFINE m == n - Len(x)
             p == [k \in 1 .. m |-> c]
  <1>1. m \in Nat /\ Len(x) \in Nat /\ Len(x) + m = n
    OBVIOUS
  <1>2. c \in B /\ x \in Seq(B) /\ Padded(x, n, c) = x \o p
    BY DEF Padded
  <1> HIDE DEF m
  <1>3. p \in Seq(B)
    BY <1>1, <1>2, IsASeq
  <1>4. Len(p) = m /\ \A k \in 1 .. m : p[k] = c
    BY <1>1, <1>3, LenProperties
  <1> HIDE DEF p
  <1>5. x \o p \in Seq(B) /\ Len(x \o p) = Len(x) + Len(p)
        /\ \A k \in 1 .. Len(x) + Len(p) : (x \o p)[k] = IF k <= Len(x) THEN x[k] ELSE p[k - Len(x)]
    BY <1>2, <1>3, ConcatProperties
  <1>6. ASSUME NEW k \in 1 .. n
        PROVE  (x \o p)[k] = IF k <= Len(x) THEN x[k] ELSE c
    <2>1. (x \o p)[k] = IF k <= Len(x) THEN x[k] ELSE p[k - Len(x)]
      BY <1>1, <1>4, <1>5
    <2>2. ~(k <= Len(x)) => k - Len(x) \in 1 .. m
      BY <1>1
    <2> QED BY <1>4, <2>1, <2>2
  <1> QED BY <1>1, <1>2, <1>4, <1>5, <1>6

\* The same of the words the hashers pad, whose widths are numbers.
LEMMA PaddedWord ==
  ASSUME NEW x \in Seq(0 .. 255), NEW n \in {4, 8}, Len(x) <= n, NEW c \in {0, 255}
  PROVE  /\ Padded(x, n, c) \in Seq(0 .. 255) /\ Len(Padded(x, n, c)) = n
         /\ \A k \in 1 .. n : Padded(x, n, c)[k] = IF k <= Len(x) THEN x[k] ELSE c
  <1> DEFINE B == 0 .. 255
  <1>1. n \in Nat /\ c \in B /\ x \in Seq(B)
    OBVIOUS
  <1> HIDE DEF B
  <1>2. /\ Padded(x, n, c) \in Seq(B) /\ Len(Padded(x, n, c)) = n
        /\ \A k \in 1 .. n : Padded(x, n, c)[k] = IF k <= Len(x) THEN x[k] ELSE c
    BY <1>1, PaddedBytes
  <1> QED BY <1>2 DEF B

\* The conversions pad.
LEMMA Conversions ==
  ASSUME NEW v, IsInteger(v)
  PROVE  /\ Widened(v) = Padded(v.bytes, 8, Filler(v))
         /\ P!AsInt32(v) = Padded(v.bytes, 4, Filler(v))
         /\ \A x : P!ZeroExtended(x, 8) = Padded(x, 8, 0)
  BY DEF IsInteger, Widened, Negative, Filler, Padded, P!AsInt32, ZeroExtended, SignExtended, ZeroWord,
         P!ZeroExtended, P!SignExtended, P!ZeroWord

\* What an integer's hash is computed from.
Hashed(v) == IF Len(v.bytes) <= 4 THEN P!AsInt32(v) ELSE v.bytes

\* Only that, widened with zeros, matters.
LEMMA HashOfNumber ==
  ASSUME NEW v, IsNumber(v), NEW w, IsNumber(w),
         P!ZeroExtended(Hashed(v), 8) = P!ZeroExtended(Hashed(w), 8)
  PROVE  P!hasher(v) = P!hasher(w)
  <1>1. ASSUME NEW u, IsNumber(u)
        PROVE  P!hasher(u) = P!hashInt(Hashed(u))
    <2>0. Len(u.bytes) \in {1, 2, 4, 8}
      BY <1>1 DEF IsNumber
    <2>1. Len(u.bytes) <= 4 \/ (Len(u.bytes) = 8 /\ ~(Len(u.bytes) <= 4))
      BY <2>0, Widths
    <2>2. u.type \in {"signed", "unsigned"}
      BY <1>1 DEF IsNumber, IsInteger
    <2>3. P!hasher(u) = P!integral_hasher(u)
      BY <2>2 DEF P!hasher
    <2> QED BY <2>1, <2>3 DEF P!integral_hasher, Hashed
  <1>2. P!hashInt(Hashed(v)) = P!hashInt(Hashed(w))
    BY DEF P!hashInt
  <1> QED BY <1>1, <1>2

\* It is the integer widened with its sign, except that a narrow negative one
\* has zeros in its upper half.
LEMMA HashedBytes ==
  ASSUME NEW v, IsNumber(v)
  PROVE  /\ P!ZeroExtended(Hashed(v), 8) \in Seq(0 .. 255) /\ Len(P!ZeroExtended(Hashed(v), 8)) = 8
         /\ \A k \in 1 .. 8 :
              P!ZeroExtended(Hashed(v), 8)[k] =
                IF k > 4 /\ Negative(v) /\ Len(v.bytes) # 8 THEN 0 ELSE Widened(v)[k]
  <1> DEFINE x == v.bytes
             c == Filler(v)
  <1>1. /\ x \in Seq(0 .. 255) /\ Len(x) \in {1, 2, 4, 8} /\ c \in {0, 255}
        /\ Widened(v) = Padded(x, 8, c) /\ P!AsInt32(v) = Padded(x, 4, c)
        /\ P!ZeroExtended(Hashed(v), 8) = Padded(Hashed(v), 8, 0)
        /\ c = IF Negative(v) THEN 255 ELSE 0
    BY Conversions DEF IsNumber, Filler
  <1> HIDE DEF x, c
  <1>0. Len(x) <= 8 /\ (Len(x) <= 4 \/ Len(x) = 8)
    BY <1>1, Widths
  <1>2. \A k \in 1 .. 8 : Widened(v)[k] = IF k <= Len(x) THEN x[k] ELSE c
    <2>1. /\ Padded(x, 8, c) \in Seq(0 .. 255) /\ Len(Padded(x, 8, c)) = 8
          /\ \A k \in 1 .. 8 : Padded(x, 8, c)[k] = IF k <= Len(x) THEN x[k] ELSE c
      <3>1. x \in Seq(0 .. 255) /\ c \in {0, 255} /\ Len(x) <= 8 /\ 8 \in {4, 8}
        BY <1>0, <1>1
      <3> QED BY <3>1, PaddedWord, SMTT(20)
    <2> QED BY <1>1, <2>1, SMTT(20)
  <1>3. CASE Len(x) <= 4
    <2>1. Hashed(v) = Padded(x, 4, c)
      BY <1>1, <1>3 DEF Hashed, x
    <2>2. /\ Padded(x, 4, c) \in Seq(0 .. 255) /\ Len(Padded(x, 4, c)) = 4
          /\ \A k \in 1 .. 4 : Padded(x, 4, c)[k] = IF k <= Len(x) THEN x[k] ELSE c
      <3>1. x \in Seq(0 .. 255) /\ c \in {0, 255} /\ Len(x) <= 4 /\ 4 \in {4, 8}
        BY <1>1, <1>3
      <3> QED BY <3>1, PaddedWord
    <2> DEFINE y == Padded(x, 4, c)
    <2> HIDE DEF y
    <2>3. y \in Seq(0 .. 255) /\ Len(y) = 4 /\ \A k \in 1 .. 4 : y[k] = Widened(v)[k]
      BY <1>2, <2>2 DEF y
    <2>4. /\ Padded(y, 8, 0) \in Seq(0 .. 255) /\ Len(Padded(y, 8, 0)) = 8
          /\ \A k \in 1 .. 8 : Padded(y, 8, 0)[k] = IF k <= 4 THEN y[k] ELSE 0
      <3>1. y \in Seq(0 .. 255) /\ Len(y) <= 8 /\ 8 \in {4, 8} /\ 0 \in {0, 255}
        BY <2>3
      <3>2. /\ Padded(y, 8, 0) \in Seq(0 .. 255) /\ Len(Padded(y, 8, 0)) = 8
            /\ \A k \in 1 .. 8 : Padded(y, 8, 0)[k] = IF k <= Len(y) THEN y[k] ELSE 0
        BY <3>1, PaddedWord
      <3> QED BY <2>3, <3>2
    <2>5. P!ZeroExtended(Hashed(v), 8) = Padded(y, 8, 0)
      BY <1>1, <2>1 DEF y
    <2>6. ASSUME NEW k \in 1 .. 8
          PROVE  Padded(y, 8, 0)[k] = IF k > 4 /\ Negative(v) /\ Len(x) # 8 THEN 0 ELSE Widened(v)[k]
      <3>1. CASE k <= 4
        BY <2>3, <2>4, <3>1
      <3>2. CASE k > 4
        BY <1>1, <1>2, <1>3, <2>4, <3>2
      <3> QED BY <3>1, <3>2
    <2> QED BY <2>4, <2>5, <2>6 DEF x
  <1>4. CASE Len(x) = 8
    <2>1. Hashed(v) = x
      BY <1>4 DEF Hashed, x
    <2>2. /\ Padded(x, 8, 0) \in Seq(0 .. 255) /\ Len(Padded(x, 8, 0)) = 8
          /\ \A k \in 1 .. 8 : Padded(x, 8, 0)[k] = IF k <= Len(x) THEN x[k] ELSE 0
      BY <1>0, <1>1, PaddedWord
    <2>3. \A k \in 1 .. 8 : Padded(x, 8, 0)[k] = Widened(v)[k]
      BY <1>2, <1>4, <2>2
    <2> QED BY <1>1, <1>4, <2>1, <2>2, <2>3 DEF x
  <1> QED BY <1>0, <1>3, <1>4

\* The same number in two widths has one hash, unless it is negative and only
\* one of them has 64 bits.
LEMMA SameNumberHashes ==
  ASSUME NEW v, IsNumber(v), NEW w, IsNumber(w),
         Widened(v) = Widened(w), Negative(v) = Negative(w),
         ~(Negative(v) /\ (Len(v.bytes) = 8) # (Len(w.bytes) = 8))
  PROVE  P!hasher(v) = P!hasher(w)
  <1> DEFINE x == P!ZeroExtended(Hashed(v), 8)
             y == P!ZeroExtended(Hashed(w), 8)
  <1>1. x \in Seq(0 .. 255) /\ Len(x) = 8 /\ y \in Seq(0 .. 255) /\ Len(y) = 8
    BY HashedBytes
  <1>2. /\ \A k \in 1 .. 8 : x[k] = IF k > 4 /\ Negative(v) /\ Len(v.bytes) # 8 THEN 0 ELSE Widened(v)[k]
        /\ \A k \in 1 .. 8 : y[k] = IF k > 4 /\ Negative(w) /\ Len(w.bytes) # 8 THEN 0 ELSE Widened(w)[k]
    BY HashedBytes
  <1> HIDE DEF x, y
  <1>3. Negative(v) => (Len(v.bytes) = 8 <=> Len(w.bytes) = 8)
    OBVIOUS
  <1>4. \A k \in 1 .. 8 : x[k] = y[k]
    BY <1>2, <1>3
  <1>5. x = y
    BY <1>1, <1>4, SeqEqual
  <1> QED BY <1>5, HashOfNumber DEF x, y

\* In Presto the same numbers have one hash in 8, 16 and 32 bits, and in 64 bits
\* if none is negative.
THEOREM WidthsDoNotMatter == HashersSpec => []WidthsAgree
  <1>1. HashersInit => HashersInv
    BY DEF HashersInit, HashersInv, FirstCall
  <1>2. HashersInv => WidthsAgree
    <2> SUFFICES ASSUME HashersInv, stage = "returned", Of("prestoArray"), SameNumbers(One, Other),
                        \A k \in DOMAIN One :
                          ~(Negative(One[k]) /\ (Len(One[k].bytes) = 8) # (Len(Other[k].bytes) = 8))
                 PROVE  SameAnswer
      BY DEF WidthsAgree
    <2>1. /\ calls[1].function = "prestoArray" /\ calls[2].function = "prestoArray"
          /\ Len(One) = Len(Other)
      BY DEF Of, SameNumbers, SameBits
    <2>2. DOMAIN One = 1 .. Len(One)
      BY PairsAssumption DEF PairsAssumption, HashersInv, One
    <2>3. ASSUME NEW k \in 1 .. Len(One)
          PROVE  P!hasher(One[k]) = P!hasher(Other[k])
      <3>1. /\ IsInteger(One[k]) /\ ~IsWide(One[k]) /\ IsInteger(Other[k]) /\ ~IsWide(Other[k])
            /\ Widened(One[k]) = Widened(Other[k]) /\ Negative(One[k]) = Negative(Other[k])
        BY <2>2 DEF SameNumbers, SameBits
      <3>2. /\ One[k].bytes \in Seq(0 .. 255) /\ Len(One[k].bytes) \in {1, 2, 4, 8, 16}
            /\ Other[k].bytes \in Seq(0 .. 255) /\ Len(Other[k].bytes) \in {1, 2, 4, 8, 16}
        <4>1. IsValue(One[k]) /\ IsValue(Other[k])
          BY <2>1, PairsAssumption DEF PairsAssumption, HashersInv, One, Other
        <4> QED BY <3>1, <4>1 DEF IsValue, IsSimple, IsInteger
      <3>3. IsNumber(One[k]) /\ IsNumber(Other[k])
        BY <3>1, <3>2 DEF IsNumber, IsWide
      <3> QED BY <2>2, <3>1, <3>3, SameNumberHashes
    <2>4. Alike
      BY <2>1, <2>3 DEF Alike, HashOf, Velox
    <2> QED BY <2>4, AlikeAnswers
  <1> QED BY <1>1, <1>2, HashersStep, PTL DEF HashersSpec

-----------------------------------------------------------------------------
(***************************************************************************)
(* Words as numbers: Plus and Times are addition and multiplication modulo *)
(* 256^n, by an induction on the columns the carry has passed              *)
(***************************************************************************)
NatLess == {pair \in Nat \X Nat : pair[1] < pair[2]}

\* The order of the naturals is well founded.
LEMMA NatLessWellFounded == IsWellFoundedOn(NatLess, Nat)
  <1>1. NatLess = OpToRel(<, Nat)
    BY DEF NatLess, OpToRel
  <1> QED BY <1>1, NatLessThanWellFounded, Zenon

\* Induction as a statement about sets: what holds at the start and goes on
\* from number to number holds everywhere.
LEMMA Induction ==
  ASSUME NEW n \in Nat, NEW T, 0 \in T, \A k \in 1 .. n : k - 1 \in T => k \in T
  PROVE  \A k \in 0 .. n : k \in T
  <1> DEFINE missing == {k \in 0 .. n : k \notin T}
  <1> SUFFICES ASSUME missing # {} PROVE FALSE
    OBVIOUS
  <1>1. missing \subseteq Nat
    OBVIOUS
  <1>2. PICK k \in missing : \A m \in missing : <<m, k>> \notin NatLess
    <2> HIDE DEF missing
    <2> QED BY <1>1, NatLessWellFounded, WFMin, Zenon
  <1>3. k \in 1 .. n /\ k - 1 \in 0 .. n
    BY <1>2
  <1>4. k - 1 \in missing
    BY <1>2, <1>3
  <1>5. <<k - 1, k>> \in NatLess
    BY <1>3 DEF NatLess
  <1> QED BY <1>2, <1>4, <1>5

\* A function of the numbers up to n with this start and these steps.
Recurs(g, n, T, start, step) ==
  g \in [0 .. n -> T] /\ g[0] = start /\ \A k \in 1 .. n : g[k] = step[k][g[k - 1]]

\* Recursion: a start and a step define a function of the numbers up to n.
LEMMA Recursion ==
  ASSUME NEW n \in Nat, NEW T, NEW start \in T, NEW step \in [1 .. n -> [T -> T]]
  PROVE  \E g : Recurs(g, n, T, start, step)
  <1> DEFINE Goes(m, g) == g \in [0 .. m -> T] /\ g[0] = start
                           /\ \A k \in 1 .. m : g[k] = step[k][g[k - 1]]
             D == {m \in 0 .. n : \E g : Goes(m, g)}
  <1>1. 0 \in D
    <2>1. Goes(0, [k \in 0 .. 0 |-> start])
      OBVIOUS
    <2> HIDE DEF Goes
    <2> QED BY <2>1
  <1>2. ASSUME NEW m \in 1 .. n, m - 1 \in D
        PROVE  m \in D
    <2>1. PICK g : Goes(m - 1, g)
      BY <1>2
    <2>2. g[m - 1] \in T /\ step[m] \in [T -> T]
      BY <2>1
    <2> DEFINE final == step[m][g[m - 1]]
               h == [k \in 0 .. m |-> IF k = m THEN final ELSE g[k]]
    <2>3. final \in T
      BY <2>2
    <2> HIDE DEF final
    <2>4. h \in [0 .. m -> T]
      <3>1. ASSUME NEW k \in 0 .. m, k # m PROVE g[k] \in T
        BY <2>1, <3>1
      <3> QED BY <2>3, <3>1
    <2>5. h[0] = start
      BY <2>1
    <2>6. ASSUME NEW k \in 1 .. m PROVE h[k] = step[k][h[k - 1]]
      <3>1. k - 1 \in 0 .. m - 1 /\ k \in 0 .. m /\ k - 1 # m
        OBVIOUS
      <3>2. h[k - 1] = g[k - 1]
        BY <3>1
      <3>3. CASE k = m
        BY <3>2, <3>3 DEF final
      <3>4. CASE k # m
        <4>1. k \in 1 .. m - 1
          BY <3>4
        <4>2. g[k] = step[k][g[k - 1]]
          BY <2>1, <4>1
        <4>3. h[k] = g[k]
          BY <3>1, <3>4
        <4> QED BY <3>2, <4>2, <4>3
      <3> QED BY <3>3, <3>4
    <2>7. Goes(m, h)
      <3> HIDE DEF h
      <3> QED BY <2>4, <2>5, <2>6
    <2> HIDE DEF Goes
    <2> QED BY <2>7
  <1>3. \A m \in 0 .. n : m \in D
    <2> HIDE DEF D
    <2> QED BY <1>1, <1>2, Induction
  <1>4. PICK g : Goes(n, g)
    BY <1>3
  <1> QED BY <1>4 DEF Recurs

-----------------------------------------------------------------------------
Bytes(n) == [1 .. n -> 0 .. 255]

\* Words of n bytes are the sequences of them.
LEMMA BytesAreSeq ==
  ASSUME NEW n \in Nat, NEW x \in Bytes(n)
  PROVE  x \in Seq(0 .. 255) /\ Len(x) = n
  BY IsASeq, LenProperties DEF Bytes

\* What a byte and the rest of a number are.
LEMMA Division ==
  ASSUME NEW a \in Int
  PROVE  a % 256 \in 0 .. 255 /\ a \div 256 \in Int /\ a = 256 * (a \div 256) + (a % 256)
  OBVIOUS

\* One column more.
CarryStep(a, r) == [bytes |-> Append(r.bytes, (a + r.over) % 256), over |-> (a + r.over) \div 256]

\* It makes another byte.
LEMMA CarryStepType ==
  ASSUME NEW a \in Int, NEW r, r.bytes \in Seq(0 .. 255), r.over \in Int
  PROVE  /\ CarryStep(a, r) \in [bytes : Seq(0 .. 255), over : Int]
         /\ Len(CarryStep(a, r).bytes) = Len(r.bytes) + 1
  <1> DEFINE sum == a + r.over
             B == 0 .. 255
             low == sum % 256
             more == Append(r.bytes, low)
  <1>1. sum \in Int
    OBVIOUS
  <1>2. low \in B /\ sum \div 256 \in Int
    <2> HIDE DEF sum
    <2> QED BY <1>1, Division
  <1>3. r.bytes \in Seq(B)
    OBVIOUS
  <1>4. more \in Seq(B) /\ Len(more) = Len(r.bytes) + 1
    <2> HIDE DEF B, low
    <2> QED BY <1>2, <1>3, AppendProperties
  <1>5. CarryStep(a, r) = [bytes |-> more, over |-> sum \div 256]
    BY DEF CarryStep
  <1> HIDE DEF more, sum
  <1> QED BY <1>2, <1>4, <1>5

\* Carried is what carrying leads to.
LEMMA CarriedEnds ==
  ASSUME NEW n \in Nat, NEW c \in [1 .. n -> Int]
  PROVE  \E g : /\ g[0] = [bytes |-> <<>>, over |-> 0]
                /\ \A k \in 1 .. n : g[k] = CarryStep(c[k], g[k - 1])
                /\ \A k \in 0 .. n : g[k] \in [bytes : Seq(0 .. 255), over : Int] /\ Len(g[k].bytes) = k
                /\ Carried(c) = g[n].bytes
  <1> DEFINE T == [bytes : Seq(0 .. 255), over : Int]
             start == [bytes |-> <<>>, over |-> 0]
             step == [k \in 1 .. n |-> [r \in T |-> CarryStep(c[k], r)]]
  <1>0. Len(c) = n
    BY LenProperties, IsASeq
  <1>1. start \in T /\ Len(start.bytes) = 0
    OBVIOUS
  <1>2. ASSUME NEW k \in 1 .. n, NEW r \in T
        PROVE  CarryStep(c[k], r) \in T /\ Len(CarryStep(c[k], r).bytes) = Len(r.bytes) + 1
    <2>1. c[k] \in Int /\ r.bytes \in Seq(0 .. 255) /\ r.over \in Int
      OBVIOUS
    <2> QED BY <2>1, CarryStepType
  <1> HIDE DEF T
  <1>3. step \in [1 .. n -> [T -> T]]
    BY <1>2
  <1>4. PICK g \in [0 .. n -> T] : g[0] = start /\ \A k \in 1 .. n : g[k] = step[k][g[k - 1]]
    <2>1. start \in T
      BY <1>1
    <2> HIDE DEF step, start
    <2>2. PICK g : Recurs(g, n, T, start, step)
      BY <2>1, <1>3, Recursion
    <2> QED BY <2>2 DEF Recurs
  <1>5. ASSUME NEW k \in 1 .. n PROVE g[k] = CarryStep(c[k], g[k - 1])
    <2>1. g[k - 1] \in T
      <3>1. k - 1 \in 0 .. n
        OBVIOUS
      <3> QED BY <1>4, <3>1
    <2> QED BY <1>4, <2>1
  <1> DEFINE f(h) == [j \in 0 .. n |-> IF j = 0 THEN start ELSE CarryStep(c[j], h[j - 1])]
             carry == CHOOSE h : h = f(h)
  <1>6. g = f(g)
    <2> HIDE DEF start, step
    <2>1. \A k \in 0 .. n : g[k] = IF k = 0 THEN start ELSE CarryStep(c[k], g[k - 1])
      BY <1>4, <1>5
    <2> QED BY <1>4, <2>1
  <1>7. carry = f(carry)
    <2> HIDE DEF f
    <2> QED BY <1>6
  <1>8. Carried(c) = carry[n].bytes
    BY <1>0 DEF Carried, CarryStep
  <1> HIDE DEF carry
  <1>9. carry[0] = start /\ \A k \in 1 .. n : carry[k] = CarryStep(c[k], carry[k - 1])
    <2> HIDE DEF start
    <2>1. carry = [j \in 0 .. n |-> IF j = 0 THEN start ELSE CarryStep(c[j], carry[j - 1])]
      BY <1>7
    <2> QED BY <2>1
  <1>10. \A k \in 0 .. n : carry[k] \in T /\ Len(carry[k].bytes) = k
    <2> DEFINE S == {k \in 0 .. n : carry[k] \in T /\ Len(carry[k].bytes) = k}
    <2>1. 0 \in S
      BY <1>1, <1>9
    <2>2. ASSUME NEW k \in 1 .. n, k - 1 \in S PROVE k \in S
      <3>1. carry[k - 1] \in T /\ Len(carry[k - 1].bytes) = k - 1
        BY <2>2
      <3>2. carry[k] = CarryStep(c[k], carry[k - 1])
        BY <1>9
      <3>3. carry[k] \in T /\ Len(carry[k].bytes) = (k - 1) + 1
        BY <1>2, <3>1, <3>2
      <3> QED BY <3>3
    <2>3. \A k \in 0 .. n : k \in S
      <3> HIDE DEF S
      <3> QED BY <2>1, <2>2, Induction
    <2> QED BY <2>3
  <1> QED BY <1>8, <1>9, <1>10 DEF T

\* What is carried on from each column.
IsCarry(c, x, over, n) ==
  /\ over \in [0 .. n -> Int] /\ over[0] = 0
  /\ \A k \in 1 .. n : c[k] + over[k - 1] = 256 * over[k] + x[k]

\* What Carried makes of columns, and what it carries on from each.
LEMMA CarriedColumns ==
  ASSUME NEW n \in Nat, NEW c \in [1 .. n -> Int]
  PROVE  Carried(c) \in Bytes(n) /\ \E over : IsCarry(c, Carried(c), over, n)
  <1>1. PICK g : /\ g[0] = [bytes |-> <<>>, over |-> 0]
                 /\ \A k \in 1 .. n : g[k] = CarryStep(c[k], g[k - 1])
                 /\ \A k \in 0 .. n : g[k] \in [bytes : Seq(0 .. 255), over : Int] /\ Len(g[k].bytes) = k
                 /\ Carried(c) = g[n].bytes
    BY CarriedEnds
  <1> DEFINE over == [k \in 0 .. n |-> g[k].over]
             sum(k) == c[k] + over[k - 1]
             Good(k) == \A m \in 1 .. k : g[k].bytes[m] = sum(m) % 256
             S == {k \in 0 .. n : Good(k)}
  <1>2. over \in [0 .. n -> Int] /\ over[0] = 0
    BY <1>1
  <1>3. ASSUME NEW k \in 1 .. n
        PROVE  /\ sum(k) \in Int /\ over[k] = sum(k) \div 256
               /\ g[k].bytes = Append(g[k - 1].bytes, sum(k) % 256)
               /\ sum(k) % 256 \in 0 .. 255
    <2>1. k - 1 \in 0 .. n /\ k \in 0 .. n
      OBVIOUS
    <2>2. sum(k) \in Int
      <3> HIDE DEF over
      <3>1. c[k] \in Int /\ over[k - 1] \in Int
        BY <1>2, <2>1
      <3> QED BY <3>1
    <2>3. g[k] = CarryStep(c[k], g[k - 1]) /\ over[k] = g[k].over /\ over[k - 1] = g[k - 1].over
      BY <1>1, <2>1
    <2>4. sum(k) % 256 \in 0 .. 255
      <3>1. PICK a \in Int : a = sum(k)
        BY <2>2, Zenon
      <3>2. a % 256 \in 0 .. 255
        OBVIOUS
      <3> HIDE DEF sum
      <3> QED BY <3>1, <3>2, SMT
    <2> HIDE DEF over
    <2>5. sum(k) = c[k] + g[k - 1].over
      BY <2>3
    <2> DEFINE more == Append(g[k - 1].bytes, sum(k) % 256)
               high == sum(k) \div 256
    <2> HIDE DEF sum
    <2>6. CarryStep(c[k], g[k - 1]) = [bytes |-> more, over |-> high]
      BY <2>5, Zenon DEF CarryStep
    <2> HIDE DEF more, high
    <2>7. g[k].bytes = more /\ g[k].over = high
      BY <2>3, <2>6
    <2> QED BY <2>2, <2>3, <2>4, <2>7, Zenon DEF more, high
  <1>4. ASSUME NEW k \in 1 .. n, Good(k - 1) PROVE Good(k)
    <2> DEFINE before == g[k - 1].bytes
               byte == sum(k) % 256
    <2>1. before \in Seq(0 .. 255) /\ Len(before) = k - 1 /\ byte \in 0 .. 255
      <3>1. k - 1 \in 0 .. n
        OBVIOUS
      <3>2. before \in Seq(0 .. 255) /\ Len(before) = k - 1
        BY <1>1, <3>1
      <3>3. byte \in 0 .. 255
        <4> HIDE DEF sum
        <4> QED BY <1>3
      <3> QED BY <3>2, <3>3, Zenon
    <2>2. g[k].bytes = Append(before, byte)
      BY <1>3
    <2>3. ASSUME NEW m \in 1 .. k PROVE g[k].bytes[m] = sum(m) % 256
      <3>0. \A m2 \in 1 .. k - 1 : before[m2] = sum(m2) % 256
        BY <1>4
      <3> HIDE DEF before, sum
      <3> DEFINE B == 0 .. 255
      <3>1. before \in Seq(B) /\ byte \in B
        BY <2>1
      <3> HIDE DEF B, byte
      <3>2. Append(before, byte)[m] = IF m = k THEN byte ELSE before[m]
        BY <3>1, <2>1, AppendProperties
      <3>3. CASE m = k
        BY <2>2, <3>2, <3>3 DEF byte
      <3>4. CASE m # k
        <4>1. m \in 1 .. k - 1
          BY <3>4
        <4> QED BY <2>2, <3>0, <3>2, <3>4, <4>1
      <3> QED BY <3>3, <3>4
    <2> HIDE DEF sum
    <2> QED BY <2>3
  <1>5. Good(n)
    <2>1. 0 \in S
      OBVIOUS
    <2>2. \A k \in 1 .. n : k - 1 \in S => k \in S
      <3> HIDE DEF Good
      <3> QED BY <1>4
    <2>3. \A k \in 0 .. n : k \in S
      <3> HIDE DEF S
      <3> QED BY <2>1, <2>2, Induction
    <2>4. n \in S
      BY <2>3
    <2> HIDE DEF Good
    <2> QED BY <2>4
  <1>6. ASSUME NEW k \in 1 .. n
        PROVE  /\ Carried(c)[k] \in 0 .. 255
               /\ c[k] + over[k - 1] = 256 * over[k] + Carried(c)[k]
    <2>1. Carried(c)[k] = sum(k) % 256
      BY <1>1, <1>5
    <2>2. sum(k) \in Int /\ over[k] = sum(k) \div 256
      BY <1>3
    <2>3. sum(k) = c[k] + over[k - 1]
      OBVIOUS
    <2> DEFINE a == sum(k)
    <2>4. a \in Int
      BY <2>2
    <2> DEFINE b == over[k]
               x == Carried(c)[k]
    <2>5. a = c[k] + over[k - 1] /\ b = a \div 256 /\ x = a % 256
      BY <2>1, <2>2, <2>3
    <2> HIDE DEF a, b, x, over
    <2>6. a % 256 \in 0 .. 255 /\ a = 256 * (a \div 256) + (a % 256)
      BY <2>4, SMT
    <2>7. x \in 0 .. 255 /\ a = 256 * b + x
      BY <2>5, <2>6
    <2> QED BY <2>5, <2>7 DEF b, x
  <1>7. Carried(c) \in Bytes(n)
    <2>1. Carried(c) \in Seq(0 .. 255) /\ Len(Carried(c)) = n
      BY <1>1
    <2> QED BY <2>1, LenProperties DEF Bytes
  <1> HIDE DEF over
  <1>8. over[0] = 0 /\ \A k \in 1 .. n : c[k] + over[k - 1] = 256 * over[k] + Carried(c)[k]
    BY <1>2, <1>6
  <1>9. IsCarry(c, Carried(c), over, n)
    BY <1>2, <1>8, Zenon DEF IsCarry
  <1> QED BY <1>7, <1>9, Zenon

-----------------------------------------------------------------------------
\* The columns make this number: what is left of it above each of them.
AreLeft(d, c, a, n) ==
  d \in [0 .. n -> Int] /\ d[0] = a /\ \A k \in 1 .. n : d[k - 1] = 256 * d[k] + c[k]
Makes(c, a, n) == \E d : AreLeft(d, c, a, n)

\* A word of n bytes that is this number, modulo 256^n.
Stands(x, a, n) == x \in Bytes(n) /\ Makes(x, a, n)

\* Bytes are integers.
LEMMA BytesAreInts ==
  ASSUME NEW n \in Nat, NEW x \in Bytes(n)
  PROVE  x \in [1 .. n -> Int]
  <1>1. x \in [1 .. n -> 0 .. 255]
    BY DEF Bytes
  <1>2. ASSUME NEW k \in 1 .. n PROVE x[k] \in Int
    <2>1. x[k] \in 0 .. 255
      BY <1>1
    <2> QED BY <2>1
  <1> QED BY <1>1, <1>2

\* To carry some of the columns on does not change the number.
LEMMA MoveUp ==
  ASSUME NEW n \in Nat, NEW c \in [1 .. n -> Int], NEW x \in [1 .. n -> Int], NEW a \in Int,
         NEW over, IsCarry(c, x, over, n), Makes(c, a, n)
  PROVE  Makes(x, a, n)
  <1>1. PICK d : AreLeft(d, c, a, n)
    BY DEF Makes
  <1>2. d \in [0 .. n -> Int] /\ d[0] = a /\ \A k \in 1 .. n : d[k - 1] = 256 * d[k] + c[k]
    BY <1>1 DEF AreLeft
  <1>3. /\ over \in [0 .. n -> Int] /\ over[0] = 0
        /\ \A k \in 1 .. n : c[k] + over[k - 1] = 256 * over[k] + x[k]
    BY DEF IsCarry
  <1> DEFINE e == [k \in 0 .. n |-> d[k] + over[k]]
  <1>4. e \in [0 .. n -> Int] /\ e[0] = a
    <2>1. ASSUME NEW k \in 0 .. n PROVE d[k] + over[k] \in Int
      <3>1. d[k] \in Int /\ over[k] \in Int
        BY <1>2, <1>3
      <3> QED BY <3>1
    <2> QED BY <1>2, <1>3, <2>1
  <1>5. ASSUME NEW k \in 1 .. n PROVE e[k - 1] = 256 * e[k] + x[k]
    <2>1. k \in 0 .. n /\ k - 1 \in 0 .. n
      OBVIOUS
    <2>2. d[k] \in Int /\ d[k - 1] \in Int
      BY <1>2, <2>1
    <2>2a. over[k] \in Int /\ over[k - 1] \in Int
      BY <1>3, <2>1
    <2>2b. c[k] \in Int /\ x[k] \in Int
      OBVIOUS
    <2>3. e[k] = d[k] + over[k] /\ e[k - 1] = d[k - 1] + over[k - 1]
      BY <2>1
    <2>4. d[k - 1] = 256 * d[k] + c[k] /\ c[k] + over[k - 1] = 256 * over[k] + x[k]
      BY <1>2, <1>3
    <2> DEFINE d1 == d[k - 1]
               d2 == d[k]
               o1 == over[k - 1]
               o2 == over[k]
               c2 == c[k]
               x2 == x[k]
    <2>5. /\ d1 \in Int /\ d2 \in Int /\ o1 \in Int /\ o2 \in Int /\ c2 \in Int /\ x2 \in Int
          /\ d1 = 256 * d2 + c2 /\ c2 + o1 = 256 * o2 + x2
      BY <2>2, <2>2a, <2>2b, <2>4, Zenon
    <2> HIDE DEF e, d1, d2, o1, o2, c2, x2
    <2>6. d1 + o1 = 256 * (d2 + o2) + x2
      BY <2>5
    <2> QED BY <2>3, <2>6, Zenon DEF d1, d2, o1, o2, x2
  <1> HIDE DEF e
  <1>6. AreLeft(e, x, a, n)
    BY <1>4, <1>5 DEF AreLeft
  <1> QED BY <1>6 DEF Makes

\* Carrying leaves the number as it is, modulo 256^n.
LEMMA CarriedStands ==
  ASSUME NEW n \in Nat, NEW c \in [1 .. n -> Int], NEW a \in Int, Makes(c, a, n)
  PROVE  Stands(Carried(c), a, n)
  <1>1. Carried(c) \in Bytes(n)
    BY CarriedColumns
  <1>2. PICK over : IsCarry(c, Carried(c), over, n)
    BY CarriedColumns
  <1>3. Carried(c) \in [1 .. n -> Int]
    BY <1>1, BytesAreInts
  <1> QED BY <1>1, <1>2, <1>3, MoveUp DEF Stands

\* Every word is a number.
LEMMA EveryWordStands ==
  ASSUME NEW n \in Nat, NEW x \in Bytes(n)
  PROVE  \E a \in Int : Stands(x, a, n)
  <1>0. x \in [1 .. n -> Int]
    BY BytesAreInts
  <1> DEFINE step == [k \in 1 .. n |-> [r \in Int |-> 256 * r + x[n + 1 - k]]]
  <1>1. ASSUME NEW k \in 1 .. n, NEW r \in Int PROVE 256 * r + x[n + 1 - k] \in Int
    <2>1. n + 1 - k \in 1 .. n
      OBVIOUS
    <2>2. x[n + 1 - k] \in Int
      BY <1>0, <2>1
    <2> QED BY <2>2
  <1>2. step \in [1 .. n -> [Int -> Int]] /\ 0 \in Int
    BY <1>1
  <1>3. PICK g : Recurs(g, n, Int, 0, step)
    <2> HIDE DEF step
    <2> QED BY <1>2, Recursion
  <1>4. g \in [0 .. n -> Int] /\ g[0] = 0 /\ \A k \in 1 .. n : g[k] = step[k][g[k - 1]]
    <2> HIDE DEF step
    <2> QED BY <1>3 DEF Recurs
  <1>5. ASSUME NEW k \in 1 .. n PROVE g[k] = 256 * g[k - 1] + x[n + 1 - k]
    <2>1. g[k - 1] \in Int
      BY <1>4
    <2> QED BY <1>4, <2>1
  <1> HIDE DEF step
  <1> DEFINE d == [k \in 0 .. n |-> g[n - k]]
  <1>6. d \in [0 .. n -> Int]
    <2>1. ASSUME NEW k \in 0 .. n PROVE g[n - k] \in Int
      <3>1. n - k \in 0 .. n
        OBVIOUS
      <3> QED BY <1>4, <3>1
    <2> QED BY <2>1
  <1>7. ASSUME NEW k \in 1 .. n PROVE d[k - 1] = 256 * d[k] + x[k]
    <2>1. n + 1 - k \in 1 .. n /\ (n + 1 - k) - 1 = n - k /\ n + 1 - (n + 1 - k) = k
      OBVIOUS
    <2>2. g[n + 1 - k] = 256 * g[n - k] + x[k]
      BY <1>5, <2>1
    <2>3. d[k] = g[n - k] /\ d[k - 1] = g[n + 1 - k]
      <3>1. k \in 0 .. n /\ k - 1 \in 0 .. n /\ n - (k - 1) = n + 1 - k
        OBVIOUS
      <3> QED BY <3>1
    <2> HIDE DEF d
    <2> QED BY <2>2, <2>3
  <1>8. d[0] \in Int
    BY <1>6
  <1> HIDE DEF d
  <1>9. AreLeft(d, x, d[0], n)
    BY <1>6, <1>7 DEF AreLeft
  <1>10. Stands(x, d[0], n)
    BY <1>9 DEF Stands, Makes
  <1> QED BY <1>8, <1>10

\* A number has one word.
LEMMA StandsUnique ==
  ASSUME NEW n \in Nat, NEW a \in Int, NEW x, NEW y, Stands(x, a, n), Stands(y, a, n)
  PROVE  x = y
  <1>1. x \in [1 .. n -> 0 .. 255] /\ y \in [1 .. n -> 0 .. 255]
    BY DEF Stands, Bytes
  <1>2. PICK d : AreLeft(d, x, a, n)
    BY DEF Stands, Makes
  <1>3. PICK e : AreLeft(e, y, a, n)
    BY DEF Stands, Makes
  <1>4. d \in [0 .. n -> Int] /\ d[0] = a /\ \A k \in 1 .. n : d[k - 1] = 256 * d[k] + x[k]
    BY <1>2 DEF AreLeft
  <1>5. e \in [0 .. n -> Int] /\ e[0] = a /\ \A k \in 1 .. n : e[k - 1] = 256 * e[k] + y[k]
    BY <1>3 DEF AreLeft
  <1>6. ASSUME NEW k \in 1 .. n, d[k - 1] = e[k - 1] PROVE d[k] = e[k] /\ x[k] = y[k]
    <2>1. d[k] \in Int /\ e[k] \in Int /\ x[k] \in 0 .. 255 /\ y[k] \in 0 .. 255
      BY <1>1, <1>4, <1>5
    <2>2. 256 * d[k] + x[k] = 256 * e[k] + y[k]
      BY <1>4, <1>5, <1>6
    <2> DEFINE d2 == d[k]
               e2 == e[k]
               x2 == x[k]
               y2 == y[k]
    <2>3. /\ d2 \in Int /\ e2 \in Int /\ x2 \in 0 .. 255 /\ y2 \in 0 .. 255
          /\ 256 * d2 + x2 = 256 * e2 + y2
      BY <2>1, <2>2
    <2> HIDE DEF d2, e2, x2, y2
    <2>4. d2 = e2 /\ x2 = y2
      BY <2>3
    <2> QED BY <2>4 DEF d2, e2, x2, y2
  <1> DEFINE S == {k \in 0 .. n : d[k] = e[k]}
  <1>7. 0 \in S
    BY <1>4, <1>5
  <1>8. ASSUME NEW k \in 1 .. n, k - 1 \in S PROVE k \in S
    <2>1. d[k - 1] = e[k - 1]
      BY <1>8
    <2>2. d[k] = e[k]
      BY <2>1, <1>6
    <2> QED BY <2>2
  <1>9. \A k \in 0 .. n : k \in S
    <2> HIDE DEF S
    <2> QED BY <1>7, <1>8, Induction
  <1>10. ASSUME NEW k \in 1 .. n PROVE x[k] = y[k]
    <2>1. k - 1 \in 0 .. n
      OBVIOUS
    <2>2. d[k - 1] = e[k - 1]
      BY <1>9, <2>1
    <2> QED BY <1>6, <2>2
  <1> QED BY <1>1, <1>10

\* Columns may be added.
LEMMA MakesSum ==
  ASSUME NEW n \in Nat, NEW a \in Int, NEW b \in Int,
         NEW x \in [1 .. n -> Int], NEW y \in [1 .. n -> Int], Makes(x, a, n), Makes(y, b, n)
  PROVE  Makes([k \in 1 .. n |-> x[k] + y[k]], a + b, n)
  <1>1. PICK d : AreLeft(d, x, a, n)
    BY DEF Makes
  <1>2. PICK e : AreLeft(e, y, b, n)
    BY DEF Makes
  <1>3. d \in [0 .. n -> Int] /\ d[0] = a /\ \A k \in 1 .. n : d[k - 1] = 256 * d[k] + x[k]
    BY <1>1 DEF AreLeft
  <1>4. e \in [0 .. n -> Int] /\ e[0] = b /\ \A k \in 1 .. n : e[k - 1] = 256 * e[k] + y[k]
    BY <1>2 DEF AreLeft
  <1> DEFINE f == [k \in 0 .. n |-> d[k] + e[k]]
             z == [k \in 1 .. n |-> x[k] + y[k]]
  <1>5. f \in [0 .. n -> Int] /\ f[0] = a + b
    <2>1. ASSUME NEW k \in 0 .. n PROVE d[k] + e[k] \in Int
      <3>1. d[k] \in Int /\ e[k] \in Int
        BY <1>3, <1>4
      <3> QED BY <3>1
    <2> QED BY <1>3, <1>4, <2>1
  <1>6. ASSUME NEW k \in 1 .. n PROVE f[k - 1] = 256 * f[k] + z[k]
    <2>1. k \in 0 .. n /\ k - 1 \in 0 .. n
      OBVIOUS
    <2>2. d[k] \in Int /\ e[k] \in Int /\ x[k] \in Int /\ y[k] \in Int
      BY <1>3, <1>4, <2>1
    <2>3. d[k - 1] = 256 * d[k] + x[k] /\ e[k - 1] = 256 * e[k] + y[k]
      BY <1>3, <1>4
    <2>4. f[k - 1] = d[k - 1] + e[k - 1] /\ f[k] = d[k] + e[k] /\ z[k] = x[k] + y[k]
      BY <2>1
    <2> HIDE DEF f, z
    <2> DEFINE d2 == d[k]
               e2 == e[k]
               x2 == x[k]
               y2 == y[k]
    <2>5. /\ d2 \in Int /\ e2 \in Int /\ x2 \in Int /\ y2 \in Int
          /\ f[k - 1] = (256 * d2 + x2) + (256 * e2 + y2) /\ f[k] = d2 + e2 /\ z[k] = x2 + y2
      BY <2>2, <2>3, <2>4, Zenon
    <2> HIDE DEF d2, e2, x2, y2
    <2>6. (256 * d2 + x2) + (256 * e2 + y2) = 256 * (d2 + e2) + (x2 + y2)
      BY <2>5
    <2> QED BY <2>5, <2>6, Zenon
  <1> HIDE DEF f, z
  <1>7. AreLeft(f, z, a + b, n)
    BY <1>5, <1>6 DEF AreLeft
  <1> QED BY <1>7 DEF Makes, z

\* Columns may be multiplied.
LEMMA MakesMultiple ==
  ASSUME NEW n \in Nat, NEW a \in Int, NEW m \in Int, NEW x \in [1 .. n -> Int], Makes(x, a, n)
  PROVE  Makes([k \in 1 .. n |-> m * x[k]], m * a, n)
  <1>1. PICK d : AreLeft(d, x, a, n)
    BY DEF Makes
  <1>2. d \in [0 .. n -> Int] /\ d[0] = a /\ \A k \in 1 .. n : d[k - 1] = 256 * d[k] + x[k]
    BY <1>1 DEF AreLeft
  <1> DEFINE f == [k \in 0 .. n |-> m * d[k]]
             z == [k \in 1 .. n |-> m * x[k]]
  <1>3. f \in [0 .. n -> Int] /\ f[0] = m * a
    <2>1. ASSUME NEW k \in 0 .. n PROVE m * d[k] \in Int
      <3>1. d[k] \in Int
        BY <1>2
      <3> QED BY <3>1
    <2> QED BY <1>2, <2>1
  <1>4. ASSUME NEW k \in 1 .. n PROVE f[k - 1] = 256 * f[k] + z[k]
    <2>1. k \in 0 .. n /\ k - 1 \in 0 .. n
      OBVIOUS
    <2>2. d[k] \in Int /\ x[k] \in Int
      BY <1>2, <2>1
    <2>3. d[k - 1] = 256 * d[k] + x[k]
      BY <1>2
    <2>4. f[k - 1] = m * d[k - 1] /\ f[k] = m * d[k] /\ z[k] = m * x[k]
      BY <2>1
    <2> HIDE DEF f, z
    <2> DEFINE d2 == d[k]
               x2 == x[k]
    <2>5. d2 \in Int /\ x2 \in Int /\ f[k - 1] = m * (256 * d2 + x2) /\ f[k] = m * d2 /\ z[k] = m * x2
      BY <2>2, <2>3, <2>4, Zenon
    <2> HIDE DEF d2, x2
    <2>6. m * (256 * d2 + x2) = 256 * (m * d2) + m * x2
      BY <2>5
    <2> QED BY <2>5, <2>6, Zenon
  <1> HIDE DEF f, z
  <1>5. AreLeft(f, z, m * a, n)
    BY <1>3, <1>4 DEF AreLeft
  <1> QED BY <1>5 DEF Makes, z

\* Plus is addition modulo 256^n.
LEMMA PlusStands ==
  ASSUME NEW n \in Nat, NEW a \in Int, NEW b \in Int, NEW x, NEW y, Stands(x, a, n), Stands(y, b, n)
  PROVE  Stands(Plus(x, y), a + b, n)
  <1>1. x \in Bytes(n) /\ y \in Bytes(n) /\ Makes(x, a, n) /\ Makes(y, b, n)
    BY DEF Stands
  <1>2. x \in [1 .. n -> Int] /\ y \in [1 .. n -> Int] /\ Len(x) = n
    BY <1>1, BytesAreInts, BytesAreSeq
  <1> DEFINE z == [k \in 1 .. n |-> x[k] + y[k]]
  <1>3. Makes(z, a + b, n)
    BY <1>1, <1>2, MakesSum
  <1>4. z \in [1 .. n -> Int]
    <2>1. ASSUME NEW k \in 1 .. n PROVE x[k] + y[k] \in Int
      <3>1. x[k] \in Int /\ y[k] \in Int
        BY <1>2
      <3> QED BY <3>1
    <2> QED BY <2>1
  <1>5. Plus(x, y) = Carried(z)
    BY <1>2 DEF Plus
  <1> HIDE DEF z
  <1>6. a + b \in Int
    OBVIOUS
  <1>7. Stands(Carried(z), a + b, n)
    BY <1>3, <1>4, <1>6, CarriedStands
  <1> QED BY <1>5, <1>7

\* Word gives the word of a number.
LEMMA WordStands ==
  ASSUME NEW n \in Nat, NEW a \in Int, n > 0
  PROVE  Stands(Word(a, n), a, n)
  <1> DEFINE c == [k \in 1 .. n |-> IF k = 1 THEN a ELSE 0]
             d == [k \in 0 .. n |-> IF k = 0 THEN a ELSE 0]
  <1>1. c \in [1 .. n -> Int]
    OBVIOUS
  <1>2. d \in [0 .. n -> Int] /\ d[0] = a
    OBVIOUS
  <1>3. ASSUME NEW k \in 1 .. n PROVE d[k - 1] = 256 * d[k] + c[k]
    <2>1. d[k] = 0
      OBVIOUS
    <2>2. CASE k = 1
      <3>1. d[k - 1] = a /\ c[k] = a
        BY <2>2
      <3> QED BY <2>1, <3>1
    <2>3. CASE k # 1
      <3>1. d[k - 1] = 0 /\ c[k] = 0
        BY <2>3
      <3> QED BY <2>1, <3>1
    <2> QED BY <2>2, <2>3
  <1>4. Word(a, n) = Carried(c)
    BY DEF Word
  <1> HIDE DEF c, d
  <1>5. Makes(c, a, n)
    BY <1>2, <1>3 DEF AreLeft, Makes
  <1> QED BY <1>1, <1>4, <1>5, CarriedStands

\* The products of a column, added one after the other.
IsColumn(sum, x, y, k) ==
  /\ sum \in [0 .. k -> Int] /\ sum[0] = 0
  /\ \A j \in 1 .. k : sum[j] = sum[j - 1] + x[j] * y[k + 1 - j]
  /\ Column(x, y, k) = sum[k]

\* Column adds the products up.
LEMMA ColumnAdds ==
  ASSUME NEW n \in Nat, NEW x \in [1 .. n -> Int], NEW y \in [1 .. n -> Int], NEW k \in 1 .. n
  PROVE  \E sum : IsColumn(sum, x, y, k)
  <1> DEFINE step == [j \in 1 .. k |-> [r \in Int |-> r + x[j] * y[k + 1 - j]]]
  <1>1. ASSUME NEW j \in 1 .. k, NEW r \in Int PROVE r + x[j] * y[k + 1 - j] \in Int
    <2>1. j \in 1 .. n /\ k + 1 - j \in 1 .. n
      OBVIOUS
    <2>2. x[j] \in Int /\ y[k + 1 - j] \in Int
      BY <2>1
    <2> QED BY <2>2
  <1>2. step \in [1 .. k -> [Int -> Int]]
    BY <1>1
  <1>2a. 0 \in Int /\ k \in Nat
    OBVIOUS
  <1>3. PICK g : Recurs(g, k, Int, 0, step)
    <2> HIDE DEF step
    <2> QED BY <1>2, <1>2a, Recursion
  <1>4. g \in [0 .. k -> Int] /\ g[0] = 0 /\ \A j \in 1 .. k : g[j] = step[j][g[j - 1]]
    <2> HIDE DEF step
    <2> QED BY <1>3 DEF Recurs
  <1>5. ASSUME NEW j \in 1 .. k PROVE g[j] = g[j - 1] + x[j] * y[k + 1 - j]
    <2>1. g[j - 1] \in Int
      BY <1>4
    <2> QED BY <1>4, <2>1
  <1> HIDE DEF step
  <1> DEFINE f(h) == [j \in 0 .. k |-> IF j = 0 THEN 0 ELSE h[j - 1] + x[j] * y[k + 1 - j]]
             sum == CHOOSE h : h = f(h)
  <1>6. g = f(g)
    <2>1. ASSUME NEW j \in 0 .. k PROVE g[j] = IF j = 0 THEN 0 ELSE g[j - 1] + x[j] * y[k + 1 - j]
      <3>1. CASE j = 0
        BY <1>4, <3>1
      <3>2. CASE j # 0
        <4>1. j \in 1 .. k
          BY <3>2
        <4> QED BY <1>5, <3>2, <4>1, Zenon
      <3> QED BY <3>1, <3>2
    <2> QED BY <1>4, <2>1
  <1>7. sum = f(sum)
    <2> HIDE DEF f
    <2> QED BY <1>6
  <1>8. Column(x, y, k) = sum[k]
    BY DEF Column
  <1> HIDE DEF sum
  <1>9. /\ sum = [j \in 0 .. k |-> sum[j]] /\ sum[0] = 0
        /\ \A j \in 1 .. k : sum[j] = sum[j - 1] + x[j] * y[k + 1 - j]
    <2>1. sum = [j \in 0 .. k |-> IF j = 0 THEN 0 ELSE sum[j - 1] + x[j] * y[k + 1 - j]]
      BY <1>7
    <2>2. 0 \in 0 .. k /\ sum[0] = 0
      BY <2>1
    <2>3. ASSUME NEW j \in 1 .. k PROVE sum[j] = sum[j - 1] + x[j] * y[k + 1 - j]
      <3>1. j \in 0 .. k /\ j # 0
        OBVIOUS
      <3> QED BY <2>1, <3>1, Zenon
    <2>4. sum = [j \in 0 .. k |-> sum[j]]
      BY <2>1, Zenon
    <2> QED BY <2>2, <2>3, <2>4
  <1> DEFINE S == {j \in 0 .. k : sum[j] \in Int}
  <1>10. 0 \in S
    BY <1>9
  <1>11. ASSUME NEW j \in 1 .. k, j - 1 \in S PROVE j \in S
    <2>1. sum[j - 1] \in Int /\ sum[j] = sum[j - 1] + x[j] * y[k + 1 - j]
      BY <1>9, <1>11
    <2>2. sum[j] \in Int
      BY <1>1, <2>1
    <2> QED BY <2>2
  <1>12. \A j \in 0 .. k : j \in S
    <2> HIDE DEF S
    <2> QED BY <1>2a, <1>10, <1>11, Induction
  <1>13. sum \in [0 .. k -> Int]
    BY <1>9, <1>12
  <1> QED BY <1>8, <1>9, <1>13 DEF IsColumn

\* The columns when x is taken up to its byte m, and y that many bytes up.
Part(sums, m, k) == sums[k][IF m < k THEN m ELSE k]
Up(y, m, k) == IF k > m THEN y[k - m] ELSE 0

\* What one byte of x more means for a column.
HasMore(sums, x, y, m, k) ==
  /\ Part(sums, m, k) = Part(sums, m - 1, k) + x[m] * Up(y, m - 1, k)
  /\ Part(sums, m, k) \in Int /\ Part(sums, m - 1, k) \in Int
  /\ Up(y, m, k) \in Int /\ Up(y, m - 1, k) \in Int /\ x[m] \in Int
  /\ Up(y, m, k) = IF k = 1 THEN 0 ELSE Up(y, m - 1, k - 1)

\* One byte of x more.
LEMMA OneColumnMore ==
  ASSUME NEW n \in Nat, NEW x \in [1 .. n -> Int], NEW y \in [1 .. n -> Int], NEW sums,
         \A k \in 1 .. n : IsColumn(sums[k], x, y, k), NEW k \in 1 .. n, NEW m \in 1 .. n
  PROVE  HasMore(sums, x, y, m, k)
  <1> DEFINE sum == sums[k]
  <1>1. /\ sum \in [0 .. k -> Int]
        /\ \A j \in 1 .. k : sum[j] = sum[j - 1] + x[j] * y[k + 1 - j]
    BY DEF IsColumn
  <1>2. \A j \in 0 .. k : sum[j] \in Int
    BY <1>1
  <1> HIDE DEF sum
  <1>3. \A j \in 1 .. n : y[j] \in Int /\ x[j] \in Int
    OBVIOUS
  <1>4. Up(y, m, k) \in Int /\ Up(y, m - 1, k) \in Int
    <2>1. k > m => k - m \in 1 .. n
      OBVIOUS
    <2>2. k > m - 1 => k - (m - 1) \in 1 .. n
      OBVIOUS
    <2> QED BY <1>3, <2>1, <2>2 DEF Up
  <1>5. Up(y, m, k) = IF k = 1 THEN 0 ELSE Up(y, m - 1, k - 1)
    <2>1. (k - 1) - (m - 1) = k - m
      OBVIOUS
    <2> QED BY <2>1 DEF Up
  <1>6. CASE m <= k
    <2>1. Part(sums, m, k) = sum[m]
      <3>1. CASE m < k
        BY <3>1 DEF Part, sum
      <3>2. CASE m = k
        BY <3>2 DEF Part, sum
      <3> QED BY <1>6, <3>1, <3>2
    <2>2. Part(sums, m - 1, k) = sum[m - 1]
      <3>1. m - 1 < k
        BY <1>6
      <3> QED BY <3>1 DEF Part, sum
    <2>3. Up(y, m - 1, k) = y[k + 1 - m]
      <3>1. k > m - 1 /\ k - (m - 1) = k + 1 - m
        BY <1>6
      <3> QED BY <3>1 DEF Up
    <2>4. sum[m] = sum[m - 1] + x[m] * y[k + 1 - m] /\ sum[m] \in Int /\ sum[m - 1] \in Int
      BY <1>1, <1>2, <1>6
    <2> QED BY <1>3, <1>4, <1>5, <2>1, <2>2, <2>3, <2>4 DEF HasMore
  <1>7. CASE m > k
    <2>1. Part(sums, m, k) = sum[k]
      BY <1>7 DEF Part, sum
    <2>2. Part(sums, m - 1, k) = sum[k]
      <3>1. ~(m - 1 < k)
        BY <1>7
      <3> QED BY <3>1 DEF Part, sum
    <2>3. Up(y, m - 1, k) = 0
      BY <1>7 DEF Up
    <2>4. sum[k] \in Int /\ x[m] \in Int
      BY <1>2
    <2>5. sum[k] = sum[k] + x[m] * 0
      BY <2>4
    <2> QED BY <1>3, <1>4, <1>5, <2>1, <2>2, <2>3, <2>4, <2>5 DEF HasMore
  <1> QED BY <1>6, <1>7

\* One column of the step of TimesStands.
LEMMA OneColumn ==
  ASSUME NEW c1 \in Int, NEW c2 \in Int, NEW d1 \in Int, NEW d2 \in Int, NEW xm \in Int,
         NEW u1 \in Int, NEW u2 \in Int, c2 = c1 + xm * u1, d1 = 256 * d2 + xm
  PROVE  (c1 + d1 * u1) + d2 * u2 = 256 * (d2 * u1) + (c2 + d2 * u2)
  <1>1. d1 * u1 = 256 * (d2 * u1) + xm * u1
    <2>1. d1 * u1 = (256 * d2) * u1 + xm * u1
      OBVIOUS
    <2> QED BY <2>1
  <1> DEFINE p == d1 * u1
             q == d2 * u1
             r == xm * u1
             t == d2 * u2
  <1>2. p \in Int /\ q \in Int /\ r \in Int /\ t \in Int /\ p = 256 * q + r /\ c2 = c1 + r
    BY <1>1
  <1> HIDE DEF p, q, r, t
  <1>3. (c1 + p) + t = 256 * q + (c2 + t)
    BY <1>2
  <1> QED BY <1>3 DEF p, q, r, t

\* Times is multiplication modulo 256^n.
THEOREM TimesStands ==
  ASSUME NEW n \in Nat, NEW a \in Int, NEW b \in Int, NEW x, NEW y, Stands(x, a, n), Stands(y, b, n)
  PROVE  Stands(Times(x, y), a * b, n)
  <1>1. x \in Bytes(n) /\ y \in Bytes(n) /\ Makes(x, a, n) /\ Makes(y, b, n)
    BY DEF Stands
  <1>2. x \in [1 .. n -> Int] /\ y \in [1 .. n -> Int] /\ Len(x) = n
    BY <1>1, BytesAreInts, BytesAreSeq
  <1>3. PICK d : AreLeft(d, x, a, n)
    BY <1>1 DEF Makes
  <1>4. d \in [0 .. n -> Int] /\ d[0] = a /\ \A k \in 1 .. n : d[k - 1] = 256 * d[k] + x[k]
    BY <1>3 DEF AreLeft
  <1> DEFINE sums == [k \in 1 .. n |-> CHOOSE sum : IsColumn(sum, x, y, k)]
  <1>5. \A k \in 1 .. n : IsColumn(sums[k], x, y, k)
    BY <1>2, ColumnAdds
  <1> HIDE DEF sums
  <1> DEFINE E(m) == [k \in 1 .. n |-> Part(sums, m, k) + d[m] * Up(y, m, k)]
             S == {m \in 0 .. n : E(m) \in [1 .. n -> Int] /\ Makes(E(m), a * b, n)}
  <1>6. 0 \in S
    <2>1. ASSUME NEW k \in 1 .. n PROVE Part(sums, 0, k) + d[0] * Up(y, 0, k) = a * y[k] /\ a * y[k] \in Int
      <3>1. sums[k][0] = 0
        BY <1>5 DEF IsColumn
      <3>2. Part(sums, 0, k) = 0
        BY <3>1 DEF Part
      <3>3. Up(y, 0, k) = y[k]
        BY DEF Up
      <3>4. y[k] \in Int
        BY <1>2
      <3> QED BY <1>4, <3>2, <3>3, <3>4
    <2>2. E(0) = [k \in 1 .. n |-> a * y[k]] /\ E(0) \in [1 .. n -> Int]
      BY <2>1
    <2>3. Makes([k \in 1 .. n |-> a * y[k]], a * b, n)
      BY <1>1, <1>2, MakesMultiple
    <2> HIDE DEF E
    <2> QED BY <2>2, <2>3
  <1>7. ASSUME NEW m \in 1 .. n, m - 1 \in S PROVE m \in S
    <2>1. E(m - 1) \in [1 .. n -> Int] /\ Makes(E(m - 1), a * b, n)
      BY <1>7
    <2>2. d[m] \in Int /\ d[m - 1] \in Int /\ d[m - 1] = 256 * d[m] + x[m]
      BY <1>4
    <2>3. ASSUME NEW k \in 1 .. n
          PROVE  /\ Part(sums, m, k) = Part(sums, m - 1, k) + x[m] * Up(y, m - 1, k)
                 /\ Part(sums, m, k) \in Int /\ Part(sums, m - 1, k) \in Int
                 /\ Up(y, m, k) \in Int /\ Up(y, m - 1, k) \in Int /\ x[m] \in Int
                 /\ Up(y, m, k) = IF k = 1 THEN 0 ELSE Up(y, m - 1, k - 1)
      <3>1. HasMore(sums, x, y, m, k)
        BY <1>2, <1>5, OneColumnMore
      <3> QED BY <3>1, Zenon DEF HasMore
    <2> DEFINE over == [k \in 0 .. n |-> IF k = 0 THEN 0 ELSE d[m] * Up(y, m - 1, k)]
    <2>4. over \in [0 .. n -> Int] /\ over[0] = 0
      <3>1. ASSUME NEW k \in 1 .. n PROVE d[m] * Up(y, m - 1, k) \in Int
        BY <2>2, <2>3
      <3> QED BY <3>1
    <2>5. ASSUME NEW k \in 1 .. n PROVE E(m - 1)[k] + over[k - 1] = 256 * over[k] + E(m)[k]
      <3>1. over[k] = d[m] * Up(y, m - 1, k)
        OBVIOUS
      <3>2. over[k - 1] = d[m] * Up(y, m, k)
        <4>1. CASE k = 1
          BY <2>2, <2>3, <4>1
        <4>2. CASE k # 1
          <5>1. k - 1 \in 0 .. n /\ k - 1 # 0
            BY <4>2
          <5> QED BY <2>3, <4>2, <5>1
        <4> QED BY <4>1, <4>2
      <3>3. /\ E(m - 1)[k] = Part(sums, m - 1, k) + d[m - 1] * Up(y, m - 1, k)
            /\ E(m)[k] = Part(sums, m, k) + d[m] * Up(y, m, k)
        OBVIOUS
      <3> DEFINE c1 == Part(sums, m - 1, k)
                 c2 == Part(sums, m, k)
                 d1 == d[m - 1]
                 d2 == d[m]
                 xm == x[m]
                 u1 == Up(y, m - 1, k)
                 u2 == Up(y, m, k)
      <3>4. /\ c1 \in Int /\ c2 \in Int /\ d1 \in Int /\ d2 \in Int /\ xm \in Int /\ u1 \in Int /\ u2 \in Int
            /\ c2 = c1 + xm * u1 /\ d1 = 256 * d2 + xm
        BY <2>2, <2>3, Zenon
      <3> HIDE DEF c1, c2, d1, d2, xm, u1, u2
      <3>5. (c1 + d1 * u1) + d2 * u2 = 256 * (d2 * u1) + (c2 + d2 * u2)
        BY <3>4, OneColumn
      <3> HIDE DEF E, over
      <3> QED BY <3>1, <3>2, <3>3, <3>5, Zenon DEF c1, c2, d1, d2, xm, u1, u2
    <2>6. E(m) \in [1 .. n -> Int]
      <3>1. ASSUME NEW k \in 1 .. n PROVE Part(sums, m, k) + d[m] * Up(y, m, k) \in Int
        BY <2>2, <2>3
      <3> QED BY <3>1
    <2> HIDE DEF E, over
    <2>7. IsCarry(E(m - 1), E(m), over, n)
      BY <2>4, <2>5 DEF IsCarry
    <2>8. a * b \in Int
      OBVIOUS
    <2>9. Makes(E(m), a * b, n)
      BY <2>1, <2>6, <2>7, <2>8, MoveUp
    <2> QED BY <2>6, <2>9
  <1>8. \A m \in 0 .. n : m \in S
    <2> HIDE DEF S
    <2> QED BY <1>6, <1>7, Induction
  <1>9. E(n) = [k \in 1 .. n |-> Column(x, y, k)]
    <2>1. ASSUME NEW k \in 1 .. n PROVE Part(sums, n, k) + d[n] * Up(y, n, k) = Column(x, y, k)
      <3>1. Column(x, y, k) = sums[k][k] /\ sums[k] \in [0 .. k -> Int]
        BY <1>5 DEF IsColumn
      <3>2. sums[k][k] \in Int
        BY <3>1
      <3>3. Part(sums, n, k) = sums[k][k]
        <4>1. n < k => n = k
          OBVIOUS
        <4> QED BY <4>1 DEF Part
      <3>4. Up(y, n, k) = 0
        BY DEF Up
      <3>5. d[n] \in Int
        BY <1>4
      <3> QED BY <3>1, <3>2, <3>3, <3>4, <3>5
    <2> QED BY <2>1
  <1>10. Times(x, y) = Carried(E(n))
    <2>1. Times(x, y) = Carried([k \in 1 .. n |-> Column(x, y, k)])
      BY <1>2 DEF Times
    <2> HIDE DEF E
    <2> QED BY <1>9, <2>1
  <1>11. E(n) \in [1 .. n -> Int] /\ Makes(E(n), a * b, n)
    <2>1. n \in S
      BY <1>8
    <2> QED BY <2>1
  <1>12. a * b \in Int
    OBVIOUS
  <1> HIDE DEF E
  <1>13. Stands(Carried(E(n)), a * b, n)
    BY <1>11, <1>12, CarriedStands
  <1> QED BY <1>10, <1>13

-----------------------------------------------------------------------------
(***************************************************************************)
(* commutativeHashMix: the two hashes it mixes into another can be swapped *)
(***************************************************************************)
\* Half a byte more and less.
LEMMA Doubled ==
  ASSUME NEW b \in 0 .. 255
  PROVE  /\ (b * 2) \div 256 \in 0 .. 1 /\ (b * 2) % 256 \in 0 .. 254
         /\ 2 * b = 256 * ((b * 2) \div 256) + ((b * 2) % 256)
  OBVIOUS

\* Shifting left by one bit is doubling modulo 256^n.
LEMMA ShiftOneStands ==
  ASSUME NEW n \in Nat, NEW a \in Int, NEW x, Stands(x, a, n)
  PROVE  Stands(ShiftLeft(x, 1), 2 * a, n)
  <1>1. x \in Bytes(n) /\ Makes(x, a, n)
    BY DEF Stands
  <1>2. x \in [1 .. n -> Int] /\ Len(x) = n
    BY <1>1, BytesAreInts, BytesAreSeq
  <1>3. \A k \in 1 .. n : x[k] \in 0 .. 255
    BY <1>1 DEF Bytes
  <1> DEFINE at(k) == IF k \in 1 .. n THEN x[k] ELSE 0
             high(k) == (at(k) * 2) \div 256
             low(k) == (at(k) * 2) % 256
             z == [k \in 1 .. n |-> low(k) + high(k - 1)]
             c == [k \in 1 .. n |-> 2 * x[k]]
             over == [k \in 0 .. n |-> high(k)]
  <1>4. ShiftLeft(x, 1) = z
    <2>1. 1 \div 8 = 0 /\ Pow2[(1 % 8) + 1] = 2
      BY DEF Pow2
    <2>2. ShiftLeft(x, 1) = [k \in 1 .. n |-> ((at(k - 0) * 2) % 256) + ((at(k - 0 - 1) * 2) \div 256)]
      BY <1>2, <2>1 DEF ShiftLeft
    <2>3. ASSUME NEW k \in 1 .. n PROVE k - 0 = k
      OBVIOUS
    <2> QED BY <2>2, <2>3
  <1>5. ASSUME NEW k \in Int
        PROVE  high(k) \in 0 .. 1 /\ low(k) \in 0 .. 254 /\ 2 * at(k) = 256 * high(k) + low(k)
    <2>1. at(k) \in 0 .. 255
      BY <1>3
    <2> HIDE DEF at
    <2> QED BY <2>1, Doubled
  <1>6. high(0) = 0
    OBVIOUS
  <1>7. \A k \in 1 .. n : at(k) = x[k]
    OBVIOUS
  <1> HIDE DEF high, low, at
  <1>8. ASSUME NEW k \in 1 .. n PROVE low(k) + high(k - 1) \in 0 .. 255
    <2>1. k \in Int /\ k - 1 \in Int
      OBVIOUS
    <2>2. low(k) \in 0 .. 254 /\ high(k - 1) \in 0 .. 1
      BY <1>5, <2>1
    <2> QED BY <2>2
  <1>9. z \in Bytes(n)
    BY <1>8 DEF Bytes
  <1>10. over \in [0 .. n -> Int] /\ over[0] = 0
    <2>1. \A k \in 0 .. n : high(k) \in Int
      BY <1>5
    <2> QED BY <1>6, <2>1
  <1>11. ASSUME NEW k \in 1 .. n PROVE c[k] + over[k - 1] = 256 * over[k] + z[k]
    <2>1. k \in Int /\ k - 1 \in Int /\ k - 1 \in 0 .. n /\ k \in 0 .. n
      OBVIOUS
    <2>2. 2 * x[k] = 256 * high(k) + low(k) /\ high(k) \in Int /\ low(k) \in Int /\ high(k - 1) \in Int
      BY <1>5, <1>7, <2>1
    <2>3. c[k] = 2 * x[k] /\ over[k - 1] = high(k - 1) /\ over[k] = high(k) /\ z[k] = low(k) + high(k - 1)
      BY <2>1
    <2> HIDE DEF c, over, z
    <2> QED BY <2>2, <2>3
  <1>12. Makes(c, 2 * a, n)
    <2>1. x \in [1 .. n -> Int] /\ Makes(x, a, n) /\ 2 \in Int
      BY <1>1, <1>2
    <2>2. Makes([k \in 1 .. n |-> 2 * x[k]], 2 * a, n)
      BY <2>1, MakesMultiple
    <2> QED BY <2>2
  <1>13. c \in [1 .. n -> Int]
    <2>1. ASSUME NEW k \in 1 .. n PROVE 2 * x[k] \in Int
      BY <1>2
    <2> QED BY <2>1
  <1> HIDE DEF c, over, z
  <1>14. IsCarry(c, z, over, n)
    BY <1>10, <1>11 DEF IsCarry
  <1>15. z \in [1 .. n -> Int] /\ 2 * a \in Int
    BY <1>9, BytesAreInts
  <1>16. Makes(z, 2 * a, n)
    BY <1>12, <1>13, <1>14, <1>15, MoveUp
  <1> QED BY <1>4, <1>9, <1>16 DEF Stands

-----------------------------------------------------------------------------
\* The words of the hashers are those of Words.
LEMMA SameWords ==
  ASSUME NEW x, NEW y, NEW n
  PROVE  /\ V!Plus(x, y) = Plus(x, y) /\ V!Times(x, y) = Times(x, y)
         /\ V!ShiftLeft(x, n) = ShiftLeft(x, n) /\ V!Word(x, n) = Word(x, n)
  <1>1. \A c : V!Carried(c) = Carried(c)
    BY DEF V!Carried, Carried
  <1>2. \A k : V!Column(x, y, k) = Column(x, y, k)
    BY DEF V!Column, Column
  <1>3. V!ShiftLeft(x, n) = ShiftLeft(x, n)
    BY DEF V!ShiftLeft, ShiftLeft, V!Pow2, Pow2
  <1>4. V!Plus(x, y) = Plus(x, y)
    BY <1>1, Zenon DEF V!Plus, Plus
  <1>5. V!Times(x, y) = Times(x, y)
    BY <1>1, <1>2, Zenon DEF V!Times, Times
  <1>6. V!Word(x, n) = Word(x, n)
    BY <1>1, Zenon DEF V!Word, Word
  <1> QED BY <1>3, <1>4, <1>5, <1>6

\* A mix of this form, with any constants.
LEMMA MixOfConstants ==
  ASSUME NEW a \in Int, NEW b \in Int, NEW x, NEW y, NEW m \in Int, NEW f \in Int, NEW n \in Nat, n > 0,
         Stands(x, a, n), Stands(y, b, n)
  PROVE  Stands(Plus(Plus(Word(m, n), Times(Plus(x, y), Word(f, n))), ShiftLeft(Times(x, y), 1)),
                (m + (a + b) * f) + 2 * (a * b), n)
  <1> DEFINE s == a + b
             sf == s * f
             msf == m + sf
             t == a * b
             u == 2 * t
  <1>0. s \in Int /\ sf \in Int /\ msf \in Int /\ t \in Int /\ u \in Int
    OBVIOUS
  <1>1. Stands(Word(m, n), m, n) /\ Stands(Word(f, n), f, n)
    BY WordStands
  <1>2. Stands(Plus(x, y), s, n)
    BY PlusStands
  <1>3. Stands(Times(x, y), t, n)
    BY TimesStands
  <1>4. Stands(Times(Plus(x, y), Word(f, n)), sf, n)
    <2> HIDE DEF s
    <2> QED BY <1>0, <1>1, <1>2, TimesStands
  <1>5. Stands(ShiftLeft(Times(x, y), 1), u, n)
    <2> HIDE DEF t
    <2> QED BY <1>0, <1>3, ShiftOneStands
  <1>6. Stands(Plus(Word(m, n), Times(Plus(x, y), Word(f, n))), msf, n)
    <2> HIDE DEF sf
    <2> QED BY <1>0, <1>1, <1>4, PlusStands
  <1> HIDE DEF msf, u
  <1>7. Stands(Plus(Plus(Word(m, n), Times(Plus(x, y), Word(f, n))), ShiftLeft(Times(x, y), 1)), msf + u, n)
    BY <1>0, <1>5, <1>6, PlusStands
  <1> QED BY <1>7, Zenon DEF msf, u

\* What commutativeHashMix computes, modulo 2^64.
MixNumber(a, b) == (3860031 + (a + b) * 2779) + 2 * (a * b)

\* It does.
LEMMA MixStands ==
  ASSUME NEW a \in Int, NEW b \in Int, NEW x, NEW y, Stands(x, a, 8), Stands(y, b, 8)
  PROVE  Stands(V!commutativeHashMix(x, y), MixNumber(a, b), 8)
  <1>1. V!commutativeHashMix(x, y)
          = Plus(Plus(Word(3860031, 8), Times(Plus(x, y), Word(2779, 8))), ShiftLeft(Times(x, y), 1))
    BY SameWords, SMT DEF V!commutativeHashMix
  <1>2. 3860031 \in Int /\ 2779 \in Int /\ 8 \in Nat /\ 8 > 0
    BY SMT
  <1> DEFINE m == 3860031
             f == 2779
             n == 8
  <1>3. m \in Int /\ f \in Int /\ n \in Nat /\ n > 0 /\ Stands(x, a, n) /\ Stands(y, b, n)
    BY <1>2, SMT
  <1> HIDE DEF m, f, n
  <1>4. Stands(Plus(Plus(Word(m, n), Times(Plus(x, y), Word(f, n))), ShiftLeft(Times(x, y), 1)),
               (m + (a + b) * f) + 2 * (a * b), n)
    BY <1>3, MixOfConstants
  <1> QED BY <1>1, <1>4, SMT DEF MixNumber, m, f, n

\* 2 * 3860031 = 2779 * 2779 - 2779: this is why the order makes no difference.
LEMMA MixNumberCommutes ==
  ASSUME NEW h \in Int, NEW a \in Int, NEW b \in Int
  PROVE  /\ MixNumber(MixNumber(h, a), b) = MixNumber(MixNumber(h, b), a)
         /\ MixNumber(h, a) \in Int
  <1> DEFINE p == h * a
             q == h * b
             r == a * b
             t == p * b
  <1>1. p \in Int /\ q \in Int /\ r \in Int /\ t \in Int
    BY SMT
  <1>2. t = q * a
    BY SMT
  <1>3. ASSUME NEW f \in Int, NEW u \in Int, NEW v \in Int, NEW w \in Int, NEW g \in Int,
               f = (3860031 + (h + u) * 2779) + 2 * w
        PROVE  f * v = 3860031 * v + 2779 * (h * v) + 2779 * (u * v) + 2 * (w * v)
    <2>1. f * v = 3860031 * v + (2779 * (h + u)) * v + (2 * w) * v
      BY <1>3, SMT
    <2>2. (2779 * (h + u)) * v = 2779 * (h * v) + 2779 * (u * v) /\ (2 * w) * v = 2 * (w * v)
      BY SMT
    <2> QED BY <2>1, <2>2, SMT
  <1> DEFINE f == MixNumber(h, a)
             g == MixNumber(h, b)
  <1>4. f = (3860031 + (h + a) * 2779) + 2 * p /\ g = (3860031 + (h + b) * 2779) + 2 * q
    BY SMT DEF MixNumber
  <1>5. f \in Int /\ g \in Int
    BY <1>1, <1>4, SMT
  <1>6. MixNumber(f, b) = (3860031 + (f + b) * 2779) + 2 * (f * b)
        /\ MixNumber(g, a) = (3860031 + (g + a) * 2779) + 2 * (g * a)
    BY SMT DEF MixNumber
  <1>7. f * b = 3860031 * b + 2779 * q + 2779 * r + 2 * t
    <2> HIDE DEF p, f, g, t
    <2>1. f * b = 3860031 * b + 2779 * (h * b) + 2779 * (a * b) + 2 * (p * b)
      BY <1>1, <1>3, <1>4, <1>5, SMT
    <2> QED BY <2>1, SMT DEF t
  <1>8. g * a = 3860031 * a + 2779 * p + 2779 * r + 2 * t
    <2> HIDE DEF q, f, g, t
    <2>1. g * a = 3860031 * a + 2779 * (h * a) + 2779 * (b * a) + 2 * (q * a)
      BY <1>1, <1>3, <1>4, <1>5, SMT
    <2>2. b * a = a * b
      BY SMT
    <2> QED BY <1>2, <2>1, <2>2, SMT
  <1> DEFINE fb == f * b
             ga == g * a
  <1>9. MixNumber(f, b) = (3860031 + (f + b) * 2779) + 2 * fb /\ MixNumber(g, a) = (3860031 + (g + a) * 2779) + 2 * ga
    BY <1>6, SMT
  <1>10. fb = 3860031 * b + 2779 * q + 2779 * r + 2 * t /\ ga = 3860031 * a + 2779 * p + 2779 * r + 2 * t
    BY <1>7, <1>8, SMT
  <1> HIDE DEF p, q, r, t, f, g, fb, ga
  <1>11. MixNumber(f, b) = MixNumber(g, a)
    BY <1>1, <1>4, <1>5, <1>9, <1>10, SMT
  <1> QED BY <1>5, <1>11, SMT DEF f, g

\* commutativeHashMix is a word, and two words may be mixed in in any order.
THEOREM MixCommutes ==
  ASSUME NEW h \in Bytes(8), NEW x \in Bytes(8), NEW y \in Bytes(8)
  PROVE  /\ V!commutativeHashMix(h, x) \in Bytes(8)
         /\ V!commutativeHashMix(V!commutativeHashMix(h, x), y)
              = V!commutativeHashMix(V!commutativeHashMix(h, y), x)
  <1>1. PICK a \in Int : Stands(h, a, 8)
    BY EveryWordStands
  <1>2. PICK b \in Int : Stands(x, b, 8)
    BY EveryWordStands
  <1>3. PICK c \in Int : Stands(y, c, 8)
    BY EveryWordStands
  <1> DEFINE ab == MixNumber(a, b)
             ac == MixNumber(a, c)
             hx == V!commutativeHashMix(h, x)
             hy == V!commutativeHashMix(h, y)
  <1>4. /\ Stands(hx, ab, 8) /\ ab \in Int /\ Stands(hy, ac, 8) /\ ac \in Int
        /\ MixNumber(ab, c) = MixNumber(ac, b) /\ MixNumber(ab, c) \in Int
    <2>1. Stands(hx, ab, 8)
      BY <1>1, <1>2, MixStands
    <2>2. Stands(hy, ac, 8)
      BY <1>1, <1>3, MixStands
    <2>3. ab \in Int /\ ac \in Int /\ MixNumber(ab, c) = MixNumber(ac, b)
      BY MixNumberCommutes
    <2>4. MixNumber(ab, c) \in Int
      <3> HIDE DEF ab
      <3> QED BY <2>3, MixNumberCommutes
    <2> QED BY <2>1, <2>2, <2>3, <2>4
  <1> HIDE DEF ab, ac, hx, hy
  <1>5. Stands(V!commutativeHashMix(hx, y), MixNumber(ab, c), 8)
    BY <1>3, <1>4, MixStands
  <1>6. Stands(V!commutativeHashMix(hy, x), MixNumber(ac, b), 8)
    BY <1>2, <1>4, MixStands
  <1>7. V!commutativeHashMix(hx, y) = V!commutativeHashMix(hy, x)
    <2> DEFINE m == MixNumber(ab, c)
    <2>1. m \in Int /\ Stands(V!commutativeHashMix(hx, y), m, 8) /\ Stands(V!commutativeHashMix(hy, x), m, 8)
      BY <1>4, <1>5, <1>6
    <2> HIDE DEF m
    <2> QED BY <2>1, StandsUnique
  <1>8. hx \in Bytes(8)
    BY <1>4 DEF Stands
  <1> QED BY <1>7, <1>8 DEF hx, hy

-----------------------------------------------------------------------------
(***************************************************************************)
(* Every value is hashed to a word of 64 bits: the bitwise operators, one- *)
(* shot SpookyHash, and the specializations of hasher                      *)
(***************************************************************************)
\* Plus and Times give words, and Word does.
LEMMA SumsAreWords ==
  ASSUME NEW n \in Nat, NEW x \in Bytes(n), NEW y \in Bytes(n)
  PROVE  Plus(x, y) \in Bytes(n) /\ Times(x, y) \in Bytes(n)
  <1>1. PICK a \in Int : Stands(x, a, n)
    BY EveryWordStands
  <1>2. PICK b \in Int : Stands(y, b, n)
    BY EveryWordStands
  <1>3. Stands(Plus(x, y), a + b, n)
    BY <1>1, <1>2, PlusStands
  <1>4. Stands(Times(x, y), a * b, n)
    BY <1>1, <1>2, TimesStands
  <1> QED BY <1>3, <1>4 DEF Stands

\* Complement and zero.
LEMMA ComplementIsWord ==
  ASSUME NEW n \in Nat, NEW x \in Bytes(n)
  PROVE  Complement(x) \in Bytes(n) /\ ZeroWord(n) \in Bytes(n)
  <1>1. Len(x) = n
    BY BytesAreSeq
  <1>2. ASSUME NEW k \in 1 .. n PROVE 255 - x[k] \in 0 .. 255
    <2>1. x[k] \in 0 .. 255
      BY DEF Bytes
    <2> QED BY <2>1
  <1> QED BY <1>1, <1>2 DEF Complement, ZeroWord, Bytes

Octet  == 0 .. 255
Nibble == 0 .. 15

\* The halves of a byte are nibbles.
LEMMA HalvesOfByte ==
  ASSUME NEW z \in Octet
  PROVE  z \div 16 \in Nibble /\ z % 16 \in Nibble
  BY DEF Octet, Nibble

\* The exclusive or of nibbles is one.
LEMMA XorNibbleIsNibble ==
  ASSUME NEW c \in Nibble, NEW d \in Nibble
  PROVE  XorNibble[<<c, d>>] \in Nibble
  <1>1. XorNibble[<<c, d>>] = XorBit(c, d, 1) + XorBit(c, d, 2) + XorBit(c, d, 4) + XorBit(c, d, 8)
    BY DEF XorNibble, Nibble
  <1>2. ASSUME NEW w \in Nat PROVE XorBit(c, d, w) = 0 \/ XorBit(c, d, w) = w
    BY DEF XorBit
  <1>3. XorBit(c, d, 1) \in 0 .. 1 /\ XorBit(c, d, 2) \in 0 .. 2
        /\ XorBit(c, d, 4) \in 0 .. 4 /\ XorBit(c, d, 8) \in 0 .. 8
    BY <1>2
  <1> DEFINE b1 == XorBit(c, d, 1)
             b2 == XorBit(c, d, 2)
             b4 == XorBit(c, d, 4)
             b8 == XorBit(c, d, 8)
             sum == XorNibble[<<c, d>>]
  <1>4. /\ sum = b1 + b2 + b4 + b8
        /\ b1 \in 0 .. 1 /\ b2 \in 0 .. 2 /\ b4 \in 0 .. 4 /\ b8 \in 0 .. 8
    BY <1>1, <1>3, Zenon
  <1> HIDE DEF b1, b2, b4, b8, sum
  <1>5. sum \in Nibble
    BY <1>4 DEF Nibble
  <1> QED BY <1>5 DEF sum

\* A byte of an exclusive or is a byte.
LEMMA XorByteIsByte ==
  ASSUME NEW a \in Octet, NEW b \in Octet
  PROVE  XorByte(a, b) \in Octet
  <1> DEFINE high == XorNibble[<<a \div 16, b \div 16>>]
             low == XorNibble[<<a % 16, b % 16>>]
  <1>1. high \in Nibble /\ low \in Nibble
    <2>1. /\ a \div 16 \in Nibble /\ b \div 16 \in Nibble
          /\ a % 16 \in Nibble /\ b % 16 \in Nibble
      BY HalvesOfByte, Zenon
    <2> QED BY <2>1, XorNibbleIsNibble, Zenon
  <1>2. XorByte(a, b) = 16 * high + low
    BY Zenon DEF XorByte
  <1> HIDE DEF high, low
  <1>3. 16 * high + low \in Octet
    BY <1>1 DEF Nibble, Octet
  <1> QED BY <1>2, <1>3, Zenon

\* Xor gives words.
LEMMA XorIsWord ==
  ASSUME NEW n \in Nat, NEW x \in Bytes(n), NEW y \in Bytes(n)
  PROVE  Xor(x, y) \in Bytes(n)
  <1>1. Len(x) = n
    BY BytesAreSeq, Zenon
  <1>2. ASSUME NEW k \in 1 .. n PROVE XorByte(x[k], y[k]) \in Octet
    <2>1. x[k] \in Octet /\ y[k] \in Octet
      BY DEF Bytes, Octet
    <2> QED BY <2>1, XorByteIsByte, Zenon
  <1> DEFINE f(k) == XorByte(x[k], y[k])
  <1>3. Xor(x, y) = [k \in 1 .. n |-> f(k)]
    BY <1>1, Zenon DEF Xor
  <1>4. \A k \in 1 .. n : f(k) \in Octet
    BY <1>2, Zenon
  <1> HIDE DEF f
  <1> QED BY <1>3, <1>4 DEF Bytes, Octet

\* The shifted parts of two neighbouring bytes fit in one.
FitInByte(a, b, w) ==
  /\ ((a * w) % 256) + ((b * w) \div 256) \in 0 .. 255
  /\ ((a * w) \div 256) + ((b * w) % 256) \in 0 .. 255
  /\ ((a * (256 \div w)) \div 256) + ((b * (256 \div w)) % 256) \in 0 .. 255

\* What shifting within bytes multiplies them by.
Factors == {1, 2, 4, 8, 16, 32, 64, 128}

\* What a shift leaves of two neighbouring bytes is a byte.
LEMMA NeighboursMakeByte ==
  ASSUME NEW a \in Octet, NEW b \in Octet, NEW w \in Factors
  PROVE  FitInByte(a, b, w)
  <1>0. a \in 0 .. 255 /\ b \in 0 .. 255
    BY DEF Octet
  <1>1. CASE w = 1
    BY <1>0, <1>1 DEF FitInByte
  <1>2. CASE w = 2
    BY <1>0, <1>2 DEF FitInByte
  <1>3. CASE w = 4
    BY <1>0, <1>3 DEF FitInByte
  <1>4. CASE w = 8
    BY <1>0, <1>4 DEF FitInByte
  <1>5. CASE w = 16
    BY <1>0, <1>5 DEF FitInByte
  <1>6. CASE w = 32
    BY <1>0, <1>6 DEF FitInByte
  <1>7. CASE w = 64
    BY <1>0, <1>7 DEF FitInByte
  <1>8. CASE w = 128
    BY <1>0, <1>8 DEF FitInByte
  <1> QED BY <1>1, <1>2, <1>3, <1>4, <1>5, <1>6, <1>7, <1>8 DEF Factors

\* The factors of the shifts.
LEMMA PowersOfTwo ==
  ASSUME NEW k \in Nat
  PROVE  Pow2[(k % 8) + 1] \in {1, 2, 4, 8, 16, 32, 64, 128}
  <1>1. (k % 8) + 1 \in 1 .. 8
    OBVIOUS
  <1> DEFINE r == (k % 8) + 1
  <1> HIDE DEF r
  <1>2. r \in {1, 2, 3, 4, 5, 6, 7, 8}
    BY <1>1 DEF r
  <1>3. Pow2[r] \in {1, 2, 4, 8, 16, 32, 64, 128}
    BY <1>2 DEF Pow2
  <1> QED BY <1>3 DEF r

\* Shifts give words.
LEMMA ShiftsAreWords ==
  ASSUME NEW n \in Nat, NEW x \in Bytes(n), NEW k \in Nat
  PROVE  ShiftLeft(x, k) \in Bytes(n) /\ ShiftRight(x, k) \in Bytes(n)
  <1> DEFINE at(j) == IF j \in 1 .. n THEN x[j] ELSE 0
             low == k \div 8
             w == Pow2[(k % 8) + 1]
  <1>1. Len(x) = n
    BY BytesAreSeq, Zenon
  <1>2. ASSUME NEW j PROVE at(j) \in 0 .. 255
    <2>1. CASE j \in 1 .. n
      BY <2>1 DEF Bytes
    <2>2. CASE j \notin 1 .. n
      BY <2>2
    <2> QED BY <2>1, <2>2
  <1>3. w \in {1, 2, 4, 8, 16, 32, 64, 128}
    BY PowersOfTwo
  <1>4. /\ ShiftLeft(x, k) = [j \in 1 .. n |-> ((at(j - low) * w) % 256) + ((at(j - low - 1) * w) \div 256)]
        /\ ShiftRight(x, k) = [j \in 1 .. n |-> ((at(j + low) * (256 \div w)) \div 256)
                                            + ((at(j + low + 1) * (256 \div w)) % 256)]
    <2>1. ShiftLeft(x, k) = [j \in 1 .. n |-> ((at(j - low) * w) % 256) + ((at(j - low - 1) * w) \div 256)]
      <3> HIDE DEF low, w
      <3> QED BY <1>1 DEF ShiftLeft, low, w
    <2>2. ShiftRight(x, k) = [j \in 1 .. n |-> ((at(j + low) * (256 \div w)) \div 256)
                                        + ((at(j + low + 1) * (256 \div w)) % 256)]
      BY <1>1 DEF ShiftRight
    <2> HIDE DEF at, low, w
    <2> QED BY <2>1, <2>2, Zenon
  <1> HIDE DEF at, low, w
  <1>5. ASSUME NEW j \in 1 .. n
        PROVE  /\ ((at(j - low) * w) % 256) + ((at(j - low - 1) * w) \div 256) \in 0 .. 255
               /\ ((at(j + low) * (256 \div w)) \div 256) + ((at(j + low + 1) * (256 \div w)) % 256) \in 0 .. 255
    <2>1. at(j - low) \in 0 .. 255 /\ at(j - low - 1) \in 0 .. 255 /\ at(j + low) \in 0 .. 255 /\ at(j + low + 1) \in 0 .. 255
      BY <1>2
    <2> DEFINE l0 == at(j - low)
               l1 == at(j - low - 1)
               r0 == at(j + low)
               r1 == at(j + low + 1)
    <2>2. l0 \in Octet /\ l1 \in Octet /\ r0 \in Octet /\ r1 \in Octet /\ w \in Factors
      BY <1>3, <2>1, Zenon DEF Octet, Factors
    <2> HIDE DEF l0, l1, r0, r1
    <2>3. ((l0 * w) % 256) + ((l1 * w) \div 256) \in 0 .. 255
      <3>1. FitInByte(l0, l1, w)
        BY <2>2, NeighboursMakeByte, Zenon
      <3> QED BY <3>1, SMT DEF FitInByte
    <2>4. ((r0 * (256 \div w)) \div 256) + ((r1 * (256 \div w)) % 256) \in 0 .. 255
      <3>1. FitInByte(r0, r1, w)
        BY <2>2, NeighboursMakeByte, Zenon
      <3> QED BY <3>1, SMT DEF FitInByte
    <2> QED BY <2>3, <2>4, Zenon DEF l0, l1, r0, r1
  <1> DEFINE left(j) == ((at(j - low) * w) % 256) + ((at(j - low - 1) * w) \div 256)
             right(j) == ((at(j + low) * (256 \div w)) \div 256) + ((at(j + low + 1) * (256 \div w)) % 256)
  <1>6. ShiftLeft(x, k) = [j \in 1 .. n |-> left(j)] /\ ShiftRight(x, k) = [j \in 1 .. n |-> right(j)]
    BY <1>4, Zenon
  <1>7. \A j \in 1 .. n : left(j) \in 0 .. 255 /\ right(j) \in 0 .. 255
    BY <1>5, Zenon
  <1> HIDE DEF left, right
  <1> QED BY <1>6, <1>7 DEF Bytes

\* Rotations give words.
LEMMA RotIsWord ==
  ASSUME NEW n \in Nat, NEW x \in Bytes(n), NEW k \in 0 .. 8 * n
  PROVE  Rot(x, k) \in Bytes(n)
  <1>1. Len(x) = n
    BY BytesAreSeq, Zenon
  <1>2. Bits(x) - k \in Nat /\ k \in Nat
    BY <1>1 DEF Bits
  <1> DEFINE r == Bits(x) - k
  <1>3. ShiftLeft(x, k) \in Bytes(n) /\ ShiftRight(x, r) \in Bytes(n)
    <2> HIDE DEF r
    <2> QED BY <1>2, ShiftsAreWords DEF r
  <1>4. Rot(x, k) = IF k = 0 THEN x ELSE Plus(ShiftLeft(x, k), ShiftRight(x, r))
    BY Zenon DEF Rot
  <1> HIDE DEF r
  <1>5. Plus(ShiftLeft(x, k), ShiftRight(x, r)) \in Bytes(n)
    BY <1>3, SumsAreWords
  <1> QED BY <1>4, <1>5

\* So does XorShift.
LEMMA XorShiftIsWord ==
  ASSUME NEW n \in Nat, NEW x \in Bytes(n), NEW k \in Nat
  PROVE  XorShift(x, k) \in Bytes(n)
  <1>1. ShiftRight(x, k) \in Bytes(n)
    BY ShiftsAreWords
  <1> QED BY <1>1, XorIsWord DEF XorShift

\* A number's word.
LEMMA WordIsWord ==
  ASSUME NEW n \in Nat, n > 0, NEW a \in Int
  PROVE  Word(a, n) \in Bytes(n)
  BY WordStands DEF Stands

\* Parts of words, and words behind each other.
LEMMA PartIsWord ==
  ASSUME NEW n \in Nat, NEW m \in Nat, NEW x \in Bytes(m), NEW a \in 1 .. m, a + n - 1 <= m, n > 0
  PROVE  SubSeq(x, a, a + n - 1) \in Bytes(n)
  <1>1. x \in Seq(0 .. 255) /\ Len(x) = m
    BY BytesAreSeq, Zenon
  <1> DEFINE B == 0 .. 255
             e == a + n - 1
             y == SubSeq(x, a, e)
  <1>2. x \in Seq(B) /\ e \in Nat /\ e <= m /\ e - a + 1 = n
    BY <1>1
  <1> HIDE DEF B, e
  <1>3. y \in Seq(B) /\ Len(y) = n
    BY <1>1, <1>2
  <1> HIDE DEF y
  <1>4. y \in [1 .. n -> B]
    BY <1>3
  <1> QED BY <1>4 DEF Bytes, B, e, y

\* A longer word.
LEMMA LongerWord ==
  ASSUME NEW n \in Nat, NEW m \in Nat, NEW x \in Bytes(m), NEW y \in Bytes(n)
  PROVE  x \o y \in Bytes(m + n)
  <1> DEFINE B == 0 .. 255
  <1>1. x \in Seq(B) /\ Len(x) = m /\ y \in Seq(B) /\ Len(y) = n
    BY BytesAreSeq, Zenon
  <1> HIDE DEF B
  <1>2. x \o y \in Seq(B) /\ Len(x \o y) = m + n
    BY <1>1
  <1> DEFINE z == x \o y
             k == m + n
  <1> HIDE DEF z, k
  <1>3. z \in Seq(B) /\ Len(z) = k
    BY <1>2 DEF z, k
  <1>4. z \in [1 .. k -> B]
    BY <1>3
  <1> QED BY <1>4 DEF Bytes, B, z, k

\* Widened words.
LEMMA ExtendedIsWord ==
  ASSUME NEW n \in Nat, NEW m \in 1 .. n, NEW x \in Bytes(m)
  PROVE  ZeroExtended(x, n) \in Bytes(n) /\ SignExtended(x, n) \in Bytes(n)
  <1> DEFINE d == n - m
             sign == [k \in 1 .. d |-> IF x[Len(x)] >= 128 THEN 255 ELSE 0]
  <1>1. Len(x) = m /\ m \in Nat /\ d \in Nat /\ m + d = n
    BY BytesAreSeq
  <1>2. ZeroWord(d) \in Bytes(d) /\ sign \in Bytes(d)
    BY <1>1 DEF ZeroWord, Bytes
  <1>3. ZeroExtended(x, n) = x \o ZeroWord(d) /\ SignExtended(x, n) = x \o sign
    BY <1>1 DEF ZeroExtended, SignExtended
  <1> HIDE DEF d, sign
  <1>4. x \o ZeroWord(d) \in Bytes(m + d) /\ x \o sign \in Bytes(m + d)
    BY <1>1, <1>2, LongerWord
  <1> QED BY <1>1, <1>3, <1>4

\* The words of the hashers are those of Words.
LEMMA SameBitwise ==
  ASSUME NEW x, NEW y, NEW n
  PROVE  /\ V!Xor(x, y) = Xor(x, y) /\ V!ShiftRight(x, n) = ShiftRight(x, n)
         /\ V!XorShift(x, n) = XorShift(x, n) /\ V!Complement(x) = Complement(x)
         /\ V!ZeroExtended(x, n) = ZeroExtended(x, n) /\ V!SignExtended(x, n) = SignExtended(x, n)
         /\ V!ZeroWord(n) = ZeroWord(n)
  <1>1. V!XorNibble = XorNibble
    BY Zenon DEF V!XorNibble, XorNibble, V!XorBit, XorBit
  <1>2. \A a, b : V!XorByte(a, b) = XorByte(a, b)
    BY <1>1, Zenon DEF V!XorByte, XorByte
  <1>3. \A u, v : V!Xor(u, v) = Xor(u, v)
    BY <1>2, Zenon DEF V!Xor, Xor
  <1>4. \A u, k : V!ShiftRight(u, k) = ShiftRight(u, k)
    BY Zenon DEF V!ShiftRight, ShiftRight, V!Pow2, Pow2
  <1>5. V!XorShift(x, n) = XorShift(x, n)
    BY <1>3, <1>4, Zenon DEF V!XorShift, XorShift
  <1>6. V!Complement(x) = Complement(x) /\ \A k : V!ZeroWord(k) = ZeroWord(k)
    BY Zenon DEF V!Complement, Complement, V!ZeroWord, ZeroWord
  <1>7. V!ZeroExtended(x, n) = ZeroExtended(x, n) /\ V!SignExtended(x, n) = SignExtended(x, n)
    BY <1>6, Zenon DEF V!ZeroExtended, ZeroExtended, V!SignExtended, SignExtended
  <1> QED BY <1>3, <1>4, <1>5, <1>6, <1>7, Zenon

\* So are those of SpookyHash.
LEMMA SameSpookyWords ==
  ASSUME NEW x, NEW y, NEW n
  PROVE  /\ V!Spooky!Plus(x, y) = Plus(x, y) /\ V!Spooky!Xor(x, y) = Xor(x, y)
         /\ V!Spooky!Rot(x, n) = Rot(x, n) /\ V!Spooky!Word(x, n) = Word(x, n)
         /\ V!Spooky!ZeroWord(n) = ZeroWord(n)
  <1>1. V!Spooky!XorNibble = XorNibble
    BY Zenon DEF V!Spooky!XorNibble, XorNibble, V!Spooky!XorBit, XorBit
  <1>2. \A a, b : V!Spooky!XorByte(a, b) = XorByte(a, b)
    BY <1>1, Zenon DEF V!Spooky!XorByte, XorByte
  <1>3. V!Spooky!Xor(x, y) = Xor(x, y)
    BY <1>2, Zenon DEF V!Spooky!Xor, Xor
  <1>4. \A u, k : V!Spooky!ShiftRight(u, k) = ShiftRight(u, k)
    BY Zenon DEF V!Spooky!ShiftRight, ShiftRight, V!Spooky!Pow2, Pow2
  <1>5. \A u, k : V!Spooky!ShiftLeft(u, k) = ShiftLeft(u, k)
    BY Zenon DEF V!Spooky!ShiftLeft, ShiftLeft, V!Spooky!Pow2, Pow2
  <1>6. \A c : V!Spooky!Carried(c) = Carried(c)
    BY Zenon DEF V!Spooky!Carried, Carried
  <1>7. \A u, v : V!Spooky!Plus(u, v) = Plus(u, v)
    BY <1>6, Zenon DEF V!Spooky!Plus, Plus
  <1>8. V!Spooky!Word(x, n) = Word(x, n) /\ V!Spooky!ZeroWord(n) = ZeroWord(n)
    BY <1>6, Zenon DEF V!Spooky!Word, Word, V!Spooky!ZeroWord, ZeroWord
  <1>9. V!Spooky!Rot(x, n) = Rot(x, n)
    BY <1>4, <1>5, <1>7, Zenon DEF V!Spooky!Rot, Rot, V!Spooky!Bits, Bits
  <1> QED BY <1>3, <1>7, <1>8, <1>9, Zenon

Word64 == Bytes(8)

\* What SpookyHash does to words makes words.
LEMMA SpookyWordsClosed ==
  ASSUME NEW x \in Word64, NEW y \in Word64, NEW k \in 0 .. 64
  PROVE  /\ V!Spooky!Plus(x, y) \in Word64 /\ V!Spooky!Xor(x, y) \in Word64
         /\ V!Spooky!Rot(x, k) \in Word64
  <1>1. 8 \in Nat /\ k \in 0 .. 8 * 8
    OBVIOUS
  <1>2. Plus(x, y) \in Word64 /\ Xor(x, y) \in Word64 /\ Rot(x, k) \in Word64
    BY <1>1, SumsAreWords, XorIsWord, RotIsWord DEF Word64
  <1> QED BY <1>2, SameSpookyWords, Zenon

\* A round of ShortMix.
LEMMA ShortMixRoundClosed ==
  ASSUME NEW h \in [1 .. 4 -> Word64], NEW k \in 0 .. 64,
         NEW x \in 1 .. 4, NEW y \in 1 .. 4, NEW z \in 1 .. 4, x # z
  PROVE  V!Spooky!ShortMixRound(h, k, x, y, z) \in [1 .. 4 -> Word64]
  <1> DEFINE turned == V!Spooky!Plus(V!Spooky!Rot(h[x], k), h[y])
  <1>1. h[x] \in Word64 /\ h[y] \in Word64 /\ h[z] \in Word64
    OBVIOUS
  <1>2. V!Spooky!Rot(h[x], k) \in Word64
    BY <1>1, SpookyWordsClosed
  <1>3. turned \in Word64
    BY <1>1, <1>2, SpookyWordsClosed
  <1>4. V!Spooky!ShortMixRound(h, k, x, y, z)
          = [h EXCEPT ![x] = turned, ![z] = V!Spooky!Xor(@, turned)]
    BY Zenon DEF V!Spooky!ShortMixRound
  <1> HIDE DEF turned
  <1>5. V!Spooky!Xor(h[z], turned) \in Word64
    BY <1>1, <1>3, SpookyWordsClosed
  <1> QED BY <1>3, <1>4, <1>5

\* A round of ShortEnd.
LEMMA ShortEndRoundClosed ==
  ASSUME NEW h \in [1 .. 4 -> Word64], NEW k \in 0 .. 64, NEW x \in 1 .. 4, NEW y \in 1 .. 4,
         x # y
  PROVE  V!Spooky!ShortEndRound(h, k, x, y) \in [1 .. 4 -> Word64]
  <1> DEFINE turned == V!Spooky!Rot(h[x], k)
  <1>1. h[x] \in Word64 /\ h[y] \in Word64
    OBVIOUS
  <1>2. turned \in Word64
    BY <1>1, SpookyWordsClosed
  <1>4. V!Spooky!ShortEndRound(h, k, x, y)
          = [h EXCEPT ![x] = turned, ![y] = V!Spooky!Plus(V!Spooky!Xor(@, h[x]), turned)]
    BY Zenon DEF V!Spooky!ShortEndRound
  <1> HIDE DEF turned
  <1>5. V!Spooky!Xor(h[y], h[x]) \in Word64
    BY <1>1, SpookyWordsClosed
  <1>6. V!Spooky!Plus(V!Spooky!Xor(h[y], h[x]), turned) \in Word64
    BY <1>2, <1>5, SpookyWordsClosed
  <1> QED BY <1>2, <1>4, <1>6

\* All rounds of ShortMix.
LEMMA ShortMixClosed ==
  ASSUME NEW h \in [1 .. 4 -> Word64]
  PROVE  V!Spooky!ShortMix(h) \in [1 .. 4 -> Word64]
  <1> DEFINE amounts == <<50, 52, 30, 41, 54, 48, 38, 37, 62, 34, 5, 36>>
             T == [1 .. 4 -> Word64]
             n == 12
             start == h
             op(r, k) == V!Spooky!ShortMixRound(r, amounts[k],
                         ((k + 1) % 4) + 1,
                         ((((k + 1) % 4) + 1) % 4) + 1,
                         (((((k + 1) % 4) + 1) + 1) % 4) + 1)
             step == [k \in 1 .. n |-> [r \in T |-> op(r, k)]]
             f(h1) == [k \in 0 .. n |-> IF k = 0 THEN start ELSE op(h1[k - 1], k)]
             after == CHOOSE h1 : h1 = f(h1)
  <1>1. start \in T /\ n \in Nat
    OBVIOUS
  <1>2. ASSUME NEW k \in 1 .. n, NEW r \in T PROVE op(r, k) \in T
    <2> DEFINE x == ((k + 1) % 4) + 1
    <2>1. x \in 1 .. 4 /\ (x % 4) + 1 \in 1 .. 4 /\ ((x + 1) % 4) + 1 \in 1 .. 4
          /\ x # (x % 4) + 1 /\ x # ((x + 1) % 4) + 1
      OBVIOUS
    <2>2. amounts[k] \in 0 .. 64
      <3>1. k \in {1, 2, 3, 4, 5, 6, 7, 8, 9, 10, 11, 12}
        OBVIOUS
      <3> QED BY <3>1
    <2> HIDE DEF x, amounts
    <2> QED BY <2>1, <2>2, ShortMixRoundClosed DEF x
  <1>10. V!Spooky!ShortMix(h) = after[n]
    BY Zenon DEF V!Spooky!ShortMix
  <1>11. \A k \in 0 .. n : after[k] \in T
    <2> HIDE DEF op, T, n, start, amounts
    <2>1. step \in [1 .. n -> [T -> T]]
      BY <1>2
    <2>2. PICK g : Recurs(g, n, T, start, step)
      <3> HIDE DEF step
      <3> QED BY <1>1, <2>1, Recursion
    <2>3. g \in [0 .. n -> T] /\ g[0] = start /\ \A k \in 1 .. n : g[k] = step[k][g[k - 1]]
      <3> HIDE DEF step
      <3> QED BY <2>2 DEF Recurs
    <2>4. ASSUME NEW k \in 1 .. n PROVE g[k] = op(g[k - 1], k)
      <3>1. k - 1 \in 0 .. n
        BY <1>1
      <3>2. g[k - 1] \in T
        BY <2>3, <3>1
      <3> QED BY <2>3, <3>2
    <2>5. \A k \in 0 .. n : g[k] = IF k = 0 THEN start ELSE op(g[k - 1], k)
      BY <1>1, <2>3, <2>4
    <2>6. g = f(g)
      BY <2>3, <2>5
    <2>7. after = f(after)
      <3> HIDE DEF f
      <3> QED BY <2>6
    <2> HIDE DEF after
    <2>8. after = [k \in 0 .. n |-> IF k = 0 THEN start ELSE op(after[k - 1], k)]
      BY <2>7
    <2>9. after[0] = start /\ \A k \in 1 .. n : after[k] = op(after[k - 1], k)
      BY <1>1, <2>8
    <2> DEFINE R == {k \in 0 .. n : after[k] \in T}
    <2>10. 0 \in R
      BY <1>1, <2>9
    <2>11. ASSUME NEW k \in 1 .. n, k - 1 \in R PROVE k \in R
      <3>1. after[k - 1] \in T /\ k \in 0 .. n
        BY <1>1, <2>11
      <3>2. after[k] \in T
        BY <1>2, <2>9, <3>1
      <3> QED BY <3>1, <3>2
    <2>12. \A k \in 0 .. n : k \in R
      <3> HIDE DEF R
      <3> QED BY <1>1, <2>10, <2>11, Induction
    <2> QED BY <2>12
  <1>12. after[n] \in T
    <2> HIDE DEF after, op, T, n, amounts
    <2> QED BY <1>1, <1>11
  <1> QED BY <1>10, <1>12

\* All rounds of ShortEnd.
LEMMA ShortEndClosed ==
  ASSUME NEW h \in [1 .. 4 -> Word64]
  PROVE  V!Spooky!ShortEnd(h) \in [1 .. 4 -> Word64]
  <1> DEFINE amounts == <<15, 52, 26, 51, 28, 9, 47, 54, 32, 25, 63>>
             T == [1 .. 4 -> Word64]
             n == 11
             start == h
             op(r, k) == V!Spooky!ShortEndRound(r, amounts[k], ((k + 1) % 4) + 1, ((((k + 1) % 4) + 1) % 4) + 1)
             step == [k \in 1 .. n |-> [r \in T |-> op(r, k)]]
             f(h1) == [k \in 0 .. n |-> IF k = 0 THEN start ELSE op(h1[k - 1], k)]
             after == CHOOSE h1 : h1 = f(h1)
  <1>1. start \in T /\ n \in Nat
    <2>1. n \in Nat
      OBVIOUS
    <2> HIDE DEF n, amounts
    <2> QED BY <2>1, Zenon
  <1>2. ASSUME NEW k \in 1 .. n, NEW r \in T PROVE op(r, k) \in T
    <2> DEFINE x == ((k + 1) % 4) + 1
    <2>1. x \in 1 .. 4 /\ (x % 4) + 1 \in 1 .. 4 /\ ((x + 1) % 4) + 1 \in 1 .. 4
          /\ x # (x % 4) + 1 /\ x # ((x + 1) % 4) + 1
      OBVIOUS
    <2>2. amounts[k] \in 0 .. 64
      <3>1. k \in {1, 2, 3, 4, 5, 6, 7, 8, 9, 10, 11}
        OBVIOUS
      <3> QED BY <3>1
    <2> HIDE DEF x, amounts
    <2> QED BY <2>1, <2>2, ShortEndRoundClosed DEF x
  <1>10. V!Spooky!ShortEnd(h) = after[n]
    BY Zenon DEF V!Spooky!ShortEnd
  <1>11. \A k \in 0 .. n : after[k] \in T
    <2> HIDE DEF op, T, n, start, amounts
    <2>1. step \in [1 .. n -> [T -> T]]
      BY <1>2
    <2>2. PICK g : Recurs(g, n, T, start, step)
      <3> HIDE DEF step
      <3> QED BY <1>1, <2>1, Recursion
    <2>3. g \in [0 .. n -> T] /\ g[0] = start /\ \A k \in 1 .. n : g[k] = step[k][g[k - 1]]
      <3> HIDE DEF step
      <3> QED BY <2>2 DEF Recurs
    <2>4. ASSUME NEW k \in 1 .. n PROVE g[k] = op(g[k - 1], k)
      <3>1. k - 1 \in 0 .. n
        BY <1>1
      <3>2. g[k - 1] \in T
        BY <2>3, <3>1
      <3> QED BY <2>3, <3>2
    <2>5. \A k \in 0 .. n : g[k] = IF k = 0 THEN start ELSE op(g[k - 1], k)
      BY <1>1, <2>3, <2>4
    <2>6. g = f(g)
      BY <2>3, <2>5
    <2>7. after = f(after)
      <3> HIDE DEF f
      <3> QED BY <2>6
    <2> HIDE DEF after
    <2>8. after = [k \in 0 .. n |-> IF k = 0 THEN start ELSE op(after[k - 1], k)]
      BY <2>7
    <2>9. after[0] = start /\ \A k \in 1 .. n : after[k] = op(after[k - 1], k)
      BY <1>1, <2>8
    <2> DEFINE R == {k \in 0 .. n : after[k] \in T}
    <2>10. 0 \in R
      BY <1>1, <2>9
    <2>11. ASSUME NEW k \in 1 .. n, k - 1 \in R PROVE k \in R
      <3>1. after[k - 1] \in T /\ k \in 0 .. n
        BY <1>1, <2>11
      <3>2. after[k] \in T
        BY <1>2, <2>9, <3>1
      <3> QED BY <3>1, <3>2
    <2>12. \A k \in 0 .. n : k \in R
      <3> HIDE DEF R
      <3> QED BY <1>1, <2>10, <2>11, Induction
    <2> QED BY <2>12
  <1>12. after[n] \in T
    <2> HIDE DEF after, op, T, n, amounts
    <2> QED BY <1>1, <1>11
  <1> QED BY <1>10, <1>12

\* Sums alone.
LEMMA SpookyPlusClosed ==
  ASSUME NEW x \in Word64, NEW y \in Word64
  PROVE  V!Spooky!Plus(x, y) \in Word64
  <1>1. 8 \in Nat
    OBVIOUS
  <1>2. Plus(x, y) \in Word64
    BY <1>1, SumsAreWords DEF Word64
  <1> QED BY <1>2, SameSpookyWords, Zenon

\* The words in a sequence of bytes.
LEMMA WordAtIsWord ==
  ASSUME NEW n \in Nat, NEW bytes \in Bytes(n), NEW k \in Nat, 8 * k + 8 <= n
  PROVE  V!Spooky!WordAt(bytes, k) \in Word64
  <1> DEFINE a == 8 * k + 1
             e == 8 * k + 8
  <1>1. a \in 1 .. n /\ a + 8 - 1 <= n /\ 8 > 0 /\ 8 \in Nat /\ e = a + 8 - 1
    OBVIOUS
  <1>2. V!Spooky!WordAt(bytes, k) = SubSeq(bytes, a, e)
    BY Zenon DEF V!Spooky!WordAt
  <1> HIDE DEF a, e
  <1>3. SubSeq(bytes, a, a + 8 - 1) \in Bytes(8)
    BY <1>1, PartIsWord
  <1> QED BY <1>1, <1>2, <1>3 DEF Word64

\* The next pair of words.
LEMMA TakePairClosed ==
  ASSUME NEW h \in [1 .. 4 -> Word64], NEW m \in Nat, NEW pairs \in Bytes(16 * m), NEW p \in 0 .. m - 1
  PROVE  V!Spooky!TakePair(h, pairs, p) \in [1 .. 4 -> Word64]
  <1> DEFINE first == V!Spooky!WordAt(pairs, 2 * p)
             second == V!Spooky!WordAt(pairs, 2 * p + 1)
             n == 16 * m
             k == 2 * p
             l == 2 * p + 1
  <1>1. n \in Nat /\ k \in Nat /\ l \in Nat /\ 8 * k + 8 <= n /\ 8 * l + 8 <= n /\ pairs \in Bytes(n)
    OBVIOUS
  <1>2. first \in Word64 /\ second \in Word64
    <2> HIDE DEF n, k, l
    <2>1. V!Spooky!WordAt(pairs, k) \in Word64
      BY <1>1, WordAtIsWord
    <2>2. V!Spooky!WordAt(pairs, l) \in Word64
      BY <1>1, WordAtIsWord
    <2> QED BY <2>1, <2>2, Zenon DEF k, l
  <1>3. V!Spooky!TakePair(h, pairs, p)
          = IF p % 2 = 0
              THEN V!Spooky!ShortMix([h EXCEPT ![3] = V!Spooky!Plus(@, first), ![4] = V!Spooky!Plus(@, second)])
              ELSE [h EXCEPT ![1] = V!Spooky!Plus(@, first), ![2] = V!Spooky!Plus(@, second)]
    BY Zenon DEF V!Spooky!TakePair
  <1> HIDE DEF first, second
  <1>4. \A j \in 1 .. 4 : V!Spooky!Plus(h[j], first) \in Word64 /\ V!Spooky!Plus(h[j], second) \in Word64
    BY <1>2, SpookyWordsClosed
  <1>5. /\ [h EXCEPT ![3] = V!Spooky!Plus(@, first), ![4] = V!Spooky!Plus(@, second)] \in [1 .. 4 -> Word64]
        /\ [h EXCEPT ![1] = V!Spooky!Plus(@, first), ![2] = V!Spooky!Plus(@, second)] \in [1 .. 4 -> Word64]
    BY <1>4
  <1> QED BY <1>3, <1>5, ShortMixClosed

\* The constants.
LEMMA SpookyConstants ==
  /\ V!Spooky!sc_const \in Word64 /\ V!Spooky!Word(0, 8) \in Word64
  /\ \A k \in 0 .. 255 : V!Spooky!ZeroWord(7) \o <<k>> \in Word64
  <1>1. V!Spooky!sc_const \in Word64
    BY DEF V!Spooky!sc_const, Word64, Bytes
  <1>2. Word(0, 8) \in Word64
    BY WordIsWord DEF Word64
  <1>3. V!Spooky!Word(0, 8) \in Word64
    BY <1>2, SameSpookyWords, Zenon
  <1>4. ASSUME NEW k \in 0 .. 255 PROVE V!Spooky!ZeroWord(7) \o <<k>> \in Word64
    <2>1. ZeroWord(7) \in Bytes(7) /\ <<k>> \in Bytes(1)
      BY DEF ZeroWord, Bytes
    <2>2. 7 \in Nat /\ 1 \in Nat
      OBVIOUS
    <2>3. ZeroWord(7) \o <<k>> \in Bytes(7 + 1)
      BY <2>1, <2>2, LongerWord
    <2>4. 7 + 1 = 8
      OBVIOUS
    <2> QED BY <2>3, <2>4, SameSpookyWords DEF Word64
  <1> QED BY <1>1, <1>3, <1>4

\* A digest that Short makes of zero as the seed.
ShortDigest(d, m) ==
  /\ d.words.seed = 0 /\ d.pairs \in Bytes(16 * m) /\ d.length \in 0 .. 255
  /\ d.length = Len(d.pairs) \/ d.cd \in Bytes(15)

\* Its value is a word.
LEMMA ShortValueIsWord ==
  ASSUME NEW m \in Nat, NEW d, ShortDigest(d, m)
  PROVE  V!Spooky!ShortValue(d) \in Word64
  <1> DEFINE s == V!Spooky!Word(d.words.seed, 8)
             length == V!Spooky!ZeroWord(7) \o <<d.length>>
             cd == IF d.length = Len(d.pairs) THEN <<V!Spooky!sc_const, V!Spooky!sc_const>>
                   ELSE <<SubSeq(d.cd, 1, 8), SubSeq(d.cd, 9, 15) \o <<0>>>>
             T == [1 .. 4 -> Word64]
             n == Len(d.pairs) \div 16
             start == <<s, s, V!Spooky!sc_const, V!Spooky!sc_const>>
             op(r, k) == V!Spooky!TakePair(r, d.pairs, k - 1)
             step == [k \in 1 .. n |-> [r \in T |-> op(r, k)]]
             f(h1) == [k \in 0 .. n |-> IF k = 0 THEN start ELSE op(h1[k - 1], k)]
             after == CHOOSE h1 : h1 = f(h1)
  <1>0. /\ d.words.seed = 0 /\ d.pairs \in Bytes(16 * m) /\ d.length \in 0 .. 255
        /\ d.length = Len(d.pairs) \/ d.cd \in Bytes(15)
    BY DEF ShortDigest
  <1>1. start \in T /\ n \in Nat /\ n = m
    <2> DEFINE l == 16 * m
    <2>1. l \in Nat /\ l \div 16 = m
      OBVIOUS
    <2>2. Len(d.pairs) = l
      <3> HIDE DEF l
      <3>1. d.pairs \in Bytes(l)
        BY <1>0 DEF l
      <3> QED BY <2>1, <3>1, BytesAreSeq
    <2>3. n = m
      BY <2>1, <2>2
    <2>4. s \in Word64 /\ V!Spooky!sc_const \in Word64
      BY <1>0, SpookyConstants
    <2> HIDE DEF n, s
    <2> QED BY <2>3, <2>4
  <1>2. ASSUME NEW k \in 1 .. n, NEW r \in T PROVE op(r, k) \in T
    <2> HIDE DEF n
    <2>1. k - 1 \in 0 .. m - 1
      BY <1>1
    <2> QED BY <1>0, <2>1, TakePairClosed
  <1>3. cd[1] \in Word64 /\ cd[2] \in Word64 /\ length \in Word64
    <2>1. length \in Word64
      BY <1>0, SpookyConstants
    <2>2. CASE d.length = Len(d.pairs)
      BY <2>1, <2>2, SpookyConstants
    <2>3. CASE d.length # Len(d.pairs)
      <3> DEFINE c == SubSeq(d.cd, 1, 8)
                 e == SubSeq(d.cd, 9, 15)
      <3>1. d.cd \in Bytes(15)
        BY <1>0, <2>3
      <3>2. c \in Bytes(8)
        <4>1. 8 \in Nat /\ 15 \in Nat /\ 1 \in 1 .. 15 /\ 1 + 8 - 1 <= 15 /\ 8 > 0
          OBVIOUS
        <4>2. SubSeq(d.cd, 1, 1 + 8 - 1) \in Bytes(8)
          BY <3>1, <4>1, PartIsWord
        <4>3. 1 + 8 - 1 = 8
          OBVIOUS
        <4> QED BY <4>2, <4>3
      <3>3. e \in Bytes(7)
        <4>1. 7 \in Nat /\ 15 \in Nat /\ 9 \in 1 .. 15 /\ 9 + 7 - 1 <= 15 /\ 7 > 0
          OBVIOUS
        <4>2. SubSeq(d.cd, 9, 9 + 7 - 1) \in Bytes(7)
          BY <3>1, <4>1, PartIsWord
        <4>3. 9 + 7 - 1 = 15
          OBVIOUS
        <4> QED BY <4>2, <4>3
      <3> HIDE DEF e
      <3>4. e \o <<0>> \in Bytes(8)
        <4>1. <<0>> \in Bytes(1)
          BY DEF Bytes
        <4>2. 7 \in Nat /\ 1 \in Nat /\ 7 + 1 = 8
          OBVIOUS
        <4>3. e \o <<0>> \in Bytes(7 + 1)
          BY <3>3, <4>1, <4>2, LongerWord
        <4> QED BY <4>2, <4>3
      <3>5. cd = <<c, e \o <<0>>>>
        BY <2>3 DEF e
      <3> HIDE DEF c, cd
      <3> QED BY <2>1, <3>2, <3>4, <3>5 DEF Word64
    <2> QED BY <2>2, <2>3
  <1>10. V!Spooky!ShortValue(d) = V!Spooky!ShortEnd([after[n] EXCEPT ![3] = V!Spooky!Plus(@, cd[1]),
                ![4] = V!Spooky!Plus(V!Spooky!Plus(@, length), cd[2])])[1]
    BY Zenon DEF V!Spooky!ShortValue
  <1>11. \A k \in 0 .. n : after[k] \in T
    <2> HIDE DEF op, T, n, start
    <2>1. step \in [1 .. n -> [T -> T]]
      BY <1>2
    <2>2. PICK g : Recurs(g, n, T, start, step)
      <3> HIDE DEF step
      <3> QED BY <1>1, <2>1, Recursion
    <2>3. g \in [0 .. n -> T] /\ g[0] = start /\ \A k \in 1 .. n : g[k] = step[k][g[k - 1]]
      <3> HIDE DEF step
      <3> QED BY <2>2 DEF Recurs
    <2>4. ASSUME NEW k \in 1 .. n PROVE g[k] = op(g[k - 1], k)
      <3>1. k - 1 \in 0 .. n
        BY <1>1
      <3>2. g[k - 1] \in T
        BY <2>3, <3>1
      <3> QED BY <2>3, <3>2
    <2>5. \A k \in 0 .. n : g[k] = IF k = 0 THEN start ELSE op(g[k - 1], k)
      BY <1>1, <2>3, <2>4
    <2>6. g = f(g)
      BY <2>3, <2>5
    <2>7. after = f(after)
      <3> HIDE DEF f
      <3> QED BY <2>6
    <2> HIDE DEF after
    <2>8. after = [k \in 0 .. n |-> IF k = 0 THEN start ELSE op(after[k - 1], k)]
      BY <2>7
    <2>9. after[0] = start /\ \A k \in 1 .. n : after[k] = op(after[k - 1], k)
      BY <1>1, <2>8
    <2> DEFINE R == {k \in 0 .. n : after[k] \in T}
    <2>10. 0 \in R
      BY <1>1, <2>9
    <2>11. ASSUME NEW k \in 1 .. n, k - 1 \in R PROVE k \in R
      <3>1. after[k - 1] \in T /\ k \in 0 .. n
        BY <1>1, <2>11
      <3>2. after[k] \in T
        BY <1>2, <2>9, <3>1
      <3> QED BY <3>1, <3>2
    <2>12. \A k \in 0 .. n : k \in R
      <3> HIDE DEF R
      <3> QED BY <1>1, <2>10, <2>11, Induction
    <2> QED BY <2>12
  <1>12. after[n] \in T
    <2> HIDE DEF after, op, T, n
    <2> QED BY <1>1, <1>11
  <1>13. V!Spooky!ShortEnd([after[n] EXCEPT ![3] = V!Spooky!Plus(@, cd[1]),
                ![4] = V!Spooky!Plus(V!Spooky!Plus(@, length), cd[2])])
           \in [1 .. 4 -> Word64]
    <2>1. after[n] \in [1 .. 4 -> Word64]
      BY <1>12
    <2> DEFINE mixed == after[n]
    <2> HIDE DEF mixed, after, cd, length, n
    <2>2. mixed[3] \in Word64 /\ mixed[4] \in Word64 /\ mixed \in [1 .. 4 -> Word64]
      BY <2>1 DEF mixed
    <2>3. V!Spooky!Plus(mixed[3], cd[1]) \in Word64
      BY <1>3, <2>2, SpookyPlusClosed
    <2>3a. V!Spooky!Plus(mixed[4], length) \in Word64
      BY <1>3, <2>2, SpookyPlusClosed
    <2>4. V!Spooky!Plus(V!Spooky!Plus(mixed[4], length), cd[2]) \in Word64
      BY <1>3, <2>3a, SpookyPlusClosed
    <2>5. [mixed EXCEPT ![3] = V!Spooky!Plus(@, cd[1]),
                  ![4] = V!Spooky!Plus(V!Spooky!Plus(@, length), cd[2])] \in [1 .. 4 -> Word64]
      BY <2>2, <2>3, <2>4
    <2>6. V!Spooky!ShortEnd([mixed EXCEPT ![3] = V!Spooky!Plus(@, cd[1]),
                  ![4] = V!Spooky!Plus(V!Spooky!Plus(@, length), cd[2])]) \in [1 .. 4 -> Word64]
      BY <2>5, ShortEndClosed
    <2> QED BY <2>6, Zenon DEF mixed
  <1> DEFINE e == V!Spooky!ShortEnd([after[n] EXCEPT ![3] = V!Spooky!Plus(@, cd[1]),
                ![4] = V!Spooky!Plus(V!Spooky!Plus(@, length), cd[2])])
  <1>14. e \in [1 .. 4 -> Word64] /\ V!Spooky!ShortValue(d) = e[1]
    BY <1>10, <1>13, Zenon
  <1> HIDE DEF e
  <1> QED BY <1>14

\* A line of Mix.
LEMMA MixLineClosed ==
  ASSUME NEW h \in [1 .. 12 -> Word64], NEW m \in Nat, NEW data \in Word64, NEW k \in 0 .. 64
  PROVE  V!Spooky!MixLine(h, m, data, k) \in [1 .. 12 -> Word64]
  <1> DEFINE at(j) == ((m + j) % 12) + 1
             s0 == V!Spooky!Plus(h[at(0)], data)
             s11 == V!Spooky!Xor(h[at(11)], s0)
             x2 == V!Spooky!Xor(h[at(2)], h[at(10)])
             x0 == V!Spooky!Rot(s0, k)
             x11 == V!Spooky!Plus(s11, h[at(1)])
  <1>1. \A j \in Nat : at(j) \in 1 .. 12
    OBVIOUS
  <1>2. at(0) \in 1 .. 12 /\ at(1) \in 1 .. 12 /\ at(2) \in 1 .. 12 /\ at(10) \in 1 .. 12 /\ at(11) \in 1 .. 12
    <2> HIDE DEF at
    <2> QED BY <1>1
  <1>3. V!Spooky!MixLine(h, m, data, k)
          = [h EXCEPT ![at(2)] = V!Spooky!Xor(@, h[at(10)]), ![at(0)] = x0, ![at(11)] = x11]
    BY Zenon DEF V!Spooky!MixLine
  <1> HIDE DEF at
  <1>4. h[at(0)] \in Word64 /\ h[at(1)] \in Word64 /\ h[at(2)] \in Word64 /\ h[at(10)] \in Word64 /\ h[at(11)] \in Word64
    BY <1>2
  <1>5. s0 \in Word64
    BY <1>4, SpookyPlusClosed
  <1>6. s11 \in Word64 /\ x0 \in Word64
    <2> HIDE DEF s0
    <2> QED BY <1>4, <1>5, SpookyWordsClosed
  <1>7. x11 \in Word64
    <2> HIDE DEF s11
    <2> QED BY <1>4, <1>6, SpookyPlusClosed
  <1>8. V!Spooky!Xor(h[at(2)], h[at(10)]) \in Word64
    <2>1. 0 \in 0 .. 64
      OBVIOUS
    <2> QED BY <1>4, <2>1, SpookyWordsClosed
  <1> HIDE DEF x0, x11
  <1>9. [h EXCEPT ![at(2)] = V!Spooky!Xor(@, h[at(10)]), ![at(0)] = x0, ![at(11)] = x11] \in [1 .. 12 -> Word64]
    BY <1>2, <1>6, <1>7, <1>8
  <1> QED BY <1>3, <1>9, Zenon

\* A line of EndPartial.
LEMMA EndLineClosed ==
  ASSUME NEW h \in [1 .. 12 -> Word64], NEW m \in Nat, NEW k \in 0 .. 64
  PROVE  V!Spooky!EndLine(h, m, k) \in [1 .. 12 -> Word64]
  <1> DEFINE at(j) == ((m + j) % 12) + 1
             h11 == V!Spooky!Plus(h[at(11)], h[at(1)])
             x2 == V!Spooky!Xor(h[at(2)], h11)
             x1 == V!Spooky!Rot(h[at(1)], k)
  <1>1. \A j \in Nat : at(j) \in 1 .. 12
    OBVIOUS
  <1>2. at(1) \in 1 .. 12 /\ at(2) \in 1 .. 12 /\ at(11) \in 1 .. 12
    <2> HIDE DEF at
    <2> QED BY <1>1
  <1>3. V!Spooky!EndLine(h, m, k)
          = [h EXCEPT ![at(11)] = h11, ![at(2)] = V!Spooky!Xor(@, h11), ![at(1)] = V!Spooky!Rot(@, k)]
    BY Zenon DEF V!Spooky!EndLine
  <1> HIDE DEF at
  <1>4. h[at(1)] \in Word64 /\ h[at(2)] \in Word64 /\ h[at(11)] \in Word64
    BY <1>2
  <1>5. h11 \in Word64
    BY <1>4, SpookyPlusClosed
  <1> HIDE DEF h11
  <1>6. V!Spooky!Xor(h[at(2)], h11) \in Word64 /\ V!Spooky!Rot(h[at(1)], k) \in Word64
    BY <1>4, <1>5, SpookyWordsClosed
  <1>7. [h EXCEPT ![at(11)] = h11, ![at(2)] = V!Spooky!Xor(@, h11), ![at(1)] = V!Spooky!Rot(@, k)] \in [1 .. 12 -> Word64]
    BY <1>2, <1>5, <1>6
  <1> QED BY <1>3, <1>7, Zenon

\* All lines of Mix.
LEMMA MixClosed ==
  ASSUME NEW h \in [1 .. 12 -> Word64], NEW bytes \in Bytes(96)
  PROVE  V!Spooky!Mix(h, bytes) \in [1 .. 12 -> Word64]
  <1> DEFINE amounts == <<11, 32, 43, 31, 17, 28, 39, 57, 55, 54, 22, 46>>
             T == [1 .. 12 -> Word64]
             n == 12
             start == h
             op(r, k) == V!Spooky!MixLine(r, k - 1, V!Spooky!WordAt(bytes, k - 1), amounts[k])
             step == [k \in 1 .. n |-> [r \in T |-> op(r, k)]]
             f(h1) == [k \in 0 .. n |-> IF k = 0 THEN start ELSE op(h1[k - 1], k)]
             after == CHOOSE h1 : h1 = f(h1)
  <1>1. start \in T /\ n \in Nat
    OBVIOUS
  <1>2. ASSUME NEW k \in 1 .. n, NEW r \in T PROVE op(r, k) \in T
    <2>1. k - 1 \in Nat
      OBVIOUS
    <2>2. amounts[k] \in 0 .. 64
      <3>1. k \in {1, 2, 3, 4, 5, 6, 7, 8, 9, 10, 11, 12}
        OBVIOUS
      <3> QED BY <3>1
    <2>3. V!Spooky!WordAt(bytes, k - 1) \in Word64
      <3>1. 96 \in Nat /\ 8 * (k - 1) + 8 <= 96
        OBVIOUS
      <3> QED BY <2>1, <3>1, WordAtIsWord
    <2> HIDE DEF amounts
    <2> QED BY <2>1, <2>2, <2>3, MixLineClosed
  <1>10. V!Spooky!Mix(h, bytes) = after[n]
    BY Zenon DEF V!Spooky!Mix
  <1>11. \A k \in 0 .. n : after[k] \in T
    <2> HIDE DEF op, T, n, start, amounts
    <2>1. step \in [1 .. n -> [T -> T]]
      BY <1>2
    <2>2. PICK g : Recurs(g, n, T, start, step)
      <3> HIDE DEF step
      <3> QED BY <1>1, <2>1, Recursion
    <2>3. g \in [0 .. n -> T] /\ g[0] = start /\ \A k \in 1 .. n : g[k] = step[k][g[k - 1]]
      <3> HIDE DEF step
      <3> QED BY <2>2 DEF Recurs
    <2>4. ASSUME NEW k \in 1 .. n PROVE g[k] = op(g[k - 1], k)
      <3>1. k - 1 \in 0 .. n
        BY <1>1
      <3>2. g[k - 1] \in T
        BY <2>3, <3>1
      <3> QED BY <2>3, <3>2
    <2>5. \A k \in 0 .. n : g[k] = IF k = 0 THEN start ELSE op(g[k - 1], k)
      BY <1>1, <2>3, <2>4
    <2>6. g = f(g)
      BY <2>3, <2>5
    <2>7. after = f(after)
      <3> HIDE DEF f
      <3> QED BY <2>6
    <2> HIDE DEF after
    <2>8. after = [k \in 0 .. n |-> IF k = 0 THEN start ELSE op(after[k - 1], k)]
      BY <2>7
    <2>9. after[0] = start /\ \A k \in 1 .. n : after[k] = op(after[k - 1], k)
      BY <1>1, <2>8
    <2> DEFINE R == {k \in 0 .. n : after[k] \in T}
    <2>10. 0 \in R
      BY <1>1, <2>9
    <2>11. ASSUME NEW k \in 1 .. n, k - 1 \in R PROVE k \in R
      <3>1. after[k - 1] \in T /\ k \in 0 .. n
        BY <1>1, <2>11
      <3>2. after[k] \in T
        BY <1>2, <2>9, <3>1
      <3> QED BY <3>1, <3>2
    <2>12. \A k \in 0 .. n : k \in R
      <3> HIDE DEF R
      <3> QED BY <1>1, <2>10, <2>11, Induction
    <2> QED BY <2>12
  <1>12. after[n] \in T
    <2> HIDE DEF after, op, T, n, amounts
    <2> QED BY <1>1, <1>11
  <1> QED BY <1>10, <1>12

\* All lines of EndPartial.
LEMMA EndPartialClosed ==
  ASSUME NEW h \in [1 .. 12 -> Word64]
  PROVE  V!Spooky!EndPartial(h) \in [1 .. 12 -> Word64]
  <1> DEFINE amounts == <<44, 15, 34, 21, 38, 33, 10, 13, 38, 53, 42, 54>>
             T == [1 .. 12 -> Word64]
             n == 12
             start == h
             op(r, k) == V!Spooky!EndLine(r, k - 1, amounts[k])
             step == [k \in 1 .. n |-> [r \in T |-> op(r, k)]]
             f(h1) == [k \in 0 .. n |-> IF k = 0 THEN start ELSE op(h1[k - 1], k)]
             after == CHOOSE h1 : h1 = f(h1)
  <1>1. start \in T /\ n \in Nat
    OBVIOUS
  <1>2. ASSUME NEW k \in 1 .. n, NEW r \in T PROVE op(r, k) \in T
    <2>1. k - 1 \in Nat
      OBVIOUS
    <2>2. amounts[k] \in 0 .. 64
      <3>1. k \in {1, 2, 3, 4, 5, 6, 7, 8, 9, 10, 11, 12}
        OBVIOUS
      <3> QED BY <3>1
    <2> HIDE DEF amounts
    <2> QED BY <2>1, <2>2, EndLineClosed
  <1>10. V!Spooky!EndPartial(h) = after[n]
    BY Zenon DEF V!Spooky!EndPartial
  <1>11. \A k \in 0 .. n : after[k] \in T
    <2> HIDE DEF op, T, n, start, amounts
    <2>1. step \in [1 .. n -> [T -> T]]
      BY <1>2
    <2>2. PICK g : Recurs(g, n, T, start, step)
      <3> HIDE DEF step
      <3> QED BY <1>1, <2>1, Recursion
    <2>3. g \in [0 .. n -> T] /\ g[0] = start /\ \A k \in 1 .. n : g[k] = step[k][g[k - 1]]
      <3> HIDE DEF step
      <3> QED BY <2>2 DEF Recurs
    <2>4. ASSUME NEW k \in 1 .. n PROVE g[k] = op(g[k - 1], k)
      <3>1. k - 1 \in 0 .. n
        BY <1>1
      <3>2. g[k - 1] \in T
        BY <2>3, <3>1
      <3> QED BY <2>3, <3>2
    <2>5. \A k \in 0 .. n : g[k] = IF k = 0 THEN start ELSE op(g[k - 1], k)
      BY <1>1, <2>3, <2>4
    <2>6. g = f(g)
      BY <2>3, <2>5
    <2>7. after = f(after)
      <3> HIDE DEF f
      <3> QED BY <2>6
    <2> HIDE DEF after
    <2>8. after = [k \in 0 .. n |-> IF k = 0 THEN start ELSE op(after[k - 1], k)]
      BY <2>7
    <2>9. after[0] = start /\ \A k \in 1 .. n : after[k] = op(after[k - 1], k)
      BY <1>1, <2>8
    <2> DEFINE R == {k \in 0 .. n : after[k] \in T}
    <2>10. 0 \in R
      BY <1>1, <2>9
    <2>11. ASSUME NEW k \in 1 .. n, k - 1 \in R PROVE k \in R
      <3>1. after[k - 1] \in T /\ k \in 0 .. n
        BY <1>1, <2>11
      <3>2. after[k] \in T
        BY <1>2, <2>9, <3>1
      <3> QED BY <3>1, <3>2
    <2>12. \A k \in 0 .. n : k \in R
      <3> HIDE DEF R
      <3> QED BY <1>1, <2>10, <2>11, Induction
    <2> QED BY <2>12
  <1>12. after[n] \in T
    <2> HIDE DEF after, op, T, n, amounts
    <2> QED BY <1>1, <1>11
  <1> QED BY <1>10, <1>12

\* End.
LEMMA EndClosed ==
  ASSUME NEW h \in [1 .. 12 -> Word64], NEW bytes \in Bytes(96)
  PROVE  V!Spooky!End(h, bytes) \in [1 .. 12 -> Word64]
  <1> DEFINE h1 == [k \in 1 .. 12 |-> V!Spooky!Plus(h[k], V!Spooky!WordAt(bytes, k - 1))]
  <1>1. ASSUME NEW k \in 1 .. 12 PROVE V!Spooky!Plus(h[k], V!Spooky!WordAt(bytes, k - 1)) \in Word64
    <2>1. 96 \in Nat /\ 8 * (k - 1) + 8 <= 96 /\ k - 1 \in Nat
      OBVIOUS
    <2>2. V!Spooky!WordAt(bytes, k - 1) \in Word64
      BY <2>1, WordAtIsWord
    <2> QED BY <2>2, SpookyPlusClosed
  <1>2. h1 \in [1 .. 12 -> Word64]
    BY <1>1
  <1>3. V!Spooky!End(h, bytes)
          = V!Spooky!EndPartial(V!Spooky!EndPartial(V!Spooky!EndPartial(h1)))
    BY Zenon DEF V!Spooky!End
  <1> HIDE DEF h1
  <1>4. V!Spooky!EndPartial(h1) \in [1 .. 12 -> Word64]
    BY <1>2, EndPartialClosed
  <1>5. V!Spooky!EndPartial(V!Spooky!EndPartial(h1)) \in [1 .. 12 -> Word64]
    BY <1>4, EndPartialClosed
  <1> QED BY <1>3, <1>5, EndPartialClosed

\* A digest that Mix makes of zero as the seed.
LongDigest(d, m) ==
  d.words.head.seed = 0 /\ d.words.head.mixed \in Bytes(96 * m) /\ d.last \in Bytes(96)

\* Its value is a word.
LEMMA LongValueIsWord ==
  ASSUME NEW m \in Nat, NEW d, LongDigest(d, m)
  PROVE  V!Spooky!LongValue(d) \in Word64
  <1> DEFINE s == V!Spooky!Word(d.words.head.seed, 8)
             c == V!Spooky!sc_const
             T == [1 .. 12 -> Word64]
             n == Len(d.words.head.mixed) \div 96
             start == <<s, s, c, s, s, c, s, s, c, s, s, c>>
             op(r, k) == V!Spooky!Mix(r, SubSeq(d.words.head.mixed, 96 * k - 95, 96 * k))
             step == [k \in 1 .. n |-> [r \in T |-> op(r, k)]]
             f(h1) == [k \in 0 .. n |-> IF k = 0 THEN start ELSE op(h1[k - 1], k)]
             after == CHOOSE h1 : h1 = f(h1)
  <1>0. d.words.head.seed = 0 /\ d.words.head.mixed \in Bytes(96 * m) /\ d.last \in Bytes(96)
    BY DEF LongDigest
  <1>1. start \in T /\ n \in Nat /\ n = m
    <2> DEFINE l == 96 * m
    <2>1. l \in Nat /\ l \div 96 = m
      OBVIOUS
    <2>2. Len(d.words.head.mixed) = l
      <3> HIDE DEF l
      <3>1. d.words.head.mixed \in Bytes(l)
        BY <1>0 DEF l
      <3> QED BY <2>1, <3>1, BytesAreSeq
    <2>3. n = m
      BY <2>1, <2>2
    <2>4. s \in Word64 /\ c \in Word64
      BY <1>0, SpookyConstants
    <2> HIDE DEF n, s, c
    <2>5. start \in T
      BY <2>4
    <2> QED BY <2>3, <2>5
  <1>2. ASSUME NEW k \in 1 .. n, NEW r \in T PROVE op(r, k) \in T
    <2> DEFINE l == 96 * m
               a == 96 * k - 95
               z == 96 * k
               mixed == d.words.head.mixed
    <2> HIDE DEF n
    <2>1. l \in Nat /\ a \in 1 .. l /\ a + 96 - 1 <= l /\ 96 > 0 /\ 96 \in Nat /\ z = a + 96 - 1
      BY <1>1
    <2>2. mixed \in Bytes(l)
      BY <1>0
    <2> HIDE DEF l, a, z, mixed
    <2>3. SubSeq(mixed, a, a + 96 - 1) \in Bytes(96)
      BY <2>1, <2>2, PartIsWord
    <2>4. SubSeq(mixed, a, z) \in Bytes(96)
      BY <2>1, <2>3
    <2>5. V!Spooky!Mix(r, SubSeq(mixed, a, z)) \in T
      BY <2>4, MixClosed
    <2> QED BY <2>5, Zenon DEF a, z, mixed
  <1>10. V!Spooky!LongValue(d) = V!Spooky!End(after[n], d.last)[1]
    BY Zenon DEF V!Spooky!LongValue
  <1>11. \A k \in 0 .. n : after[k] \in T
    <2> HIDE DEF op, T, n, start
    <2>1. step \in [1 .. n -> [T -> T]]
      BY <1>2
    <2>2. PICK g : Recurs(g, n, T, start, step)
      <3> HIDE DEF step
      <3> QED BY <1>1, <2>1, Recursion
    <2>3. g \in [0 .. n -> T] /\ g[0] = start /\ \A k \in 1 .. n : g[k] = step[k][g[k - 1]]
      <3> HIDE DEF step
      <3> QED BY <2>2 DEF Recurs
    <2>4. ASSUME NEW k \in 1 .. n PROVE g[k] = op(g[k - 1], k)
      <3>1. k - 1 \in 0 .. n
        BY <1>1
      <3>2. g[k - 1] \in T
        BY <2>3, <3>1
      <3> QED BY <2>3, <3>2
    <2>5. \A k \in 0 .. n : g[k] = IF k = 0 THEN start ELSE op(g[k - 1], k)
      BY <1>1, <2>3, <2>4
    <2>6. g = f(g)
      BY <2>3, <2>5
    <2>7. after = f(after)
      <3> HIDE DEF f
      <3> QED BY <2>6
    <2> HIDE DEF after
    <2>8. after = [k \in 0 .. n |-> IF k = 0 THEN start ELSE op(after[k - 1], k)]
      BY <2>7
    <2>9. after[0] = start /\ \A k \in 1 .. n : after[k] = op(after[k - 1], k)
      BY <1>1, <2>8
    <2> DEFINE R == {k \in 0 .. n : after[k] \in T}
    <2>10. 0 \in R
      BY <1>1, <2>9
    <2>11. ASSUME NEW k \in 1 .. n, k - 1 \in R PROVE k \in R
      <3>1. after[k - 1] \in T /\ k \in 0 .. n
        BY <1>1, <2>11
      <3>2. after[k] \in T
        BY <1>2, <2>9, <3>1
      <3> QED BY <3>1, <3>2
    <2>12. \A k \in 0 .. n : k \in R
      <3> HIDE DEF R
      <3> QED BY <1>1, <2>10, <2>11, Induction
    <2> QED BY <2>12
  <1>12. after[n] \in T
    <2> HIDE DEF after, op, T, n
    <2> QED BY <1>1, <1>11
  <1>13. V!Spooky!End(after[n], d.last) \in [1 .. 12 -> Word64]
    <2> HIDE DEF after, n
    <2>1. after[n] \in [1 .. 12 -> Word64]
      BY <1>12
    <2> QED BY <1>0, <2>1, EndClosed
  <1> DEFINE e == V!Spooky!End(after[n], d.last)
  <1>14. e \in [1 .. 12 -> Word64] /\ V!Spooky!LongValue(d) = e[1]
    BY <1>10, <1>13, Zenon
  <1> HIDE DEF e
  <1> QED BY <1>14

\* What is loaded is bytes.
LEMMA LoadIsWord ==
  ASSUME NEW n \in Nat, NEW b \in Seq(0 .. 255), NEW a \in Nat, a + n <= Len(b)
  PROVE  V!Spooky!S!Load(b, a, n) \in Bytes(n)
  <1>1. ASSUME NEW k \in 1 .. n PROVE V!Spooky!S!At(b, a + k - 1) \in 0 .. 255
    <2>1. a + k - 1 \in 0 .. Len(b) - 1 /\ (a + k - 1) + 1 \in 1 .. Len(b)
      OBVIOUS
    <2>2. V!Spooky!S!At(b, a + k - 1) = b[(a + k - 1) + 1]
      BY <2>1, Zenon DEF V!Spooky!S!At
    <2> DEFINE B == 0 .. 255
               l == (a + k - 1) + 1
    <2>3. b \in Seq(B) /\ l \in 1 .. Len(b)
      BY <2>1
    <2> HIDE DEF B, l
    <2>4. b[l] \in B
      BY <2>3
    <2> QED BY <2>2, <2>4, Zenon DEF B, l
  <1>2. V!Spooky!S!Load(b, a, n) = [k \in 1 .. n |-> V!Spooky!S!At(b, a + k - 1)]
    BY Zenon DEF V!Spooky!S!Load
  <1> DEFINE byte(k) == V!Spooky!S!At(b, a + k - 1)
  <1>3. (\A k \in 1 .. n : byte(k) \in 0 .. 255) /\ V!Spooky!S!Load(b, a, n) = [k \in 1 .. n |-> byte(k)]
    BY <1>1, <1>2, Zenon
  <1> HIDE DEF byte
  <1> QED BY <1>3 DEF Bytes

\* So is what is padded.
LEMMA PaddedIsWord ==
  ASSUME NEW n \in Nat, NEW m \in 0 .. n, NEW b \in Bytes(m)
  PROVE  V!Spooky!S!Padded(b, n) \in Bytes(n)
  <1>1. Len(b) = m
    BY BytesAreSeq
  <1>2. ASSUME NEW k \in 1 .. n PROVE (IF k <= m THEN b[k] ELSE 0) \in 0 .. 255
    BY DEF Bytes
  <1>3. V!Spooky!S!Padded(b, n) = [k \in 1 .. n |-> IF k <= m THEN b[k] ELSE 0]
    BY <1>1 DEF V!Spooky!S!Padded
  <1> QED BY <1>2, <1>3 DEF Bytes

\* The digest of a short message.
LEMMA ShortHash ==
  ASSUME NEW b \in Seq(0 .. 255), Len(b) < 192
  PROVE  /\ ShortDigest(V!Spooky!S!Hash128(0, b), Len(b) \div 16)
         /\ "last" \notin DOMAIN V!Spooky!S!Hash128(0, b)
  <1> DEFINE n == Len(b)
             r == n % 16
             m == n \div 16
             p == n - r
             pairs == V!Spooky!S!Load(b, 0, p)
             cd == V!Spooky!S!LastPair(b, p, r)
             d == V!Spooky!S!Hash128(0, b)
             words == V!Spooky!S!Fresh(0)
             l == V!Spooky!S!uint8(n)
  <1>1. d = [reported |-> TRUE, words |-> words, pairs |-> pairs, cd |-> cd, length |-> l]
    BY DEF V!Spooky!S!Hash128, V!Spooky!S!Short, V!Spooky!S!sc_bufSize
  <1>2. words.seed = 0
    BY DEF V!Spooky!S!Fresh
  <1>3. n \in Nat /\ r \in 0 .. 15 /\ m \in Nat /\ p = 16 * m /\ p \in Nat /\ p + r = n /\ n < 192
    <2>1. n \in Nat /\ n < 192
      OBVIOUS
    <2> HIDE DEF n
    <2> QED BY <2>1
  <1>4. pairs \in Bytes(p)
    <2> HIDE DEF p, r
    <2> QED BY <1>3, LoadIsWord
  <1>5. l = n /\ l \in 0 .. 255
    <2> HIDE DEF n
    <2> QED BY <1>3 DEF V!Spooky!S!uint8
  <1>6. l = Len(pairs) \/ cd \in Bytes(15)
    <2>1. Len(pairs) = p
      <3> HIDE DEF pairs, p
      <3> QED BY <1>3, <1>4, BytesAreSeq
    <2>2. CASE r = 0
      <3> HIDE DEF n, l, p, r, pairs
      <3> QED BY <1>3, <1>5, <2>1, <2>2
    <2>3. CASE r # 0
      <3> HIDE DEF n, l, p, r, pairs
      <3>1. V!Spooky!S!Load(b, p, r) \in Bytes(r)
        <4>1. r \in Nat /\ p + r <= Len(b)
          BY <1>3 DEF n
        <4> QED BY <1>3, <4>1, LoadIsWord
      <3>2. cd = V!Spooky!S!Padded(V!Spooky!S!Load(b, p, r), 15)
        BY <2>3, Zenon DEF V!Spooky!S!LastPair
      <3>3. 15 \in Nat /\ r \in 0 .. 15
        BY <1>3
      <3> QED BY <3>1, <3>2, <3>3, PaddedIsWord
    <2> QED BY <2>2, <2>3
  <1> HIDE DEF pairs, cd, words, l, p, d
  <1>7. d.words = words /\ d.pairs = pairs /\ d.cd = cd /\ d.length = l
    BY <1>1
  <1>8. ShortDigest(d, m)
    <2>1. d.words.seed = 0 /\ d.length \in 0 .. 255
      BY <1>2, <1>5, <1>7
    <2>2. d.pairs \in Bytes(16 * m)
      <3> HIDE DEF m
      <3> QED BY <1>3, <1>4, <1>7
    <2>3. d.length = Len(d.pairs) \/ d.cd \in Bytes(15)
      BY <1>6, <1>7
    <2> HIDE DEF m
    <2> QED BY <2>1, <2>2, <2>3, Zenon DEF ShortDigest
  <1>9. "last" \notin DOMAIN d
    BY <1>1
  <1> QED BY <1>8, <1>9 DEF d

\* The digest of a long message.
LEMMA LongHash ==
  ASSUME NEW b \in Seq(0 .. 255), Len(b) >= 192
  PROVE  /\ LongDigest(V!Spooky!S!Hash128(0, b), Len(b) \div 96)
         /\ "last" \in DOMAIN V!Spooky!S!Hash128(0, b)
  <1> DEFINE n == Len(b)
             r == n % 96
             m == n \div 96
             p == n - r
             blocks == V!Spooky!S!Load(b, 0, p)
             rest == V!Spooky!S!Load(b, p, r)
             s == V!Spooky!S!Fresh(0)
             words == V!Spooky!S!Mix([head |-> s, rest |-> s], blocks)
             ending == V!Spooky!S!LastBlock(rest, r)
             d == V!Spooky!S!Hash128(0, b)
  <1>1. n \in Nat /\ r \in 0 .. 95 /\ m \in Nat /\ p = 96 * m /\ p \in Nat /\ p + r = n /\ n - p = r /\ ~(n < 192)
    <2>1. n \in Nat /\ n >= 192
      OBVIOUS
    <2> HIDE DEF n
    <2> QED BY <2>1
  <1>2. d = [reported |-> TRUE, words |-> words, last |-> ending]
    <2>1. V!Spooky!S!WholeBlocks(n) = p
      BY Zenon DEF V!Spooky!S!WholeBlocks, V!Spooky!S!sc_blockSize
    <2>2. d = V!Spooky!S!End(V!Spooky!S!Mix([head |-> s, rest |-> s], V!Spooky!S!Load(b, 0, V!Spooky!S!WholeBlocks(n))),
                             V!Spooky!S!LastBlock(V!Spooky!S!Load(b, V!Spooky!S!WholeBlocks(n), n - V!Spooky!S!WholeBlocks(n)),
                                                  n - V!Spooky!S!WholeBlocks(n)))
      <3>1. ~(Len(b) < V!Spooky!S!sc_bufSize)
        BY <1>1 DEF V!Spooky!S!sc_bufSize
      <3> QED BY <3>1, Zenon DEF V!Spooky!S!Hash128
    <2> HIDE DEF p, r, n, s, d
    <2>3. d = V!Spooky!S!End(words, ending)
      BY <1>1, <2>1, <2>2
    <2> QED BY <2>3, Zenon DEF V!Spooky!S!End
  <1>3. blocks \in Bytes(p)
    <2> HIDE DEF p, r
    <2> QED BY <1>1, LoadIsWord
  <1>4. rest \in Bytes(r)
    <2>1. r \in Nat /\ p + r <= Len(b)
      BY <1>1
    <2> HIDE DEF p, r
    <2> QED BY <1>1, <2>1, LoadIsWord
  <1>5. words.head.seed = 0 /\ words.head.mixed = blocks
    <2>1. s = [seed |-> 0, mixed |-> <<>>]
      BY Zenon DEF V!Spooky!S!Fresh
    <2>2. <<>> \o blocks = blocks
      <3> DEFINE B == 0 .. 255
      <3>1. blocks \in Seq(B)
        <4> HIDE DEF blocks, p
        <4> QED BY <1>1, <1>3, BytesAreSeq
      <3> HIDE DEF B, blocks
      <3> QED BY <3>1
    <2> HIDE DEF s, blocks
    <2>3. words = IF blocks = <<>> THEN [head |-> s, rest |-> s]
                  ELSE [head |-> [seed |-> s.seed, mixed |-> s.mixed \o blocks],
                        rest |-> [seed |-> s.seed, mixed |-> s.mixed \o blocks]]
      BY DEF V!Spooky!S!Mix
    <2> HIDE DEF words
    <2>4. CASE blocks = <<>>
      <3>1. words.head = s
        BY <2>3, <2>4
      <3> QED BY <2>1, <2>4, <3>1
    <2>5. CASE blocks # <<>>
      <3>1. words.head = [seed |-> s.seed, mixed |-> s.mixed \o blocks]
        BY <2>3, <2>5
      <3>2. s.seed = 0 /\ s.mixed = <<>>
        BY <2>1
      <3> QED BY <2>2, <3>1, <3>2
    <2> QED BY <2>4, <2>5
  <1>6. ending \in Bytes(96)
    <2> HIDE DEF rest, r
    <2>1. V!Spooky!S!Padded(rest, 96) \in Bytes(96)
      <3>1. 96 \in Nat /\ r \in 0 .. 96
        BY <1>1
      <3> QED BY <1>4, <3>1, PaddedIsWord
    <2>2. ending = [V!Spooky!S!Padded(rest, 96) EXCEPT ![96] = r]
      BY Zenon DEF V!Spooky!S!LastBlock, V!Spooky!S!sc_blockSize
    <2>3. r \in 0 .. 255
      BY <1>1
    <2> HIDE DEF ending
    <2> QED BY <2>1, <2>2, <2>3 DEF Bytes
  <1> HIDE DEF blocks, rest, s, words, ending, d, p
  <1>7. d.words = words /\ d.last = ending /\ "last" \in DOMAIN d
    BY <1>2
  <1>8. LongDigest(d, m)
    BY <1>1, <1>3, <1>5, <1>6, <1>7 DEF LongDigest
  <1> QED BY <1>7, <1>8 DEF d

\* The hash of a string is a word.
LEMMA Hash64IsWord ==
  ASSUME NEW b \in Seq(0 .. 255)
  PROVE  V!Spooky!Hash64(b, 0) \in Word64
  <1> DEFINE d == V!Spooky!S!Hash128(0, b)
             n == Len(b)
  <1>1. V!Spooky!Hash64(b, 0) = IF "last" \in DOMAIN d THEN V!Spooky!LongValue(d) ELSE V!Spooky!ShortValue(d)
    BY Zenon DEF V!Spooky!Hash64
  <1>2. n \in Nat /\ n \div 16 \in Nat /\ n \div 96 \in Nat
    <2>1. n \in Nat
      OBVIOUS
    <2> HIDE DEF n
    <2> QED BY <2>1
  <1>3. CASE n < 192
    <2>1. ShortDigest(d, n \div 16) /\ "last" \notin DOMAIN d
      BY <1>3, ShortHash
    <2> HIDE DEF d, n
    <2>2. V!Spooky!ShortValue(d) \in Word64
      BY <1>2, <2>1, ShortValueIsWord
    <2> QED BY <1>1, <2>1, <2>2
  <1>4. CASE n >= 192
    <2>1. LongDigest(d, n \div 96) /\ "last" \in DOMAIN d
      BY <1>4, LongHash
    <2> HIDE DEF d, n
    <2>2. V!Spooky!LongValue(d) \in Word64
      BY <1>2, <2>1, LongValueIsWord
    <2> QED BY <1>1, <2>1, <2>2
  <1> QED BY <1>2, <1>3, <1>4

\* What the hashers do to words makes words.
LEMMA HasherWordsClosed ==
  ASSUME NEW n \in Nat, n > 0, NEW x \in Bytes(n), NEW y \in Bytes(n), NEW k \in Nat
  PROVE  /\ V!Plus(x, y) \in Bytes(n) /\ V!Times(x, y) \in Bytes(n) /\ V!Xor(x, y) \in Bytes(n)
         /\ V!ShiftLeft(x, k) \in Bytes(n) /\ V!XorShift(x, k) \in Bytes(n) /\ V!Complement(x) \in Bytes(n)
  <1>1. Plus(x, y) \in Bytes(n) /\ Times(x, y) \in Bytes(n)
    BY SumsAreWords
  <1>2. Xor(x, y) \in Bytes(n) /\ ShiftLeft(x, k) \in Bytes(n) /\ XorShift(x, k) \in Bytes(n)
    BY XorIsWord, ShiftsAreWords, XorShiftIsWord
  <1>3. Complement(x) \in Bytes(n)
    BY ComplementIsWord
  <1> QED BY <1>1, <1>2, <1>3, SameWords, SameBitwise, Zenon

\* hash_128_to_64 gives a word.
LEMMA MixOf128IsWord ==
  ASSUME NEW x \in Word64, NEW y \in Word64
  PROVE  V!hash_128_to_64(x, y) \in Word64
  <1> DEFINE n == 8
             kMul == V!kMul
             k == 47
             a1 == V!Xor(y, x)
             a2 == V!Times(a1, kMul)
             a == V!XorShift(a2, k)
             b1 == V!Xor(x, a)
             b2 == V!Times(b1, kMul)
             b == V!XorShift(b2, k)
  <1>1. V!hash_128_to_64(x, y) = V!Times(b, kMul)
    BY Zenon DEF V!hash_128_to_64
  <1>2. kMul \in Bytes(n) /\ x \in Bytes(n) /\ y \in Bytes(n) /\ n \in Nat /\ n > 0 /\ k \in Nat
    BY DEF V!kMul, Word64, Bytes
  <1>3. Word64 = Bytes(n)
    BY DEF Word64
  <1> HIDE DEF n, kMul, k
  <1>4. a1 \in Bytes(n)
    BY <1>2, HasherWordsClosed
  <1> HIDE DEF a1
  <1>5. a2 \in Bytes(n)
    BY <1>2, <1>4, HasherWordsClosed
  <1> HIDE DEF a2
  <1>6. a \in Bytes(n)
    BY <1>2, <1>5, HasherWordsClosed
  <1> HIDE DEF a
  <1>7. b1 \in Bytes(n)
    BY <1>2, <1>6, HasherWordsClosed
  <1> HIDE DEF b1
  <1>8. b2 \in Bytes(n)
    BY <1>2, <1>7, HasherWordsClosed
  <1> HIDE DEF b2
  <1>9. b \in Bytes(n)
    BY <1>2, <1>8, HasherWordsClosed
  <1> HIDE DEF b
  <1>10. V!Times(b, kMul) \in Bytes(n)
    BY <1>2, <1>9, HasherWordsClosed
  <1> QED BY <1>1, <1>3, <1>10

\* jenkins_rev_mix32 gives a word of 32 bits.
LEMMA JenkinsIsWord ==
  ASSUME NEW key \in Bytes(4)
  PROVE  V!jenkins_rev_mix32(key) \in Bytes(4)
  <1> DEFINE n == 4
             a == V!Plus(key, V!ShiftLeft(key, 12))
             b == V!XorShift(a, 22)
             c == V!Plus(b, V!ShiftLeft(b, 4))
             d == V!XorShift(c, 9)
             e == V!Plus(d, V!ShiftLeft(d, 10))
             f == V!XorShift(e, 2)
             g == V!Plus(f, V!ShiftLeft(f, 7))
  <1>1. V!jenkins_rev_mix32(key) = V!Plus(g, V!ShiftLeft(g, 12))
    BY Zenon DEF V!jenkins_rev_mix32
  <1>2. n \in Nat /\ n > 0 /\ key \in Bytes(n)
    OBVIOUS
  <1>3. ASSUME NEW x \in Bytes(n), NEW k \in Nat
        PROVE  V!Plus(x, V!ShiftLeft(x, k)) \in Bytes(n) /\ V!XorShift(x, k) \in Bytes(n)
    <2> HIDE DEF n
    <2>1. V!ShiftLeft(x, k) \in Bytes(n) /\ V!XorShift(x, k) \in Bytes(n)
      BY <1>2, HasherWordsClosed
    <2>2. 0 \in Nat
      OBVIOUS
    <2>3. V!Plus(x, V!ShiftLeft(x, k)) \in Bytes(n)
      BY <1>2, <2>1, <2>2, HasherWordsClosed
    <2> QED BY <2>1, <2>3
  <1> HIDE DEF n
  <1>4. a \in Bytes(n)
    BY <1>2, <1>3
  <1> HIDE DEF a
  <1>5. b \in Bytes(n)
    BY <1>3, <1>4
  <1> HIDE DEF b
  <1>6. c \in Bytes(n)
    BY <1>3, <1>5
  <1> HIDE DEF c
  <1>7. d \in Bytes(n)
    BY <1>3, <1>6
  <1> HIDE DEF d
  <1>8. e \in Bytes(n)
    BY <1>3, <1>7
  <1> HIDE DEF e
  <1>9. f \in Bytes(n)
    BY <1>3, <1>8
  <1> HIDE DEF f
  <1>10. g \in Bytes(n)
    BY <1>3, <1>9
  <1> HIDE DEF g
  <1>11. V!Plus(g, V!ShiftLeft(g, 12)) \in Bytes(n)
    BY <1>3, <1>10
  <1> QED BY <1>1, <1>11 DEF n

\* twang_mix64 gives a word.
LEMMA TwangIsWord ==
  ASSUME NEW key \in Word64
  PROVE  V!twang_mix64(key) \in Word64
  <1> DEFINE n == 8
             a == V!Plus(V!Complement(key), V!ShiftLeft(key, 21))
             b == V!XorShift(a, 24)
             c == V!Plus(V!Plus(b, V!ShiftLeft(b, 3)), V!ShiftLeft(b, 8))
             d == V!XorShift(c, 14)
             e == V!Plus(V!Plus(d, V!ShiftLeft(d, 2)), V!ShiftLeft(d, 4))
             f == V!XorShift(e, 28)
  <1>1. V!twang_mix64(key) = V!Plus(f, V!ShiftLeft(f, 31))
    BY Zenon DEF V!twang_mix64
  <1>2. n \in Nat /\ n > 0 /\ key \in Bytes(n) /\ Bytes(n) = Word64
    BY DEF Word64
  <1>3. ASSUME NEW x \in Bytes(n), NEW k \in Nat
        PROVE  /\ V!ShiftLeft(x, k) \in Bytes(n) /\ V!XorShift(x, k) \in Bytes(n)
               /\ V!Complement(x) \in Bytes(n)
    <2> HIDE DEF n
    <2> QED BY <1>2, HasherWordsClosed
  <1>4. ASSUME NEW x \in Bytes(n), NEW y \in Bytes(n)
        PROVE  V!Plus(x, y) \in Bytes(n)
    <2>1. 0 \in Nat
      OBVIOUS
    <2> HIDE DEF n
    <2> QED BY <1>2, <2>1, HasherWordsClosed
  <1> HIDE DEF n
  <1>5. a \in Bytes(n)
    BY <1>2, <1>3, <1>4
  <1> HIDE DEF a
  <1>6. b \in Bytes(n)
    BY <1>3, <1>5
  <1> HIDE DEF b
  <1>7. c \in Bytes(n)
    <2>1. V!ShiftLeft(b, 3) \in Bytes(n) /\ V!ShiftLeft(b, 8) \in Bytes(n)
      BY <1>3, <1>6
    <2> QED BY <1>4, <1>6, <2>1
  <1> HIDE DEF c
  <1>8. d \in Bytes(n)
    BY <1>3, <1>7
  <1> HIDE DEF d
  <1>9. e \in Bytes(n)
    <2>1. V!ShiftLeft(d, 2) \in Bytes(n) /\ V!ShiftLeft(d, 4) \in Bytes(n)
      BY <1>3, <1>8
    <2> QED BY <1>4, <1>8, <2>1
  <1> HIDE DEF e
  <1>10. f \in Bytes(n)
    BY <1>3, <1>9
  <1> HIDE DEF f
  <1>11. V!Plus(f, V!ShiftLeft(f, 31)) \in Bytes(n)
    BY <1>3, <1>4, <1>10
  <1> QED BY <1>1, <1>2, <1>11

\* A sequence of bytes is a word of its length.
LEMMA SeqIsWord ==
  ASSUME NEW b \in Seq(0 .. 255), NEW n, Len(b) = n
  PROVE  b \in Bytes(n)
  <1> DEFINE B == 0 .. 255
  <1>1. b \in Seq(B)
    OBVIOUS
  <1> HIDE DEF B
  <1>2. b \in [1 .. n -> B]
    BY <1>1
  <1> QED BY <1>2 DEF Bytes, B

\* Integers of these widths are hashed to words.
LEMMA IntegralIsWord ==
  ASSUME NEW v, NEW n \in {1, 2, 4, 8, 16}, v.bytes \in Bytes(n)
  PROVE  V!integral_hasher(v) \in Word64
  <1> DEFINE x == v.bytes
  <1>1. Len(x) = n /\ n \in Nat
    <2>1. n \in Nat
      OBVIOUS
    <2> QED BY <2>1, BytesAreSeq
  <1>2. CASE n <= 4
    <2>1. 4 \in Nat /\ n \in 1 .. 4
      BY <1>2
    <2>2. SignExtended(x, 4) \in Bytes(4) /\ ZeroExtended(x, 4) \in Bytes(4)
      BY <2>1, ExtendedIsWord
    <2>3. V!AsInt32(v) \in Bytes(4)
      BY <2>2, SameBitwise DEF V!AsInt32
    <2>4. V!jenkins_rev_mix32(V!AsInt32(v)) \in Bytes(4)
      BY <2>3, JenkinsIsWord
    <2> DEFINE j == V!jenkins_rev_mix32(V!AsInt32(v))
    <2>5. V!integral_hasher(v) = V!ZeroExtended(j, 8)
      BY <1>1, <1>2 DEF V!integral_hasher
    <2>6. j \in Bytes(4) /\ 8 \in Nat /\ 4 \in 1 .. 8
      BY <2>4
    <2> HIDE DEF j
    <2>7. ZeroExtended(j, 8) \in Bytes(8)
      BY <2>6, ExtendedIsWord
    <2> QED BY <2>5, <2>7, SameBitwise DEF Word64
  <1>3. CASE n = 8
    <2>1. V!integral_hasher(v) = V!twang_mix64(x)
      BY <1>1, <1>3 DEF V!integral_hasher
    <2>2. x \in Word64
      BY <1>3 DEF Word64
    <2> QED BY <2>1, <2>2, TwangIsWord
  <1>4. CASE n = 16
    <2> DEFINE high == SubSeq(x, 9, 16)
               low == SubSeq(x, 1, 8)
    <2>1. V!integral_hasher(v) = V!hash_128_to_64(high, low)
      BY <1>1, <1>4 DEF V!integral_hasher
    <2>2. /\ 8 \in Nat /\ 16 \in Nat /\ 8 > 0 /\ 9 \in 1 .. 16 /\ 1 \in 1 .. 16
          /\ 9 + 8 - 1 <= 16 /\ 1 + 8 - 1 <= 16 /\ 9 + 8 - 1 = 16 /\ 1 + 8 - 1 = 8
      OBVIOUS
    <2>3. x \in Bytes(16)
      BY <1>4
    <2> HIDE DEF x
    <2>4. SubSeq(x, 9, 9 + 8 - 1) \in Bytes(8)
      BY <2>2, <2>3, PartIsWord
    <2>5. SubSeq(x, 1, 1 + 8 - 1) \in Bytes(8)
      BY <2>2, <2>3, PartIsWord
    <2>6. high \in Word64 /\ low \in Word64
      BY <2>2, <2>4, <2>5 DEF Word64
    <2> HIDE DEF high, low
    <2> QED BY <2>1, <2>6, MixOf128IsWord
  <1>5. n <= 4 \/ n = 8 \/ n = 16
    OBVIOUS
  <1> QED BY <1>2, <1>3, <1>4, <1>5

\* Zero and all ones.
LEMMA PlainWords ==
  V!ZeroWord(8) \in Word64 /\ V!Complement(V!ZeroWord(8)) \in Word64
  <1>1. ZeroWord(8) \in Bytes(8) /\ 8 \in Nat
    BY DEF ZeroWord, Bytes
  <1>2. Complement(ZeroWord(8)) \in Bytes(8)
    BY <1>1, ComplementIsWord
  <1> QED BY <1>1, <1>2, SameBitwise, Zenon DEF Word64

\* A value without parts is hashed to a word.
LEMMA SimpleIsWord ==
  ASSUME NEW v, IsSimple(v)
  PROVE  V!SimpleHash(v) \in Word64
  <1>0. v.bytes \in Seq(0 .. 255)
    BY DEF IsSimple
  <1>1. CASE v.type \in {"signed", "unsigned"}
    <2>1. PICK n \in {1, 2, 4, 8, 16} : Len(v.bytes) = n
      BY <1>1 DEF IsSimple
    <2>2. v.bytes \in Bytes(n)
      BY <1>0, <2>1, SeqIsWord
    <2>3. V!integral_hasher(v) \in Word64
      BY <2>2, IntegralIsWord
    <2> QED BY <1>1, <2>3 DEF V!SimpleHash
  <1>2. CASE v.type = "float"
    <2>1. V!SimpleHash(v) = V!float_hasher(v)
      BY <1>2 DEF V!SimpleHash
    <2>2. PICK n \in {4, 8} : Len(v.bytes) = n
      BY <1>2 DEF IsSimple
    <2>3. v.bytes \in Bytes(n)
      BY <1>0, <2>2, SeqIsWord
    <2>4. ZeroExtended(v.bytes, 8) \in Bytes(8)
      <3>1. 8 \in Nat /\ n \in 1 .. 8
        OBVIOUS
      <3> QED BY <2>3, <3>1, ExtendedIsWord
    <2>5. V!twang_mix64(V!ZeroExtended(v.bytes, 8)) \in Word64
      BY <2>4, SameBitwise, TwangIsWord DEF Word64
    <2>6. V!float_hasher(v) = V!ZeroWord(8) \/ V!float_hasher(v) = V!twang_mix64(V!ZeroExtended(v.bytes, 8))
      BY Zenon DEF V!float_hasher
    <2> QED BY <2>1, <2>5, <2>6, PlainWords
  <1>3. CASE v.type = "bool"
    <2>1. V!SimpleHash(v) = V!ZeroWord(8) \/ V!SimpleHash(v) = V!Complement(V!ZeroWord(8))
      BY <1>3 DEF V!SimpleHash
    <2> QED BY <2>1, PlainWords
  <1>4. CASE v.type = "string"
    <2>1. V!SimpleHash(v) = V!Spooky!Hash64(v.bytes, 0)
      BY <1>4 DEF V!SimpleHash
    <2> QED BY <1>0, <2>1, Hash64IsWord
  <1>5. v.type \in {"signed", "unsigned"} \/ v.type = "float" \/ v.type = "bool" \/ v.type = "string"
    BY DEF IsSimple
  <1> QED BY <1>1, <1>2, <1>3, <1>4, <1>5

\* Every value is hashed to a word.
THEOREM HasherIsWord ==
  ASSUME NEW v, IsValue(v)
  PROVE  V!hasher(v) \in Word64
  <1>1. CASE v.type = "pair"
    <2>1. IsSimple(v.first) /\ IsSimple(v.second)
      BY <1>1 DEF IsValue
    <2>2. V!SimpleHash(v.first) \in Word64 /\ V!SimpleHash(v.second) \in Word64
      BY <2>1, SimpleIsWord
    <2>3. V!hasher(v) = V!hash_128_to_64(V!SimpleHash(v.first), V!SimpleHash(v.second))
      BY <1>1 DEF V!hasher
    <2> QED BY <2>2, <2>3, MixOf128IsWord
  <1>2. CASE v.type # "pair"
    <2>1. IsSimple(v) /\ V!hasher(v) = V!SimpleHash(v)
      BY <1>2 DEF IsValue, V!hasher
    <2> QED BY <2>1, SimpleIsWord
  <1> QED BY <1>1, <1>2

-----------------------------------------------------------------------------
(***************************************************************************)
(* What commuting functions make of elements depends on how often each is  *)
(* there only                                                              *)
(***************************************************************************)
\* Functions f[v] of which two can be applied in either order.
Commuting(f, S, T) ==
  /\ f \in [S -> [T -> T]]
  /\ \A v, w \in S : \A h \in T : f[v][f[w][h]] = f[w][f[v][h]]

\* The chain of values that the elements of a make, one after the other.
Chain(c, n, T, start, f, a) ==
  c \in [0 .. n -> T] /\ c[0] = start /\ \A k \in 1 .. n : c[k] = f[a[k]][c[k - 1]]

\* There is one for any elements.
LEMMA ChainExists ==
  ASSUME NEW n \in Nat, NEW S, NEW T, NEW start \in T, NEW f \in [S -> [T -> T]],
         NEW a \in [1 .. n -> S]
  PROVE  \E c : Chain(c, n, T, start, f, a)
  <1> DEFINE s == [k \in 1 .. n |-> f[a[k]]]
  <1>1. s \in [1 .. n -> [T -> T]] /\ \A k \in 1 .. n : s[k] = f[a[k]]
    OBVIOUS
  <1> HIDE DEF s
  <1>2. PICK c : Recurs(c, n, T, start, s)
    BY <1>1, Recursion
  <1>3. Chain(c, n, T, start, f, a)
    BY <1>1, <1>2 DEF Recurs, Chain
  <1> QED BY <1>3

\* The places where it has a value, and how often it has.
Where(v, a) == {k \in DOMAIN a : a[k] = v}

\* The places of a function are as many.
LEMMA WhereFinite ==
  ASSUME NEW n \in Nat, NEW S, NEW a \in [1 .. n -> S], NEW v
  PROVE  IsFiniteSet(Where(v, a)) /\ Count(v, a) = Cardinality(Where(v, a)) /\ Count(v, a) \in Nat
  <1>1. IsFiniteSet(1 .. n)
    BY FS_Interval
  <1>2. Where(v, a) \in SUBSET (1 .. n)
    BY DEF Where
  <1>3. IsFiniteSet(Where(v, a))
    BY <1>1, <1>2, FS_Subset
  <1>4. Count(v, a) = Cardinality(Where(v, a))
    BY DEF Count, Where
  <1> QED BY <1>3, <1>4, FS_CardinalityType

\* b without its element at place j.
Without(b, j, n) == [k \in 1 .. n - 1 |-> IF k < j THEN b[k] ELSE b[k + 1]]

\* It has that element once less, and the others as often.
CountsLess(v, b, j, n) ==
  Count(v, Without(b, j, n)) = IF b[j] = v THEN Count(v, b) - 1 ELSE Count(v, b)

\* What is left of the places of v, shifted, are its places in b but for j.
LEMMA CountWithout ==
  ASSUME NEW n \in Nat \ {0}, NEW S, NEW b \in [1 .. n -> S], NEW j \in 1 .. n, NEW v
  PROVE  CountsLess(v, b, j, n)
  <1> DEFINE w == Without(b, j, n)
             X == Where(v, w)
             Y == Where(v, b) \ {j}
             to == [k \in X |-> IF k < j THEN k ELSE k + 1]
  <1>1. w \in [1 .. n - 1 -> S] /\ n - 1 \in Nat
    BY DEF Without
  <1>2. to \in Bijection(X, Y)
    <2>1. ASSUME NEW k \in X PROVE to[k] \in Y
      BY <2>1 DEF Where, Without
    <2>2. ASSUME NEW k \in X, NEW m \in X, to[k] = to[m] PROVE k = m
      <3>1. k \in 1 .. n - 1 /\ m \in 1 .. n - 1
        BY <1>1 DEF Where
      <3> QED BY <2>2, <3>1
    <2>3. ASSUME NEW m \in Y PROVE \E k \in X : to[k] = m
      <3>1. m \in 1 .. n /\ m # j /\ b[m] = v
        BY DEF Where
      <3>2. CASE m < j
        <4>1. m \in X
          BY <3>1, <3>2 DEF Where, Without
        <4> QED BY <3>1, <3>2, <4>1
      <3>3. CASE m > j
        <4>1. m - 1 \in X
          BY <3>1, <3>3 DEF Where, Without
        <4>2. to[m - 1] = m
          BY <3>1, <3>3, <4>1
        <4> QED BY <4>1, <4>2
      <3> QED BY <3>1, <3>2, <3>3
    <2>4. to \in [X -> Y]
      BY <2>1
    <2> HIDE DEF to, X, Y
    <2>5. to \in Injection(X, Y)
      BY <2>2, <2>4 DEF Injection, IsInjective
    <2>6. to \in Surjection(X, Y)
      BY <2>3, <2>4 DEF Surjection
    <2> QED BY <2>5, <2>6 DEF Bijection
  <1>3. IsFiniteSet(X) /\ Count(v, w) = Cardinality(X)
    BY <1>1, WhereFinite
  <1>4. IsFiniteSet(Where(v, b)) /\ Count(v, b) = Cardinality(Where(v, b))
    BY WhereFinite
  <1>5. j \in Where(v, b) <=> b[j] = v
    BY DEF Where
  <1> HIDE DEF X, to
  <1>6. Cardinality(Y) = Cardinality(X)
    BY <1>2, <1>3, FS_Bijection DEF ExistsBijection
  <1>7. Cardinality(Y) = IF j \in Where(v, b) THEN Cardinality(Where(v, b)) - 1 ELSE Cardinality(Where(v, b))
    BY <1>4, FS_RemoveElement
  <1> QED BY <1>3, <1>4, <1>5, <1>6, <1>7 DEF CountsLess

\* A value is among the elements.
IsIn(v, b, n) == \E j \in 1 .. n : b[j] = v

\* One that is counted is.
LEMMA CountedIsThere ==
  ASSUME NEW n \in Nat, NEW S, NEW b \in [1 .. n -> S], NEW v, Count(v, b) # 0
  PROVE  IsIn(v, b, n)
  <1>1. Count(v, b) = Cardinality(Where(v, b))
    BY WhereFinite
  <1>2. Where(v, b) # {}
    BY <1>1, FS_EmptySet
  <1> QED BY <1>2 DEF Where, IsIn

\* One that is somewhere is counted.
LEMMA ThereIsCounted ==
  ASSUME NEW n \in Nat, NEW S, NEW b \in [1 .. n -> S], NEW j \in 1 .. n
  PROVE  Count(b[j], b) # 0
  <1>1. Count(b[j], b) = Cardinality(Where(b[j], b)) /\ IsFiniteSet(Where(b[j], b))
    BY WhereFinite
  <1>2. j \in Where(b[j], b)
    BY DEF Where
  <1> QED BY <1>1, <1>2, FS_EmptySet

-----------------------------------------------------------------------------
\* Both chains end with the same value.
SameEnd(n, S, T, start, f) ==
  \A a, b \in [1 .. n -> S] :
    (\A k \in 1 .. n : Count(a[k], a) = Count(a[k], b)) =>
      \A c, d : Chain(c, n, T, start, f, a) /\ Chain(d, n, T, start, f, b) => c[n] = d[n]

\* Taking an element out and applying its function at the end is the same.
LEMMA MovedToTheEnd ==
  ASSUME NEW n \in Nat \ {0}, NEW S, NEW T, NEW start \in T, NEW f, Commuting(f, S, T),
         NEW b \in [1 .. n -> S], NEW j \in 1 .. n, NEW d, Chain(d, n, T, start, f, b),
         NEW w, Chain(w, n - 1, T, start, f, Without(b, j, n))
  PROVE  d[n] = f[b[j]][w[n - 1]]
  <1> DEFINE e == Without(b, j, n)
             R == {k \in 0 .. n - 1 : /\ k < j => w[k] = d[k]
                                      /\ k >= j - 1 => d[k + 1] = f[b[j]][w[k]]}
  <1>1. \A k \in 1 .. n - 1 : e[k] = IF k < j THEN b[k] ELSE b[k + 1]
    BY DEF Without
  <1>2. /\ w[0] = start /\ d[0] = start
        /\ \A k \in 1 .. n - 1 : w[k] = f[e[k]][w[k - 1]]
        /\ \A k \in 1 .. n : d[k] = f[b[k]][d[k - 1]]
        /\ \A k \in 0 .. n - 1 : w[k] \in T
    BY DEF Chain
  <1> HIDE DEF e
  <1>3. 0 \in R
    <2>1. CASE j = 1
      <3>1. d[1] = f[b[1]][d[0]]
        <4>1. 1 \in 1 .. n /\ 1 - 1 = 0
          OBVIOUS
        <4> QED BY <1>2, <4>1
      <3> QED BY <1>2, <2>1, <3>1
    <2>2. CASE j # 1
      <3>1. ~(0 >= j - 1)
        BY <2>2
      <3> QED BY <1>2, <3>1
    <2> QED BY <2>1, <2>2
  <1>4. ASSUME NEW k \in 1 .. n - 1, k - 1 \in R
        PROVE  k \in R
    <2>1. /\ k - 1 < j => w[k - 1] = d[k - 1]
          /\ k - 1 >= j - 1 => d[k - 1 + 1] = f[b[j]][w[k - 1]]
      BY <1>4
    <2>2. w[k] = f[e[k]][w[k - 1]] /\ w[k - 1] \in T /\ k \in 1 .. n /\ k + 1 \in 1 .. n
          /\ k \in 0 .. n - 1
      BY <1>2
    <2>3. d[k] = f[b[k]][d[k - 1]] /\ d[k + 1] = f[b[k + 1]][d[k]]
      <3>1. d[k + 1] = f[b[k + 1]][d[k + 1 - 1]] /\ k + 1 - 1 = k
        BY <1>2, <2>2
      <3> QED BY <1>2, <2>2, <3>1
    <2>4. k < j => w[k] = d[k]
      <3>1. k < j => e[k] = b[k] /\ k - 1 < j
        BY <1>1
      <3> QED BY <2>1, <2>2, <2>3, <3>1
    <2>5. CASE k = j - 1
      <3>1. w[k] = d[k] /\ b[k + 1] = b[j]
        BY <2>4, <2>5
      <3> QED BY <2>2, <2>3, <2>4, <3>1
    <2>6. CASE k >= j
      <3>1. e[k] = b[k + 1] /\ d[k] = f[b[j]][w[k - 1]]
        <4>1. k - 1 >= j - 1 /\ k - 1 + 1 = k /\ ~(k < j)
          BY <2>6
        <4> QED BY <1>1, <2>1, <4>1
      <3>2. f[b[k + 1]][f[b[j]][w[k - 1]]] = f[b[j]][f[b[k + 1]][w[k - 1]]]
        <4>1. b[j] \in S /\ b[k + 1] \in S
          BY <2>2
        <4> QED BY <2>2, <4>1 DEF Commuting
      <3>3. d[k + 1] = f[b[j]][w[k]]
        BY <2>2, <2>3, <3>1, <3>2
      <3> QED BY <2>2, <2>4, <3>3
    <2>7. CASE k < j - 1
      <3>1. ~(k >= j - 1)
        BY <2>7
      <3> QED BY <2>2, <2>4, <3>1
    <2> QED BY <2>5, <2>6, <2>7
  <1>5. n - 1 \in R
    <2>1. n - 1 \in Nat /\ n - 1 \in 0 .. n - 1
      OBVIOUS
    <2> HIDE DEF R
    <2>2. \A k \in 0 .. n - 1 : k \in R
      BY <1>3, <1>4, <2>1, Induction
    <2> QED BY <2>1, <2>2
  <1>6. n - 1 >= j - 1 /\ n - 1 + 1 = n
    OBVIOUS
  <1> QED BY <1>5, <1>6

\* One element more: its twin in the other sequence can be last as well.
LEMMA SameEndStep ==
  ASSUME NEW n \in Nat \ {0}, NEW S, NEW T, NEW start \in T, NEW f, Commuting(f, S, T),
         SameEnd(n - 1, S, T, start, f)
  PROVE  SameEnd(n, S, T, start, f)
  <1> SUFFICES ASSUME NEW a \in [1 .. n -> S], NEW b \in [1 .. n -> S],
                      \A k \in 1 .. n : Count(a[k], a) = Count(a[k], b),
                      NEW c, NEW d, Chain(c, n, T, start, f, a), Chain(d, n, T, start, f, b)
               PROVE  c[n] = d[n]
    BY DEF SameEnd
  <1>1. n \in 1 .. n /\ n - 1 \in Nat
    OBVIOUS
  <1>2. PICK j \in 1 .. n : b[j] = a[n]
    <2> DEFINE v == a[n]
    <2>1. Count(v, a) # 0
      BY <1>1, ThereIsCounted
    <2>2. Count(v, b) # 0
      BY <1>1, <2>1
    <2> HIDE DEF v
    <2>3. n \in Nat
      OBVIOUS
    <2>4. IsIn(v, b, n)
      BY <2>2, <2>3, CountedIsThere
    <2> QED BY <2>4 DEF v, IsIn
  <1> DEFINE x == Without(a, n, n)
             y == Without(b, j, n)
  <1>3. x \in [1 .. n - 1 -> S] /\ y \in [1 .. n - 1 -> S]
    <2>1. \A k \in 1 .. n - 1 : k \in 1 .. n /\ k + 1 \in 1 .. n
      OBVIOUS
    <2> QED BY <2>1 DEF Without
  <1>4. ASSUME NEW k \in 1 .. n - 1
        PROVE  Count(x[k], x) = Count(x[k], y)
    <2>1. x[k] = a[k] /\ k \in 1 .. n
      BY DEF Without
    <2> DEFINE v == a[k]
    <2>2. Count(v, a) = Count(v, b)
      BY <2>1
    <2> HIDE DEF v
    <2>3. CountsLess(v, a, n, n) /\ CountsLess(v, b, j, n)
      BY <1>1, CountWithout
    <2>4. Count(v, x) = Count(v, y)
      BY <1>2, <2>2, <2>3 DEF CountsLess, x, y
    <2> QED BY <2>1, <2>4 DEF v
  <1> HIDE DEF x, y
  <1>5. f \in [S -> [T -> T]]
    BY DEF Commuting
  <1>6. PICK u : Chain(u, n - 1, T, start, f, x)
    BY <1>1, <1>3, <1>5, ChainExists
  <1>7. PICK w : Chain(w, n - 1, T, start, f, y)
    BY <1>1, <1>3, <1>5, ChainExists
  <1>8. u[n - 1] = w[n - 1]
    BY <1>3, <1>4, <1>6, <1>7 DEF SameEnd
  <1>9. c[n] = f[a[n]][u[n - 1]]
    BY <1>1, <1>6, MovedToTheEnd DEF x
  <1>10. d[n] = f[b[j]][w[n - 1]]
    BY <1>7, MovedToTheEnd DEF y
  <1> QED BY <1>2, <1>8, <1>9, <1>10

\* What functions that can be applied in any order make of elements does not
\* depend on the order of these.
LEMMA OrderOfChain ==
  ASSUME NEW n \in Nat, NEW S, NEW T, NEW start \in T, NEW f, Commuting(f, S, T)
  PROVE  SameEnd(n, S, T, start, f)
  <1> DEFINE R == {k \in 0 .. n : SameEnd(k, S, T, start, f)}
  <1>1. 0 \in R
    BY DEF SameEnd, Chain
  <1>2. ASSUME NEW k \in 1 .. n, k - 1 \in R
        PROVE  k \in R
    BY <1>2, SameEndStep
  <1> HIDE DEF R
  <1>3. \A k \in 0 .. n : k \in R
    BY <1>1, <1>2, Induction
  <1> QED BY <1>3 DEF R

-----------------------------------------------------------------------------
(***************************************************************************)
(* Arrays: the order of the elements does not matter                       *)
(***************************************************************************)
\* The hashes after each of the first n elements of an array, and of all.
Accumulates(c, es, n) ==
  /\ c[0] = V!nullHash
  /\ \A k \in 1 .. n : c[k] = V!commutativeHashMix(c[k - 1], V!hasher(es[k]))

ArrayHash(h, es) == \E c : Accumulates(c, es, Len(es)) /\ h = c[Len(es)]

\* A call that hashes an array, before it returns.
ArrayCall(es) ==
  \/ stage = "call" /\ index = 1
  \/ /\ stage = "loop" /\ index \in 1 .. Len(es) + 1
     /\ \E c : Accumulates(c, es, index - 1) /\ hash = c[index - 1]

\* Each answer is the hash of its array.
ArraysInv ==
  /\ calls \in Pairs
  /\ Of("veloxArray") =>
       \/ answers = <<>> /\ ArrayCall(One)
       \/ \E h : answers = <<h>> /\ ArrayHash(h, One) /\ ArrayCall(Other)
       \/ stage = "returned" /\ ArrayHash(answers[1], One) /\ ArrayHash(answers[2], Other)

\* The steps of a call that hashes an array.
LEMMA ArraySteps ==
  ASSUME HashersNext, function = "veloxArray"
  PROVE  /\ stage = "call" => Begin
         /\ stage = "loop" /\ More => VeloxArray
         /\ stage = "loop" /\ ~More => Return
  BY DEF HashersNext, Begin, BeginRow, VeloxArray, VeloxRow, VeloxTuple,
         VeloxMapKeys, VeloxMapValues, PrestoArray, PrestoMap, PrestoRow, Return, Returned, Iterate

\* Such a call goes on, or returns the hash of the array.
ArrayProgress(es) ==
  \/ ArrayCall(es)' /\ answers' = answers
  \/ /\ answers' = Append(answers, hash) /\ ArrayHash(hash, es)
     /\ index' = 1 /\ stage' = IF Len(answers') = 2 THEN "returned" ELSE "call"

\* It begins with the null hash, and each iteration mixes in one element.
LEMMA ArrayStep ==
  ASSUME NEW es, Len(es) \in Nat, elements = es, function = "veloxArray", ArrayCall(es), HashersNext
  PROVE  ArrayProgress(es)
  <1>1. CASE stage = "call" /\ index = 1
    <2>1. stage' = "loop" /\ index' = 1 /\ answers' = answers /\ hash' = V!nullHash
      BY <1>1, ArraySteps DEF Begin, StartOf
    <2>2. PICK c : c[0] = hash'
      <3>1. [k \in {0} |-> hash'][0] = hash'
        OBVIOUS
      <3> QED BY <3>1
    <2>3. index' - 1 = 0 /\ 1 .. 0 = {} /\ index' \in 1 .. Len(es) + 1
      BY <2>1
    <2> QED BY <2>1, <2>2, <2>3 DEF ArrayProgress, ArrayCall, Accumulates
  <1>2. ASSUME NEW c, Accumulates(c, es, index - 1), hash = c[index - 1],
               stage = "loop", index \in 1 .. Len(es) + 1
        PROVE  ArrayProgress(es)
    <2>1. PICK n \in Nat : index = n + 1
      <3>1. index - 1 \in Nat /\ index = (index - 1) + 1
        BY <1>2
      <3> QED BY <3>1
    <2>2. index - 1 = n
      BY <2>1
    <2>3. CASE More
      <3>1. n + 1 \in 1 .. Len(es)
        BY <1>2, <2>1, <2>3 DEF More
      <3> DEFINE h == V!commutativeHashMix(c[n], V!hasher(es[n + 1]))
                 longer == [k \in 0 .. n + 1 |-> IF k = n + 1 THEN h ELSE c[k]]
      <3>2. hash' = h /\ index' = index + 1 /\ stage' = "loop" /\ answers' = answers
        BY <1>2, <2>1, <2>2, <2>3, ArraySteps DEF VeloxArray, Iterate
      <3> HIDE DEF h
      <3>3. longer[n + 1] = h /\ \A k \in 0 .. n : longer[k] = c[k]
        OBVIOUS
      <3> HIDE DEF longer
      <3>4. Accumulates(longer, es, n + 1)
        <4>1. longer[0] = V!nullHash
          BY <1>2, <3>3 DEF Accumulates
        <4>2. ASSUME NEW k \in 1 .. n + 1
              PROVE  longer[k] = V!commutativeHashMix(longer[k - 1], V!hasher(es[k]))
          <5>1. CASE k = n + 1
            <6>1. k - 1 = n /\ n \in 0 .. n
              BY <5>1
            <6>2. longer[k - 1] = c[n]
              BY <3>3, <6>1
            <6> QED BY <3>3, <5>1, <6>2 DEF h
          <5>2. CASE k # n + 1
            <6>1. k \in 1 .. n /\ longer[k] = c[k] /\ longer[k - 1] = c[k - 1]
              BY <3>3, <5>2
            <6> QED BY <1>2, <2>2, <6>1 DEF Accumulates
          <5> QED BY <5>1, <5>2
        <4> QED BY <4>1, <4>2 DEF Accumulates
      <3>5. index' - 1 = n + 1 /\ index' \in 1 .. Len(es) + 1
        BY <2>1, <3>1, <3>2
      <3> QED BY <3>2, <3>3, <3>4, <3>5 DEF ArrayProgress, ArrayCall
    <2>4. CASE ~More
      <3>1. n = Len(es)
        BY <1>2, <2>1, <2>4 DEF More
      <3>2. ArrayHash(hash, es)
        BY <1>2, <2>2, <3>1 DEF ArrayHash
      <3>3. Return
        BY <1>2, <2>4, ArraySteps
      <3> QED BY <3>2, <3>3 DEF Return, ArrayProgress
    <2> QED BY <2>3, <2>4
  <1> QED BY <1>1, <1>2 DEF ArrayCall

\* Every step keeps the invariant.
LEMMA ArraysStep == ArraysInv /\ [HashersNext]_hashersVars => ArraysInv'
  <1> SUFFICES ASSUME ArraysInv, [HashersNext]_hashersVars, Of("veloxArray")'
               PROVE  ArraysInv'
    BY CallsStay DEF ArraysInv
  <1>1. calls' = calls /\ calls \in Pairs
    BY CallsStay DEF ArraysInv
  <1>2. Of("veloxArray") /\ One' = One /\ Other' = Other
    BY <1>1 DEF Of, One, Other
  <1>3. PICK es : es = One
    OBVIOUS
  <1>4. PICK fs : fs = Other
    OBVIOUS
  <1>5. /\ es = One' /\ fs = Other'
        /\ Len(es) \in Nat /\ Len(fs) \in Nat
    BY <1>1, <1>2, <1>3, <1>4, PairsAssumption DEF PairsAssumption, One, Other
  <1>6. \/ answers = <<>> /\ ArrayCall(es)
        \/ \E h : answers = <<h>> /\ ArrayHash(h, es) /\ ArrayCall(fs)
        \/ stage = "returned" /\ ArrayHash(answers[1], es) /\ ArrayHash(answers[2], fs)
    BY <1>2, <1>3, <1>4 DEF ArraysInv
  <1> DEFINE Goal == \/ answers' = <<>> /\ ArrayCall(es)'
                     \/ \E h : answers' = <<h>> /\ ArrayHash(h, es) /\ ArrayCall(fs)'
                     \/ stage' = "returned" /\ ArrayHash(answers'[1], es) /\ ArrayHash(answers'[2], fs)
  <1> SUFFICES Goal
    BY <1>1, <1>5 DEF ArraysInv
  <1>7. CASE UNCHANGED hashersVars
    BY <1>6, <1>7 DEF hashersVars, ArrayCall
  <1>8. CASE HashersNext /\ answers = <<>> /\ ArrayCall(es)
    <2>1. elements = es /\ function = "veloxArray"
      BY <1>2, <1>3, <1>8 DEF elements, function, One, Of
    <2>2. ArrayProgress(es)
      BY <1>5, <1>8, <2>1, ArrayStep
    <2>3. Append(answers, hash) = <<hash>> /\ Len(<<hash>>) = 1
      BY <1>8
    <2> QED BY <1>8, <2>2, <2>3 DEF ArrayProgress, ArrayCall
  <1>9. ASSUME HashersNext, NEW h, answers = <<h>>, ArrayHash(h, es), ArrayCall(fs)
        PROVE  Goal
    <2>1. Len(answers) + 1 = 2
      BY <1>9
    <2>2. elements = fs /\ function = "veloxArray"
      BY <1>2, <1>4, <2>1 DEF elements, function, Other, Of
    <2>3. ArrayProgress(fs)
      BY <1>5, <1>9, <2>2, ArrayStep
    <2>4. Append(<<h>>, hash) = <<h, hash>> /\ Len(<<h, hash>>) = 2
      BY TwoAnswers
    <2> QED BY <1>9, <2>3, <2>4 DEF ArrayProgress
  <1>10. CASE HashersNext /\ stage = "returned" /\ ArrayHash(answers[1], es) /\ ArrayHash(answers[2], fs)
    <2>1. UNCHANGED hashersVars
      BY <1>10 DEF HashersNext, Begin, BeginRow, VeloxArray, VeloxRow, VeloxTuple,
           VeloxMapKeys, VeloxMapValues, PrestoArray, PrestoMap, PrestoRow, Return, Returned, Iterate
    <2> QED BY <1>7, <2>1
  <1> QED BY <1>6, <1>7, <1>8, <1>9, <1>10

-----------------------------------------------------------------------------
\* What an element makes of the hash so far.
Mixing(S) == [v \in S |-> [h \in Word64 |-> V!commutativeHashMix(h, V!hasher(v))]]

\* Of any values, it is commuting functions on words.
LEMMA MixingCommutes ==
  ASSUME NEW S, \A v \in S : IsValue(v)
  PROVE  Commuting(Mixing(S), S, Word64)
  <1> DEFINE f == Mixing(S)
  <1>1. ASSUME NEW v \in S, NEW w \in S, NEW h \in Word64
        PROVE  /\ V!commutativeHashMix(h, V!hasher(v)) \in Word64
               /\ V!commutativeHashMix(V!commutativeHashMix(h, V!hasher(v)), V!hasher(w))
                    = V!commutativeHashMix(V!commutativeHashMix(h, V!hasher(w)), V!hasher(v))
    <2>1. V!hasher(v) \in Bytes(8) /\ V!hasher(w) \in Bytes(8) /\ h \in Bytes(8)
      BY HasherIsWord DEF Word64
    <2> QED BY <2>1, MixCommutes DEF Word64
  <1>2. f \in [S -> [Word64 -> Word64]]
    BY <1>1 DEF Mixing
  <1>3. ASSUME NEW v \in S, NEW w \in S, NEW h \in Word64
        PROVE  f[v][f[w][h]] = f[w][f[v][h]]
    <2>1. /\ f[w][h] = V!commutativeHashMix(h, V!hasher(w)) /\ f[w][h] \in Word64
          /\ f[v][h] = V!commutativeHashMix(h, V!hasher(v)) /\ f[v][h] \in Word64
      BY <1>1 DEF Mixing
    <2>2. /\ f[v][f[w][h]] = V!commutativeHashMix(f[w][h], V!hasher(v))
          /\ f[w][f[v][h]] = V!commutativeHashMix(f[v][h], V!hasher(w))
      BY <2>1 DEF Mixing
    <2> QED BY <1>1, <2>1, <2>2
  <1> QED BY <1>2, <1>3 DEF Commuting

\* The null hash is a word.
LEMMA NullHashIsWord == V!nullHash \in Word64
  <1>1. 1 \in Nat /\ 8 \in Nat
    OBVIOUS
  <1>2. Word(1, 8) \in Bytes(8)
    BY <1>1, WordIsWord
  <1> QED BY <1>2, SameWords, Zenon DEF V!nullHash, Word64

\* A chain for the elements a ends with h.
EndsWith(n, S, a, h) == \E d : Chain(d, n, Word64, V!nullHash, Mixing(S), a) /\ d[n] = h

\* The hashes an array accumulates are one.
LEMMA ArrayHashEnds ==
  ASSUME NEW es, NEW n \in Nat, NEW S, \A v \in S : IsValue(v), NEW a \in [1 .. n -> S],
         \A k \in 1 .. n : a[k] = es[k], NEW c, Accumulates(c, es, n)
  PROVE  EndsWith(n, S, a, c[n])
  <1> DEFINE f == Mixing(S)
             R == {k \in 0 .. n : c[k] \in Word64}
             d == [k \in 0 .. n |-> c[k]]
  <1>1. f \in [S -> [Word64 -> Word64]]
    BY MixingCommutes DEF Commuting
  <1>2. ASSUME NEW k \in 1 .. n, c[k - 1] \in Word64
        PROVE  c[k] = f[a[k]][c[k - 1]] /\ c[k] \in Word64
    <2>1. a[k] \in S /\ c[k] = V!commutativeHashMix(c[k - 1], V!hasher(a[k]))
      BY DEF Accumulates
    <2>2. c[k] = f[a[k]][c[k - 1]]
      BY <1>2, <2>1 DEF Mixing
    <2> QED BY <1>1, <1>2, <2>1, <2>2
  <1>3. c[0] = V!nullHash /\ V!nullHash \in Word64
    BY NullHashIsWord DEF Accumulates
  <1>4. \A k \in 0 .. n : k \in R
    <2>1. 0 \in R
      BY <1>3
    <2>2. ASSUME NEW k \in 1 .. n, k - 1 \in R PROVE k \in R
      BY <1>2, <2>2
    <2> HIDE DEF R
    <2> QED BY <2>1, <2>2, Induction
  <1>5. d \in [0 .. n -> Word64]
    BY <1>4
  <1>6. \A k \in 1 .. n : k \in 0 .. n /\ k - 1 \in 0 .. n /\ c[k - 1] \in Word64
    BY <1>4
  <1> HIDE DEF f
  <1>7. Chain(d, n, Word64, V!nullHash, f, a)
    BY <1>2, <1>3, <1>5, <1>6 DEF Chain
  <1>8. d[n] = c[n]
    OBVIOUS
  <1> HIDE DEF d
  <1> QED BY <1>7, <1>8 DEF f, EndsWith

\* Arrays that differ in the order of their elements have one hash.
THEOREM OrderDoesNotMatter == HashersSpec => []OrderIndependent
  <1>1. HashersInit => ArraysInv
    BY DEF HashersInit, ArraysInv, ArrayCall
  <1>2. ArraysInv => OrderIndependent
    <2> SUFFICES ASSUME ArraysInv, stage = "returned", Of("veloxArray"), Permuted(One, Other)
                 PROVE  SameAnswer
      BY DEF OrderIndependent
    <2> DEFINE n == Len(One)
               S == {One[k] : k \in 1 .. n} \cup {Other[k] : k \in 1 .. n}
               a == [k \in 1 .. n |-> One[k]]
               b == [k \in 1 .. n |-> Other[k]]
               f == Mixing(S)
    <2>1. /\ n \in Nat /\ Len(Other) = n
          /\ DOMAIN One = 1 .. n /\ DOMAIN Other = 1 .. n
          /\ \A k \in 1 .. n : IsValue(One[k]) /\ IsValue(Other[k])
      BY PairsAssumption DEF PairsAssumption, ArraysInv, Of, Permuted, One, Other
    <2>2. \A v \in S : IsValue(v)
      BY <2>1
    <2>3. a \in [1 .. n -> S] /\ b \in [1 .. n -> S]
      OBVIOUS
    <2>4. \A k \in 1 .. n : a[k] = One[k] /\ b[k] = Other[k]
      OBVIOUS
    <2>5. \A v : Count(v, a) = Count(v, One) /\ Count(v, b) = Count(v, Other)
      BY <2>1 DEF Count
    <2>6. \A k \in 1 .. n : Count(a[k], a) = Count(a[k], b)
      BY <2>1, <2>4, <2>5 DEF Permuted
    <2>7. ArrayHash(answers[1], One) /\ ArrayHash(answers[2], Other)
      BY DEF ArraysInv, ArrayCall
    <2>8. PICK c : Accumulates(c, One, n) /\ answers[1] = c[n]
      BY <2>7 DEF ArrayHash
    <2>9. PICK d : Accumulates(d, Other, n) /\ answers[2] = d[n]
      BY <2>1, <2>7 DEF ArrayHash
    <2> HIDE DEF n, S, a, b
    <2>10. PICK x : Chain(x, n, Word64, V!nullHash, f, a) /\ x[n] = c[n]
      <3>1. EndsWith(n, S, a, c[n])
        BY <2>1, <2>2, <2>3, <2>4, <2>8, ArrayHashEnds
      <3> QED BY <3>1 DEF EndsWith
    <2>11. PICK y : Chain(y, n, Word64, V!nullHash, f, b) /\ y[n] = d[n]
      <3>1. EndsWith(n, S, b, d[n])
        BY <2>1, <2>2, <2>3, <2>4, <2>9, ArrayHashEnds
      <3> QED BY <3>1 DEF EndsWith
    <2>12. SameEnd(n, S, Word64, V!nullHash, f)
      <3>1. V!nullHash \in Word64
        BY NullHashIsWord
      <3>2. Commuting(f, S, Word64)
        BY <2>2, MixingCommutes
      <3> HIDE DEF f
      <3> QED BY <2>1, <3>1, <3>2, OrderOfChain
    <2>13. x[n] = y[n]
      <3> HIDE DEF f
      <3>1. \A g, h : Chain(g, n, Word64, V!nullHash, f, a) /\ Chain(h, n, Word64, V!nullHash, f, b)
                       => g[n] = h[n]
        BY <2>3, <2>6, <2>12, Zenon DEF SameEnd
      <3> QED BY <2>10, <2>11, <3>1, Zenon
    <2> QED BY <2>8, <2>9, <2>10, <2>11, <2>13 DEF SameAnswer
  <1> QED BY <1>1, <1>2, ArraysStep, PTL DEF HashersSpec
=============================================================================
