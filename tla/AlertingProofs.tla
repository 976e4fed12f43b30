---------------------------- MODULE AlertingProofs ----------------------------
(***************************************************************************)
(* Proofs about Alerting, for any set of loops and any keys.               *)
(*                                                                         *)
(* The bound on the copies of an alert is not inductive: a call that has   *)
(* been let through may still find no cooldown when it returns from its    *)
(* insert.  While there is no cooldown the copies are covered by the calls *)
(* that are inserting and by the inserts that failed (Covered).            *)
(***************************************************************************)
EXTENDS Alerting, FiniteSetTheorems, TLAPS

\* The types without the bound on errors.
Types ==
  /\ recent \subseteq AlertKeys
  /\ step \in [Callers -> {"idle", "persist", "dispatch"}]
  /\ about \in [Callers -> AlertKeys \cup {NoKey}]
  /\ alerting \in BOOLEAN
  /\ admitted \in [Watched -> Nat] /\ unlogged \in [Watched -> Nat]
  /\ errors \in 0..MaxErrors

\* A call that is inserting or dispatching is about a key.
Busy == \A c \in Callers : step[c] # "idle" => about[c] \in AlertKeys

Covered ==
  \A k \in Watched \ recent : admitted[k] <= Cardinality(Inserting(k)) + unlogged[k]

Inv == Types /\ Busy /\ Covered /\ AlertsBounded

\* A set of calls is finite and no larger than the set of loops.
LEMMA InsertingFacts ==
  ASSUME NEW k
  PROVE  /\ IsFiniteSet(Inserting(k))
         /\ Cardinality(Inserting(k)) \in Nat
         /\ Cardinality(Inserting(k)) <= Cardinality(Callers)
         /\ Cardinality(Callers) \in Nat
<1>1. Inserting(k) \subseteq Callers /\ IsFiniteSet(Callers)
  BY AlertingAssumption DEF Inserting
<1> QED
  BY <1>1, FS_Subset, FS_CardinalityType

\* The calls inserting about k once c has joined them ...
LEMMA InsertingJoin ==
  ASSUME NEW k, NEW c \in Callers, c \notin Inserting(k), Inserting(k)' = Inserting(k) \cup {c}
  PROVE  Cardinality(Inserting(k))' = Cardinality(Inserting(k)) + 1
<1>1. Cardinality(Inserting(k) \cup {c}) = Cardinality(Inserting(k)) + 1
  BY InsertingFacts, FS_AddElement
<1> QED
  BY <1>1

\* ... and the calls once c has left them.
LEMMA InsertingLeave ==
  ASSUME NEW k, NEW c \in Inserting(k), Inserting(k)' = Inserting(k) \ {c}
  PROVE  Cardinality(Inserting(k))' = Cardinality(Inserting(k)) - 1
<1>1. Cardinality(Inserting(k) \ {c}) = Cardinality(Inserting(k)) - 1
  BY InsertingFacts, FS_RemoveElement
<1> QED
  BY <1>1

\* Nothing has been let through at the start.
LEMMA InitInv == AlertingInit => Inv
<1> SUFFICES ASSUME AlertingInit PROVE Inv
  OBVIOUS
<1>1. Types /\ Busy
  BY AlertingAssumption DEF AlertingInit, Types, Busy
<1>2. \A k \in Watched : admitted[k] = 0 /\ unlogged[k] = 0
  BY DEF AlertingInit
<1>3. Covered
  BY <1>2, InsertingFacts DEF Covered
<1>4. AlertsBounded
  BY <1>2, InsertingFacts DEF AlertsBounded
<1> QED
  BY <1>1, <1>3, <1>4 DEF Inv

\* A call is let through while there is no cooldown: it joins those inserting.
LEMMA AdmitInv ==
  ASSUME Inv, NEW c \in Callers, NEW j \in AlertKeys, Admit(c, j)
  PROVE  Inv'
<1> USE DEF Inv, Types
<1>1. Types'
  BY DEF Admit, More
<1>2. Busy'
  BY DEF Admit, Busy
<1>3. ASSUME NEW k \in Watched, k # j
      PROVE  Inserting(k)' = Inserting(k) /\ admitted'[k] = admitted[k]
  BY <1>3 DEF Admit, Inserting, More
<1>4. ASSUME j \in Watched
      PROVE  /\ Cardinality(Inserting(j))' = Cardinality(Inserting(j)) + 1
             /\ admitted'[j] = admitted[j] + 1
  <2>1. c \notin Inserting(j) /\ Inserting(j)' = Inserting(j) \cup {c}
    BY DEF Admit, Inserting
  <2>2. admitted'[j] = admitted[j] + 1
    BY <1>4 DEF Admit, More
  <2> QED
    BY <2>1, <2>2, InsertingJoin
<1>5. recent' = recent /\ unlogged' = unlogged /\ j \notin recent
  BY DEF Admit
<1>6. Covered'
  <2> SUFFICES ASSUME NEW k \in Watched \ recent
               PROVE  admitted'[k] <= Cardinality(Inserting(k))' + unlogged[k]
    BY <1>5 DEF Covered
  <2>1. CASE k = j
    BY <2>1, <1>4, InsertingFacts DEF Covered
  <2>2. CASE k # j
    BY <2>2, <1>3 DEF Covered
  <2> QED
    BY <2>1, <2>2
<1>7. AlertsBounded'
  <2> SUFFICES ASSUME NEW k \in Watched
               PROVE  admitted'[k] <= Cardinality(Callers) + unlogged[k]
    BY <1>5 DEF AlertsBounded
  <2>1. CASE k = j
    <3>1. admitted'[j] <= Cardinality(Inserting(j))' + unlogged[j]
      BY <1>5, <1>6, <2>1 DEF Covered
    <3>2. Cardinality(Inserting(j))' <= Cardinality(Callers) /\ Cardinality(Inserting(j))' \in Nat
      <4>1. Inserting(j)' \subseteq Callers
        BY DEF Inserting
      <4> QED
        BY <4>1, AlertingAssumption, FS_Subset, FS_CardinalityType
    <3>3. unlogged[j] \in Nat /\ admitted'[j] \in Nat /\ Cardinality(Callers) \in Nat
      BY <1>1, <1>5, <2>1, InsertingFacts
    <3>4. admitted'[j] <= Cardinality(Callers) + unlogged[j]
      BY <3>1, <3>2, <3>3
    <3> QED
      BY <3>4, <2>1
  <2>2. CASE k # j
    BY <2>2, <1>3 DEF AlertsBounded
  <2> QED
    BY <2>1, <2>2
<1> QED
  BY <1>1, <1>2, <1>6, <1>7

\* A call about j leaves its insert: the calls inserting about another key are
\* the same, and about j there is one less.
LEMMA PastInsertFacts ==
  ASSUME Types, NEW c \in Callers, PastInsert(c), NEW k
  PROVE  /\ k # about[c] => Inserting(k)' = Inserting(k)
         /\ k = about[c] => Cardinality(Inserting(k))' = Cardinality(Inserting(k)) - 1
<1>1. k # about[c] => Inserting(k)' = Inserting(k)
  BY DEF Types, PastInsert, Inserting
<1>2. k = about[c] => c \in Inserting(k) /\ Inserting(k)' = Inserting(k) \ {c}
  BY DEF Types, PastInsert, Inserting
<1> QED
  BY <1>1, <1>2, InsertingLeave

\* The insert succeeded: the key is in its cooldown, where Covered asks nothing.
LEMMA LoggedInv ==
  ASSUME Inv, NEW c \in Callers, Logged(c)
  PROVE  Inv'
<1> USE DEF Inv, Types
<1>0. about[c] \in AlertKeys
  BY DEF Logged, PastInsert, Busy
<1>1. Types'
  BY <1>0 DEF Logged, PastInsert
<1>2. Busy'
  BY DEF Logged, PastInsert, Busy
<1>3. /\ recent' = recent \cup {about[c]}
      /\ admitted' = admitted /\ unlogged' = unlogged
  BY DEF Logged, PastInsert
<1>4. Covered'
  <2> SUFFICES ASSUME NEW k \in Watched \ recent, k # about[c]
               PROVE  admitted[k] <= Cardinality(Inserting(k))' + unlogged[k]
    BY <1>3 DEF Covered
  <2>1. Inserting(k)' = Inserting(k)
    BY PastInsertFacts DEF Logged
  <2> QED
    BY <2>1 DEF Covered
<1>5. AlertsBounded'
  BY <1>3 DEF AlertsBounded
<1> QED
  BY <1>1, <1>2, <1>4, <1>5

\* The insert failed: one call less is inserting, one insert more has failed.
LEMMA NotLoggedInv ==
  ASSUME Inv, NEW c \in Callers, NotLogged(c)
  PROVE  Inv'
<1> USE DEF Inv, Types
<1>1. Types'
  BY AlertingAssumption DEF NotLogged, PastInsert, More, Erring
<1>2. Busy'
  BY DEF NotLogged, PastInsert, Busy
<1>3. /\ recent' = recent /\ admitted' = admitted
      /\ \A k \in Watched :
           unlogged'[k] = IF k = about[c] THEN unlogged[k] + 1 ELSE unlogged[k]
  BY DEF NotLogged, PastInsert, More
<1>4. Covered'
  <2> SUFFICES ASSUME NEW k \in Watched \ recent
               PROVE  admitted[k] <= Cardinality(Inserting(k))' + unlogged'[k]
    BY <1>3 DEF Covered
  <2>1. admitted[k] <= Cardinality(Inserting(k)) + unlogged[k]
    BY DEF Covered
  <2>2. unlogged[k] \in Nat /\ admitted[k] \in Nat /\ Cardinality(Inserting(k)) \in Nat
    BY InsertingFacts
  <2>3. CASE k = about[c]
    <3>1. /\ Cardinality(Inserting(k))' = Cardinality(Inserting(k)) - 1
          /\ unlogged'[k] = unlogged[k] + 1
      BY <2>3, <1>3, PastInsertFacts DEF NotLogged
    <3> QED
      BY <3>1, <2>1, <2>2
  <2>4. CASE k # about[c]
    <3>1. Inserting(k)' = Inserting(k) /\ unlogged'[k] = unlogged[k]
      BY <2>4, <1>3, PastInsertFacts DEF NotLogged
    <3> QED
      BY <3>1, <2>1
  <2> QED
    BY <2>3, <2>4
<1>5. AlertsBounded'
  <2> SUFFICES ASSUME NEW k \in Watched
               PROVE  admitted[k] <= Cardinality(Callers) + unlogged'[k]
    BY <1>3 DEF AlertsBounded
  <2>1. admitted[k] <= Cardinality(Callers) + unlogged[k]
    BY DEF AlertsBounded
  <2>2. /\ unlogged[k] \in Nat /\ admitted[k] \in Nat /\ Cardinality(Callers) \in Nat
        /\ unlogged'[k] \in {unlogged[k], unlogged[k] + 1}
    BY <1>3, InsertingFacts
  <2> QED
    BY <2>1, <2>2
<1> QED
  BY <1>1, <1>2, <1>4, <1>5

\* A call returns from the transport: it was not inserting.
LEMMA ReturnsInv ==
  ASSUME Inv, NEW c \in Callers, Returns(c), errors' \in 0..MaxErrors
  PROVE  Inv'
<1> USE DEF Inv, Types
<1>1. Types' /\ Busy'
  BY DEF Returns, Busy
<1>2. \A k : Inserting(k)' = Inserting(k)
  BY AlertingAssumption DEF Returns, Inserting
<1>3. recent' = recent /\ admitted' = admitted /\ unlogged' = unlogged
  BY DEF Returns
<1>4. Covered'
  BY <1>2, <1>3 DEF Covered
<1>5. AlertsBounded'
  BY <1>3 DEF AlertsBounded
<1> QED
  BY <1>1, <1>4, <1>5

\* A cooldown runs out, and the count starts anew.
LEMMA CoolsDownInv ==
  ASSUME Inv, NEW j \in AlertKeys, CoolsDown(j)
  PROVE  Inv'
<1> USE DEF Inv, Types
<1>1. Types' /\ Busy'
  BY DEF CoolsDown, Zero, Busy
<1>2. \A k : Inserting(k)' = Inserting(k)
  BY DEF CoolsDown, Inserting
<1>3. /\ recent' = recent \ {j}
      /\ \A k \in Watched : k # j => admitted'[k] = admitted[k] /\ unlogged'[k] = unlogged[k]
      /\ j \in Watched => admitted'[j] = 0 /\ unlogged'[j] = 0
  BY DEF CoolsDown, Zero
<1>4. Covered'
  <2> SUFFICES ASSUME NEW k \in Watched \ recent'
               PROVE  admitted'[k] <= Cardinality(Inserting(k)) + unlogged'[k]
    BY <1>2 DEF Covered
  <2>1. CASE k = j
    BY <2>1, <1>3, InsertingFacts
  <2>2. CASE k # j
    BY <2>2, <1>3 DEF Covered
  <2> QED
    BY <2>1, <2>2
<1>5. AlertsBounded'
  <2> SUFFICES ASSUME NEW k \in Watched
               PROVE  admitted'[k] <= Cardinality(Callers) + unlogged'[k]
    BY DEF AlertsBounded
  <2>1. CASE k = j
    BY <2>1, <1>3, InsertingFacts
  <2>2. CASE k # j
    BY <2>2, <1>3 DEF AlertsBounded
  <2> QED
    BY <2>1, <2>2
<1> QED
  BY <1>1, <1>4, <1>5

\* A step that leaves the calls, the cooldowns and the counts alone.
LEMMA IdleInv ==
  ASSUME Inv, UNCHANGED <<recent, step, about, admitted, unlogged>>,
         alerting' \in BOOLEAN, errors' \in 0..MaxErrors
  PROVE  Inv'
<1>1. \A k : Inserting(k)' = Inserting(k)
  BY DEF Inserting
<1> QED
  BY <1>1 DEF Inv, Types, Busy, Covered, AlertsBounded

\* Every step of sendAlert, of time and of the flag keeps the invariant.
LEMMA NextInv == Inv /\ [AlertingNext]_alertVars => Inv'
<1> SUFFICES ASSUME Inv, [AlertingNext]_alertVars PROVE Inv'
  OBVIOUS
<1>0. errors \in 0..MaxErrors /\ (Erring => errors' \in 0..MaxErrors)
  BY AlertingAssumption DEF Inv, Types, Erring
<1>1. CASE \E c \in Callers : \E k \in AlertKeys : Admit(c, k)
  BY <1>1, AdmitInv
<1>2. CASE \E c \in Callers : \E k \in AlertKeys : Suppress(c, k)
  BY <1>2, IdleInv DEF Suppress, alertVars, Inv, Types
<1>3. CASE \E c \in Callers : Logged(c)
  BY <1>3, LoggedInv
<1>4. CASE \E c \in Callers : NotLogged(c)
  BY <1>4, NotLoggedInv
<1>5. CASE \E c \in Callers : Dispatched(c) \/ DispatchThrows(c)
  BY <1>0, <1>5, ReturnsInv DEF Dispatched, DispatchThrows
<1>6. CASE \E k \in AlertKeys : CoolsDown(k)
  BY <1>6, CoolsDownInv
<1>7. CASE \E b \in BOOLEAN : SetAlerting(b)
  BY <1>0, <1>7, IdleInv DEF SetAlerting
<1>8. CASE UNCHANGED alertVars
  BY <1>8, IdleInv DEF alertVars, Inv, Types
<1> QED
  BY <1>1, <1>2, <1>3, <1>4, <1>5, <1>6, <1>7, <1>8 DEF AlertingNext

\* The variables of the alerting service keep their types, for any loops and
\* any keys.
THEOREM AlertingTyped == AlertingSpec => []AlertingTypeOK
<1>1. Inv => AlertingTypeOK
  BY DEF Inv, Types, AlertingTypeOK
<1> QED
  BY <1>1, InitInv, NextInv, PTL DEF AlertingSpec

\* Within a cooldown at most one copy of an alert per loop goes out, and one
\* more for each insert that failed.
THEOREM AlertsAreBounded == AlertingSpec => []AlertsBounded
<1>1. Inv => AlertsBounded
  BY DEF Inv
<1> QED
  BY <1>1, InitInv, NextInv, PTL DEF AlertingSpec
=============================================================================
