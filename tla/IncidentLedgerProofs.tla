------------------------- MODULE IncidentLedgerProofs -------------------------
(***************************************************************************)
(* Proofs that the incident tables keep the ledger's promise, and that no  *)
(* transition event runs ahead of them, for any keys, loops and severities *)
(* and any number of concurrent transactions.                              *)
(*                                                                         *)
(* The ledger's level of a key is that of its one unresolved row, so the   *)
(* mapping rests on OneActiveRow.  A step of the tables opens an episode   *)
(* because a call that creates a row has no rival (NoRival), and a closed  *)
(* one stays closed because no commit makes a row active again.            *)
(*                                                                         *)
(* Memory agrees with the tables except for the call of the owner that is  *)
(* under way: the last section says what that call has written to memory   *)
(* and has yet to write to the rows (Agrees).                              *)
(***************************************************************************)
EXTENDS IncidentManagerProofs, FiniteSetTheorems

USE DEF None, Severity

(***************************************************************************)
(* What the mapping needs to know of a persisting call.                    *)
(***************************************************************************)
\* It writes a level that is reported, to at most one row.
PersistInv ==
  \A p \in Procs :
    /\ pc[p] # "idle" /\ req[p].op = "persist" => req[p].level \in Levels
    /\ pc[p] \in {"found", "staged"} /\ req[p].op = "persist" =>
         \A r, s \in found[p] : r = s

EpisodesOf(k) == {r \in DOMAIN inc : inc[r].key = k}

(***************************************************************************)
(* What the steps do to the tables.                                        *)
(***************************************************************************)
\* A row that is created is the last one, of a key without an active row.
Created(k, l) ==
  LET n == Len(inc) + 1 IN
  /\ DOMAIN inc' = DOMAIN inc \cup {n} /\ n \notin DOMAIN inc
  /\ inc'[n].key = k /\ inc'[n].level = l /\ inc'[n].active
  /\ \A r \in DOMAIN inc : inc'[r] = inc[r]
  /\ ActiveRows({k}) = {}

\* A commit without a row found creates one, at a reported level.
LEMMA CreateCreates ==
  ASSUME Inv, PersistInv, NEW p \in Procs, CommitCreate(p)
  PROVE  \E k \in Keys, l \in Levels :
           Created(k, l) /\ req[p].keys = {k} /\ req[p].level = l
<1> USE DEF Inv, Types, TxTypes
<1> DEFINE c == CHOOSE x \in req[p].keys : TRUE
           h == IF gsel[p] = 0 THEN Len(grp) + 1 ELSE gsel[p]
           row == [key |-> c, level |-> req[p].level, active |-> TRUE, group |-> h]
           n == Len(inc) + 1
           S == Row \cup {row}
<1>1. inc' = Append(inc, row) /\ pc[p] = "staged" /\ req[p].op = "persist" /\ found[p] = {}
  BY DEF CommitCreate
<1>2. req[p].level \in Levels
  BY <1>1 DEF PersistInv
<1>3. c \in Keys /\ req[p].keys = {c}
  BY <1>1 DEF CallInv
<1>4. ActiveRows({c}) = {}
  BY <1>1, <1>3 DEF NoRival, Creating
<1>5. row.key = c /\ row.level = req[p].level /\ row.active
  OBVIOUS
<1> HIDE DEF c, row
<1>6. inc \in Seq(S) /\ row \in S
  BY SeqMonotonic DEF TableTypes
<1> HIDE DEF S
<1>7. inc' \in Seq(S) /\ Len(inc') = n /\ inc'[n] = row
      /\ \A r \in 1..Len(inc) : inc'[r] = inc[r]
  BY <1>1, <1>6, AppendProperties
<1>8. DOMAIN inc' = 1..n
  BY <1>7, LenProperties
<1>9. Created(c, req[p].level)
  <2>1. DOMAIN inc = 1..Len(inc) /\ Len(inc) \in Nat
    BY RowFacts
  <2>2. DOMAIN inc' = DOMAIN inc \cup {n} /\ n \notin DOMAIN inc
    BY <1>8, <2>1
  <2>3. inc'[n].key = c /\ inc'[n].level = req[p].level /\ inc'[n].active
    BY <1>5, <1>7
  <2>4. \A r \in DOMAIN inc : inc'[r] = inc[r]
    BY <1>7, <2>1
  <2> QED
    BY <1>4, <2>2, <2>3, <2>4 DEF Created
<1> QED
  BY <1>2, <1>3, <1>9

\* A commit that changes a level touches the rows found, and nothing but their level.
LEMMA Changes ==
  ASSUME Inv, NEW p \in Procs, CommitChange(p)
  PROVE  /\ SameRows
         /\ \A r \in DOMAIN inc : /\ inc'[r].active = inc[r].active
                                  /\ r \in found[p] => inc'[r].level = req[p].level
                                  /\ r \notin found[p] => inc'[r] = inc[r]
<1>1. SameRows
  BY CommitUpdateTypes DEF Inv, Types, TxTypes
<1>2. \A r \in DOMAIN inc : inc[r] \in Row
  BY RowFacts DEF Inv, Types
<1>3. inc' = [r \in DOMAIN inc |->
                IF r \in found[p] THEN [inc[r] EXCEPT !.level = req[p].level] ELSE inc[r]]
  BY DEF CommitChange
<1> QED
  BY <1>1, <1>2, <1>3 DEF Row

\* A resolving commit closes the rows found and leaves the others.
LEMMA Resolves ==
  ASSUME Inv, NEW p \in Procs, CommitResolve(p)
  PROVE  /\ SameRows
         /\ \A r \in DOMAIN inc : /\ r \in found[p] => ~inc'[r].active
                                  /\ r \notin found[p] => inc'[r] = inc[r]
<1>1. SameRows
  BY CommitUpdateTypes DEF Inv, Types, TxTypes
<1>2. \A r \in DOMAIN inc : inc[r] \in Row
  BY RowFacts DEF Inv, Types
<1>3. inc' = [r \in DOMAIN inc |->
                IF r \in found[p] THEN [inc[r] EXCEPT !.active = FALSE] ELSE inc[r]]
  BY DEF CommitResolve
<1> QED
  BY <1>1, <1>2, <1>3 DEF Row

(***************************************************************************)
(* PersistInv is an invariant.                                             *)
(***************************************************************************)
\* No call is under way at first.
LEMMA PersistInit == Init => PersistInv
BY DEF Init, PersistInv, NoCall

\* A call that starts reports a level or resolves.
LEMMA StartsAtLevel ==
  ASSUME Inv, PersistInv, NEW p \in Procs, NEW r \in Request, Begin(p, r),
         r.op = "persist" => r.level \in Levels
  PROVE  PersistInv'
<1>1. /\ pc' = [pc EXCEPT ![p] = "begin"] /\ req' = [req EXCEPT ![p] = r]
      /\ UNCHANGED found
  BY DEF Begin
<1> QED
  BY <1>1 DEF PersistInv, Inv, Types, PcTypes

\* A resolving call leaves what is known of persisting ones.
LEMMA ResolvingStarts ==
  ASSUME Inv, PersistInv, NEW p \in Procs, NEW K \in SUBSET Keys,
         Begin(p, [op |-> "resolve", keys |-> K, level |-> None])
  PROVE  PersistInv'
BY StartsAtLevel DEF Request

\* So does the end of any call.
LEMMA EndsPersist ==
  ASSUME Inv, PersistInv, NEW p \in Procs, EndCall(p)
  PROVE  PersistInv'
BY DEF EndCall, PersistInv, Inv, Types, PcTypes, FoundTypes

\* Every step preserves PersistInv.
LEMMA PersistStep ==
  ASSUME Inv, PersistInv, [Next]_vars PROVE PersistInv'
<1> USE ProcFacts, ConstantsAssumption
<1>1. ASSUME UNCHANGED <<pc, req, found>> PROVE PersistInv'
  BY <1>1 DEF PersistInv
<1>2. ASSUME NEW k \in Keys, NEW l \in Levels, ReportIncident(k, l) PROVE PersistInv'
  <2>1. Begin(Owner[k], [op |-> "persist", keys |-> {k}, level |-> l])
    BY <1>2 DEF ReportIncident
  <2>2. [op |-> "persist", keys |-> {k}, level |-> l] \in Request
    BY DEF Request
  <2> QED
    BY <2>1, <2>2, StartsAtLevel
<1>3. ASSUME NEW p \in Procs, NEW C, NEW K \in SUBSET Keys, CallerResolves(p, C, K)
      PROVE PersistInv'
  BY <1>3, ResolvingStarts DEF CallerResolves, StartResolve
<1>4. ASSUME NEW k \in Keys, ResolveBySource(k) PROVE PersistInv'
  BY <1>3, <1>4 DEF ResolveBySource
<1>5. ASSUME NEW p \in Detectors, NEW F \in Families, ResolveByPrefix(p, F) PROVE PersistInv'
  <2>1. {k \in F : mem[k] # None} \in SUBSET Keys /\ p \in Procs
    OBVIOUS
  <2> QED
    BY <2>1, <1>3, <1>5 DEF ResolveByPrefix
<1>6. ASSUME NEW p \in Operators, NEW k \in Keys, ResolveSymbol(p, Symbol[k]) PROVE PersistInv'
  <2>1. {j \in Keys : Symbol[j] = Symbol[k]} \in SUBSET Keys /\ p \in Procs
    OBVIOUS
  <2> QED
    BY <2>1, <1>3, <1>6 DEF ResolveSymbol
<1>7. ASSUME NEW p \in Labs, ClearSimulation(p) PROVE PersistInv'
  BY <1>3, <1>7 DEF ClearSimulation
<1>8. ASSUME NEW k \in Keys, SweepSymbol(k) \/ SweepGlobal(k) PROVE PersistInv'
  <2>1. CASE StartResolve(Sweeper, {k}, {k})
    BY <2>1, ResolvingStarts DEF StartResolve
  <2>2. CASE UNCHANGED txVars
    BY <2>2, <1>1 DEF txVars
  <2> QED
    BY <1>8, <2>1, <2>2 DEF SweepSymbol, SweepGlobal
<1>9. CASE \/ \E k \in Keys : Age(k)
           \/ SweepStart \/ SweepTurns \/ SweepEnd
           \/ \E e \in inflight : Enqueue(e) \/ EnqueueFail(e)
           \/ InitFromDb \/ InitFails \/ UNCHANGED vars
  BY <1>9, <1>1 DEF Age, SweepStart, SweepTurns, SweepEnd, Enqueue, EnqueueFail,
                    InitFromDb, InitFails, vars, txVars
<1>10. ASSUME NEW p \in Procs, Find(p) PROVE PersistInv'
  <2>1. CASE EndCall(p)
    BY <2>1, EndsPersist
  <2>2. CASE ~EndCall(p)
    <3>1. /\ UNCHANGED req /\ pc' = [pc EXCEPT ![p] = "found"]
          /\ pc[p] = "begin" /\ found[p] = {}
      BY <1>10, <2>2 DEF Find, Inv, CallInv
    <3>2. req[p].op = "persist" => found' = found \/ \E r : found' = [found EXCEPT ![p] = {r}]
      BY <1>10, <2>2 DEF Find
    <3>3. req[p].op = "persist" => \A r, s \in found'[p] : r = s
      BY <3>1, <3>2 DEF Inv, Types, FoundTypes
    <3>4. \A q \in Procs \ {p} : found'[q] = found[q] /\ pc'[q] = pc[q]
      BY <1>10, <2>2, <3>1 DEF Find, Inv, Types, FoundTypes, PcTypes
    <3> QED
      BY <3>1, <3>3, <3>4 DEF PersistInv
  <2> QED
    BY <2>1, <2>2
<1>11. ASSUME NEW p \in Procs, Stage(p) PROVE PersistInv'
  <2>1. UNCHANGED <<req, found>> /\ pc[p] = "found" /\ pc' = [pc EXCEPT ![p] = "staged"]
    BY <1>11 DEF Stage
  <2> QED
    BY <2>1 DEF PersistInv, Inv, Types, PcTypes
<1>12. ASSUME NEW p \in Procs,
              CommitCreate(p) \/ CommitChange(p) \/ CommitResolve(p) \/ TxFail(p)
       PROVE PersistInv'
  BY <1>12, EndsPersist DEF CommitCreate, CommitChange, CommitResolve, TxFail
<1>13. CASE Crash
  BY <1>13 DEF Crash, PersistInv
<1> QED
  BY <1>2, <1>4, <1>5, <1>6, <1>7, <1>8, <1>9, <1>10, <1>11, <1>12, <1>13 DEF Next

(***************************************************************************)
(* The mapping.                                                            *)
(***************************************************************************)
Flags == \A r \in DOMAIN inc : inc[r].active \in BOOLEAN

\* The level of a key is that of its active row, whichever is chosen.
LevelFact ==
  \A k \in Keys :
    /\ \A r \in DOMAIN inc : inc[r].active /\ inc[r].key = k => Rehydrated(k) = inc[r].level
    /\ (\A r \in DOMAIN inc : inc[r].key = k => ~inc[r].active) => Rehydrated(k) = None

\* The level of a key is that of its active row: it has at most one.
LEMMA LevelIs == Inv => LevelFact
<1> SUFFICES ASSUME Inv, NEW k \in Keys
             PROVE  /\ \A r \in DOMAIN inc :
                         inc[r].active /\ inc[r].key = k => Rehydrated(k) = inc[r].level
                    /\ (\A r \in DOMAIN inc : inc[r].key = k => ~inc[r].active)
                         => Rehydrated(k) = None
  BY DEF LevelFact
<1>1. ASSUME NEW r \in DOMAIN inc, inc[r].active, inc[r].key = k
      PROVE  Rehydrated(k) = inc[r].level
  <2>1. r \in ActiveRows({k})
    BY <1>1 DEF ActiveRows
  <2>2. \A s \in ActiveRows({k}) : s = r
    BY <1>1 DEF ActiveRows, Inv, OneActiveRow
  <2> QED
    BY <2>1, <2>2 DEF Rehydrated
<1>2. (\A r \in DOMAIN inc : inc[r].key = k => ~inc[r].active) => ActiveRows({k}) = {}
  BY DEF ActiveRows
<1>3. ActiveRows({k}) = {} => Rehydrated(k) = None
  BY DEF Rehydrated
<1> QED
  BY <1>1, <1>2, <1>3

\* The same of the next state.
LEMMA LevelIsNext == Inv' => LevelFact'
BY LevelIs, PTL

\* A key has finitely many episodes.
LEMMA EpisodesFinite ==
  ASSUME Inv, NEW k PROVE IsFiniteSet(EpisodesOf(k))
<1>1. IsFiniteSet(DOMAIN inc)
  BY RowFacts, FS_Interval DEF Inv, Types
<1> QED
  BY <1>1, FS_Subset DEF EpisodesOf

\* A row has a reported level, which is not None.
LEMMA RowLevel ==
  ASSUME Inv, NEW r \in DOMAIN inc
  PROVE  inc[r].level # None /\ inc[r].key \in Keys /\ inc[r].active \in BOOLEAN
BY RowFacts DEF Inv, Types, Row

\* A row is active or it is not.
LEMMA FlagsAre == Inv => Flags
BY RowLevel DEF Flags

\* In the next state too.
LEMMA FlagsNext == Inv' => Flags'
BY FlagsAre, PTL

\* A key whose rows keep their level and activity keeps its place in the ledger.
LEMMA Kept ==
  ASSUME Inv, Inv', NEW k \in Keys, DOMAIN inc \subseteq DOMAIN inc',
         \A r \in DOMAIN inc' : inc'[r].key = k =>
           /\ r \in DOMAIN inc /\ inc[r].key = k
           /\ inc'[r].active = inc[r].active
           /\ inc[r].active => inc'[r].level = inc[r].level,
         \A r \in DOMAIN inc : inc'[r].key = inc[r].key
  PROVE  Rehydrated(k)' = Rehydrated(k)
<1> USE LevelIs, LevelIsNext DEF LevelFact
<1>1. CASE \E r \in DOMAIN inc : inc[r].active /\ inc[r].key = k
  <2>1. PICK r \in DOMAIN inc : inc[r].active /\ inc[r].key = k
    BY <1>1
  <2>2. r \in DOMAIN inc' /\ inc'[r].key = k /\ inc'[r].active /\ inc'[r].level = inc[r].level
    BY <2>1
  <2>3. Rehydrated(k)' = inc'[r].level
    BY <2>2
  <2> QED
    BY <2>1, <2>2, <2>3
<1>2. CASE \A r \in DOMAIN inc : inc[r].key = k => ~inc[r].active
  <2>1. \A r \in DOMAIN inc' : inc'[r].key = k => ~inc'[r].active
    BY <1>2
  <2>2. Rehydrated(k)' = None
    BY <2>1
  <2> QED
    BY <1>2, <2>2
<1> QED
  BY <1>1, <1>2

LedgerVars == <<[k \in Keys |-> Rehydrated(k)],
                [k \in Keys |-> Cardinality({r \in DOMAIN inc : inc[r].key = k})]>>

Commits == \E p \in Procs : CommitCreate(p) \/ CommitChange(p) \/ CommitResolve(p)

\* No other step touches the incident table or publishes; an event may be inserted
\* into the outbox or lost.
LEMMA OnlyCommitsWrite ==
  ASSUME [Next]_vars, ~Commits
  PROVE  UNCHANGED inc /\ inflight' \cup outbox' \subseteq inflight \cup outbox
<1> USE DEF dbVars
<1>1. ASSUME NEW k \in Keys, NEW l \in Levels, ReportIncident(k, l)
      PROVE UNCHANGED <<inc, inflight, outbox>>
  BY <1>1 DEF ReportIncident
<1>2. ASSUME NEW p, NEW K, NEW L, CallerResolves(p, K, L) PROVE UNCHANGED <<inc, inflight, outbox>>
  BY <1>2 DEF CallerResolves
<1>3. ASSUME NEW k \in Keys, ResolveBySource(k) PROVE UNCHANGED <<inc, inflight, outbox>>
  BY <1>2, <1>3 DEF ResolveBySource
<1>4. ASSUME NEW p \in Detectors, NEW F \in Families, ResolveByPrefix(p, F)
      PROVE UNCHANGED <<inc, inflight, outbox>>
  BY <1>2, <1>4 DEF ResolveByPrefix
<1>5. ASSUME NEW p \in Operators, NEW k \in Keys, ResolveSymbol(p, Symbol[k])
      PROVE UNCHANGED <<inc, inflight, outbox>>
  BY <1>2, <1>5 DEF ResolveSymbol
<1>6. ASSUME NEW p \in Labs, ClearSimulation(p) PROVE UNCHANGED <<inc, inflight, outbox>>
  BY <1>2, <1>6 DEF ClearSimulation
<1>7. ASSUME NEW k \in Keys, Age(k) \/ SweepSymbol(k) \/ SweepGlobal(k)
      PROVE UNCHANGED <<inc, inflight, outbox>>
  BY <1>7 DEF Age, SweepSymbol, SweepGlobal, SweepMoves
<1>8. CASE \/ SweepStart \/ SweepTurns \/ SweepEnd
           \/ Crash \/ InitFromDb \/ InitFails \/ UNCHANGED vars
  BY <1>8 DEF SweepStart, SweepTurns, SweepEnd, SweepMoves, Crash,
              InitFromDb, InitFails, vars
<1>9. ASSUME NEW p \in Procs, Find(p) \/ Stage(p) \/ TxFail(p)
      PROVE UNCHANGED <<inc, inflight, outbox>>
  BY <1>9 DEF Find, Stage, TxFail
<1>10. CASE \E e \in inflight : Enqueue(e) \/ EnqueueFail(e)
  BY <1>10 DEF Enqueue, EnqueueFail
<1> QED
  BY <1>1, <1>3, <1>4, <1>5, <1>6, <1>7, <1>8, <1>9, <1>10 DEF Next, Commits

\* The tables start as the ledger does.
LEMMA InitMaps == Init => Ledger!Init
<1> SUFFICES ASSUME Init PROVE Ledger!Init
  OBVIOUS
<1>1. DOMAIN inc = {}
  BY EmptySeq DEF Init
<1>2. \A k \in Keys : Rehydrated(k) = None
  BY <1>1 DEF Rehydrated, ActiveRows
<1>3. \A k \in Keys : Cardinality({r \in DOMAIN inc : inc[r].key = k}) = 0
  BY <1>1, FS_EmptySet
<1> QED
  BY <1>2, <1>3 DEF Ledger!Init

\* A commit that creates a row opens an episode.
LEMMA CreateMaps ==
  ASSUME Inv, Inv', NEW k \in Keys, NEW l \in Levels, Created(k, l)
  PROVE  Ledger!Open(k, l)
<1> DEFINE n == Len(inc) + 1
<1>1. /\ DOMAIN inc' = DOMAIN inc \cup {n} /\ n \notin DOMAIN inc
      /\ inc'[n].key = k /\ inc'[n].level = l /\ inc'[n].active
      /\ \A r \in DOMAIN inc : inc'[r] = inc[r]
      /\ \A r \in DOMAIN inc : inc[r].key = k => ~inc[r].active
  BY DEF Created, ActiveRows
<1> HIDE DEF n
<1>2. Rehydrated(k) = None
  BY <1>1, LevelIs DEF LevelFact
<1>3. Rehydrated(k)' = l
  BY <1>1, LevelIsNext DEF LevelFact
<1>4. ASSUME NEW j \in Keys \ {k} PROVE Rehydrated(j)' = Rehydrated(j)
  BY <1>1, Kept
<1>5. ASSUME NEW j \in Keys \ {k} PROVE EpisodesOf(j)' = EpisodesOf(j)
  BY <1>1 DEF EpisodesOf
<1>6. Cardinality(EpisodesOf(k)') = Cardinality(EpisodesOf(k)) + 1
  <2>1. EpisodesOf(k)' = EpisodesOf(k) \cup {n} /\ n \notin EpisodesOf(k)
    BY <1>1 DEF EpisodesOf
  <2> QED
    BY <2>1, EpisodesFinite, FS_AddElement
<1>7. [j \in Keys |-> Rehydrated(j)'] = [[j \in Keys |-> Rehydrated(j)] EXCEPT ![k] = l]
  BY <1>3, <1>4
<1>8. [j \in Keys |-> Cardinality(EpisodesOf(j)')]
        = [[j \in Keys |-> Cardinality(EpisodesOf(j))] EXCEPT ![k] = @ + 1]
  BY <1>5, <1>6
<1> QED
  BY <1>2, <1>7, <1>8 DEF Ledger!Open, EpisodesOf

\* The episodes of every key are those of before when no row comes or goes.
LEMMA SameEpisodes ==
  ASSUME SameRows
  PROVE  [k \in Keys |-> Cardinality({r \in DOMAIN inc' : inc'[r].key = k})]
           = [k \in Keys |-> Cardinality({r \in DOMAIN inc : inc[r].key = k})]
<1>1. \A k \in Keys : {r \in DOMAIN inc' : inc'[r].key = k} = {r \in DOMAIN inc : inc[r].key = k}
  BY DEF SameRows
<1> QED
  BY <1>1

\* A commit that changes a level does so for the open episode, or for a closed one,
\* which the ledger does not show.
LEMMA ChangeMaps ==
  ASSUME Inv, Inv', PersistInv, NEW p \in Procs, CommitChange(p)
  PROVE  (\E k \in Keys, l \in Levels : Ledger!Relevel(k, l)) \/ UNCHANGED LedgerVars
<1>1. /\ SameRows
      /\ \A r \in DOMAIN inc : /\ inc'[r].active = inc[r].active
                               /\ r \in found[p] => inc'[r].level = req[p].level
                               /\ r \notin found[p] => inc'[r] = inc[r]
  BY Changes
<1>2. /\ DOMAIN inc' = DOMAIN inc
      /\ \A r \in DOMAIN inc : inc'[r].key = inc[r].key
  BY <1>1 DEF SameRows
<1>3. PICK f \in DOMAIN inc : found[p] = {f}
  <2>1. found[p] # {} /\ found[p] \subseteq DOMAIN inc
    BY DEF CommitChange, Inv, Types, FoundTypes
  <2>2. \A r, s \in found[p] : r = s
    BY DEF CommitChange, PersistInv
  <2> QED
    BY <2>1, <2>2
<1>4. PICK l \in Levels : l = req[p].level
  BY DEF CommitChange, PersistInv
<1>5. PICK k \in Keys : k = inc[f].key
  BY RowLevel
<1>6. ASSUME NEW j \in Keys \ {k} PROVE Rehydrated(j)' = Rehydrated(j)
  <2>1. \A r \in DOMAIN inc' : inc'[r].key = j =>
          r \in DOMAIN inc /\ inc[r].key = j /\ inc'[r] = inc[r]
    BY <1>1, <1>2, <1>3, <1>5, <1>6
  <2> QED
    BY <1>2, <2>1, Kept
<1>7. CASE inc[f].active
  <2>1. Rehydrated(k) # None
    BY <1>5, <1>7, LevelIs, RowLevel DEF LevelFact
  <2>2. inc'[f].active /\ inc'[f].key = k /\ inc'[f].level = req[p].level /\ f \in DOMAIN inc'
    BY <1>1, <1>2, <1>3, <1>5, <1>7
  <2>3. Rehydrated(k)' = l
    BY <1>4, <1>5, <2>2, LevelIsNext DEF LevelFact
  <2>4. [j \in Keys |-> Rehydrated(j)'] = [[j \in Keys |-> Rehydrated(j)] EXCEPT ![k] = l]
    BY <1>5, <1>6, <2>3
  <2>5. Ledger!Relevel(k, l)
    BY <1>1, <1>5, <2>1, <2>4, SameEpisodes DEF Ledger!Relevel
  <2> QED
    BY <2>5
<1>8. CASE ~inc[f].active
  <2>1. \A r \in DOMAIN inc : inc[r].active => inc'[r].level = inc[r].level
    BY <1>1, <1>3, <1>8
  <2>2. \A j \in Keys : Rehydrated(j)' = Rehydrated(j)
    BY <1>1, <1>2, <2>1, Kept
  <2>3. [j \in Keys |-> Rehydrated(j)'] = [j \in Keys |-> Rehydrated(j)]
    BY <2>2
  <2> QED
    BY <1>1, <2>3, SameEpisodes DEF LedgerVars
<1> QED
  BY <1>7, <1>8

\* A commit that resolves closes the episodes of the rows found that are still open.
LEMMA ResolveMaps ==
  ASSUME Inv, Inv', NEW p \in Procs, CommitResolve(p)
  PROVE  \E K \in SUBSET Keys : Ledger!Close(K)
<1>1. /\ SameRows
      /\ \A r \in DOMAIN inc : /\ r \in found[p] => ~inc'[r].active
                               /\ r \notin found[p] => inc'[r] = inc[r]
  BY Resolves
<1>2. /\ DOMAIN inc' = DOMAIN inc
      /\ \A r \in DOMAIN inc : inc'[r].key = inc[r].key
  BY <1>1 DEF SameRows
<1> DEFINE K == {k \in Keys : \E r \in found[p] : inc[r].active /\ inc[r].key = k}
<1>3. found[p] \subseteq DOMAIN inc
  BY DEF Inv, Types, FoundTypes
<1>4. ASSUME NEW k \in K PROVE Rehydrated(k) # None /\ Rehydrated(k)' = None
  <2>1. PICK r \in DOMAIN inc : r \in found[p] /\ inc[r].active /\ inc[r].key = k
    BY <1>3
  <2>2. Rehydrated(k) # None
    BY <2>1, LevelIs, RowLevel DEF LevelFact
  <2>3. \A s \in DOMAIN inc : inc[s].active /\ inc[s].key = k => s = r
    BY <2>1 DEF Inv, OneActiveRow
  <2>4. \A s \in DOMAIN inc' : inc'[s].key = k => ~inc'[s].active
    BY <1>1, <1>2, <2>1, <2>3, RowLevel
  <2> QED
    BY <2>2, <2>4, LevelIsNext DEF LevelFact
<1>5. ASSUME NEW k \in Keys \ K PROVE Rehydrated(k)' = Rehydrated(k)
  <2>1. ASSUME NEW r \in DOMAIN inc', inc'[r].key = k
        PROVE  /\ r \in DOMAIN inc /\ inc[r].key = k
               /\ inc'[r].active = inc[r].active
               /\ inc[r].active => inc'[r].level = inc[r].level
    <3>1. r \in DOMAIN inc /\ inc[r].key = k
      BY <1>2, <2>1
    <3>2. CASE r \in found[p]
      <4>1. ~inc[r].active
        BY <3>1, <3>2
      <4>2. ~inc'[r].active
        BY <1>1, <3>1, <3>2
      <4>3. inc[r].active \in BOOLEAN /\ inc'[r].active \in BOOLEAN
        BY <2>1, <3>1, FlagsAre, FlagsNext DEF Flags
      <4> QED
        BY <3>1, <4>1, <4>2, <4>3
    <3>3. CASE r \notin found[p]
      BY <1>1, <3>1, <3>3
    <3> QED
      BY <3>2, <3>3
  <2> QED
    BY <1>2, <2>1, Kept
<1> HIDE DEF K
<1>6. [k \in Keys |-> Rehydrated(k)']
        = [k \in Keys |-> IF k \in K THEN None ELSE [j \in Keys |-> Rehydrated(j)][k]]
  BY <1>4, <1>5
<1>7. K \in SUBSET Keys
  BY DEF K
<1>8. Ledger!Close(K)
  BY <1>1, <1>4, <1>6, <1>7, SameEpisodes DEF Ledger!Close
<1> QED
  BY <1>7, <1>8

\* Every step of the tables is one of the ledger's, or leaves it as it is.
LEMMA StepMaps ==
  ASSUME Inv, Inv', PersistInv, [Next]_vars
  PROVE  [Ledger!Next]_LedgerVars
<1>1. ASSUME UNCHANGED inc PROVE UNCHANGED LedgerVars
  BY <1>1 DEF LedgerVars, Rehydrated, ActiveRows
<1>2. ASSUME NEW p \in Procs, CommitCreate(p) PROVE Ledger!Next
  BY <1>2, CreateCreates, CreateMaps DEF Ledger!Next
<1>3. ASSUME NEW p \in Procs, CommitChange(p) PROVE Ledger!Next \/ UNCHANGED LedgerVars
  BY <1>3, ChangeMaps DEF Ledger!Next
<1>4. ASSUME NEW p \in Procs, CommitResolve(p) PROVE Ledger!Next
  BY <1>4, ResolveMaps DEF Ledger!Next
<1>5. Commits \/ UNCHANGED inc
  BY OnlyCommitsWrite
<1> QED
  BY <1>1, <1>2, <1>3, <1>4, <1>5 DEF Commits

\* The detailed specification implements the abstract one: whatever calls,
\* failures and restarts interleave, the tables of IncidentManager.ts show every
\* key a history of episodes, of which one at a time is open and none reopens.
THEOREM ImplementsLedger == Spec => LedgerSpec
<1>1. Init => PersistInv
  BY PersistInit
<1>2. Inv /\ PersistInv /\ [Next]_vars => PersistInv'
  BY PersistStep
<1>3. Inv /\ Inv' /\ PersistInv /\ [Next]_vars => [Ledger!Next]_LedgerVars
  BY StepMaps
<1>4. LedgerSpec <=> Ledger!Init /\ [][Ledger!Next]_LedgerVars
  BY DEF LedgerSpec, Ledger!Spec, LedgerVars
<1> QED
  BY <1>1, <1>2, <1>3, <1>4, InitMaps, Inductive, PTL DEF Spec

(***************************************************************************)
(* Events.                                                                 *)
(***************************************************************************)
\* Resolved rows stay resolved, no row goes away, and what is published anew is
\* about rows the commit wrote.
RowsOnlyClose ==
  \A r \in DOMAIN inc : r \in DOMAIN inc' /\ (inc'[r].active => inc[r].active)

NewEventsTrue ==
  \A e \in (inflight' \cup outbox') \ (inflight \cup outbox) :
    e.row \in DOMAIN inc' /\ (e.kind = "RESOLVED" => ~inc'[e.row].active)

\* Both together keep NoPhantomEvents.
LEMMA EventsKept ==
  ASSUME NoPhantomEvents, RowsOnlyClose, NewEventsTrue
  PROVE  NoPhantomEvents'
BY DEF NoPhantomEvents, RowsOnlyClose, NewEventsTrue

\* A commit publishes about the rows it wrote.
LEMMA CommitEvents ==
  ASSUME Inv, PersistInv, NEW p \in Procs,
         CommitCreate(p) \/ CommitChange(p) \/ CommitResolve(p)
  PROVE  RowsOnlyClose /\ NewEventsTrue
<1> USE DEF RowsOnlyClose, NewEventsTrue, Publish
<1>1. CASE CommitCreate(p)
  <2>1. PICK k \in Keys, l \in Levels : Created(k, l)
    BY <1>1, CreateCreates
  <2>2. inflight' = inflight \cup {[kind |-> "CREATED", row |-> Len(inc) + 1]} /\ outbox' = outbox
    BY <1>1 DEF CommitCreate
  <2> QED
    BY <2>1, <2>2 DEF Created
<1>2. CASE CommitChange(p)
  <2>1. inflight' = inflight \cup {[kind |-> "STATE_CHANGED", row |-> r] : r \in found[p]}
        /\ outbox' = outbox
    BY <1>2 DEF CommitChange
  <2>2. found[p] \subseteq DOMAIN inc
    BY DEF Inv, Types, FoundTypes
  <2> QED
    BY <1>2, <2>1, <2>2, Changes DEF SameRows
<1>3. CASE CommitResolve(p)
  <2>1. inflight' = inflight \cup {[kind |-> "RESOLVED", row |-> r] : r \in found[p]}
        /\ outbox' = outbox
    BY <1>3 DEF CommitResolve
  <2>2. found[p] \subseteq DOMAIN inc
    BY DEF Inv, Types, FoundTypes
  <2> QED
    BY <1>3, <2>1, <2>2, Resolves DEF SameRows
<1> QED
  BY <1>1, <1>2, <1>3

\* The transition events in flight and in the outbox never run ahead of the
\* tables, for any interleaving: publishTransition is called after the commit, and
\* no later write of IncidentManager.ts makes a resolved row active again.
THEOREM EventsFollowTables == Spec => []NoPhantomEvents
<1>1. Init => NoPhantomEvents /\ PersistInv
  BY PersistInit DEF Init, NoPhantomEvents
<1>2. ASSUME Inv, PersistInv, NoPhantomEvents, [Next]_vars PROVE NoPhantomEvents'
  <2>1. CASE Commits
    BY <1>2, <2>1, CommitEvents, EventsKept DEF Commits
  <2>2. CASE ~Commits
    BY <1>2, <2>2, OnlyCommitsWrite DEF NoPhantomEvents
  <2> QED
    BY <2>1, <2>2
<1>3. Inv /\ PersistInv /\ [Next]_vars => PersistInv'
  BY PersistStep
<1> QED
  BY <1>1, <1>2, <1>3, Inductive, PTL DEF Spec

(***************************************************************************)
(* Memory.                                                                 *)
(***************************************************************************)
\* The incidents that only their own loop resolves.
Protected == Exempt \ Sim

\* A call about a protected key is its owner's; a resolving one leaves no level; the
\* rows a call has read are of the keys it asked for.
OwnCalls ==
  \A p \in Procs : pc[p] # "idle" =>
    /\ \A k \in req[p].keys \cap Protected : Owner[k] = p
    /\ req[p].op = "resolve" => req[p].level = None
    /\ \A r \in found[p] : inc[r].key \in req[p].keys

SweepsSymbols == sweep = "symbols" => \A k \in todo : ~IsGlobal(k)

DownIsIdle == ~up => \A p \in Procs : pc[p] = "idle"

Asked(k) == pc[Owner[k]] # "idle" /\ k \in req[Owner[k]].keys

\* Memory is ahead of the tables by the call of the owner that is under way, if it
\* is about the key; and that call has read every row it has to write.
Agrees(k) ==
  LET p == Owner[k] IN
  IF Asked(k)
    THEN /\ mem[k] = req[p].level
         /\ pc[p] \in {"found", "staged"} =>
              IF req[p].op = "persist" THEN ActiveRows({k}) = found[p]
                                       ELSE ActiveRows({k}) \subseteq found[p]
    ELSE mem[k] = Rehydrated(k)

MemoryInv ==
  /\ OwnCalls /\ SweepsSymbols /\ DownIsIdle
  /\ up /\ failures = 0 => \A k \in Protected : Agrees(k)

\* The kinds of steps, as memory sees them.
Starting(p, r) ==
  /\ up /\ up' /\ pc[p] = "idle" /\ Begin(p, r)
  /\ mem' = [j \in Keys |-> IF j \in r.keys THEN r.level ELSE mem[j]]
  /\ r.op = "resolve" => r.level = None
  /\ \A k \in r.keys \cap Protected : Owner[k] = p
  /\ inc' = inc /\ failures' = failures

Resting == UNCHANGED <<mem, pc, req, found, inc, up>> /\ (failures' = 0 => failures = 0)

Failed ==
  /\ failures' # 0 /\ up' /\ UNCHANGED inc
  /\ UNCHANGED <<pc, req, found>> \/ \E p \in Procs : EndCall(p)

MemoryKinds ==
  \/ \E p \in Procs, r \in Request : Starting(p, r)
  \/ \E p \in Procs : \/ Find(p) \/ Stage(p)
                      \/ CommitCreate(p) \/ CommitChange(p) \/ CommitResolve(p)
  \/ Resting \/ Failed \/ Crash \/ InitFromDb

\* A resolving call by the owner of the protected keys it is about.
LEMMA ResolveIsStarting ==
  ASSUME Types, NEW p \in Procs, NEW K \in SUBSET Keys, Idle(p), StartResolve(p, K, K),
         \A k \in K \cap Protected : Owner[k] = p,
         UNCHANGED <<up, dbVars, failures>>
  PROVE  \E r \in Request : Starting(p, r)
<1> DEFINE r == [op |-> "resolve", keys |-> K, level |-> None]
<1>1. r \in Request
  BY DEF Request
<1>2. r.keys = K /\ r.level = None /\ r.op = "resolve"
  OBVIOUS
<1>3. Begin(p, r) /\ mem' = [j \in Keys |-> IF j \in K THEN None ELSE mem[j]]
  BY DEF StartResolve, Forget
<1> HIDE DEF r
<1>4. Starting(p, r)
  BY <1>2, <1>3 DEF Starting, Idle, dbVars
<1> QED
  BY <1>1, <1>4

\* Without manual recovery, every step is of one of these kinds.
LEMMA MemorySteps ==
  ASSUME Operators = {}, Types, SweepsSymbols, [Next]_vars
  PROVE  MemoryKinds
<1> USE ProcFacts, ConstantsAssumption
<1>1. ASSUME NEW k \in Keys, NEW l \in Levels, ReportIncident(k, l) PROVE MemoryKinds
  <2> DEFINE r == [op |-> "persist", keys |-> {k}, level |-> l]
  <2>1. r \in Request /\ r.op = "persist" /\ r.keys = {k} /\ r.level = l
    BY DEF Request
  <2>2. Begin(Owner[k], r)
    BY <1>1 DEF ReportIncident
  <2> HIDE DEF r
  <2>3. mem' = [j \in Keys |-> IF j \in r.keys THEN r.level ELSE mem[j]]
    BY <1>1, <2>1 DEF ReportIncident, Types, MemoryTypes
  <2>4. Starting(Owner[k], r)
    BY <1>1, <2>1, <2>2, <2>3 DEF Starting, ReportIncident, Idle, dbVars
  <2> QED
    BY <2>1, <2>4 DEF MemoryKinds
<1>2. ASSUME NEW p \in Procs, NEW K \in SUBSET Keys, CallerResolves(p, K, K),
             \A k \in K \cap Protected : Owner[k] = p
      PROVE MemoryKinds
  BY <1>2, ResolveIsStarting DEF CallerResolves, MemoryKinds
<1>3. ASSUME NEW k \in Keys, ResolveBySource(k) PROVE MemoryKinds
  BY <1>2, <1>3 DEF ResolveBySource
<1>4. ASSUME NEW p \in Detectors, NEW F \in Families, ResolveByPrefix(p, F) PROVE MemoryKinds
  <2>1. /\ {k \in F : mem[k] # None} \in SUBSET Keys /\ p \in Procs
        /\ \A k \in {k \in F : mem[k] # None} : Owner[k] = p
    BY <1>4 DEF ResolveByPrefix
  <2> QED
    BY <2>1, <1>2, <1>4 DEF ResolveByPrefix
<1>5. ASSUME NEW p \in Labs, ClearSimulation(p) PROVE MemoryKinds
  BY <1>2, <1>5 DEF ClearSimulation, Protected
<1>6. ASSUME NEW k \in Keys, SweepSymbol(k) \/ SweepGlobal(k) PROVE MemoryKinds
  <2>1. CASE StartResolve(Sweeper, {k}, {k})
    <3>1. k \notin Protected
      BY <1>6, <2>1 DEF SweepSymbol, SweepGlobal, SweepMoves, Expired, SweepsSymbols,
         IsGlobal, Protected, StartResolve, Begin, txVars, Idle, Types, PcTypes
    <3> QED
      BY <1>6, <2>1, <3>1, ResolveIsStarting
      DEF SweepSymbol, SweepGlobal, SweepMoves, MemoryKinds
  <2>2. CASE UNCHANGED <<mem, old, txVars, calls>>
    BY <1>6, <2>2 DEF SweepSymbol, SweepGlobal, SweepMoves, MemoryKinds, Resting, txVars, dbVars
  <2> QED
    BY <1>6, <2>1, <2>2 DEF SweepSymbol, SweepGlobal
<1>7. CASE (\E k \in Keys : Age(k)) \/ SweepStart \/ SweepTurns \/ SweepEnd
  BY <1>7 DEF Age, SweepStart, SweepTurns, SweepEnd, SweepMoves, MemoryKinds, Resting,
              txVars, dbVars
<1>8. CASE UNCHANGED vars \/ \E e \in inflight : Enqueue(e) \/ EnqueueFail(e)
  BY <1>8 DEF Enqueue, EnqueueFail, MemoryKinds, Resting, txVars, dbVars, vars,
              Types, LoopTypes
<1>9. ASSUME NEW p \in Procs, TxFail(p) PROVE MemoryKinds
  BY <1>9 DEF TxFail, TxFrame, MemoryKinds, Failed, dbVars, Types, LoopTypes
<1>10. CASE InitFails
  BY <1>10 DEF InitFails, MemoryKinds, Failed, txVars, dbVars, Types, LoopTypes
<1>11. ASSUME NEW p \in Procs,
              Find(p) \/ Stage(p) \/ CommitCreate(p) \/ CommitChange(p) \/ CommitResolve(p)
       PROVE MemoryKinds
  BY <1>11 DEF MemoryKinds
<1>12. CASE Crash \/ InitFromDb
  BY <1>12 DEF MemoryKinds
<1> QED
  BY <1>1, <1>3, <1>4, <1>5, <1>6, <1>7, <1>8, <1>9, <1>10, <1>11, <1>12 DEF Next

\* The sweep's first walk stays among the symbols.
LEMMA SweepsStep ==
  ASSUME SweepsSymbols, [Next]_vars
  PROVE  SweepsSymbols'
<1>1. CASE UNCHANGED sweepVars
  BY <1>1 DEF SweepsSymbols, sweepVars
<1>2. CASE ~(UNCHANGED sweepVars)
  <2>1. \/ SweepStart \/ SweepTurns \/ SweepEnd \/ Crash
        \/ \E k \in Keys : SweepSymbol(k) \/ SweepGlobal(k)
    BY <1>2 DEF Next, ReportIncident, ResolveBySource, ResolveByPrefix, ResolveSymbol,
       ClearSimulation, CallerResolves, Age, Find, Stage, CommitCreate, CommitChange,
       CommitResolve, TxFail, TxFrame, Enqueue, EnqueueFail, InitFromDb, InitFails, vars
  <2> QED
    BY <2>1 DEF SweepsSymbols, SweepStart, SweepTurns, SweepEnd, Crash, SweepSymbol,
       SweepGlobal, SweepMoves, IsGlobal
<1> QED
  BY <1>1, <1>2

\* What the end of a call, by commit or failure, leaves of the calls.
LEMMA EndCallOwn ==
  ASSUME Types, OwnCalls, NEW p \in Procs, EndCall(p),
         \A r \in DOMAIN inc : inc'[r].key = inc[r].key
  PROVE  OwnCalls'
<1>1. \A q \in Procs \ {p} : pc'[q] = pc[q] /\ req'[q] = req[q] /\ found'[q] = found[q]
  BY DEF EndCall, Types, PcTypes, FoundTypes
<1>2. pc'[p] = "idle"
  BY DEF EndCall, Types, PcTypes
<1>3. \A q \in Procs : found[q] \subseteq DOMAIN inc
  BY DEF Types, FoundTypes
<1> QED
  BY <1>1, <1>2, <1>3 DEF OwnCalls

\* The same calls on the same rows know the same.
LEMMA SameOwn ==
  ASSUME OwnCalls, pc' = pc, req' = req, found' = found, inc' = inc
  PROVE  OwnCalls'
BY DEF OwnCalls

\* No commit gives a row another key.
LEMMA CommitsKeepKeys ==
  ASSUME Inv, PersistInv, NEW p \in Procs,
         CommitCreate(p) \/ CommitChange(p) \/ CommitResolve(p)
  PROVE  \A r \in DOMAIN inc : inc'[r].key = inc[r].key
<1>1. CASE CommitCreate(p)
  BY <1>1, CreateCreates DEF Created
<1>2. CASE CommitChange(p)
  BY <1>2, Changes DEF SameRows
<1>3. CASE CommitResolve(p)
  BY <1>3, Resolves DEF SameRows
<1> QED
  BY <1>1, <1>2, <1>3

\* Every step keeps what the calls know.
LEMMA OwnStep ==
  ASSUME Inv, PersistInv, OwnCalls, DownIsIdle, MemoryKinds
  PROVE  OwnCalls' /\ DownIsIdle'
<1> USE DEF Inv, Types
<1>1. ASSUME NEW p \in Procs, NEW r \in Request, Starting(p, r) PROVE OwnCalls' /\ DownIsIdle'
  <2>1. \A q \in Procs \ {p} : pc'[q] = pc[q] /\ req'[q] = req[q]
    BY <1>1 DEF Starting, Begin, PcTypes
  <2>2. req'[p] = r /\ found' = found /\ found[p] = {} /\ inc' = inc
    BY <1>1 DEF Starting, Begin, PcTypes, CallInv
  <2> QED
    BY <1>1, <2>1, <2>2 DEF Starting, OwnCalls, DownIsIdle
<1>2. ASSUME NEW p \in Procs, Find(p) PROVE OwnCalls' /\ DownIsIdle'
  <2>1. CASE EndCall(p)
    BY <1>2, <2>1, EndCallOwn DEF Find, dbVars, TxFrame, DownIsIdle
  <2>2. CASE ~EndCall(p)
    <3>1. /\ req' = req /\ pc' = [pc EXCEPT ![p] = "found"] /\ pc[p] = "begin" /\ inc' = inc
          /\ up /\ up' /\ found[p] = {}
          /\ \/ found' = found
             \/ \E S : S \subseteq ActiveRows(req[p].keys) /\ found' = [found EXCEPT ![p] = S]
      BY <1>2, <2>2 DEF Find, dbVars, TxFrame, CallInv
    <3>2. \A r \in found'[p] : inc[r].key \in req[p].keys
      BY <3>1 DEF FoundTypes, ActiveRows
    <3>3. \A q \in Procs \ {p} : found'[q] = found[q] /\ pc'[q] = pc[q]
      BY <3>1 DEF FoundTypes, PcTypes
    <3> QED
      BY <3>1, <3>2, <3>3 DEF OwnCalls, DownIsIdle
  <2> QED
    BY <2>1, <2>2
<1>3. ASSUME NEW p \in Procs, Stage(p) PROVE OwnCalls' /\ DownIsIdle'
  BY <1>3 DEF Stage, dbVars, TxFrame, OwnCalls, DownIsIdle, PcTypes
<1>4. ASSUME NEW p \in Procs, CommitCreate(p) \/ CommitChange(p) \/ CommitResolve(p)
      PROVE OwnCalls' /\ DownIsIdle'
  <2>1. EndCall(p) /\ up /\ up' = up
    BY <1>4 DEF CommitCreate, CommitChange, CommitResolve, TxFrame
  <2>2. \A r \in DOMAIN inc : inc'[r].key = inc[r].key
    BY <1>4, CommitsKeepKeys
  <2> QED
    BY <2>1, <2>2, EndCallOwn DEF DownIsIdle
<1>5. CASE Resting
  BY <1>5 DEF Resting, OwnCalls, DownIsIdle
<1>6. CASE Failed
  <2>1. ASSUME NEW p \in Procs, EndCall(p) PROVE OwnCalls'
    BY <1>6, <2>1, EndCallOwn DEF Failed
  <2>2. ASSUME UNCHANGED <<pc, req, found>> PROVE OwnCalls'
    <3>1. pc' = pc /\ req' = req /\ found' = found /\ inc' = inc
      BY <1>6, <2>2 DEF Failed
    <3> QED
      BY <3>1, SameOwn
  <2> QED
    BY <1>6, <2>1, <2>2 DEF Failed, DownIsIdle
<1>7. CASE Crash
  BY <1>7 DEF Crash, OwnCalls, DownIsIdle
<1>8. CASE InitFromDb
  BY <1>8 DEF InitFromDb, txVars, dbVars, OwnCalls, DownIsIdle
<1> QED
  BY <1>1, <1>2, <1>3, <1>4, <1>5, <1>6, <1>7, <1>8 DEF MemoryKinds

\* The rows of a key decide its level.
RowsStay(k) == ActiveRows({k})' = ActiveRows({k}) /\ Rehydrated(k)' = Rehydrated(k)

\* No row changes, no level does.
LEMMA SameTableRows ==
  ASSUME inc' = inc, NEW k PROVE RowsStay(k)
  BY DEF RowsStay, ActiveRows, Rehydrated

\* A key that a commit is not about keeps its rows.
LEMMA CommitElsewhere ==
  ASSUME Inv, Inv', PersistInv, OwnCalls, NEW p \in Procs, NEW k \in Keys,
         k \notin req[p].keys,
         CommitCreate(p) \/ CommitChange(p) \/ CommitResolve(p)
  PROVE  RowsStay(k)
<1>0. pc[p] = "staged"
  BY DEF CommitCreate, CommitChange, CommitResolve
<1>1. DOMAIN inc \subseteq DOMAIN inc' /\ \A r \in DOMAIN inc : inc'[r].key = inc[r].key
  BY CommitsKeepKeys, CreateCreates, Changes, Resolves DEF Created, SameRows
<1>2. \A r \in DOMAIN inc' : inc'[r].key = k =>
        r \in DOMAIN inc /\ inc'[r] = inc[r]
  <2>1. CASE CommitCreate(p)
    BY <2>1, CreateCreates DEF Created
  <2>2. CASE CommitChange(p) \/ CommitResolve(p)
    <3>1. SameRows /\ \A r \in DOMAIN inc : r \notin found[p] => inc'[r] = inc[r]
      BY <2>2, Changes, Resolves
    <3>2. \A r \in DOMAIN inc : inc[r].key = k => r \notin found[p]
      BY <1>0 DEF OwnCalls
    <3> QED
      BY <1>1, <3>1, <3>2 DEF SameRows
  <2> QED
    BY <2>1, <2>2
<1>3. Rehydrated(k)' = Rehydrated(k)
  BY <1>1, <1>2, Kept
<1>4. ActiveRows({k})' = ActiveRows({k})
  BY <1>1, <1>2 DEF ActiveRows
<1> QED
  BY <1>3, <1>4 DEF RowsStay

\* The key's own call has committed: memory and the table say the same.
LEMMA CommitAsked ==
  ASSUME Inv, Inv', PersistInv, OwnCalls, NEW k \in Protected, Agrees(k), Asked(k),
         NEW p, p = Owner[k], CommitCreate(p) \/ CommitChange(p) \/ CommitResolve(p)
  PROVE  Rehydrated(k)' = mem[k]
<1>0. /\ p \in Procs /\ k \in Keys /\ k \in req[p].keys /\ pc[p] = "staged"
      /\ mem[k] = req[p].level
  BY ProcFacts, ConstantsAssumption
  DEF Protected, Asked, Agrees, CommitCreate, CommitChange, CommitResolve
<1>1. CASE CommitCreate(p)
  <2>1. PICK l \in Levels : Created(k, l) /\ req[p].level = l
    BY <1>0, <1>1, CreateCreates
  <2>2. Len(inc) + 1 \in DOMAIN inc' /\ inc'[Len(inc) + 1].key = k
        /\ inc'[Len(inc) + 1].level = l /\ inc'[Len(inc) + 1].active
    BY <2>1 DEF Created
  <2> QED
    BY <1>0, <2>1, <2>2, LevelIsNext DEF LevelFact
<1>2. CASE CommitChange(p)
  <2>1. ActiveRows({k}) = found[p] /\ found[p] # {} /\ found[p] \subseteq DOMAIN inc
    BY <1>0, <1>2 DEF Agrees, CommitChange, Inv, Types, FoundTypes
  <2>2. PICK r \in found[p] : inc[r].active /\ inc[r].key = k
    BY <2>1 DEF ActiveRows
  <2>3. r \in DOMAIN inc' /\ inc'[r].key = k /\ inc'[r].active /\ inc'[r].level = req[p].level
    BY <1>0, <1>2, <2>1, <2>2, Changes, FlagsAre DEF SameRows, Flags
  <2> QED
    BY <1>0, <2>3, LevelIsNext DEF LevelFact
<1>3. CASE CommitResolve(p)
  <2>1. ActiveRows({k}) \subseteq found[p] /\ req[p].level = None
    BY <1>0, <1>3 DEF Agrees, CommitResolve, OwnCalls
  <2>2. \A r \in DOMAIN inc' : inc'[r].key = k => ~inc'[r].active
    <3>1. SameRows /\ \A r \in DOMAIN inc : /\ r \in found[p] => ~inc'[r].active
                                            /\ r \notin found[p] => inc'[r] = inc[r]
      BY <1>0, <1>3, Resolves
    <3> QED
      BY <2>1, <3>1 DEF ActiveRows, SameRows
  <2> QED
    BY <1>0, <2>1, <2>2, LevelIsNext DEF LevelFact
<1> QED
  BY <1>1, <1>2, <1>3

\* Every step keeps memory and tables in agreement.
LEMMA AgreesStep ==
  ASSUME Inv, Inv', PersistInv, OwnCalls, DownIsIdle, MemoryKinds, up', failures' = 0,
         up /\ failures = 0 => \A k \in Protected : Agrees(k),
         NEW k \in Protected
  PROVE  Agrees(k)'
<1> USE DEF Inv, Types
<1>0. Owner[k] \in Procs /\ k \in Keys
  BY ProcFacts, ConstantsAssumption DEF Protected
<1>1. ASSUME NEW p \in Procs, NEW r \in Request, Starting(p, r) PROVE Agrees(k)'
  <2>1. Agrees(k) /\ RowsStay(k)
    BY <1>1, SameTableRows DEF Starting
  <2>2. \A q \in Procs \ {p} : pc'[q] = pc[q] /\ req'[q] = req[q] /\ found'[q] = found[q]
    BY <1>1 DEF Starting, Begin, PcTypes
  <2>3. pc'[p] = "begin" /\ req'[p] = r /\ pc[p] = "idle"
    BY <1>1 DEF Starting, Begin, PcTypes
  <2>4. mem'[k] = IF k \in r.keys THEN r.level ELSE mem[k]
    BY <1>0, <1>1 DEF Starting
  <2>5. CASE k \in r.keys
    <3>1. Owner[k] = p
      BY <1>1, <2>5 DEF Starting
    <3> QED
      BY <2>3, <2>4, <2>5, <3>1 DEF Agrees, Asked
  <2>6. CASE k \notin r.keys /\ Owner[k] = p
    BY <2>1, <2>3, <2>4, <2>6 DEF Agrees, Asked, RowsStay
  <2>7. CASE k \notin r.keys /\ Owner[k] # p
    BY <1>0, <2>1, <2>2, <2>4, <2>7 DEF Agrees, Asked, RowsStay
  <2> QED
    BY <2>5, <2>6, <2>7
<1>2. ASSUME NEW p \in Procs, Find(p) PROVE Agrees(k)'
  <2>1. Agrees(k) /\ RowsStay(k) /\ mem' = mem
    BY <1>2, SameTableRows DEF Find, TxFrame, dbVars
  <2>2. \A q \in Procs \ {p} : pc'[q] = pc[q] /\ req'[q] = req[q] /\ found'[q] = found[q]
    BY <1>2 DEF Find, EndCall, PcTypes, FoundTypes
  <2>3. CASE Owner[k] # p
    BY <1>0, <2>1, <2>2, <2>3 DEF Agrees, Asked, RowsStay
  <2>4. CASE Owner[k] = p /\ ~Asked(k)
    <3>1. k \notin req[p].keys /\ mem[k] = Rehydrated(k)
      BY <1>2, <2>1, <2>4 DEF Find, Asked, Agrees
    <3>2. pc'[p] = "idle" \/ req'[p] = req[p]
      BY <1>2 DEF Find, EndCall, PcTypes
    <3> QED
      BY <2>1, <2>4, <3>1, <3>2 DEF Agrees, Asked, RowsStay
  <2>5. CASE Owner[k] = p /\ Asked(k)
    <3>0. PICK keys : keys = req[p].keys /\ k \in keys
      BY <2>5 DEF Asked
    <3>1. mem[k] = req[p].level /\ pc[p] = "begin" /\ found[p] = {}
          /\ ActiveRows({k}) \subseteq ActiveRows(keys)
      BY <1>2, <2>1, <2>5, <3>0 DEF Find, Agrees, ActiveRows, CallInv
    <3>2. CASE req[p].op = "persist"
      <4>1. keys = {k}
        BY <3>0, <3>1, <3>2 DEF CallInv
      <4>2. \A r, s \in ActiveRows({k}) : r = s
        BY DEF ActiveRows, OneActiveRow
      <4>3. pc'[p] = "found" /\ req' = req /\ found'[p] = ActiveRows({k})
        <5>1. CASE ActiveRows({k}) # {}
          <6>1. PICK r \in ActiveRows({k}) : found' = [found EXCEPT ![p] = {r}]
            BY <1>2, <3>0, <3>2, <4>1, <5>1 DEF Find
          <6>2. found'[p] = ActiveRows({k})
            BY <4>2, <6>1 DEF FoundTypes
          <6> QED
            BY <1>2, <3>0, <3>2, <4>1, <5>1, <6>2 DEF Find, PcTypes
        <5>2. CASE ActiveRows({k}) = {}
          BY <1>2, <3>0, <3>1, <3>2, <4>1, <5>2 DEF Find, PcTypes
        <5> QED
          BY <5>1, <5>2
      <4> QED
        BY <2>1, <2>5, <3>0, <3>1, <3>2, <4>3 DEF Agrees, Asked, RowsStay
    <3>3. CASE req[p].op = "resolve" /\ ActiveRows(keys) # {}
      <4>1. pc'[p] = "found" /\ req' = req /\ found'[p] = ActiveRows(keys)
        BY <1>2, <3>0, <3>3 DEF Find, PcTypes, FoundTypes
      <4> QED
        BY <2>1, <2>5, <3>0, <3>1, <3>3, <4>1 DEF Agrees, Asked, RowsStay
    <3>4. CASE req[p].op = "resolve" /\ ActiveRows(keys) = {}
      <4>1. pc'[p] = "idle"
        BY <1>2, <3>0, <3>4 DEF Find, EndCall, PcTypes
      <4>2. req[p].level = None /\ ActiveRows({k}) = {}
        BY <3>1, <3>4 DEF OwnCalls
      <4>3. Rehydrated(k) = None
        BY <4>2 DEF Rehydrated
      <4> QED
        BY <2>1, <2>5, <3>1, <4>1, <4>2, <4>3 DEF Agrees, Asked, RowsStay
    <3> QED
      BY <3>2, <3>3, <3>4 DEF PcTypes, Request
  <2> QED
    BY <2>3, <2>4, <2>5
<1>3. ASSUME NEW p \in Procs, Stage(p) PROVE Agrees(k)'
  <2>1. Agrees(k) /\ RowsStay(k) /\ mem' = mem /\ req' = req /\ found' = found
    BY <1>3, SameTableRows DEF Stage, TxFrame, dbVars
  <2>2. pc[p] = "found" /\ pc' = [pc EXCEPT ![p] = "staged"]
    BY <1>3 DEF Stage
  <2>3. \A q \in Procs : (pc'[q] = "idle" <=> pc[q] = "idle")
          /\ (pc'[q] \in {"found", "staged"} <=> pc[q] \in {"found", "staged"})
    BY <2>2 DEF PcTypes
  <2> QED
    BY <1>0, <2>1, <2>3 DEF Agrees, Asked, RowsStay
<1>4. ASSUME NEW p \in Procs, CommitCreate(p) \/ CommitChange(p) \/ CommitResolve(p)
      PROVE Agrees(k)'
  <2>1. Agrees(k) /\ mem' = mem /\ EndCall(p)
    BY <1>4 DEF CommitCreate, CommitChange, CommitResolve, TxFrame
  <2>2. pc'[p] = "idle"
    BY <2>1 DEF EndCall, PcTypes
  <2>3. \A q \in Procs \ {p} : pc'[q] = pc[q] /\ req'[q] = req[q] /\ found'[q] = found[q]
    BY <2>1 DEF EndCall, PcTypes, FoundTypes
  <2>4. CASE Owner[k] = p /\ Asked(k)
    <3>1. Rehydrated(k)' = mem[k]
      BY <1>4, <2>1, <2>4, CommitAsked
    <3> QED
      BY <2>1, <2>2, <2>4, <3>1 DEF Agrees, Asked
  <2>5. CASE ~(Owner[k] = p /\ Asked(k))
    <3>1. k \notin req[p].keys
      BY <1>0, <1>4, <2>5 DEF OwnCalls, Asked, CommitCreate, CommitChange, CommitResolve
    <3>2. RowsStay(k)
      BY <1>0, <1>4, <3>1, CommitElsewhere
    <3>3. CASE Owner[k] = p
      BY <2>1, <2>2, <2>5, <3>2, <3>3 DEF Agrees, Asked, RowsStay
    <3>4. CASE Owner[k] # p
      BY <1>0, <2>1, <2>3, <3>2, <3>4 DEF Agrees, Asked, RowsStay
    <3> QED
      BY <3>3, <3>4
  <2> QED
    BY <2>4, <2>5
<1>5. CASE Resting
  <2>1. Agrees(k) /\ RowsStay(k) /\ UNCHANGED <<mem, pc, req, found>>
    BY <1>5, SameTableRows DEF Resting
  <2> QED
    BY <2>1 DEF Agrees, Asked, RowsStay
<1>6. CASE Failed \/ Crash
  BY <1>6 DEF Failed, Crash
<1>7. CASE InitFromDb
  <2>1. RowsStay(k) /\ mem'[k] = Rehydrated(k) /\ pc'[Owner[k]] = "idle"
    BY <1>0, <1>7, SameTableRows DEF InitFromDb, txVars, dbVars, DownIsIdle
  <2> QED
    BY <2>1 DEF Agrees, Asked, RowsStay
<1> QED
  BY <1>1, <1>2, <1>3, <1>4, <1>5, <1>6, <1>7 DEF MemoryKinds

\* While its loop makes no call, an incident that only that loop resolves has the
\* same level in memory and in the tables, across crashes and restarts, as long as
\* no database call failed.  The manual recovery resolveIncident is excluded: no
\* code outside the tests calls it.
THEOREM ProtectedAgree ==
  ASSUME Operators = {}
  PROVE  Spec => []ExemptAgrees
<1>1. Init => PersistInv /\ MemoryInv
  <2>1. ASSUME Init PROVE MemoryInv
    <3>1. \A k : ActiveRows({k}) = {}
      BY <2>1, EmptySeq DEF Init, ActiveRows
    <3> QED
      BY <2>1, <3>1, ProcFacts, ConstantsAssumption
      DEF Init, MemoryInv, OwnCalls, SweepsSymbols, DownIsIdle, Agrees, Asked, Rehydrated, Protected
  <2> QED
    BY <2>1, PersistInit
<1>2. Inv /\ Inv' /\ PersistInv /\ MemoryInv /\ [Next]_vars => PersistInv' /\ MemoryInv'
  <2> SUFFICES ASSUME Inv, Inv', PersistInv, MemoryInv, [Next]_vars PROVE PersistInv' /\ MemoryInv'
    OBVIOUS
  <2>1. MemoryKinds /\ SweepsSymbols'
    BY MemorySteps, SweepsStep DEF MemoryInv, Inv
  <2>2. OwnCalls' /\ DownIsIdle'
    BY <2>1, OwnStep DEF MemoryInv
  <2>3. up' /\ failures' = 0 => \A k \in Protected : Agrees(k)'
    BY <2>1, AgreesStep DEF MemoryInv
  <2> QED
    BY <2>1, <2>2, <2>3, PersistStep DEF MemoryInv
<1>3. MemoryInv => ExemptAgrees
  BY DEF MemoryInv, ExemptAgrees, Agrees, Asked, Protected
<1> QED
  BY <1>1, <1>2, <1>3, Inductive, PTL DEF Spec
===============================================================================
