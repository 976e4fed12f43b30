----------------------- MODULE IncidentManagerProofs -----------------------
(***************************************************************************)
(* Proofs about IncidentManager, for any set of keys, loops and severities *)
(* and any number of concurrent transactions.                              *)
(*                                                                         *)
(* OneActiveRow is not inductive: a transaction that has found no active   *)
(* row of its key will create one.  That none appears meanwhile rests on   *)
(* who calls the manager: the loop that reports a key is the only one that *)
(* creates rows for it, and it runs one call at a time.                    *)
(*                                                                         *)
(* GroupTracksChildren needs more than that: what a transaction plans for  *)
(* a group is read from rows that others may change before it commits.     *)
(* The last section follows, group by group, which plans are still good.   *)
(***************************************************************************)
EXTENDS IncidentGroups, SequenceTheorems, FiniteSetTheorems, TLAPS

USE DEF None, Severity

(***************************************************************************)
(* TypeOK in parts: memory, the calls, the tables, the events.             *)
(***************************************************************************)
MemoryTypes ==
  /\ up \in BOOLEAN
  /\ mem \in [Keys -> Severity \cup {None}]
  /\ old \subseteq Keys

PcTypes == /\ pc \in [Procs -> {"idle", "begin", "found", "staged"}]
           /\ req \in [Procs -> Request]

FoundTypes == /\ found \in [Procs -> SUBSET DOMAIN inc]
              /\ gsel \in [Procs -> {0} \cup DOMAIN grp]

PlanTypes ==
  /\ DOMAIN plan = Procs
  /\ \A p \in Procs : /\ DOMAIN plan[p] \subseteq DOMAIN grp
                      /\ \A g \in DOMAIN plan[p] :
                           plan[p][g] \in [sev : Severity, close : BOOLEAN]

TableTypes ==
  /\ inc \in Seq(Row) /\ grp \in Seq(Group)
  /\ \A r \in DOMAIN inc : inc[r].group \in DOMAIN grp

EventTypes == inflight \subseteq Event /\ outbox \subseteq Event

LoopTypes ==
  /\ sweep \in {"off", "symbols", "globals"}
  /\ todo \subseteq Keys
  /\ calls \in Nat /\ failures \in Nat /\ crashes \in Nat

Types == /\ MemoryTypes /\ PcTypes /\ FoundTypes /\ PlanTypes
         /\ TableTypes /\ EventTypes /\ LoopTypes

LEMMA TypeParts == TypeOK <=> Types
BY DEF TypeOK, Types, MemoryTypes, PcTypes, FoundTypes, PlanTypes, TableTypes,
       EventTypes, LoopTypes

(***************************************************************************)
(* What a call knows.                                                      *)
(***************************************************************************)
\* A persisting call is for one key and is made by that key's owner; a call past
\* its first read has the rows it found and, persisting, their group.
CallInv ==
  \A p \in Procs :
    /\ pc[p] \in {"idle", "begin"} => found[p] = {} /\ gsel[p] = 0
    /\ pc[p] # "idle" /\ req[p].op = "persist" =>
         /\ req[p].level \in Severity
         /\ \E k \in Keys : req[p].keys = {k} /\ Owner[k] = p
    /\ pc[p] \in {"found", "staged"} /\ req[p].op = "resolve" => found[p] # {}
    /\ pc[p] \in {"found", "staged"} /\ req[p].op = "persist" =>
         \A r \in found[p] : inc[r].group = gsel[p]

\* While a call is about to create a row, there is none.
Creating(p) == pc[p] \in {"found", "staged"} /\ req[p].op = "persist" /\ found[p] = {}

NoRival ==
  \A p \in Procs : Creating(p) => ActiveRows(req[p].keys) = {}

(***************************************************************************)
(* Facts about the operators.                                              *)
(***************************************************************************)
LEMMA ProcFacts ==
  /\ \A k \in Keys : Owner[k] \in Procs
  /\ Sweeper \in Procs /\ Labs \subseteq Procs /\ Operators \subseteq Procs
  /\ Detectors \subseteq Procs
BY ConstantsAssumption DEF Procs

\* The severities are six: a set of some of them has a peak.
LEMMA MaxOfSeverities ==
  ASSUME NEW S \in SUBSET Severity, S # {}
  PROVE  MaxOf(S) \in S
<1>1. \E x \in S : \A y \in S : y <= x
  <2>1. CASE 6 \in S
    BY <2>1
  <2>2. CASE 6 \notin S /\ 5 \in S
    BY <2>2
  <2>3. CASE 6 \notin S /\ 5 \notin S /\ 4 \in S
    BY <2>3
  <2>4. CASE 6 \notin S /\ 5 \notin S /\ 4 \notin S /\ 3 \in S
    BY <2>4
  <2>5. CASE 6 \notin S /\ 5 \notin S /\ 4 \notin S /\ 3 \notin S /\ 2 \in S
    BY <2>5
  <2>6. CASE 6 \notin S /\ 5 \notin S /\ 4 \notin S /\ 3 \notin S /\ 2 \notin S
    <3>1. \A x \in S : x = 1
      BY <2>6
    <3>2. 1 \in S
      BY <3>1
    <3>3. QED
      BY <3>1, <3>2
  <2>7. QED
    BY <2>1, <2>2, <2>3, <2>4, <2>5, <2>6
<1>2. QED
  BY <1>1 DEF MaxOf

LEMMA RowFacts ==
  ASSUME TableTypes
  PROVE  /\ Len(inc) \in Nat /\ DOMAIN inc = 1..Len(inc)
         /\ Len(grp) \in Nat /\ DOMAIN grp = 1..Len(grp)
         /\ \A r \in DOMAIN inc : inc[r] \in Row
         /\ \A g \in DOMAIN grp : grp[g] \in Group
BY ElementOfSeq, LenProperties DEF TableTypes

LEMMA PersistSeverityType ==
  ASSUME TableTypes, NEW g \in DOMAIN grp, NEW rows \in SUBSET DOMAIN inc,
         NEW l \in Severity, rows # {} => Children(g) # {}
  PROVE  PersistSeverity(g, rows, l) \in Severity
<1> DEFINE level(r) == IF r \in rows THEN l ELSE inc[r].level
           active == {r \in Children(g) : inc[r].active}
           own    == IF rows = {} THEN {l} ELSE {}
           seen   == own \cup {level(r) : r \in active}
           all    == {level(r) : r \in Children(g)}
<1>1. \A r \in DOMAIN inc : inc[r].level \in Severity
  BY RowFacts DEF Row
<1>2. seen \in SUBSET Severity /\ all \in SUBSET Severity
  BY <1>1 DEF Children
<1>3. seen # {} \/ all # {}
  OBVIOUS
<1>4. PersistSeverity(g, rows, l) = IF seen # {} THEN MaxOf(seen) ELSE MaxOf(all)
  BY DEF PersistSeverity
<1> HIDE DEF seen, all
<1>5. QED
  BY <1>2, <1>3, <1>4, MaxOfSeverities

LEMMA ResolvePlanType ==
  ASSUME TableTypes, NEW g \in DOMAIN grp, NEW rows \in SUBSET DOMAIN inc,
         Children(g) # {}
  PROVE  ResolvePlan(g, rows) \in [sev : Severity, close : BOOLEAN]
<1> DEFINE rest == {r \in Children(g) \ rows : inc[r].active}
           seen == {inc[r].level : r \in IF rest = {} THEN Children(g) ELSE rest}
<1>1. \A r \in DOMAIN inc : inc[r].level \in Severity
  BY RowFacts DEF Row
<1>2. seen \in SUBSET Severity /\ seen # {}
  BY <1>1 DEF Children
<1>3. ResolvePlan(g, rows) = [sev |-> MaxOf(seen), close |-> rest = {}]
  BY DEF ResolvePlan
<1> HIDE DEF seen
<1>4. MaxOf(seen) \in Severity
  BY <1>2, MaxOfSeverities
<1>5. QED
  BY <1>3, <1>4

(***************************************************************************)
(* The kinds of steps, as the calls and the tables see them.               *)
(***************************************************************************)
WellFormed(p, r) ==
  /\ r \in Request
  /\ r.op = "persist" =>
       r.level \in Severity /\ \E k \in Keys : r.keys = {k} /\ Owner[k] = p

Quiet == UNCHANGED <<txVars, dbVars>>

Starts(p) == /\ p \in Procs /\ pc[p] = "idle"
             /\ \E r \in Request : WellFormed(p, r) /\ Begin(p, r)
             /\ UNCHANGED dbVars

Drops(p) == p \in Procs /\ EndCall(p) /\ UNCHANGED dbVars

Dies == /\ pc' = [p \in Procs |-> "idle"] /\ req' = [p \in Procs |-> NoCall]
        /\ found' = [p \in Procs |-> {}] /\ gsel' = [p \in Procs |-> 0]
        /\ plan' = [p \in Procs |-> <<>>]
        /\ UNCHANGED dbVars

Kinds == \/ Quiet \/ Dies
         \/ \E p \in Procs : Starts(p) \/ Drops(p)
         \/ \E p \in Procs : Find(p) \/ Stage(p)
         \/ \E p \in Procs : CommitCreate(p) \/ CommitChange(p) \/ CommitResolve(p)

LEMMA ResolveStarts ==
  ASSUME NEW p \in Procs, NEW K \in SUBSET Keys, pc[p] = "idle", UNCHANGED dbVars,
         Begin(p, [op |-> "resolve", keys |-> K, level |-> None])
  PROVE  Starts(p)
<1>1. WellFormed(p, [op |-> "resolve", keys |-> K, level |-> None])
  BY DEF WellFormed, Request
<1>2. QED
  BY <1>1 DEF Starts, WellFormed

LEMMA StepKinds ==
  ASSUME [Next]_vars PROVE Kinds
<1> USE ProcFacts DEF txVars, dbVars, sweepVars, Idle
<1>1. ASSUME NEW k \in Keys, NEW l \in Levels, ReportIncident(k, l) PROVE Kinds
  <2> DEFINE r == [op |-> "persist", keys |-> {k}, level |-> l]
  <2>1. WellFormed(Owner[k], r)
    BY ConstantsAssumption DEF WellFormed, Request
  <2>2. pc[Owner[k]] = "idle" /\ Begin(Owner[k], r) /\ UNCHANGED dbVars
    BY <1>1 DEF ReportIncident
  <2>3. Starts(Owner[k])
    BY <2>1, <2>2 DEF Starts, WellFormed
  <2>4. QED
    BY <2>3 DEF Kinds
<1>2. ASSUME NEW p \in Procs, NEW C, NEW K \in SUBSET Keys, CallerResolves(p, C, K)
      PROVE Kinds
  <2>1. Starts(p)
    BY <1>2, ResolveStarts DEF CallerResolves, StartResolve
  <2>2. QED
    BY <2>1 DEF Kinds
<1>3. ASSUME NEW k \in Keys, ResolveBySource(k) PROVE Kinds
  BY <1>2, <1>3 DEF ResolveBySource
<1>4. ASSUME NEW p \in Detectors, NEW F \in Families, ResolveByPrefix(p, F) PROVE Kinds
  <2>1. {k \in F : mem[k] # None} \in SUBSET Keys /\ p \in Procs
    BY ConstantsAssumption
  <2>2. QED
    BY <2>1, <1>2, <1>4 DEF ResolveByPrefix
<1>5. ASSUME NEW p \in Operators, NEW k \in Keys, ResolveSymbol(p, Symbol[k]) PROVE Kinds
  <2>1. {j \in Keys : Symbol[j] = Symbol[k]} \in SUBSET Keys /\ p \in Procs
    OBVIOUS
  <2>2. QED
    BY <2>1, <1>2, <1>5 DEF ResolveSymbol
<1>6. ASSUME NEW p \in Labs, ClearSimulation(p) PROVE Kinds
  BY <1>2, <1>6, ConstantsAssumption DEF ClearSimulation
<1>7. ASSUME NEW k \in Keys, SweepSymbol(k) \/ SweepGlobal(k) PROVE Kinds
  <2>1. CASE Quiet
    BY <2>1 DEF Kinds
  <2>2. CASE StartResolve(Sweeper, {k}, {k}) /\ pc[Sweeper] = "idle" /\ UNCHANGED dbVars
    <3>1. Starts(Sweeper)
      BY <2>2, ResolveStarts DEF StartResolve
    <3>2. QED
      BY <3>1 DEF Kinds
  <2>3. QED
    BY <1>7, <2>1, <2>2 DEF SweepSymbol, SweepGlobal, SweepMoves, Quiet
<1>8. ASSUME NEW k \in Keys, Age(k) PROVE Kinds
  BY <1>8 DEF Age, Kinds, Quiet
<1>9. CASE SweepStart \/ SweepTurns \/ SweepEnd
  BY <1>9 DEF SweepStart, SweepTurns, SweepEnd, SweepMoves, Kinds, Quiet
<1>10. ASSUME NEW p \in Procs, Find(p) \/ Stage(p) PROVE Kinds
  BY <1>10 DEF Kinds
<1>11. ASSUME NEW p \in Procs, CommitCreate(p) \/ CommitChange(p) \/ CommitResolve(p)
       PROVE Kinds
  BY <1>11 DEF Kinds
<1>12. ASSUME NEW p \in Procs, TxFail(p) PROVE Kinds
  <2>1. Drops(p)
    BY <1>12 DEF TxFail, Drops
  <2>2. QED
    BY <2>1 DEF Kinds
<1>13. ASSUME NEW e, Enqueue(e) \/ EnqueueFail(e) PROVE Kinds
  BY <1>13 DEF Enqueue, EnqueueFail, Kinds, Quiet
<1>14. CASE Crash
  BY <1>14 DEF Crash, Kinds, Dies
<1>15. CASE InitFromDb \/ InitFails
  BY <1>15 DEF InitFromDb, InitFails, Kinds, Quiet
<1>16. CASE UNCHANGED vars
  BY <1>16 DEF vars, Kinds, Quiet
<1>17. QED
  BY <1>1, <1>3, <1>4, <1>5, <1>6, <1>7, <1>8, <1>9, <1>10, <1>11, <1>12, <1>13,
     <1>14, <1>15, <1>16 DEF Next

(***************************************************************************)
(* The types of the calls and the tables.                                  *)
(***************************************************************************)
TxTypes == PcTypes /\ FoundTypes /\ PlanTypes /\ TableTypes

LEMMA NoCallTypes == NoCall \in Request
BY DEF NoCall, Request

\* Ending a call leaves well-typed calls when the tables only grow.
LEMMA EndCallTypes ==
  ASSUME PcTypes, FoundTypes, PlanTypes, NEW p \in Procs, EndCall(p),
         DOMAIN inc \subseteq DOMAIN inc', DOMAIN grp \subseteq DOMAIN grp'
  PROVE  PcTypes' /\ FoundTypes' /\ PlanTypes'
<1>1. PcTypes'
  BY NoCallTypes DEF PcTypes, EndCall
<1>2. FoundTypes'
  BY DEF FoundTypes, EndCall
<1>3. PlanTypes'
  BY DEF PlanTypes, EndCall
<1>4. QED
  BY <1>1, <1>2, <1>3

LEMMA FindTypes ==
  ASSUME TxTypes, NEW p \in Procs, Find(p) PROVE TxTypes'
<1> USE DEF TxTypes, dbVars
<1>1. UNCHANGED dbVars
  BY DEF Find
<1>2. TableTypes'
  BY <1>1 DEF TableTypes
<1>3. CASE EndCall(p)
  BY <1>1, <1>2, <1>3, EndCallTypes
<1>4. CASE ~EndCall(p)
  <2>1. UNCHANGED <<req, plan>> /\ pc' = [pc EXCEPT ![p] = "found"]
    BY <1>4 DEF Find
  <2>2. PcTypes' /\ PlanTypes'
    BY <1>1, <2>1 DEF PcTypes, PlanTypes
  <2>3. found' \in [Procs -> SUBSET DOMAIN inc]
    BY <1>4 DEF Find, FoundTypes, ActiveRows
  <2>4. gsel' \in [Procs -> {0} \cup DOMAIN grp]
    BY <1>4 DEF Find, FoundTypes, ActiveRows, GroupChoices, TableTypes
  <2>5. QED
    BY <1>1, <1>2, <2>2, <2>3, <2>4 DEF FoundTypes
<1>5. QED
  BY <1>3, <1>4

LEMMA StageTypes ==
  ASSUME TxTypes, CallInv, NEW p \in Procs, Stage(p) PROVE TxTypes'
<1> USE DEF TxTypes, dbVars
<1>1. /\ UNCHANGED <<inc, grp, req, found, gsel>> /\ pc' = [pc EXCEPT ![p] = "staged"]
      /\ pc[p] = "found"
  BY DEF Stage
<1>2. PcTypes' /\ FoundTypes' /\ TableTypes'
  BY <1>1 DEF PcTypes, FoundTypes, TableTypes
<1>3. /\ found[p] \in SUBSET DOMAIN inc /\ gsel[p] \in {0} \cup DOMAIN grp
      /\ req[p].op \in {"persist", "resolve"}
  BY DEF FoundTypes, PcTypes, Request
<1>4. \A r \in found[p] : r \in Children(inc[r].group) /\ inc[r].group \in DOMAIN grp
  BY <1>3 DEF Children, TableTypes
<1>5. CASE req[p].op = "persist"
  <2> DEFINE D == {gsel[p]} \ {0}
             f == [g \in D |-> [sev |-> PersistSeverity(g, found[p], req[p].level),
                                close |-> FALSE]]
  <2>1. req[p].level \in Severity /\ \A r \in found[p] : inc[r].group = gsel[p]
    BY <1>1, <1>5 DEF CallInv
  <2>2. \A g \in D : g \in DOMAIN grp /\ (found[p] # {} => Children(g) # {})
    BY <1>3, <1>4, <2>1
  <2>3. \A g \in D : PersistSeverity(g, found[p], req[p].level) \in Severity
    BY <1>3, <2>1, <2>2, PersistSeverityType
  <2>4. plan' = [plan EXCEPT ![p] = f]
    BY <1>5 DEF Stage
  <2>5. DOMAIN f \subseteq DOMAIN grp
        /\ \A g \in DOMAIN f : f[g] \in [sev : Severity, close : BOOLEAN]
    BY <2>2, <2>3
  <2> HIDE DEF f, D
  <2>6. PlanTypes'
    BY <1>1, <2>4, <2>5 DEF PlanTypes
  <2>7. QED
    BY <1>2, <2>6
<1>6. CASE req[p].op = "resolve"
  <2> DEFINE D == {inc[r].group : r \in found[p]}
             f == [g \in D |-> ResolvePlan(g, found[p])]
  <2>1. \A g \in D : g \in DOMAIN grp /\ Children(g) # {}
    BY <1>4
  <2>2. \A g \in D : ResolvePlan(g, found[p]) \in [sev : Severity, close : BOOLEAN]
    BY <1>3, <2>1, ResolvePlanType
  <2>3. plan' = [plan EXCEPT ![p] = f]
    BY <1>6 DEF Stage
  <2>4. DOMAIN f \subseteq DOMAIN grp
        /\ \A g \in DOMAIN f : f[g] \in [sev : Severity, close : BOOLEAN]
    BY <2>1, <2>2
  <2> HIDE DEF f, D
  <2>5. PlanTypes'
    BY <1>1, <2>3, <2>4 DEF PlanTypes
  <2>6. QED
    BY <1>2, <2>5
<1>7. QED
  BY <1>3, <1>5, <1>6

LEMMA PlannedGroupsType ==
  ASSUME PlanTypes, TableTypes, NEW p \in Procs
  PROVE  PlannedGroups(p) \in Seq(Group) /\ DOMAIN PlannedGroups(p) = DOMAIN grp
<1>1. \A g \in DOMAIN grp : grp[g] \in Group
  BY RowFacts
<1>2. \A g \in DOMAIN plan[p] : plan[p][g].sev \in Severity /\ plan[p][g].close \in BOOLEAN
  BY DEF PlanTypes
<1>3. \A g \in DOMAIN grp : PlannedGroups(p)[g] \in Group
  BY <1>1, <1>2 DEF PlannedGroups, Group
<1>4. DOMAIN PlannedGroups(p) = 1..Len(grp)
  BY RowFacts DEF PlannedGroups
<1>5. PlannedGroups(p) = [g \in 1..Len(grp) |-> PlannedGroups(p)[g]]
  BY <1>4 DEF PlannedGroups
<1>6. QED
  BY <1>3, <1>4, <1>5, RowFacts, IsASeq

LEMMA CommitCreateTypes ==
  ASSUME TxTypes, CallInv, NEW p \in Procs, CommitCreate(p)
  PROVE  /\ TxTypes'
         /\ \E k \in Keys, l \in Severity, g \in DOMAIN grp' :
              /\ req[p].keys = {k}
              /\ inc' = Append(inc, [key |-> k, level |-> l, active |-> TRUE, group |-> g])
<1> USE DEF TxTypes
<1> DEFINE k == CHOOSE x \in req[p].keys : TRUE
           l == req[p].level
           g == IF gsel[p] = 0 THEN Len(grp) + 1 ELSE gsel[p]
           row == [key |-> k, level |-> l, active |-> TRUE, group |-> g]
<1>1. pc[p] = "staged" /\ req[p].op = "persist"
  BY DEF CommitCreate
<1>2. l \in Severity /\ k \in Keys /\ req[p].keys = {k}
  BY <1>1 DEF CallInv
<1>3. /\ inc' = Append(inc, row)
      /\ grp' = IF gsel[p] = 0
                  THEN Append(grp, [corr |-> CorrelationKey(k), sev |-> l, open |-> TRUE])
                  ELSE PlannedGroups(p)
      /\ EndCall(p)
  BY DEF CommitCreate
<1>4. gsel[p] \in {0} \cup DOMAIN grp
  BY DEF FoundTypes
<1> HIDE DEF k, l
<1>5. [corr |-> CorrelationKey(k), sev |-> l, open |-> TRUE] \in Group
  BY <1>2 DEF Group, CorrelationKey
<1>6. grp' \in Seq(Group) /\ DOMAIN grp \subseteq DOMAIN grp' /\ g \in DOMAIN grp'
  <2>1. CASE gsel[p] = 0
    <3>1. grp' = Append(grp, [corr |-> CorrelationKey(k), sev |-> l, open |-> TRUE])
      BY <1>3, <2>1
    <3>2. grp' \in Seq(Group) /\ Len(grp') = Len(grp) + 1
      BY <1>5, <3>1, AppendProperties DEF TableTypes
    <3>3. DOMAIN grp' = 1..(Len(grp) + 1)
      BY <3>2, LenProperties
    <3>4. QED
      BY <2>1, <3>2, <3>3, RowFacts
  <2>2. CASE gsel[p] # 0
    BY <1>3, <1>4, <2>2, PlannedGroupsType
  <2>3. QED
    BY <2>1, <2>2
<1>7. g \in Nat /\ row \in Row
  <2>1. g \in Nat
    BY <1>4, RowFacts
  <2>2. QED
    BY <1>2, <2>1 DEF Row
<1> HIDE DEF g
<1>8. inc' \in Seq(Row) /\ DOMAIN inc' = DOMAIN inc \cup {Len(inc) + 1}
  <2>1. inc' \in Seq(Row) /\ Len(inc') = Len(inc) + 1
    BY <1>3, <1>7, AppendProperties DEF TableTypes
  <2>2. DOMAIN inc' = 1..(Len(inc) + 1)
    BY <2>1, LenProperties
  <2>3. QED
    BY <2>1, <2>2, RowFacts
<1>9. \A r \in DOMAIN inc' : inc'[r].group \in DOMAIN grp'
  <2>1. inc'[Len(inc) + 1] = row /\ \A r \in DOMAIN inc : inc'[r] = inc[r]
    BY <1>3, <1>7, AppendProperties, RowFacts DEF TableTypes
  <2>2. QED
    BY <1>6, <1>8, <2>1 DEF TableTypes
<1>10. TableTypes'
  BY <1>6, <1>8, <1>9 DEF TableTypes
<1>11. PcTypes' /\ FoundTypes' /\ PlanTypes'
  BY <1>3, <1>6, <1>8, EndCallTypes
<1>12. QED
  BY <1>2, <1>3, <1>6, <1>10, <1>11

\* The other commits change levels and resolve rows, and nothing else of a row.
SameRows ==
  /\ DOMAIN inc' = DOMAIN inc
  /\ \A r \in DOMAIN inc : /\ inc'[r].key = inc[r].key /\ inc'[r].group = inc[r].group
                           /\ inc'[r].active => inc[r].active

LEMMA CommitUpdateTypes ==
  ASSUME TxTypes, CallInv, NEW p \in Procs, CommitChange(p) \/ CommitResolve(p)
  PROVE  TxTypes' /\ SameRows
<1> USE DEF TxTypes
<1>1. grp' = PlannedGroups(p) /\ EndCall(p)
  BY DEF CommitChange, CommitResolve
<1>2. grp' \in Seq(Group) /\ DOMAIN grp' = DOMAIN grp
  BY <1>1, PlannedGroupsType
<1>3. /\ DOMAIN inc' = DOMAIN inc
      /\ inc' = [r \in DOMAIN inc |-> inc'[r]]
      /\ \A r \in DOMAIN inc : inc'[r] \in Row
      /\ SameRows
  <2>1. \A r \in DOMAIN inc : inc[r] \in Row
    BY RowFacts
  <2>2. CASE CommitChange(p)
    <3>1. req[p].level \in Severity
      BY <2>2 DEF CommitChange, CallInv
    <3>2. inc' = [r \in DOMAIN inc |->
                    IF r \in found[p] THEN [inc[r] EXCEPT !.level = req[p].level]
                                      ELSE inc[r]]
      BY <2>2 DEF CommitChange
    <3>3. QED
      BY <2>1, <3>1, <3>2 DEF Row, SameRows
  <2>3. CASE CommitResolve(p)
    <3>1. inc' = [r \in DOMAIN inc |->
                    IF r \in found[p] THEN [inc[r] EXCEPT !.active = FALSE] ELSE inc[r]]
      BY <2>3 DEF CommitResolve
    <3>2. QED
      BY <2>1, <3>1 DEF Row, SameRows
  <2>4. QED
    BY <2>2, <2>3
<1>4. inc' \in Seq(Row)
  <2>1. inc' = [r \in 1..Len(inc) |-> inc'[r]] /\ \A r \in 1..Len(inc) : inc'[r] \in Row
    BY <1>3, RowFacts
  <2>2. QED
    BY <2>1, RowFacts, IsASeq
<1>5. TableTypes'
  BY <1>2, <1>3, <1>4 DEF TableTypes, SameRows
<1>6. PcTypes' /\ FoundTypes' /\ PlanTypes'
  BY <1>1, <1>2, <1>3, EndCallTypes
<1>7. QED
  BY <1>3, <1>5, <1>6

LEMMA TxStep ==
  ASSUME TxTypes, CallInv, Kinds PROVE TxTypes'
<1>1. CASE Quiet
  BY <1>1 DEF Quiet, TxTypes, PcTypes, FoundTypes, PlanTypes, TableTypes, txVars, dbVars
<1>2. CASE Dies
  BY <1>2, NoCallTypes
     DEF Dies, TxTypes, PcTypes, FoundTypes, PlanTypes, TableTypes, dbVars
<1>3. ASSUME NEW p \in Procs, Starts(p) PROVE TxTypes'
  <2>1. PICK r \in Request : Begin(p, r)
    BY <1>3 DEF Starts
  <2>2. UNCHANGED <<inc, grp, found, gsel, plan>>
    BY <1>3, <2>1 DEF Starts, Begin, dbVars
  <2>3. PcTypes'
    BY <2>1 DEF Begin, TxTypes, PcTypes
  <2>4. QED
    BY <2>2, <2>3 DEF TxTypes, FoundTypes, PlanTypes, TableTypes
<1>4. ASSUME NEW p \in Procs, Drops(p) PROVE TxTypes'
  <2>1. UNCHANGED <<inc, grp>> /\ EndCall(p)
    BY <1>4 DEF Drops, dbVars
  <2>2. QED
    BY <2>1, EndCallTypes DEF TxTypes, TableTypes
<1>5. QED
  BY <1>1, <1>2, <1>3, <1>4, FindTypes, StageTypes, CommitCreateTypes, CommitUpdateTypes
     DEF Kinds

(***************************************************************************)
(* The types of memory, events and counters.                               *)
(***************************************************************************)
LEMMA MemoryStep ==
  ASSUME Types, CallInv, [Next]_vars PROVE MemoryTypes' /\ EventTypes' /\ LoopTypes'
<1> USE ConstantsAssumption DEF Types, txVars, dbVars, sweepVars
<1> DEFINE Rest == MemoryTypes /\ EventTypes /\ LoopTypes
<1>1. ASSUME NEW K \in SUBSET Keys, Forget(K)
      PROVE  mem' \in [Keys -> Severity \cup {None}] /\ old' \subseteq Keys
  BY <1>1 DEF Forget, MemoryTypes
<1>2. ASSUME NEW p \in Procs, Counted(p) PROVE calls' \in Nat
  BY <1>2 DEF Counted, LoopTypes
<1>3. ASSUME NEW k \in Keys, NEW l \in Levels, ReportIncident(k, l) PROVE Rest'
  <2>1. mem' = [mem EXCEPT ![k] = l] /\ old' \subseteq old \cup {k}
    BY <1>3 DEF ReportIncident
  <2>2. l \in Severity
    OBVIOUS
  <2>3. MemoryTypes'
    BY <1>3, <2>1, <2>2 DEF ReportIncident, MemoryTypes
  <2>4. Counted(Owner[k]) /\ UNCHANGED <<inflight, outbox, sweep, todo, failures, crashes>>
    BY <1>3 DEF ReportIncident
  <2>5. EventTypes' /\ LoopTypes'
    BY <1>2, <2>4, ProcFacts DEF EventTypes, LoopTypes
  <2>6. QED
    BY <2>3, <2>5
<1>4. ASSUME NEW p \in Procs, NEW C \in SUBSET Keys, NEW K, CallerResolves(p, C, K)
      PROVE Rest'
  <2>1. /\ Forget(C) /\ Counted(p)
        /\ UNCHANGED <<up, inflight, outbox, sweep, todo, failures, crashes>>
    BY <1>4 DEF CallerResolves, StartResolve
  <2>2. MemoryTypes'
    BY <1>1, <2>1 DEF MemoryTypes
  <2>3. EventTypes' /\ LoopTypes'
    BY <1>2, <2>1 DEF EventTypes, LoopTypes
  <2>4. QED
    BY <2>2, <2>3
<1>5. ASSUME NEW k \in Keys, ResolveBySource(k) PROVE Rest'
  BY <1>4, <1>5, ProcFacts DEF ResolveBySource
<1>6. ASSUME NEW p \in Detectors, NEW F \in Families, ResolveByPrefix(p, F) PROVE Rest'
  <2>1. {k \in F : mem[k] # None} \in SUBSET Keys /\ p \in Procs
    BY ProcFacts
  <2>2. QED
    BY <2>1, <1>4, <1>6 DEF ResolveByPrefix
<1>7. ASSUME NEW p \in Operators, NEW k \in Keys, ResolveSymbol(p, Symbol[k]) PROVE Rest'
  <2>1. {j \in Keys : Symbol[j] = Symbol[k]} \in SUBSET Keys /\ p \in Procs
    BY ProcFacts
  <2>2. QED
    BY <2>1, <1>4, <1>7 DEF ResolveSymbol
<1>8. ASSUME NEW p \in Labs, ClearSimulation(p) PROVE Rest'
  BY <1>4, <1>8, ProcFacts DEF ClearSimulation
<1>9. ASSUME NEW k \in Keys, Age(k) PROVE Rest'
  BY <1>9 DEF Age, MemoryTypes, EventTypes, LoopTypes
<1>10. ASSUME NEW s \in {"off", "symbols", "globals"}, NEW t \in SUBSET Keys, SweepMoves(s, t),
              UNCHANGED <<mem, old, calls>>
       PROVE Rest'
  BY <1>10 DEF SweepMoves, MemoryTypes, EventTypes, LoopTypes
<1>11. ASSUME NEW s \in {"off", "symbols", "globals"}, NEW t \in SUBSET Keys, SweepMoves(s, t),
              NEW k \in Keys, StartResolve(Sweeper, {k}, {k})
       PROVE Rest'
  <2>1. Forget({k}) /\ Counted(Sweeper)
    BY <1>11 DEF StartResolve
  <2>2. calls' \in Nat /\ mem' \in [Keys -> Severity \cup {None}] /\ old' \subseteq Keys
    BY <1>1, <1>2, <2>1, ProcFacts
  <2>3. QED
    BY <1>11, <2>2 DEF SweepMoves, MemoryTypes, EventTypes, LoopTypes
<1>12. CASE SweepStart \/ SweepTurns \/ SweepEnd
  <2>1. {k \in Keys : mem[k] # None /\ ~IsGlobal(k)} \in SUBSET Keys
    OBVIOUS
  <2>2. QED
    BY <1>10, <1>12, <2>1 DEF SweepStart, SweepTurns, SweepEnd
<1>13. ASSUME NEW k \in Keys, SweepSymbol(k) \/ SweepGlobal(k) PROVE Rest'
  <2>1. todo \ {k} \in SUBSET Keys
    BY DEF LoopTypes
  <2>2. QED
    BY <1>10, <1>11, <1>13, <2>1 DEF SweepSymbol, SweepGlobal
<1>14. ASSUME NEW p \in Procs, Find(p) \/ Stage(p) PROVE Rest'
  BY <1>14 DEF Find, Stage, TxFrame, MemoryTypes, EventTypes, LoopTypes
<1>15. ASSUME NEW p \in Procs, CommitCreate(p) \/ CommitChange(p) \/ CommitResolve(p)
       PROVE Rest'
  <2>1. found[p] \subseteq Nat /\ Len(inc) + 1 \in Nat
    BY RowFacts DEF FoundTypes
  <2>2. UNCHANGED <<up, mem, old, outbox, sweep, todo, calls, failures, crashes>>
    BY <1>15 DEF CommitCreate, CommitChange, CommitResolve, TxFrame
  <2>3. \E kind \in {"CREATED", "STATE_CHANGED", "RESOLVED"}, rows \in SUBSET Nat :
          Publish(kind, rows)
    BY <1>15, <2>1 DEF CommitCreate, CommitChange, CommitResolve
  <2>4. inflight' \subseteq Event
    BY <2>3 DEF Publish, Event, EventTypes
  <2>5. QED
    BY <2>2, <2>4 DEF MemoryTypes, EventTypes, LoopTypes
<1>16. ASSUME NEW p \in Procs, TxFail(p) PROVE Rest'
  BY <1>16 DEF TxFail, TxFrame, MemoryTypes, EventTypes, LoopTypes
<1>17. ASSUME NEW e \in inflight, Enqueue(e) \/ EnqueueFail(e) PROVE Rest'
  BY <1>17 DEF Enqueue, EnqueueFail, MemoryTypes, EventTypes, LoopTypes
<1>18. CASE Crash
  <2>1. Forget(Keys) /\ up' = FALSE
    BY <1>18 DEF Crash
  <2>2. MemoryTypes'
    BY <1>1, <2>1 DEF MemoryTypes
  <2>3. EventTypes' /\ LoopTypes'
    BY <1>18 DEF Crash, EventTypes, LoopTypes
  <2>4. QED
    BY <2>2, <2>3
<1>19. CASE InitFromDb
  <2>1. \A k \in Keys : Rehydrated(k) \in Severity \cup {None}
    BY RowFacts DEF Rehydrated, ActiveRows, Row
  <2> HIDE DEF Rehydrated
  <2>2. QED
    BY <1>19, <2>1 DEF InitFromDb, MemoryTypes, EventTypes, LoopTypes
<1>20. CASE InitFails
  BY <1>20 DEF InitFails, MemoryTypes, EventTypes, LoopTypes
<1>21. CASE UNCHANGED vars
  BY <1>21 DEF vars, MemoryTypes, EventTypes, LoopTypes
<1>22. QED
  BY <1>3, <1>5, <1>6, <1>7, <1>8, <1>9, <1>12, <1>13, <1>14, <1>15, <1>16, <1>17,
     <1>18, <1>19, <1>20, <1>21 DEF Next

(***************************************************************************)
(* The inductive invariant.                                                *)
(***************************************************************************)
Inv == Types /\ CallInv /\ NoRival /\ OneActiveRow

LEMMA InitInv == Init => Inv
<1> SUFFICES ASSUME Init PROVE Inv
  OBVIOUS
<1>1. inc \in Seq(Row) /\ grp \in Seq(Group) /\ DOMAIN inc = {} /\ DOMAIN grp = {}
  BY EmptySeq DEF Init
<1>2. TableTypes
  BY <1>1 DEF TableTypes
<1>3. PcTypes /\ FoundTypes /\ PlanTypes
  BY <1>1, NoCallTypes DEF Init, PcTypes, FoundTypes, PlanTypes
<1>4. MemoryTypes /\ EventTypes
  BY DEF Init, MemoryTypes, EventTypes
<1>5. LoopTypes
  BY DEF Init, LoopTypes
<1>6. CallInv /\ NoRival
  BY DEF Init, CallInv, NoRival, Creating
<1>7. OneActiveRow
  BY <1>1 DEF OneActiveRow
<1>8. QED
  BY <1>2, <1>3, <1>4, <1>5, <1>6, <1>7 DEF Inv, Types

\* A call that ends, or a process that dies, leaves nothing to know.
LEMMA EndCallInv ==
  ASSUME TxTypes, CallInv, NoRival, NEW p \in Procs, EndCall(p),
         \A r \in DOMAIN inc : r \in DOMAIN inc' /\ inc'[r].group = inc[r].group,
         \A q \in Procs \ {p} : Creating(q) =>
           {r \in DOMAIN inc' : inc'[r].active /\ inc'[r].key \in req[q].keys} = {}
  PROVE  CallInv' /\ NoRival'
<1>1. /\ pc'[p] = "idle" /\ found'[p] = {} /\ gsel'[p] = 0
      /\ \A q \in Procs \ {p} : /\ pc'[q] = pc[q] /\ req'[q] = req[q]
                                /\ found'[q] = found[q] /\ gsel'[q] = gsel[q]
  BY DEF EndCall, TxTypes, PcTypes, FoundTypes
<1>2. CallInv'
  BY <1>1 DEF CallInv, TxTypes, FoundTypes
<1>3. NoRival'
  BY <1>1 DEF NoRival, Creating, ActiveRows
<1>4. QED
  BY <1>2, <1>3

LEMMA FindInv ==
  ASSUME TxTypes, CallInv, NoRival, OneActiveRow, NEW p \in Procs, Find(p)
  PROVE  CallInv' /\ NoRival' /\ OneActiveRow'
<1>1. UNCHANGED <<inc, grp>> /\ pc[p] = "begin"
  BY DEF Find, dbVars
<1>2. OneActiveRow'
  BY <1>1 DEF OneActiveRow
<1>3. CASE EndCall(p)
  <2>1. \A q \in Procs \ {p} : Creating(q) =>
          {r \in DOMAIN inc' : inc'[r].active /\ inc'[r].key \in req[q].keys} = {}
    BY <1>1 DEF NoRival, ActiveRows
  <2>2. QED
    BY <1>1, <1>2, <1>3, <2>1, EndCallInv
<1>4. CASE ~EndCall(p)
  <2>1. UNCHANGED req /\ pc' = [pc EXCEPT ![p] = "found"]
    BY <1>4 DEF Find
  <2>2. \A q \in Procs \ {p} : /\ pc'[q] = pc[q]
                               /\ found'[q] = found[q] /\ gsel'[q] = gsel[q]
    BY <1>4, <2>1 DEF Find, TxTypes, PcTypes, FoundTypes
  <2>3. /\ pc'[p] = "found"
        /\ req[p].op = "resolve" => found'[p] # {}
        /\ req[p].op = "persist" => \A r \in found'[p] : inc[r].group = gsel'[p]
        /\ req[p].op = "persist" /\ found'[p] = {} => ActiveRows(req[p].keys) = {}
    <3>1. pc'[p] = "found"
      BY <2>1 DEF TxTypes, PcTypes
    <3>2. found[p] = {} /\ gsel[p] = 0
      BY <1>1 DEF CallInv
    <3>3. CASE req[p].op = "resolve"
      BY <1>4, <3>1, <3>3 DEF Find, TxTypes, FoundTypes
    <3>4. CASE req[p].op = "persist" /\ ActiveRows(req[p].keys) # {}
      <4>1. PICK r \in ActiveRows(req[p].keys) :
              found' = [found EXCEPT ![p] = {r}] /\ gsel' = [gsel EXCEPT ![p] = inc[r].group]
        BY <1>4, <3>4 DEF Find
      <4>2. found'[p] = {r} /\ gsel'[p] = inc[r].group
        BY <4>1 DEF TxTypes, FoundTypes
      <4>3. QED
        BY <3>1, <3>4, <4>2
    <3>5. CASE req[p].op = "persist" /\ ActiveRows(req[p].keys) = {}
      <4>1. found' = found
        BY <1>4, <3>5 DEF Find
      <4>2. QED
        BY <3>1, <3>2, <3>5, <4>1
    <3>6. QED
      BY <3>3, <3>4, <3>5 DEF TxTypes, PcTypes, Request
  <2>4. CallInv'
    BY <1>1, <2>1, <2>2, <2>3 DEF CallInv
  <2>5. NoRival'
    BY <1>1, <2>1, <2>2, <2>3 DEF NoRival, Creating, ActiveRows
  <2>6. QED
    BY <1>2, <2>4, <2>5
<1>5. QED
  BY <1>3, <1>4

LEMMA StageInv ==
  ASSUME TxTypes, CallInv, NoRival, OneActiveRow, NEW p \in Procs, Stage(p)
  PROVE  CallInv' /\ NoRival' /\ OneActiveRow'
<1>1. /\ UNCHANGED <<inc, grp, req, found, gsel>> /\ pc[p] = "found"
      /\ pc' = [pc EXCEPT ![p] = "staged"]
  BY DEF Stage, dbVars
<1>2. pc'[p] = "staged" /\ \A q \in Procs \ {p} : pc'[q] = pc[q]
  BY <1>1 DEF TxTypes, PcTypes
<1>3. QED
  BY <1>1, <1>2 DEF CallInv, NoRival, Creating, ActiveRows, OneActiveRow

\* A new row has no rival: the call creating it saw none, and any other call about
\* to create one belongs to another loop, hence to another key.
LEMMA CommitCreateInv ==
  ASSUME TxTypes, CallInv, NoRival, OneActiveRow, NEW p \in Procs, CommitCreate(p)
  PROVE  CallInv' /\ NoRival' /\ OneActiveRow'
<1>1. PICK k \in Keys, l \in Severity, g \in DOMAIN grp' :
        /\ req[p].keys = {k}
        /\ inc' = Append(inc, [key |-> k, level |-> l, active |-> TRUE, group |-> g])
  BY CommitCreateTypes
<1>2. /\ pc[p] = "staged" /\ req[p].op = "persist" /\ found[p] = {} /\ EndCall(p)
  BY DEF CommitCreate
<1>3. Creating(p) /\ ActiveRows({k}) = {} /\ Owner[k] = p
  <2>1. Creating(p)
    BY <1>2 DEF Creating
  <2>2. ActiveRows({k}) = {}
    BY <1>1, <2>1 DEF NoRival
  <2>3. \E j \in Keys : req[p].keys = {j} /\ Owner[j] = p
    BY <1>2 DEF CallInv
  <2>4. QED
    BY <1>1, <2>1, <2>2, <2>3
<1> DEFINE n == Len(inc) + 1
<1>4. /\ DOMAIN inc' = DOMAIN inc \cup {n} /\ n \notin DOMAIN inc
      /\ inc'[n] = [key |-> k, level |-> l, active |-> TRUE, group |-> g]
      /\ \A r \in DOMAIN inc : inc'[r] = inc[r]
  <2> DEFINE row == [key |-> k, level |-> l, active |-> TRUE, group |-> g]
             S == Row \cup {row}
  <2>1. inc \in Seq(S) /\ row \in S
    BY SeqMonotonic DEF TxTypes, TableTypes
  <2> HIDE DEF row, S
  <2>2. inc' \in Seq(S) /\ Len(inc') = n /\ inc'[n] = row
        /\ \A r \in 1..Len(inc) : inc'[r] = inc[r]
    BY <1>1, <2>1, AppendProperties DEF row
  <2>3. DOMAIN inc' = 1..n
    BY <2>2, LenProperties
  <2>4. QED
    BY <2>2, <2>3, RowFacts DEF TxTypes, row
<1> HIDE DEF n
<1>5. OneActiveRow'
  <2>1. \A r \in DOMAIN inc : inc[r].active => inc[r].key # k
    BY <1>3 DEF ActiveRows
  <2>2. QED
    BY <1>4, <2>1 DEF OneActiveRow
<1>6. \A q \in Procs \ {p} : Creating(q) =>
        {r \in DOMAIN inc' : inc'[r].active /\ inc'[r].key \in req[q].keys} = {}
  <2> SUFFICES ASSUME NEW q \in Procs \ {p}, Creating(q), NEW r \in DOMAIN inc',
                      inc'[r].active, inc'[r].key \in req[q].keys
               PROVE  FALSE
    OBVIOUS
  <2>1. PICK j \in Keys : req[q].keys = {j} /\ Owner[j] = q
    BY DEF CallInv, Creating
  <2>2. j # k
    BY <1>3, <2>1
  <2>3. r # n
    BY <1>4, <2>1, <2>2
  <2>4. QED
    BY <1>4, <2>3 DEF NoRival, ActiveRows
<1>7. QED
  BY <1>2, <1>4, <1>5, <1>6, EndCallInv

LEMMA CommitUpdateInv ==
  ASSUME TxTypes, CallInv, NoRival, OneActiveRow, NEW p \in Procs,
         CommitChange(p) \/ CommitResolve(p)
  PROVE  CallInv' /\ NoRival' /\ OneActiveRow'
<1>1. EndCall(p)
  BY DEF CommitChange, CommitResolve
<1>2. SameRows
  BY CommitUpdateTypes
<1>3. OneActiveRow'
  BY <1>2 DEF SameRows, OneActiveRow
<1>4. \A q \in Procs \ {p} : Creating(q) =>
        {r \in DOMAIN inc' : inc'[r].active /\ inc'[r].key \in req[q].keys} = {}
  BY <1>2 DEF SameRows, NoRival, ActiveRows
<1>5. QED
  BY <1>1, <1>2, <1>3, <1>4, EndCallInv DEF SameRows

LEMMA InvStep ==
  ASSUME Inv, [Next]_vars PROVE Inv'
<1> USE DEF Inv, TxTypes
<1>1. Kinds
  BY StepKinds
<1>2. Types'
  BY <1>1, TxStep, MemoryStep DEF Types
<1>3. CallInv' /\ NoRival' /\ OneActiveRow'
  <2> USE DEF Types
  <2>1. CASE Quiet
    BY <2>1 DEF Quiet, txVars, dbVars, CallInv, NoRival, Creating, ActiveRows, OneActiveRow
  <2>2. CASE Dies
    BY <2>2 DEF Dies, dbVars, CallInv, NoRival, Creating, OneActiveRow
  <2>3. ASSUME NEW p \in Procs, Starts(p) PROVE CallInv' /\ NoRival' /\ OneActiveRow'
    <3>1. PICK r \in Request : WellFormed(p, r) /\ Begin(p, r)
      BY <2>3 DEF Starts
    <3>2. UNCHANGED <<inc, found, gsel>> /\ pc[p] = "idle"
      BY <2>3, <3>1 DEF Starts, Begin, dbVars
    <3>3. /\ pc'[p] = "begin" /\ req'[p] = r
          /\ \A q \in Procs \ {p} : pc'[q] = pc[q] /\ req'[q] = req[q]
      BY <3>1 DEF Begin, PcTypes
    <3>4. QED
      BY <3>1, <3>2, <3>3 DEF WellFormed, CallInv, NoRival, Creating, ActiveRows, OneActiveRow
  <2>4. ASSUME NEW p \in Procs, Drops(p) PROVE CallInv' /\ NoRival' /\ OneActiveRow'
    <3>1. UNCHANGED inc /\ EndCall(p)
      BY <2>4 DEF Drops, dbVars
    <3>2. \A q \in Procs \ {p} : Creating(q) =>
            {r \in DOMAIN inc' : inc'[r].active /\ inc'[r].key \in req[q].keys} = {}
      BY <3>1 DEF NoRival, ActiveRows
    <3>3. QED
      BY <3>1, <3>2, EndCallInv DEF OneActiveRow
  <2>5. QED
    BY <1>1, <2>1, <2>2, <2>3, <2>4, FindInv, StageInv, CommitCreateInv, CommitUpdateInv
       DEF Kinds
<1>4. QED
  BY <1>2, <1>3

LEMMA Inductive == Spec => []Inv
BY InitInv, InvStep, PTL DEF Spec

\* Every variable keeps its type: the group a row names exists, a planned update
\* is of an existing group, whatever interleaves and whatever fails.
THEOREM TypeCorrect == Spec => []TypeOK
<1>1. Inv => TypeOK
  BY TypeParts DEF Inv
<1>2. QED
  BY <1>1, Inductive, PTL

\* However reports, recoveries, the TTL sweep, failures and restarts interleave,
\* no incident is recorded as active twice.
THEOREM NoDuplicateIncident == Spec => []OneActiveRow
BY Inductive, PTL DEF Inv

(***************************************************************************)
(* Groups.  While no commit overtakes it, what a transaction has picked    *)
(* and planned for a group is what the tables, as they are when it         *)
(* commits, call for.                                                      *)
(***************************************************************************)
ActiveChildren(g) == {r \in Children(g) : inc[r].active}

Ranked(g) == IF ActiveChildren(g) = {} THEN Children(g) ELSE ActiveChildren(g)

Fits(g) == /\ grp[g].open <=> ActiveChildren(g) # {}
           /\ grp[g].sev = MaxOf({inc[r].level : r \in Ranked(g)})

Targets(p) == IF req[p].op = "persist" THEN {gsel[p]} \ {0}
                                       ELSE {inc[r].group : r \in found[p]}

PlanFor(p, g) ==
  IF req[p].op = "persist"
    THEN [sev |-> PersistSeverity(g, found[p], req[p].level), close |-> FALSE]
    ELSE ResolvePlan(g, found[p])

Planned(p) == DOMAIN plan[p] = IF pc[p] = "staged" THEN Targets(p) ELSE {}

\* A group picked for a new row is open, and a plan is the one of the tables as
\* they are.
Informed(p, g) ==
  /\ gsel[p] = g /\ found[p] = {} => grp[g].open
  /\ g \in DOMAIN plan[p] => plan[p][g] = PlanFor(p, g)

GroupInv ==
  /\ \A p \in Procs : Planned(p)
  /\ \A g \in DOMAIN grp \ overtaken : Fits(g) /\ \A p \in Procs : Informed(p, g)

\* What a step leaves of a group it has nothing to do with.
SameGroup(g) == /\ Children(g)' = Children(g)
                /\ \A r \in Children(g) : inc'[r] = inc[r]
                /\ grp'[g] = grp[g]

SameCall(p) == /\ pc'[p] = pc[p] /\ req'[p] = req[p] /\ found'[p] = found[p]
               /\ gsel'[p] = gsel[p] /\ plan'[p] = plan[p]

LEMMA SameFits ==
  ASSUME NEW g, SameGroup(g), Fits(g) PROVE Fits(g)'
<1>1. ActiveChildren(g)' = ActiveChildren(g)
  BY DEF ActiveChildren, SameGroup
<1>2. Ranked(g)' = Ranked(g) /\ Ranked(g) \subseteq Children(g)
  BY <1>1 DEF Ranked, ActiveChildren, SameGroup
<1>3. {inc'[r].level : r \in Ranked(g)'} = {inc[r].level : r \in Ranked(g)}
  BY <1>2 DEF SameGroup
<1> QED
  BY <1>1, <1>3 DEF Fits, SameGroup

\* The plan is a matter of the group's rows and of what the call has read.
LEMMA SamePlan ==
  ASSUME NEW p, NEW g, SameGroup(g), req'[p] = req[p], found'[p] = found[p]
  PROVE  PlanFor(p, g)' = PlanFor(p, g)
<1> DEFINE rows == found[p]
           l    == req[p].level
           rest == {r \in Children(g) \ rows : inc[r].active}
           level(r) == IF r \in rows THEN l ELSE inc[r].level
<1> USE DEF SameGroup
<1>1. ActiveChildren(g)' = ActiveChildren(g) /\ ActiveChildren(g) \subseteq Children(g)
  BY DEF ActiveChildren
<1>2. PersistSeverity(g, rows, l)' = PersistSeverity(g, rows, l)
  <2> DEFINE own  == IF rows = {} THEN {l} ELSE {}
             seen == own \cup {level(r) : r \in ActiveChildren(g)}
             all  == {level(r) : r \in Children(g)}
             peak == IF seen # {} THEN MaxOf(seen) ELSE MaxOf(all)
  <2>1. seen' = seen /\ all' = all
    BY <1>1
  <2>2. PersistSeverity(g, rows, l) = peak
    BY DEF PersistSeverity, ActiveChildren
  <2>3. PersistSeverity(g, rows, l)' = peak'
    BY DEF PersistSeverity, ActiveChildren, MaxOf
  <2> HIDE DEF seen, all
  <2>4. peak' = peak
    BY <2>1 DEF MaxOf
  <2> HIDE DEF peak
  <2> QED
    BY <2>2, <2>3, <2>4
<1>3. ResolvePlan(g, rows)' = ResolvePlan(g, rows)
  <2> DEFINE ranked == IF rest = {} THEN Children(g) ELSE rest
  <2>1. rest' = rest
    OBVIOUS
  <2>2. {inc[r].level : r \in ranked}' = {inc[r].level : r \in ranked}
    BY <2>1
  <2> QED
    BY <2>1, <2>2 DEF ResolvePlan, MaxOf
<1> QED
  BY <1>2, <1>3 DEF PlanFor

\* A call that a step does not touch knows as much of a group as before.
LEMMA SameInformed ==
  ASSUME NEW p, NEW g, SameGroup(g), SameCall(p), Informed(p, g)
  PROVE  Informed(p, g)'
<1>1. PlanFor(p, g)' = PlanFor(p, g)
  BY SamePlan DEF SameCall
<1> QED
  BY <1>1 DEF Informed, SameGroup, SameCall

\* A call that relies on nothing of a group has nothing to know of it.
LEMMA NoReliance ==
  ASSUME NEW p, NEW g, gsel'[p] # g, g \notin DOMAIN plan'[p] PROVE Informed(p, g)'
BY DEF Informed

LEMMA SamePlanned ==
  ASSUME Inv, NEW p \in Procs, SameCall(p), Planned(p),
         \A r \in DOMAIN inc : inc'[r].group = inc[r].group
  PROVE  Planned(p)'
<1>1. found[p] \subseteq DOMAIN inc
  BY DEF Inv, Types, FoundTypes
<1>2. Targets(p)' = Targets(p)
  BY <1>1 DEF Targets, SameCall
<1> QED
  BY <1>2 DEF Planned, SameCall

\* What a plan makes of a group.
LEMMA PlannedGroup ==
  ASSUME TableTypes, NEW p, NEW g \in DOMAIN grp, g \in DOMAIN plan[p]
  PROVE  /\ PlannedGroups(p)[g].sev = plan[p][g].sev
         /\ PlannedGroups(p)[g].open <=> grp[g].open /\ ~plan[p][g].close
<1>1. grp[g] \in Group
  BY RowFacts
<1>2. PlannedGroups(p)[g] =
        [grp[g] EXCEPT !.sev = plan[p][g].sev, !.open = @ /\ ~plan[p][g].close]
  BY DEF PlannedGroups
<1> QED
  BY <1>1, <1>2 DEF Group

(***************************************************************************)
(* Steps that commit nothing.                                              *)
(***************************************************************************)
\* Such a step keeps the invariant if the calls it touches know what they rely on.
LEMMA NoCommit ==
  ASSUME Inv, GroupInv, UNCHANGED dbVars, overtaken \subseteq overtaken',
         \A p \in Procs : Planned(p)',
         \A p \in Procs : SameCall(p) \/ \A g \in DOMAIN grp \ overtaken : Informed(p, g)'
  PROVE  GroupInv'
<1>1. \A g : SameGroup(g)
  BY DEF SameGroup, Children, dbVars
<1>2. ASSUME NEW g \in DOMAIN grp \ overtaken, NEW p \in Procs PROVE Informed(p, g)'
  BY <1>1, <1>2, SameInformed DEF GroupInv
<1>3. \A g \in DOMAIN grp \ overtaken : Fits(g)'
  BY <1>1, SameFits DEF GroupInv
<1>4. DOMAIN grp' \ overtaken' \subseteq DOMAIN grp \ overtaken
  BY DEF dbVars
<1> QED
  BY <1>2, <1>3, <1>4 DEF GroupInv

\* A call that starts or ends without a commit relies on nothing.
LEMMA OutsideTx ==
  ASSUME Inv, GroupInv, NEW p \in Procs, UNCHANGED dbVars, overtaken \subseteq overtaken',
         Starts(p) \/ EndCall(p)
  PROVE  GroupInv'
<1> USE DEF Inv, Types
<1>1. /\ pc'[p] \in {"idle", "begin"} /\ gsel'[p] = 0 /\ DOMAIN plan'[p] = {}
      /\ \A q \in Procs \ {p} : SameCall(q)
  <2>1. CASE Starts(p)
    <3>1. PICK r : Begin(p, r)
      BY <2>1 DEF Starts
    <3>2. gsel[p] = 0 /\ DOMAIN plan[p] = {}
      BY <2>1 DEF Starts, CallInv, GroupInv, Planned
    <3> QED
      BY <3>1, <3>2 DEF Begin, SameCall, PcTypes
  <2>2. CASE EndCall(p)
    BY <2>2 DEF EndCall, SameCall, PcTypes, FoundTypes, PlanTypes
  <2> QED
    BY <2>1, <2>2
<1>2. \A q \in Procs : Planned(q)'
  BY <1>1, SamePlanned DEF GroupInv, Planned, dbVars
<1>3. \A g \in DOMAIN grp \ overtaken : Informed(p, g)'
  BY <1>1, RowFacts, NoReliance
<1> QED
  BY <1>1, <1>2, <1>3, NoCommit

\* A first read picks an open group.
LEMMA FindInforms ==
  ASSUME Inv, GroupInv, NEW p \in Procs, Find(p), ~EndCall(p), overtaken \subseteq overtaken'
  PROVE  GroupInv'
<1> USE DEF Inv, Types
<1>1. /\ UNCHANGED <<inc, grp, req, plan>> /\ UNCHANGED dbVars
      /\ pc[p] = "begin" /\ pc' = [pc EXCEPT ![p] = "found"]
  BY DEF Find, dbVars
<1>2. pc'[p] = "found" /\ DOMAIN plan'[p] = {}
  BY <1>1 DEF PcTypes, GroupInv, Planned
<1>3. \A q \in Procs \ {p} : SameCall(q)
  BY <1>1 DEF Find, SameCall, PcTypes, FoundTypes
<1>4. \A q \in Procs : Planned(q)'
  BY <1>1, <1>2, <1>3, SamePlanned DEF GroupInv, Planned
<1>5. found'[p] = {} /\ gsel'[p] # 0 => grp[gsel'[p]].open
  <2>1. found[p] = {} /\ gsel[p] = 0
    BY <1>1 DEF CallInv
  <2>2. CASE req[p].op = "persist" /\ ActiveRows(req[p].keys) = {}
    <3>1. PICK g : gsel' = [gsel EXCEPT ![p] = g] /\ \E k : g \in GroupChoices(k)
      BY <2>2 DEF Find
    <3>2. gsel'[p] = g
      BY <3>1 DEF FoundTypes
    <3> QED
      BY <3>1, <3>2 DEF GroupChoices
  <2>3. CASE req[p].op = "persist" /\ ActiveRows(req[p].keys) # {}
    <3>1. PICK r : found' = [found EXCEPT ![p] = {r}]
      BY <2>3 DEF Find
    <3> QED
      BY <3>1 DEF FoundTypes
  <2>4. CASE req[p].op = "resolve"
    BY <2>1, <2>4 DEF Find, FoundTypes
  <2> QED
    BY <2>2, <2>3, <2>4 DEF PcTypes, Request
<1>6. \A g \in DOMAIN grp \ overtaken : Informed(p, g)'
  BY <1>1, <1>2, <1>5, RowFacts DEF Informed
<1> QED
  BY <1>1, <1>3, <1>4, <1>6, NoCommit

\* Staging writes the plan down.
LEMMA StageInforms ==
  ASSUME Inv, GroupInv, NEW p \in Procs, Stage(p), overtaken \subseteq overtaken'
  PROVE  GroupInv'
<1> USE DEF Inv, Types
<1>1. /\ UNCHANGED <<inc, grp, req, found, gsel>> /\ UNCHANGED dbVars
      /\ pc' = [pc EXCEPT ![p] = "staged"]
      /\ plan' = [plan EXCEPT ![p] = [g \in Targets(p) |-> PlanFor(p, g)]]
  BY DEF Stage, dbVars, Targets, PlanFor
<1>2. pc'[p] = "staged" /\ plan'[p] = [g \in Targets(p) |-> PlanFor(p, g)]
      /\ \A q \in Procs \ {p} : SameCall(q)
  BY <1>1 DEF PcTypes, PlanTypes, SameCall
<1>3. Targets(p)' = Targets(p)
  BY <1>1 DEF Targets
<1>4. \A q \in Procs : Planned(q)'
  BY <1>1, <1>2, <1>3, SamePlanned DEF GroupInv, Planned
<1>5. ASSUME NEW g \in DOMAIN grp \ overtaken PROVE Informed(p, g)'
  <2>1. SameGroup(g)
    BY <1>1 DEF SameGroup, Children
  <2>2. PlanFor(p, g)' = PlanFor(p, g)
    BY <1>1, <2>1, SamePlan
  <2> QED
    BY <1>1, <1>2, <2>2 DEF GroupInv, Informed
<1> QED
  BY <1>1, <1>2, <1>4, <1>5, NoCommit

(***************************************************************************)
(* Commits.                                                                *)
(***************************************************************************)
Writes(p) == CommitCreate(p) \/ CommitChange(p) \/ CommitResolve(p)

\* A commit that changes a level raises or lowers the peak of the group it read.
LEMMA ChangeFits ==
  ASSUME Inv, GroupInv, NEW p \in Procs, CommitChange(p), NEW g \in DOMAIN grp \ overtaken,
         g \in DOMAIN plan[p]
  PROVE  Fits(g)'
<1> USE DEF Inv, Types
<1> DEFINE l == req[p].level
           level(r) == IF r \in found[p] THEN l ELSE inc[r].level
<1>1. /\ pc[p] = "staged" /\ req[p].op = "persist" /\ found[p] # {}
      /\ inc' = [r \in DOMAIN inc |->
                   IF r \in found[p] THEN [inc[r] EXCEPT !.level = l] ELSE inc[r]]
      /\ grp' = PlannedGroups(p)
  BY DEF CommitChange
<1>2. /\ DOMAIN inc' = DOMAIN inc
      /\ \A r \in DOMAIN inc :
           /\ inc'[r].group = inc[r].group /\ inc'[r].active = inc[r].active
           /\ inc'[r].level = level(r)
  BY <1>1, RowFacts DEF Row
<1>3. /\ Fits(g)
      /\ plan[p][g] = [sev |-> PersistSeverity(g, found[p], l), close |-> FALSE]
  BY <1>1 DEF GroupInv, Informed, PlanFor
<1>4. (grp'[g].open <=> grp[g].open) /\ grp'[g].sev = PersistSeverity(g, found[p], l)
  BY <1>1, <1>3, PlannedGroup
<1>5. /\ Children(g)' = Children(g) /\ ActiveChildren(g)' = ActiveChildren(g)
      /\ Ranked(g)' = Ranked(g) /\ Ranked(g) \subseteq DOMAIN inc
  BY <1>2 DEF Children, ActiveChildren, Ranked
<1>6. PersistSeverity(g, found[p], l) = MaxOf({level(r) : r \in Ranked(g)})
  <2> DEFINE seen == {level(r) : r \in ActiveChildren(g)}
  <2>1. PersistSeverity(g, found[p], l) =
          IF seen # {} THEN MaxOf(seen) ELSE MaxOf({level(r) : r \in Children(g)})
    BY <1>1 DEF PersistSeverity, ActiveChildren
  <2>2. seen # {} <=> ActiveChildren(g) # {}
    OBVIOUS
  <2> QED
    BY <2>1, <2>2 DEF Ranked
<1>7. {inc'[r].level : r \in Ranked(g)'} = {level(r) : r \in Ranked(g)}
  BY <1>2, <1>5
<1> QED
  BY <1>3, <1>4, <1>5, <1>6, <1>7 DEF Fits

\* A commit that resolves leaves a group to its other active children, or closes it.
LEMMA ResolveFits ==
  ASSUME Inv, GroupInv, NEW p \in Procs, CommitResolve(p), NEW g \in DOMAIN grp \ overtaken,
         g \in DOMAIN plan[p]
  PROVE  Fits(g)'
<1> USE DEF Inv, Types
<1> DEFINE rest == {r \in Children(g) \ found[p] : inc[r].active}
           ranked == IF rest = {} THEN Children(g) ELSE rest
<1>1. /\ pc[p] = "staged" /\ req[p].op = "resolve"
      /\ inc' = [r \in DOMAIN inc |->
                   IF r \in found[p] THEN [inc[r] EXCEPT !.active = FALSE] ELSE inc[r]]
      /\ grp' = PlannedGroups(p)
  BY DEF CommitResolve
<1>2. /\ DOMAIN inc' = DOMAIN inc
      /\ \A r \in DOMAIN inc :
           /\ inc'[r].group = inc[r].group /\ inc'[r].level = inc[r].level
           /\ inc'[r].active <=> inc[r].active /\ r \notin found[p]
  BY <1>1, RowFacts DEF Row
<1>3. Fits(g) /\ plan[p][g] = ResolvePlan(g, found[p])
  BY <1>1 DEF GroupInv, Informed, PlanFor
<1>4. rest # {} => grp[g].open
  BY <1>3 DEF Fits, ActiveChildren
<1>5. (grp'[g].open <=> rest # {}) /\ grp'[g].sev = MaxOf({inc[r].level : r \in ranked})
  <2> DEFINE peak == MaxOf({inc[r].level : r \in ranked})
             none == rest = {}
  <2>1. ResolvePlan(g, found[p]) = [sev |-> peak, close |-> none]
    BY DEF ResolvePlan
  <2> HIDE DEF peak, none
  <2>2. plan[p][g].sev = peak /\ plan[p][g].close = none
    BY <1>3, <2>1
  <2>3. grp'[g].sev = peak /\ (grp'[g].open <=> grp[g].open /\ ~none)
    BY <1>1, <2>2, PlannedGroup
  <2> QED
    BY <1>4, <2>3 DEF peak, none
<1>6. Children(g)' = Children(g) /\ ActiveChildren(g)' = rest
  BY <1>2 DEF Children, ActiveChildren
<1>7. Ranked(g)' = ranked /\ ranked \subseteq DOMAIN inc
  BY <1>6 DEF Ranked, Children
<1>8. {inc'[r].level : r \in Ranked(g)'} = {inc[r].level : r \in ranked}
  BY <1>2, <1>7
<1> QED
  BY <1>5, <1>6, <1>8 DEF Fits

\* The row and the group a commit of CommitCreate adds.
LEMMA CreateAdds ==
  ASSUME Inv, NEW p \in Procs, CommitCreate(p)
  PROVE  LET n == Len(inc) + 1
             h == IF gsel[p] = 0 THEN Len(grp) + 1 ELSE gsel[p]
         IN  /\ DOMAIN inc' = DOMAIN inc \cup {n} /\ n \notin DOMAIN inc
             /\ inc'[n].level = req[p].level /\ inc'[n].active /\ inc'[n].group = h
             /\ \A r \in DOMAIN inc : inc'[r] = inc[r]
             /\ gsel[p] = 0 =>
                  /\ h \notin DOMAIN grp /\ DOMAIN grp' = DOMAIN grp \cup {h}
                  /\ grp'[h].open /\ grp'[h].sev = req[p].level
                  /\ \A j \in DOMAIN grp : grp'[j] = grp[j]
<1> USE DEF Inv, Types
<1> DEFINE n == Len(inc) + 1
           h == IF gsel[p] = 0 THEN Len(grp) + 1 ELSE gsel[p]
           l == req[p].level
<1>1. PICK k \in Keys :
        /\ inc' = Append(inc, [key |-> k, level |-> l, active |-> TRUE, group |-> h])
        /\ k = CHOOSE x \in req[p].keys : TRUE
  <2>1. pc[p] = "staged" /\ req[p].op = "persist"
    BY DEF CommitCreate
  <2>2. PICK k \in Keys : req[p].keys = {k}
    BY <2>1 DEF CallInv
  <2>3. (CHOOSE x \in req[p].keys : TRUE) = k
    BY <2>2
  <2> QED
    BY <2>3 DEF CommitCreate
<1>2. l \in Severity /\ h \in Nat
  BY RowFacts DEF CommitCreate, CallInv, FoundTypes
<1>3. /\ DOMAIN inc' = DOMAIN inc \cup {n} /\ n \notin DOMAIN inc
      /\ inc'[n].level = l /\ inc'[n].active /\ inc'[n].group = h
      /\ \A r \in DOMAIN inc : inc'[r] = inc[r]
  <2> DEFINE row == [key |-> k, level |-> l, active |-> TRUE, group |-> h]
  <2>1. row \in Row /\ row.level = l /\ row.active /\ row.group = h
    BY <1>2 DEF Row
  <2> HIDE DEF row
  <2>2. inc' = Append(inc, row)
    BY <1>1 DEF row
  <2>3. inc' \in Seq(Row) /\ Len(inc') = n /\ inc'[n] = row
        /\ \A r \in 1..Len(inc) : inc'[r] = inc[r]
    BY <2>1, <2>2, AppendProperties DEF TableTypes
  <2>4. DOMAIN inc' = 1..n
    BY <2>3, LenProperties
  <2> QED
    BY <2>1, <2>3, <2>4, RowFacts
<1>4. ASSUME gsel[p] = 0
      PROVE  /\ h \notin DOMAIN grp /\ DOMAIN grp' = DOMAIN grp \cup {h}
             /\ grp'[h].open /\ grp'[h].sev = l
             /\ \A j \in DOMAIN grp : grp'[j] = grp[j]
  <2> DEFINE d == [corr |-> CorrelationKey(k), sev |-> l, open |-> TRUE]
  <2>1. d \in Group /\ d.sev = l /\ d.open
    BY <1>2 DEF Group, CorrelationKey
  <2>2. grp' = Append(grp, d)
    BY <1>1, <1>4 DEF CommitCreate
  <2> HIDE DEF d
  <2>3. grp' \in Seq(Group) /\ Len(grp') = Len(grp) + 1 /\ grp'[Len(grp) + 1] = d
        /\ \A j \in 1..Len(grp) : grp'[j] = grp[j]
    BY <2>1, <2>2, AppendProperties DEF TableTypes
  <2>4. DOMAIN grp' = 1..(Len(grp) + 1)
    BY <2>3, LenProperties
  <2> QED
    BY <1>4, <2>1, <2>3, <2>4, RowFacts
<1> QED
  BY <1>3, <1>4

\* A commit that creates a row raises the peak of the group it joins,
LEMMA JoinFits ==
  ASSUME Inv, GroupInv, NEW p \in Procs, CommitCreate(p), NEW g \in DOMAIN grp \ overtaken,
         g \in DOMAIN plan[p]
  PROVE  Fits(g)'
<1> USE DEF Inv, Types
<1> DEFINE n == Len(inc) + 1
           l == req[p].level
<1>1. /\ pc[p] = "staged" /\ req[p].op = "persist" /\ found[p] = {}
      /\ gsel[p] = g /\ gsel[p] # 0
  BY DEF CommitCreate, GroupInv, Planned, Targets
<1>2. /\ DOMAIN inc' = DOMAIN inc \cup {n} /\ n \notin DOMAIN inc
      /\ inc'[n].level = l /\ inc'[n].active /\ inc'[n].group = g
      /\ \A r \in DOMAIN inc : inc'[r] = inc[r]
  BY <1>1, CreateAdds
<1> HIDE DEF n
<1>3. grp' = PlannedGroups(p)
  BY <1>1 DEF CommitCreate
<1>4. /\ grp[g].open
      /\ plan[p][g] = [sev |-> PersistSeverity(g, {}, l), close |-> FALSE]
  BY <1>1 DEF GroupInv, Informed, PlanFor
<1>5. grp'[g].open /\ grp'[g].sev = PersistSeverity(g, {}, l)
  BY <1>3, <1>4, PlannedGroup
<1>6. ActiveChildren(g)' = ActiveChildren(g) \cup {n} /\ ActiveChildren(g) \subseteq DOMAIN inc
  BY <1>2 DEF Children, ActiveChildren
<1>7. PersistSeverity(g, {}, l) = MaxOf({l} \cup {inc[r].level : r \in ActiveChildren(g)})
  BY DEF PersistSeverity, ActiveChildren
<1>8. {inc'[r].level : r \in Ranked(g)'} = {l} \cup {inc[r].level : r \in ActiveChildren(g)}
  BY <1>2, <1>6 DEF Ranked
<1> QED
  BY <1>5, <1>6, <1>7, <1>8 DEF Fits

LEMMA FoundsGroup ==
  ASSUME Inv, NEW p \in Procs, CommitCreate(p), NEW g \in DOMAIN grp' \ DOMAIN grp
  PROVE  gsel[p] = 0 /\ g = Len(grp) + 1
<1>1. gsel[p] = 0
  BY DEF CommitCreate, PlannedGroups
<1>2. DOMAIN grp' = DOMAIN grp \cup {Len(grp) + 1}
  BY <1>1, CreateAdds
<1> QED
  BY <1>1, <1>2

\* or founds one.
LEMMA FoundFits ==
  ASSUME Inv, NEW p \in Procs, CommitCreate(p), NEW g \in DOMAIN grp' \ DOMAIN grp
  PROVE  Fits(g)'
<1> USE DEF Inv, Types
<1> DEFINE n == Len(inc) + 1
           l == req[p].level
<1>1. gsel[p] = 0
  BY FoundsGroup
<1>2. /\ DOMAIN inc' = DOMAIN inc \cup {n} /\ n \notin DOMAIN inc
      /\ inc'[n].level = l /\ inc'[n].active /\ inc'[n].group = g
      /\ \A r \in DOMAIN inc : inc'[r] = inc[r]
      /\ grp'[g].open /\ grp'[g].sev = l
  <2>1. g = Len(grp) + 1
    BY FoundsGroup
  <2> QED
    BY <1>1, <2>1, CreateAdds
<1> HIDE DEF n
<1>3. Children(g)' = {n}
  BY <1>2 DEF Children, TableTypes
<1>4. ActiveChildren(g)' = {n} /\ Ranked(g)' = {n}
  BY <1>2, <1>3 DEF ActiveChildren, Ranked
<1>5. {inc'[r].level : r \in Ranked(g)'} = {l}
  BY <1>2, <1>4
<1>6. MaxOf({l}) \in {l}
  <2>1. {l} \in SUBSET Severity
    BY DEF CommitCreate, CallInv
  <2> QED
    BY <2>1, MaxOfSeverities
<1> QED
  BY <1>2, <1>4, <1>5, <1>6 DEF Fits

\* A commit leaves the groups it has no plan for as they are.
LEMMA CommitSpares ==
  ASSUME Inv, GroupInv, NEW p \in Procs, Writes(p), NEW g \in DOMAIN grp,
         g \notin DOMAIN plan[p]
  PROVE  SameGroup(g)
<1> USE DEF Inv, Types
<1>1. pc[p] = "staged" /\ DOMAIN plan[p] = Targets(p)
  BY DEF Writes, CommitCreate, CommitChange, CommitResolve, GroupInv, Planned
<1>2. CASE CommitCreate(p)
  <2>1. gsel[p] # g
    BY <1>1, <1>2, RowFacts DEF CommitCreate, Targets
  <2>2. grp'[g] = grp[g]
    BY <1>2, CreateAdds DEF CommitCreate, PlannedGroups
  <2> DEFINE n == Len(inc) + 1
             h == IF gsel[p] = 0 THEN Len(grp) + 1 ELSE gsel[p]
  <2>3. h # g
    BY <2>1 DEF TableTypes
  <2>4. /\ DOMAIN inc' = DOMAIN inc \cup {n} /\ n \notin DOMAIN inc
        /\ inc'[n].group = h /\ \A r \in DOMAIN inc : inc'[r] = inc[r]
    BY <1>2, CreateAdds, Zenon
  <2> HIDE DEF n, h
  <2> QED
    BY <2>2, <2>3, <2>4 DEF SameGroup, Children
<1>3. CASE CommitChange(p) \/ CommitResolve(p)
  <2>1. /\ grp' = PlannedGroups(p) /\ DOMAIN inc' = DOMAIN inc
        /\ \A r \in DOMAIN inc : /\ inc'[r].group = inc[r].group
                                 /\ r \notin found[p] => inc'[r] = inc[r]
    BY <1>3, RowFacts DEF CommitChange, CommitResolve, Row
  <2>2. \A r \in found[p] : inc[r].group # g
    <3>1. CASE CommitChange(p)
      BY <1>1, <3>1, RowFacts DEF CommitChange, CallInv, Targets
    <3>2. CASE CommitResolve(p)
      BY <1>1, <3>2 DEF CommitResolve, Targets
    <3> QED
      BY <1>3, <3>1, <3>2
  <2> QED
    BY <2>1, <2>2 DEF SameGroup, Children, PlannedGroups
<1> QED
  BY <1>2, <1>3 DEF Writes

\* A commit that changes the tables leaves no call relying on a group it wrote,
\* unless it overtook one.
LEMMA CommitInforms ==
  ASSUME Inv, GroupInv, NEW p \in Procs, Writes(p), GNext PROVE GroupInv'
<1> USE DEF Inv, Types
<1>1. /\ pc[p] = "staged" /\ EndCall(p)
      /\ \A r \in DOMAIN inc : inc'[r].group = inc[r].group
  <2>1. CASE CommitCreate(p)
    BY <2>1, CreateAdds DEF CommitCreate
  <2>2. CASE CommitChange(p) \/ CommitResolve(p)
    BY <2>2, RowFacts DEF CommitChange, CommitResolve, Row
  <2> QED
    BY <2>1, <2>2 DEF Writes
<1>2. /\ pc'[p] = "idle" /\ gsel'[p] = 0 /\ DOMAIN plan'[p] = {}
      /\ \A q \in Procs \ {p} : SameCall(q)
  BY <1>1 DEF EndCall, SameCall, PcTypes, FoundTypes, PlanTypes
<1>3. CASE dbVars' = dbVars
  BY <1>1, <1>3, OutsideTx DEF GNext
<1>4. CASE dbVars' # dbVars
  <2>1. \A q \in Procs : Planned(q)'
    BY <1>1, <1>2, SamePlanned DEF GroupInv, Planned
  <2>2. Committed(p)
    BY <1>1, <1>2, <1>4 DEF Committed
  <2>3. ASSUME NEW g \in DOMAIN grp' \ overtaken', NEW q \in Procs PROVE Fits(g)' /\ Informed(q, g)'
    <3>1. CASE g \notin DOMAIN grp
      <4>1. CommitCreate(p)
        BY <2>3, <3>1 DEF Writes, CommitChange, CommitResolve, PlannedGroups
      <4>2. g # 0
        BY <2>3, <3>1, <4>1, FoundsGroup, RowFacts
      <4>3. gsel[q] # g /\ g \notin DOMAIN plan[q]
        BY <3>1, <4>2 DEF PlanTypes, FoundTypes
      <4>4. gsel'[q] # g /\ g \notin DOMAIN plan'[q]
        BY <1>2, <4>2, <4>3 DEF SameCall
      <4> QED
        BY <2>3, <3>1, <4>1, <4>4, FoundFits, NoReliance
    <3>2. CASE g \in DOMAIN grp /\ g \in DOMAIN plan[p]
      <4>1. g \notin overtaken /\ ~Overtakes(p, g)
        BY <2>3, <3>2 DEF GNext
      <4>2. Fits(g)'
        BY <3>2, <4>1, ChangeFits, ResolveFits, JoinFits DEF Writes
      <4>3. q # p => gsel[q] # g /\ g \notin DOMAIN plan[q]
        BY <2>2, <3>2, <4>1, RowFacts DEF Overtakes, Relies
      <4> QED
        BY <1>2, <3>2, <4>2, <4>3, NoReliance, RowFacts DEF SameCall
    <3>3. CASE g \in DOMAIN grp /\ g \notin DOMAIN plan[p]
      <4>1. SameGroup(g) /\ g \notin overtaken
        BY <2>3, <3>3, CommitSpares DEF GNext
      <4>2. Fits(g)'
        BY <3>3, <4>1, SameFits DEF GroupInv
      <4>3. gsel'[p] # g
        BY <1>2, <3>3, RowFacts
      <4> QED
        BY <1>2, <3>3, <4>1, <4>2, <4>3, SameInformed, NoReliance DEF GroupInv
    <3> QED
      BY <3>1, <3>2, <3>3
  <2> QED
    BY <2>1, <2>3 DEF GroupInv
<1> QED
  BY <1>3, <1>4

\* Every step keeps the groups in line with their children.
LEMMA GroupStep ==
  ASSUME Inv, GroupInv, [GNext]_gvars PROVE GroupInv'
<1>1. overtaken \subseteq overtaken' /\ [Next]_vars
  BY DEF GNext, gvars
<1>2. Kinds
  BY <1>1, StepKinds
<1>3. CASE Quiet
  <2>1. UNCHANGED dbVars /\ \A q \in Procs : SameCall(q)
    BY <1>3 DEF Quiet, txVars, SameCall
  <2>2. \A q \in Procs : Planned(q)'
    BY <2>1, SamePlanned DEF GroupInv, dbVars
  <2> QED
    BY <1>1, <2>1, <2>2, NoCommit
<1>4. CASE Dies
  <2>1. /\ UNCHANGED dbVars
        /\ \A q \in Procs : pc'[q] = "idle" /\ gsel'[q] = 0 /\ DOMAIN plan'[q] = {}
    BY <1>4 DEF Dies
  <2>2. \A q \in Procs : Planned(q)'
    BY <2>1 DEF Planned
  <2>3. \A g \in DOMAIN grp : g # 0
    BY RowFacts DEF Inv, Types
  <2>4. \A q \in Procs, g \in DOMAIN grp : Informed(q, g)'
    BY <2>1, <2>3, NoReliance
  <2> QED
    BY <1>1, <2>1, <2>2, <2>4, NoCommit
<1>5. ASSUME NEW p \in Procs, Starts(p) \/ Drops(p) PROVE GroupInv'
  BY <1>1, <1>5, OutsideTx DEF Starts, Drops
<1>6. ASSUME NEW p \in Procs, Find(p) PROVE GroupInv'
  <2>1. UNCHANGED dbVars
    BY <1>6 DEF Find
  <2> QED
    BY <1>1, <1>6, <2>1, OutsideTx, FindInforms
<1>7. ASSUME NEW p \in Procs, Stage(p) PROVE GroupInv'
  BY <1>1, <1>7, StageInforms
<1>8. ASSUME NEW p \in Procs, Writes(p) PROVE GroupInv'
  <2>1. CASE GNext
    BY <1>8, <2>1, CommitInforms
  <2>2. CASE UNCHANGED gvars
    <3>1. UNCHANGED <<dbVars, overtaken>> /\ \A q \in Procs : SameCall(q)
      BY <2>2 DEF gvars, vars, txVars, SameCall
    <3>2. \A q \in Procs : Planned(q)'
      BY <3>1, SamePlanned DEF GroupInv, dbVars
    <3> QED
      BY <3>1, <3>2, NoCommit
  <2> QED
    BY <2>1, <2>2
<1> QED
  BY <1>2, <1>3, <1>4, <1>5, <1>6, <1>7, <1>8 DEF Kinds, Writes

\* However many transactions overlap, a group that none of them overtook is open
\* exactly while a child is active and has its peak severity, and once closed the
\* peak of all its children, whatever calls, failures and crashes come between.
THEOREM GroupsFollowChildren == GSpec => []GroupTracksChildren
<1>1. GSpec => Spec
  <2>1. GInit => Init
    BY DEF GInit
  <2>2. [GNext]_gvars => [Next]_vars
    BY DEF GNext, gvars
  <2> QED
    BY <2>1, <2>2, PTL DEF GSpec, Spec
<1>2. GInit => GroupInv
  BY EmptySeq DEF GInit, Init, GroupInv, Planned
<1>3. Inv /\ GroupInv /\ [GNext]_gvars => GroupInv'
  BY GroupStep
<1>4. GroupInv => GroupTracksChildren
  BY DEF GroupInv, GroupTracksChildren, Fits, ActiveChildren, Ranked
<1> QED
  BY <1>1, <1>2, <1>3, <1>4, Inductive, PTL DEF GSpec
=============================================================================
