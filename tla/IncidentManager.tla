--------------------------- MODULE IncidentManager ---------------------------
(***************************************************************************)
(* agent/incident/manager/IncidentManager.ts: the state machine between    *)
(* the detectors and the incident tables.                                  *)
(*                                                                         *)
(* The manager keeps every active incident twice: in memory (mem), changed *)
(* synchronously at the start of a call, and in the database (inc, grp),   *)
(* changed by an interactive READ COMMITTED transaction that the call      *)
(* awaits.  Calls of different loops interleave at the awaits.  A call is  *)
(* cut where it meets the database:                                        *)
(*   begin   memory is changed, the transaction has not started            *)
(*   found   the first reads are done (findFirst / findMany, the group)    *)
(*   staged  rows are written and locked, the group's severity is          *)
(*           recomputed, nothing is visible to others yet                  *)
(* and Commit makes the writes visible and ends the call.  A failure of    *)
(* the transaction is swallowed; memory keeps what the call wrote there.   *)
(*                                                                         *)
(* Abstractions.  A key stands for a (symbol, source) pair.  Time is kept  *)
(* as the set of entries older than the TTL and as a free choice whether   *)
(* an open group still lies in the grouping window.  Reasons, actors and   *)
(* timestamps are dropped.  The alert sent after a report is in no state   *)
(* of this module.                                                         *)
(***************************************************************************)
EXTENDS Integers, Sequences, FiniteSets

CONSTANTS
  Keys,        \* incident identities, "symbol:source" or a global source
  Symbol,      \* Symbol[k]: the symbol of k, or Global
  Global,      \* the symbol of an incident without one
  Infra,       \* the keys whose source isInfrastructureSource accepts
  Exempt,      \* HEARTBEAT and BROKER_CONNECTION, never expired by the TTL
  Sim,         \* the keys clearSimulationIncidents selects
  Families,    \* the sets of keys one source prefix selects
  Detectors,   \* loops that report: infrastructure, operations, anomaly
  Owner,       \* Owner[k]: the one loop that reports and resolves k
  Labs,        \* the LAB_RESET subscription, which clears simulated incidents
  Operators,   \* callers of the manual recovery resolveIncident
  Sweeper,     \* the auto-resolution loop
  Levels,      \* the severities reported
  PoolSize,    \* transactions the connection pool runs at once
  MaxCalls, MaxFailures, MaxCrashes   \* bounds of the model

InfraGroup == "INFRA:GLOBAL"
Severity   == 1..6      \* SEVERITY_ORDER: INFO .. CRITICAL
None       == 0         \* no active incident in memory

ASSUME ConstantsAssumption ==
  /\ Infra \subseteq Keys /\ Exempt \subseteq Keys /\ Sim \subseteq Keys
  /\ Families \subseteq SUBSET Keys
  /\ DOMAIN Symbol = Keys
  /\ InfraGroup \notin {Symbol[k] : k \in Keys}
  /\ \A k \in Exempt : Symbol[k] = Global
  /\ Owner \in [Keys -> Detectors]
  /\ Sweeper \notin Detectors \cup Operators \cup Labs
  /\ Detectors \cap (Operators \cup Labs) = {}
  /\ Levels \subseteq Severity
  /\ {PoolSize, MaxCalls, MaxFailures, MaxCrashes} \subseteq Nat

Procs == Detectors \cup Labs \cup Operators \cup {Sweeper}

VARIABLES
  up,        \* the agent process runs
  mem,       \* this.state.symbols and this.globalIncidents: level or None
  old,       \* entries of mem whose since lies more than the TTL back
  pc,        \* where each loop's call to the manager stands
  req,       \* the call: persist one key at a level, or resolve a set of keys
  found,     \* the incident rows the transaction has read
  gsel,      \* the group persistIncident picked for a new row, 0 to create one
  plan,      \* the group updates a staged transaction will commit
  inc,       \* table incidents, the row's id is its index
  grp,       \* table incident_groups
  inflight,  \* publishTransition calls started and not yet inserted
  outbox,    \* transition events in incident_outbox
  sweep,     \* which map the auto-resolution loop is walking, or "off"
  todo,      \* the keys of that map it has yet to visit
  calls, failures, crashes

dbVars    == <<inc, grp>>
txVars    == <<pc, req, found, gsel, plan>>
sweepVars == <<sweep, todo>>
vars == <<up, mem, old, txVars, dbVars, inflight, outbox, sweepVars,
          calls, failures, crashes>>

Row     == [key: Keys, level: Severity, active: BOOLEAN, group: Nat]
Group   == [corr: {Symbol[k] : k \in Keys} \cup {InfraGroup},
            sev: Severity, open: BOOLEAN]
Request == [op: {"persist", "resolve"}, keys: SUBSET Keys, level: Severity \cup {None}]
Event   == [kind: {"CREATED", "STATE_CHANGED", "RESOLVED"}, row: Nat]
NoCall  == [op |-> "resolve", keys |-> {}, level |-> None]

MaxOf(S) == CHOOSE x \in S : \A y \in S : y <= x

IsGlobal(k)   == Symbol[k] = Global
ActiveRows(K) == {r \in DOMAIN inc : inc[r].active /\ inc[r].key \in K}
Children(g)   == {r \in DOMAIN inc : inc[r].group = g}

(***************************************************************************)
(* Grouping.  corr is the correlation key; a group created for an          *)
(* infrastructure source has type INFRASTRUCTURE, any other OPERATIONS.    *)
(***************************************************************************)
CorrelationKey(k) == IF k \in Infra THEN InfraGroup ELSE Symbol[k]

\* The groups a new row for k may join: a symbol's own group, else the global
\* one; for a global operations incident any operations group.  Which of them
\* lie in the window is time's choice, and so is finding none.
GroupChoices(k) ==
  {0} \cup {g \in DOMAIN grp :
              /\ grp[g].open
              /\ CASE k \in Infra -> grp[g].corr = InfraGroup
                   [] IsGlobal(k) -> grp[g].corr # InfraGroup
                   [] OTHER       -> grp[g].corr \in {Symbol[k], Global}}

(***************************************************************************)
(* Starting a call: the synchronous part, before the first await.          *)
(***************************************************************************)
Begin(p, r) ==
  /\ pc' = [pc EXCEPT ![p] = "begin"]
  /\ req' = [req EXCEPT ![p] = r]
  /\ UNCHANGED <<found, gsel, plan>>

Idle(p) == up /\ pc[p] = "idle"

Forget(K) ==
  /\ mem' = [k \in Keys |-> IF k \in K THEN None ELSE mem[k]]
  /\ old' = old \ K

Counted(p) ==
  /\ p # Sweeper => calls < MaxCalls
  /\ calls' = IF p = Sweeper THEN calls ELSE calls + 1

\* A report of an active incident at the same level is dropped.  A symbol
\* report may carry a since that is already past the TTL (the anomaly detector
\* passes the order's observedAt); a change of level keeps the entry's since.
ReportIncident(k, l) ==
  LET p == Owner[k] IN
  /\ Idle(p)
  /\ mem[k] # l
  /\ mem' = [mem EXCEPT ![k] = l]
  /\ IF mem[k] = None /\ ~IsGlobal(k)
       THEN old' \in {old, old \cup {k}}
       ELSE old' = old
  /\ Begin(p, [op |-> "persist", keys |-> {k}, level |-> l])
  /\ Counted(p)
  /\ UNCHANGED <<up, dbVars, inflight, outbox, sweepVars, failures, crashes>>

\* Every resolving call clears memory at once and then runs resolveAndLogIncidents.
StartResolve(p, cleared, selected) ==
  /\ Forget(cleared)
  /\ Begin(p, [op |-> "resolve", keys |-> selected, level |-> None])
  /\ Counted(p)

CallerResolves(p, cleared, selected) ==
  /\ Idle(p)
  /\ StartResolve(p, cleared, selected)
  /\ UNCHANGED <<up, dbVars, inflight, outbox, sweepVars, failures, crashes>>

\* resolveIncidentBySource, by the loop that found the component healthy.
ResolveBySource(k) ==
  mem[k] # None /\ CallerResolves(Owner[k], {k}, {k})

\* resolveIncidentsBySourcePrefix: only what memory holds is resolved.
ResolveByPrefix(p, F) ==
  LET K == {k \in F : mem[k] # None} IN
  /\ K # {}
  /\ \A k \in F : Owner[k] = p
  /\ CallerResolves(p, K, K)

\* resolveIncident(symbol) needs an entry in memory, resolveIncident(null) does
\* not; both resolve every active row of the symbol, in memory or not.
ResolveSymbol(p, s) ==
  LET K == {k \in Keys : Symbol[k] = s} IN
  /\ s # Global => \E k \in K : mem[k] # None
  /\ CallerResolves(p, K, K)

\* clearSimulationIncidents, on LAB_RESET.
ClearSimulation(p) == CallerResolves(p, Sim, Sim)

(***************************************************************************)
(* The auto-resolution loop.  It walks a snapshot of the symbol keys, then *)
(* the map of global incidents.  A snapshot key that another call removed  *)
(* meanwhile is dereferenced as undefined: the sweep throws and the rest   *)
(* of it is skipped until the next interval.  A global incident that has   *)
(* gone is passed over.                                                    *)
(***************************************************************************)
Age(k) ==
  /\ up /\ mem[k] # None /\ k \notin old
  /\ old' = old \cup {k}
  /\ UNCHANGED <<up, mem, txVars, dbVars, inflight, outbox, sweepVars,
                 calls, failures, crashes>>

SweepMoves(s, t) ==
  /\ sweep' = s /\ todo' = t
  /\ UNCHANGED <<up, dbVars, inflight, outbox, failures, crashes>>

SweepStart ==
  /\ Idle(Sweeper) /\ sweep = "off"
  /\ SweepMoves("symbols", {k \in Keys : mem[k] # None /\ ~IsGlobal(k)})
  /\ UNCHANGED <<mem, old, txVars, calls>>

SweepSymbol(k) ==
  /\ Idle(Sweeper) /\ sweep = "symbols" /\ k \in todo
  /\ IF mem[k] = None
       THEN SweepMoves("off", {}) /\ UNCHANGED <<mem, old, txVars, calls>>
       ELSE /\ SweepMoves("symbols", todo \ {k})
            /\ IF k \in old
                 THEN StartResolve(Sweeper, {k}, {k})
                 ELSE UNCHANGED <<mem, old, txVars, calls>>

SweepTurns ==
  /\ Idle(Sweeper) /\ sweep = "symbols" /\ todo = {}
  /\ SweepMoves("globals", {k \in Keys : mem[k] # None /\ IsGlobal(k)})
  /\ UNCHANGED <<mem, old, txVars, calls>>

\* Mutation of Expired: HEARTBEAT and BROKER_CONNECTION expire too.
ExpiredWhateverSource(k) == IsGlobal(k) /\ mem[k] # None /\ k \in old

Expired(k) == IsGlobal(k) /\ k \notin Exempt /\ mem[k] # None /\ k \in old

SweepGlobal(k) ==
  /\ Idle(Sweeper) /\ sweep = "globals" /\ k \in todo
  /\ SweepMoves("globals", todo \ {k})
  /\ IF Expired(k) THEN StartResolve(Sweeper, {k}, {k})
                   ELSE UNCHANGED <<mem, old, txVars, calls>>

\* Mutation of SweepEnd: the loop's running flag stays set.
SweepNeverEnds ==
  /\ Idle(Sweeper) /\ sweep = "globals" /\ todo = {}
  /\ SweepMoves("done", {})
  /\ UNCHANGED <<mem, old, txVars, calls>>

SweepEnd ==
  /\ Idle(Sweeper) /\ sweep = "globals" /\ todo = {}
  /\ SweepMoves("off", {})
  /\ UNCHANGED <<mem, old, txVars, calls>>

(***************************************************************************)
(* The transactions.                                                       *)
(***************************************************************************)
InTx(p)  == pc[p] \in {"found", "staged"}
Locked   == UNION {found[p] : p \in {q \in Procs : pc[q] = "staged"}}
TxFrame  == UNCHANGED <<up, mem, old, sweepVars, calls, crashes>>

EndCall(p) ==
  /\ pc' = [pc EXCEPT ![p] = "idle"]
  /\ req' = [req EXCEPT ![p] = NoCall]
  /\ found' = [found EXCEPT ![p] = {}]
  /\ gsel' = [gsel EXCEPT ![p] = 0]
  /\ plan' = [plan EXCEPT ![p] = <<>>]

\* Mutations of Find: the active row is looked up by key and severity; a resolving
\* call that finds nothing is left waiting.
FindAtLevel(p) ==
  /\ up /\ pc[p] = "begin"
  /\ Cardinality({q \in Procs : InTx(q)}) < PoolSize
  /\ LET active == ActiveRows(req[p].keys)
         hits == IF req[p].op = "persist"
                   THEN {r \in active : inc[r].level = req[p].level} ELSE active
     IN /\ found' = [found EXCEPT ![p] = hits]
        /\ gsel' = [gsel EXCEPT ![p] = IF req[p].op = "persist" /\ hits # {}
                                        THEN inc[MaxOf(hits)].group ELSE 0]
        /\ pc' = [pc EXCEPT ![p] = "found"]
        /\ UNCHANGED <<req, plan>>
  /\ TxFrame /\ UNCHANGED <<dbVars, inflight, outbox, failures>>

FindOrWait(p) ==
  /\ up /\ pc[p] = "begin"
  /\ req[p].op = "resolve" => ActiveRows(req[p].keys) # {}
  /\ found' = [found EXCEPT ![p] = ActiveRows(req[p].keys)]
  /\ pc' = [pc EXCEPT ![p] = "found"]
  /\ UNCHANGED <<req, gsel, plan>>
  /\ TxFrame /\ UNCHANGED <<dbVars, inflight, outbox, failures>>

\* The first read.  persistIncident looks for an unresolved row of the key and,
\* finding none, for a group; resolveAndLogIncidents reads the unresolved rows
\* and, finding none, is done.
Find(p) ==
  /\ up /\ pc[p] = "begin"
  /\ Cardinality({q \in Procs : InTx(q)}) < PoolSize
  /\ LET hits == ActiveRows(req[p].keys)
         k    == CHOOSE x \in req[p].keys : TRUE
     IN \/ /\ req[p].op = "persist" /\ hits # {}
           /\ \E r \in hits : /\ found' = [found EXCEPT ![p] = {r}]
                              /\ gsel' = [gsel EXCEPT ![p] = inc[r].group]
           /\ pc' = [pc EXCEPT ![p] = "found"] /\ UNCHANGED <<req, plan>>
        \/ /\ req[p].op = "persist" /\ hits = {}
           /\ \E g \in GroupChoices(k) : gsel' = [gsel EXCEPT ![p] = g]
           /\ pc' = [pc EXCEPT ![p] = "found"] /\ UNCHANGED <<req, found, plan>>
        \/ /\ req[p].op = "resolve" /\ hits # {}
           /\ found' = [found EXCEPT ![p] = hits]
           /\ pc' = [pc EXCEPT ![p] = "found"] /\ UNCHANGED <<req, gsel, plan>>
        \/ req[p].op = "resolve" /\ hits = {} /\ EndCall(p)
  /\ TxFrame /\ UNCHANGED <<dbVars, inflight, outbox, failures>>

\* persistIncident's severity of group g, as read after its own write of level l
\* to the row it found or is creating: the peak of the active children, or of
\* all children when none is active.
PersistSeverity(g, rows, l) ==
  LET level(r) == IF r \in rows THEN l ELSE inc[r].level
      active   == {r \in Children(g) : inc[r].active}
      own      == IF rows = {} THEN {l} ELSE {}
      seen     == own \cup {level(r) : r \in active}
  IN  IF seen # {} THEN MaxOf(seen) ELSE MaxOf({level(r) : r \in Children(g)})

\* Mutation of ResolvePlan: the children are read before the rows are resolved.
ResolvePlanReadTooEarly(g, rows) ==
  LET active == {r \in Children(g) : inc[r].active}
  IN  [sev |-> MaxOf({inc[r].level : r \in active}), close |-> active = {}]

\* resolveAndLogIncidents' update of group g once rows are resolved: a group
\* with no active child left closes at the peak level of all its children.
ResolvePlan(g, rows) ==
  LET rest == {r \in Children(g) \ rows : inc[r].active}
  IN  [sev   |-> MaxOf({inc[r].level : r \in IF rest = {} THEN Children(g) ELSE rest}),
       close |-> rest = {}]

\* Mutation of Stage: the event is published inside the transaction.
StageAndPublish(p) ==
  /\ up /\ pc[p] = "found"
  /\ found[p] \cap Locked = {}
  /\ pc' = [pc EXCEPT ![p] = "staged"]
  /\ inflight' = inflight \cup {[kind |-> "RESOLVED", row |-> r] :
                                  r \in IF req[p].op = "resolve" THEN found[p] ELSE {}}
  /\ UNCHANGED <<req, found, gsel, plan>>
  /\ TxFrame /\ UNCHANGED <<dbVars, outbox, failures>>

\* The writes and the re-read of the groups' children.  Updating a row waits
\* for the transaction that holds its lock.
Stage(p) ==
  /\ up /\ pc[p] = "found"
  /\ found[p] \cap Locked = {}
  /\ pc' = [pc EXCEPT ![p] = "staged"]
  /\ plan' = [plan EXCEPT ![p] =
       IF req[p].op = "persist"
         THEN [g \in {gsel[p]} \ {0} |->
                 [sev |-> PersistSeverity(g, found[p], req[p].level), close |-> FALSE]]
         ELSE [g \in {inc[r].group : r \in found[p]} |-> ResolvePlan(g, found[p])]]
  /\ UNCHANGED <<req, found, gsel>>
  /\ TxFrame /\ UNCHANGED <<dbVars, inflight, outbox, failures>>

PlannedGroups(p) ==
  [g \in DOMAIN grp |->
     IF g \in DOMAIN plan[p]
       THEN [grp[g] EXCEPT !.sev = plan[p][g].sev, !.open = @ /\ ~plan[p][g].close]
       ELSE grp[g]]

\* The event is handed to the outbox publisher after the commit, outside it.
Publish(kind, rows) == inflight' = inflight \cup {[kind |-> kind, row |-> r] : r \in rows}

\* Mutation of CommitCreate: the row is linked to a group that is not created.
CommitCreateUnlinked(p) ==
  LET k == CHOOSE x \in req[p].keys : TRUE
      l == req[p].level
  IN /\ up /\ pc[p] = "staged" /\ req[p].op = "persist" /\ found[p] = {}
     /\ inc' = Append(inc, [key |-> k, level |-> l, active |-> TRUE,
                            group |-> Len(grp) + 1])
     /\ grp' = PlannedGroups(p)
     /\ Publish("CREATED", {Len(inc) + 1})
     /\ EndCall(p) /\ TxFrame /\ UNCHANGED <<outbox, failures>>

\* A new row, in the group picked or in one created with it.
CommitCreate(p) ==
  LET k == CHOOSE x \in req[p].keys : TRUE
      l == req[p].level
      g == IF gsel[p] = 0 THEN Len(grp) + 1 ELSE gsel[p]
  IN /\ up /\ pc[p] = "staged" /\ req[p].op = "persist" /\ found[p] = {}
     /\ inc' = Append(inc, [key |-> k, level |-> l, active |-> TRUE, group |-> g])
     /\ grp' = IF gsel[p] = 0
                 THEN Append(grp, [corr |-> CorrelationKey(k), sev |-> l, open |-> TRUE])
                 ELSE PlannedGroups(p)
     /\ Publish("CREATED", {Len(inc) + 1})
     /\ EndCall(p) /\ TxFrame /\ UNCHANGED <<outbox, failures>>

\* Mutation of CommitChange: the update also sets the row back to unresolved.
CommitReopen(p) ==
  LET l == req[p].level IN
  /\ up /\ pc[p] = "staged" /\ req[p].op = "persist" /\ found[p] # {}
  /\ inc' = [r \in DOMAIN inc |->
               IF r \in found[p] THEN [inc[r] EXCEPT !.level = l, !.active = TRUE]
                                 ELSE inc[r]]
  /\ grp' = PlannedGroups(p)
  /\ Publish("STATE_CHANGED", found[p])
  /\ EndCall(p) /\ TxFrame /\ UNCHANGED <<outbox, failures>>

\* A new level for the row found, whether or not it is still unresolved.
CommitChange(p) ==
  LET l == req[p].level IN
  /\ up /\ pc[p] = "staged" /\ req[p].op = "persist" /\ found[p] # {}
  /\ inc' = [r \in DOMAIN inc |->
               IF r \in found[p] THEN [inc[r] EXCEPT !.level = l] ELSE inc[r]]
  /\ grp' = PlannedGroups(p)
  /\ Publish("STATE_CHANGED", found[p])
  /\ EndCall(p) /\ TxFrame /\ UNCHANGED <<outbox, failures>>

CommitResolve(p) ==
  /\ up /\ pc[p] = "staged" /\ req[p].op = "resolve"
  /\ inc' = [r \in DOMAIN inc |->
               IF r \in found[p] THEN [inc[r] EXCEPT !.active = FALSE] ELSE inc[r]]
  /\ grp' = PlannedGroups(p)
  /\ Publish("RESOLVED", found[p])
  /\ EndCall(p) /\ TxFrame /\ UNCHANGED <<outbox, failures>>

\* The transaction fails (connection, timeout, deadlock): logged and swallowed.
TxFail(p) ==
  /\ up /\ pc[p] # "idle" /\ failures < MaxFailures
  /\ failures' = failures + 1
  /\ EndCall(p) /\ TxFrame /\ UNCHANGED <<dbVars, inflight, outbox>>

(***************************************************************************)
(* The fire-and-forget insert into the outbox, and its failure.            *)
(***************************************************************************)
Enqueue(e) ==
  /\ up /\ e \in inflight
  /\ inflight' = inflight \ {e}
  /\ outbox' = outbox \cup {e}
  /\ UNCHANGED <<up, mem, old, txVars, dbVars, sweepVars, calls, failures, crashes>>

EnqueueFail(e) ==
  /\ up /\ e \in inflight /\ failures < MaxFailures
  /\ failures' = failures + 1
  /\ inflight' = inflight \ {e}
  /\ UNCHANGED <<up, mem, old, txVars, dbVars, outbox, sweepVars, calls, crashes>>

(***************************************************************************)
(* Crash of the process and the rehydration of memory at start-up.         *)
(***************************************************************************)
Crash ==
  /\ up /\ crashes < MaxCrashes
  /\ crashes' = crashes + 1
  /\ up' = FALSE
  /\ Forget(Keys)
  /\ pc' = [p \in Procs |-> "idle"] /\ req' = [p \in Procs |-> NoCall]
  /\ found' = [p \in Procs |-> {}] /\ gsel' = [p \in Procs |-> 0]
  /\ plan' = [p \in Procs |-> <<>>]
  /\ inflight' = {}
  /\ sweep' = "off" /\ todo' = {}
  /\ UNCHANGED <<dbVars, outbox, calls, failures>>

\* The query has no order: were there several rows of a key, any could come last.
Rehydrated(k) ==
  IF ActiveRows({k}) = {} THEN None ELSE inc[CHOOSE r \in ActiveRows({k}) : TRUE].level

\* start() awaits init() before any loop runs.
InitFromDb ==
  /\ ~up /\ up' = TRUE
  /\ mem' = [k \in Keys |-> Rehydrated(k)]
  /\ \E S \in SUBSET {k \in Keys : Rehydrated(k) # None} : old' = S
  /\ UNCHANGED <<txVars, dbVars, inflight, outbox, sweepVars, calls, failures, crashes>>

\* init() swallows a failed query: the agent starts with an empty memory.
InitFails ==
  /\ ~up /\ up' = TRUE
  /\ failures < MaxFailures /\ failures' = failures + 1
  /\ UNCHANGED <<mem, old, txVars, dbVars, inflight, outbox, sweepVars, calls, crashes>>

-----------------------------------------------------------------------------
Init ==
  /\ up = TRUE
  /\ mem = [k \in Keys |-> None] /\ old = {}
  /\ pc = [p \in Procs |-> "idle"] /\ req = [p \in Procs |-> NoCall]
  /\ found = [p \in Procs |-> {}] /\ gsel = [p \in Procs |-> 0]
  /\ plan = [p \in Procs |-> <<>>]
  /\ inc = <<>> /\ grp = <<>>
  /\ inflight = {} /\ outbox = {}
  /\ sweep = "off" /\ todo = {}
  /\ calls = 0 /\ failures = 0 /\ crashes = 0

Tx(p) == \/ Find(p) \/ Stage(p)
         \/ CommitCreate(p) \/ CommitChange(p) \/ CommitResolve(p)

Next ==
  \/ \E k \in Keys, l \in Levels : ReportIncident(k, l)
  \/ \E k \in Keys : ResolveBySource(k)
  \/ \E p \in Detectors, F \in Families : ResolveByPrefix(p, F)
  \/ \E p \in Operators, k \in Keys : ResolveSymbol(p, Symbol[k])
  \/ \E p \in Labs : ClearSimulation(p)
  \/ \E k \in Keys : Age(k)
  \/ SweepStart
  \/ \E k \in Keys : SweepSymbol(k)
  \/ SweepTurns
  \/ \E k \in Keys : SweepGlobal(k)
  \/ SweepEnd
  \/ \E p \in Procs : Find(p)
  \/ \E p \in Procs : Stage(p)
  \/ \E p \in Procs : CommitCreate(p)
  \/ \E p \in Procs : CommitChange(p)
  \/ \E p \in Procs : CommitResolve(p)
  \/ \E p \in Procs : TxFail(p)
  \/ \E e \in inflight : Enqueue(e)
  \/ \E e \in inflight : EnqueueFail(e)
  \/ Crash
  \/ InitFromDb
  \/ InitFails

Spec == Init /\ [][Next]_vars

\* Node keeps running the callbacks of a process that is up, and the database
\* answers: a waiting transaction gets its turn and ends.  The resolution
\* interval keeps firing.  Nothing obliges a detector to call.
Sweep == \/ SweepStart \/ SweepTurns \/ SweepEnd
         \/ \E k \in Keys : SweepSymbol(k) \/ SweepGlobal(k)

Fairness == WF_vars(Sweep) /\ \A p \in Procs : WF_vars(Tx(p))

-----------------------------------------------------------------------------
(***************************************************************************)
(* Properties.                                                             *)
(***************************************************************************)
TypeOK ==
  /\ up \in BOOLEAN
  /\ mem \in [Keys -> Severity \cup {None}]
  /\ old \subseteq Keys
  /\ pc \in [Procs -> {"idle", "begin", "found", "staged"}]
  /\ req \in [Procs -> Request]
  /\ found \in [Procs -> SUBSET DOMAIN inc]
  /\ gsel \in [Procs -> {0} \cup DOMAIN grp]
  /\ DOMAIN plan = Procs
  /\ \A p \in Procs : /\ DOMAIN plan[p] \subseteq DOMAIN grp
                      /\ \A g \in DOMAIN plan[p] :
                           plan[p][g] \in [sev : Severity, close : BOOLEAN]
  /\ inc \in Seq(Row) /\ grp \in Seq(Group)
  /\ \A r \in DOMAIN inc : inc[r].group \in DOMAIN grp
  /\ inflight \subseteq Event /\ outbox \subseteq Event
  /\ sweep \in {"off", "symbols", "globals"}
  /\ todo \subseteq Keys
  /\ calls \in Nat /\ failures \in Nat /\ crashes \in Nat

\* An incident is never recorded twice at the same time: however reports,
\* recoveries, the TTL sweep, failures and restarts interleave, at most one
\* unresolved row exists per (symbol, source).  No constraint of the schema says
\* so; it rests on findFirst in persistIncident and on each source having one
\* reporting loop.
OneActiveRow ==
  \A r, s \in DOMAIN inc :
    inc[r].active /\ inc[s].active /\ inc[r].key = inc[s].key => r = s

\* While its loop makes no call, an incident the TTL may not touch has the same
\* level in memory and in the database, across crashes and restarts, as long as
\* no database call failed.
ExemptAgrees ==
  up /\ failures = 0 =>
    \A k \in Exempt \ Sim : pc[Owner[k]] = "idle" => mem[k] = Rehydrated(k)

\* No event runs ahead of the tables: what is handed to the outbox is about a
\* committed row, and a RESOLVED event about one that is resolved.
NoPhantomEvents ==
  \A e \in inflight \cup outbox :
    /\ e.row \in DOMAIN inc
    /\ e.kind = "RESOLVED" => ~inc[e.row].active

\* The incident table as a ledger of episodes, one open at a time per key.
Ledger == INSTANCE IncidentLedger WITH
  level    <- [k \in Keys |-> Rehydrated(k)],
  episodes <- [k \in Keys |-> Cardinality({r \in DOMAIN inc : inc[r].key = k})]

LedgerSpec == Ledger!Spec

\* Every call to the manager returns: no loop is left waiting on another.
CallsReturn == \A p \in Procs : pc[p] # "idle" ~> pc[p] = "idle"

\* An entry past the TTL does not stay in memory: the sweep comes round to it,
\* although it waits for its own transactions and may be cut short.
ExpiredAreResolved == \A k \in Keys \ Exempt : k \in old ~> k \notin old

\* docs/architecture/12-persistence-architecture.md:128: an incident transition
\* cannot be committed without its outbox notification being queued.
AtomicStateOutbox ==
  \A r \in DOMAIN inc : [kind |-> "CREATED", row |-> r] \in inflight \cup outbox

\* tests/runTests.ts:2435: a group remains open while a child is active.
OpenWhileChildActive ==
  \A r \in DOMAIN inc : inc[r].active => grp[inc[r].group].open
=============================================================================
