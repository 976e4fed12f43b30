---------------------------- MODULE WatchdogLoops ----------------------------
(***************************************************************************)
(* WatchdogOrchestrator's loops, and what they share: the alerts           *)
(* (Alerting) and the active incidents IncidentManager keeps in memory.    *)
(*                                                                         *)
(* A loop takes its checks one after another; the flag <loop>Running keeps *)
(* it from overlapping itself, nothing keeps it from overlapping the       *)
(* others.  A check reads the world and reaches a verdict in one step; the *)
(* calls that follow from it are awaited one at a time, so they are kept   *)
(* as a list, todo, and each is a step.  A call that throws drops the rest *)
(* of the list for what the enclosing catch does, rescue.                  *)
(*                                                                         *)
(* Abstractions.  The incident tables are IncidentManager's own model's;   *)
(* here only the in-memory level matters.  There is no clock: the TTL of   *)
(* an incident may have passed at any moment.  plan leaves out the checks  *)
(* that never fail in a behaviour: such a check changes nothing.           *)
(***************************************************************************)
EXTENDS Alerting, Sequences

CONSTANTS
  Plans,       \* bound: the plans, [loop -> its checks in order], explored
  Violations   \* bound: the violations explored

Loops == {"infra", "ops", "runtime", "anomaly"}

\* The source of the incident a trade's violation raises: OP:trade:symbol:violation.
TradeSource ==
  [DUPLICATE_FILL |-> "OP_DUPLICATE", BACKWARD_TRANSITION |-> "OP_BACKWARD"]

TradeSources == {TradeSource[v] : v \in Violations}
SymbolSources == TradeSources \cup {"OP_STUCK"}

GlobalSources ==
  {"VM", "DOCKER", "FREQTRADE", "NETWORK", "EXCHANGE_REACHABILITY", "DNS",
   "HEARTBEAT", "BROKER_CONNECTION", "LIFECYCLE_INTEGRITY"}

Sources == GlobalSources \cup SymbolSources

VARIABLES
  plan,       \* fixed in a behaviour
  at,         \* at[l]: the next check of l's cycle, 0 when l is not running
  todo,       \* todo[l]: calls l's current check has still to make
  rescue,     \* rescue[l]: the calls made instead if one of them throws
  incident,   \* incident[s]: level of s's active incident, or "none"
  owed        \* history: the incident the infra loop's last verdict calls for

loopVars == <<at, todo, rescue>>
vitals   == <<plan, incident, owed>>

NothingOwed == [source |-> "none", level |-> "none"]

Alert(k)      == [do |-> "alert", key |-> k]
Report(s, lv) == [do |-> "report", source |-> s, level |-> lv]
Resolve(S)    == [do |-> "resolve", sources |-> S]
Assess(V, b)  == [do |-> "assess", seen |-> V, low |-> b]
HaltBot       == [do |-> "halt"]

\* A counter that stops at the limit it is compared with.
UpTo(n, limit) == IF n < limit THEN n ELSE limit

LoopsInit ==
  /\ AlertingInit
  /\ plan \in Plans
  /\ at = [l \in Loops |-> 0]
  /\ todo = [l \in Loops |-> <<>>]
  /\ rescue = [l \in Loops |-> <<>>]
  /\ incident = [s \in Sources |-> "none"]
  /\ owed = NothingOwed

\* The key of the alert reportIncident sends: dedupKey is not set, so it is
\* level:title:entity, one for all global incidents of an alert level.
IncidentKey(s, lv) ==
  CASE s \in SymbolSources -> "symbol_incident"
    [] s \notin SymbolSources /\ lv = "CRITICAL" -> "global_critical"
    [] s \notin SymbolSources /\ lv # "CRITICAL" -> "global_warning"

(***************************************************************************)
(* A cycle.                                                                *)
(***************************************************************************)
Free(l) == step[l] = "idle" /\ todo[l] = <<>>

\* setInterval fires and the loop is not running.
Begin(l) ==
  /\ at[l] = 0 /\ plan[l] # <<>>
  /\ at' = [at EXCEPT ![l] = 1]
  /\ UNCHANGED <<todo, rescue, vitals, alertVars>>

\* The loop is at check c.
Runs(l, c) == Free(l) /\ at[l] \in 1..Len(plan[l]) /\ plan[l][at[l]] = c

\* The check's verdict: the calls it leads to.
Conclude(l, calls, otherwise) ==
  /\ todo' = [todo EXCEPT ![l] = calls]
  /\ rescue' = [rescue EXCEPT ![l] = otherwise]
  /\ at' = [at EXCEPT ![l] = @ + 1]
  /\ UNCHANGED <<plan, incident, recent, step, about, alerting, admitted, unlogged>>

End(l) ==
  /\ Free(l) /\ at[l] > Len(plan[l])
  /\ at' = [at EXCEPT ![l] = 0]
  /\ UNCHANGED <<todo, rescue, vitals, alertVars>>

(***************************************************************************)
(* The calls.                                                              *)
(***************************************************************************)
Calls(l, what) == step[l] = "idle" /\ todo[l] # <<>> /\ Head(todo[l]).do = what
Done(l) == todo' = [todo EXCEPT ![l] = Tail(@)]

CallAlert(l) ==
  /\ Calls(l, "alert")
  /\ \/ Admit(l, Head(todo[l]).key)
     \/ Suppress(l, Head(todo[l]).key)
  /\ Done(l)
  /\ UNCHANGED <<at, rescue, vitals>>

\* reportIncident: a report of the level the incident has is dropped; otherwise
\* it is recorded at once, written (a failed write is swallowed) and announced.
CallReport(l) ==
  LET e == Head(todo[l]) IN
  /\ Calls(l, "report")
  /\ IF incident[e.source] = e.level
       THEN Done(l) /\ UNCHANGED incident
       ELSE /\ incident' = [incident EXCEPT ![e.source] = e.level]
            /\ todo' = [todo EXCEPT
                          ![l] = <<Alert(IncidentKey(e.source, e.level))>> \o Tail(@)]
  /\ rescue' = [rescue EXCEPT ![l] = <<>>]
  /\ owed' = IF e.source = owed.source THEN NothingOwed ELSE owed
  /\ UNCHANGED <<at, plan, alertVars>>

CallResolve(l) ==
  /\ Calls(l, "resolve")
  /\ incident' = [s \in Sources |->
                    IF s \in Head(todo[l]).sources THEN "none" ELSE incident[s]]
  /\ Done(l)
  /\ UNCHANGED <<at, rescue, plan, owed, alertVars>>

AlertProceeds(l) ==
  /\ Logged(l) \/ NotLogged(l) \/ Dispatched(l)
  /\ UNCHANGED <<loopVars, vitals>>

\* Mutation of AlertFails: the catch does nothing.
AlertFailsQuietly(l) ==
  /\ DispatchThrows(l)
  /\ todo' = [todo EXCEPT ![l] = <<>>]
  /\ rescue' = [rescue EXCEPT ![l] = <<>>]
  /\ at' = [at EXCEPT ![l] = IF l = "runtime" THEN Len(plan[l]) + 1 ELSE @]
  /\ UNCHANGED vitals

\* The transport threw.  The runtime loop catches it around all the checks of
\* the strategy; the other loops around one check.
AlertFails(l) ==
  /\ DispatchThrows(l)
  /\ todo' = [todo EXCEPT ![l] = rescue[l]]
  /\ rescue' = [rescue EXCEPT ![l] = <<>>]
  /\ at' = [at EXCEPT ![l] = IF l = "runtime" THEN Len(plan[l]) + 1 ELSE @]
  /\ UNCHANGED vitals

AlertCalls(l) == CallAlert(l) \/ AlertProceeds(l) \/ AlertFails(l)

LoopCalls(l) == AlertCalls(l) \/ CallReport(l) \/ CallResolve(l) \/ End(l)

(***************************************************************************)
(* What goes on beside the loops.                                          *)
(***************************************************************************)
\* runResolutionLoop: every active incident but two kinds has a TTL.
AutoResolve(s) ==
  /\ incident[s] # "none" /\ s \notin {"HEARTBEAT", "BROKER_CONNECTION"}
  /\ incident' = [incident EXCEPT ![s] = "none"]
  /\ UNCHANGED <<loopVars, plan, owed, alertVars>>

Cooldown(k) == CoolsDown(k) /\ UNCHANGED <<loopVars, vitals>>

ToggleAlerting(b) == SetAlerting(b) /\ UNCHANGED <<loopVars, vitals>>

LoopsTypeOK ==
  /\ AlertingTypeOK
  /\ plan \in Plans
  /\ \A l \in Loops : at[l] \in 0..(Len(plan[l]) + 1)
  /\ incident \in [Sources -> {"none", "WARNING", "HIGH", "CRITICAL"}]
=============================================================================
