--------------------------- MODULE PipelineMetrics ---------------------------
(***************************************************************************)
(* checkOrderPipeline over the table that Ingestion fills: the trade's     *)
(* verdict and its incidents, the coverage of the strategy's signals by    *)
(* fills, and the trend of that coverage over the snapshots of earlier     *)
(* checks.                                                                 *)
(*                                                                         *)
(* Abstractions.  One check reads the table and acts in one step: what it  *)
(* awaits in between is OperationsWatchdog's subject.  Ratios are percent, *)
(* rounded down.  The look-back windows hold the whole table; the 24 hours *)
(* of snapshots are the last MaxRows.  Signals are written by a webhook.   *)
(***************************************************************************)
EXTENDS Ingestion

CONSTANTS
  Signals,     \* [trade, place]: the trade id of a signal (or "none"), kept in
               \* metadata.tradeId ("meta") or in the lifecycle event ("event")
  MinRows,     \* snapshots below which there is no trend
  MaxRows      \* bound: snapshots of the last 24 hours

ASSUME MetricsAssumption ==
  /\ MinRows \in Nat /\ MinRows >= 2 /\ MaxRows \in Nat
  /\ \A g \in Signals : g.trade \in STRING \ {"coverage_degradation_trend"}
  /\ \A g \in Signals : g.place \in {"meta", "event"}

VARIABLES
  due,         \* the operations loop is about to run again
  ripe,        \* signals older than SIGNAL_FILL_TIMEOUT_MS
  raised,      \* the violations the trade has an active incident of
  rows,        \* OBSERVABILITY_METRICS snapshots, newest first
  alerts,      \* dedup keys of the alerts the last check sent
  lately,      \* history: the coverage at the last checks, newest first
  missed       \* history: one of their snapshots was not stored

metricVars == <<due, ripe, raised, rows, alerts, lately, missed>>

\* The agent was installed just now, or has been checking a quiet pipeline.
MetricsInit ==
  /\ due = TRUE /\ ripe = {} /\ raised = {} /\ alerts = {} /\ missed = FALSE
  /\ LET n == IF budget.history > 0 THEN MaxRows ELSE 0 IN
     /\ rows = [i \in 1..n |-> [coverage |-> 100, correlation |-> 100]]
     /\ lately = [i \in 1..n |-> 100]

(***************************************************************************)
(* Visibility.                                                             *)
(***************************************************************************)
Classifications == {a.type : a \in table}
IntermediateTypes == {t \in Types : StateValue[t] \in 1..5}

PipelineVisibility(classes) ==
  LET intermediate == classes \cap IntermediateTypes # {}
      completion == classes \cap TerminalTypes # {}
  IN  CASE intermediate /\ completion -> "FULL"
        [] ~(intermediate /\ completion) /\ (intermediate \/ "SIGNAL" \in classes) -> "PARTIAL"
        [] OTHER -> "LIMITED"

(***************************************************************************)
(* Signals and fills.                                                      *)
(***************************************************************************)
SignalAudits == {a \in table : a.type = "SIGNAL"}
Correlatable(S) == {a \in S : a.trade # "none"}

\* Fills are fetched for the trade ids in metadata.tradeId only.
MatchingFills ==
  {f \in table : f.type = "ORDER_FILLED"
                 /\ \E a \in SignalAudits : a.via = "meta" /\ a.trade = f.trade}

HasMatchingFill(a) == \E f \in MatchingFills : f.trade = a.trade /\ f.at >= a.at

Percent(part, whole) == IF whole = 0 THEN 100 ELSE (100 * part) \div whole

Unfilled == {a \in Correlatable(ripe) : ~HasMatchingFill(a)}

\* Signals are matched with fills only while visibility is partial.
CoverageRatio(visibility) ==
  IF visibility # "PARTIAL" THEN 100
  ELSE Percent(Cardinality(Correlatable(ripe) \ Unfilled), Cardinality(Correlatable(ripe)))

CorrelationQuality == Percent(Cardinality(Correlatable(SignalAudits)), Cardinality(SignalAudits))

(***************************************************************************)
(* The trend.                                                              *)
(***************************************************************************)
\* getP95Value: the value at index of the sorted ones, which is the least value
\* that more than index of them do not exceed.
P95(values) ==
  LET n == Len(values)
      index == IF (95 * n) \div 100 < n THEN (95 * n) \div 100 ELSE n - 1
      Upto(i) == {j \in 1..n : values[j] <= values[i]}
      above == {i \in 1..n : Cardinality(Upto(i)) > index}
  IN  IF n = 0 THEN 100
      ELSE values[CHOOSE i \in above : \A j \in above : values[i] <= values[j]]

\* Mutation of Sustained: two checks in a row are enough.
SustainedTwice(current, past, drop) ==
  /\ Len(past) >= MinRows
  /\ \A x \in {current, past[1]} : x - P95(past) <= -drop

\* This check and the last two are all below the baseline by drop.
Sustained(current, past, drop) ==
  /\ Len(past) >= MinRows
  /\ \A x \in {current, past[1], past[2]} : x - P95(past) <= -drop

Column(key) == [i \in DOMAIN rows |-> rows[i][key]]

\* Whether the oldest snapshot is an hour old is left open.
TrendAlerts(coverage, correlation) ==
  SUBSET ({k \in {"coverage_degradation_trend"} : Sustained(coverage, Column("coverage"), 15)}
    \cup {k \in {"correlation_degradation_trend"} :
            Sustained(correlation, Column("correlation"), 10)})

(***************************************************************************)
(* The check.                                                              *)
(***************************************************************************)
\* Mutation of Incidents: only a violation of one type is resolved.
IncidentsByType(lives, vs) ==
  IF Invalid(vs) # {} THEN raised \cup {TradeViolation(lives, vs)}
  ELSE raised \ {"DUPLICATE_FILL"}

\* An invalid trade is reported under its violation; one whose orders are all
\* in order again has its incidents resolved by their prefix.
Incidents(lives, vs) ==
  CASE Invalid(vs) # {} -> raised \cup {TradeViolation(lives, vs)}
    [] Invalid(vs) = {} /\ DOMAIN lives # {} -> {}
    [] DOMAIN lives = {} -> raised

Latest(s, n) == SubSeq(s, 1, IF Len(s) < n THEN Len(s) ELSE n)

CheckOrderPipeline ==
  LET visibility == PipelineVisibility(Classifications)
      row == [coverage |-> CoverageRatio(visibility), correlation |-> CorrelationQuality]
  IN
  /\ due /\ due' = FALSE
  /\ process = "running" /\ budget.checks > 0
  /\ \E tl \in {TradeTimeline(table, Trade)} :
       \E lives \in {OrderTimelines(tl)} :
         raised' = Incidents(lives, Verdicts(lives, "FREQTRADE",
                                             Unexpected(table, Trade, "FREQTRADE")))
  /\ \E trends \in TrendAlerts(row.coverage, row.correlation) :
       alerts' = trends \cup
         IF visibility # "PARTIAL" THEN {}
         ELSE {k \in {"observability_schema_drift"} :
                 SignalAudits # Correlatable(SignalAudits)}
              \cup {a.trade : a \in Unfilled}
  /\ lately' = Latest(<<row.coverage>> \o lately, MaxRows + 1)
  /\ \/ /\ rows' = Latest(<<row>> \o rows, MaxRows)
        /\ UNCHANGED <<missed, budget>>
     \/ Failing /\ missed' = TRUE /\ UNCHANGED rows
  /\ UNCHANGED <<ripe, ingestVars, feedVars>>

\* The loop's sleep is over.
Wake ==
  /\ ~due /\ due' = TRUE
  /\ UNCHANGED <<ripe, raised, rows, alerts, lately, missed, budget, ingestVars, feedVars>>

\* A webhook writes a signal; its createdAt is an observation of its own.
Signal(g) ==
  /\ Spend("signals")
  /\ now' = now + 1
  /\ table' = table \cup {[type |-> "SIGNAL", trade |-> g.trade, order |-> NoOrder,
                           side |-> "none", at |-> now + 1, via |-> g.place, of |-> NoOrder]}
  /\ UNCHANGED <<status, wire, handling, pollVars, process, tainted, feedVars, metricVars>>

Ripen(a) ==
  /\ a \in SignalAudits \ ripe
  /\ ripe' = ripe \cup {a}
  /\ UNCHANGED <<due, budget, ingestVars, feedVars, raised, rows, alerts, lately, missed>>

allVars == <<ingestVars, feedVars, budget, metricVars>>

Init == IngestInit /\ MetricsInit

Next ==
  \/ IngestNext /\ UNCHANGED metricVars
  \/ CheckOrderPipeline \/ Wake
  \/ \E g \in Signals : Signal(g)
  \/ \E a \in SignalAudits : Ripen(a)

Spec == Init /\ [][Next]_allVars

\* The operations loop runs the check again and again: only the check ends due.
FairSpec ==
  /\ Spec /\ IngestFairness
  /\ WF_due(Wake)
  /\ WF_due(due /\ process = "running" /\ budget.checks > 0 /\ due' = FALSE)

TypeOK ==
  /\ IngestTypeOK
  /\ ripe \subseteq SignalAudits
  /\ Len(rows) <= MaxRows /\ Len(lately) <= MaxRows + 1

(***************************************************************************)
(* Properties.                                                             *)
(***************************************************************************)
\* Coverage is said to be degrading only if it was low at each of the last
\* three checks compared with one before them, unless a snapshot in between was
\* lost: a single bad check is never a trend.
TrendIsSustained ==
  "coverage_degradation_trend" \in alerts =>
    \/ missed
    \/ \E i \in DOMAIN lately : \A j \in 1..3 : lately[j] <= lately[i] - 15

\* A check that finds the records orderly leaves no incident of the trade, not
\* even one that an earlier, passing state of the table raised.
OrderlyCheckClears == [][due /\ ~due' /\ Orderly => raised' = {}]_allVars

\* An alarm that only a passing state of the table raised goes away: once the
\* orders are recorded in an orderly way, no incident of the trade stays active.
FalseAlarmsClear ==
  budget.checks > 0 => (<>[]Orderly => <>[](raised = {}))
=============================================================================
