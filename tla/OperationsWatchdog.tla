------------------------- MODULE OperationsWatchdog -------------------------
(***************************************************************************)
(* OperationsWatchdogService: the checks of the ops loop, and the engine   *)
(* that escalates what checkOrderPipeline finds, up to halting the bot.    *)
(*                                                                         *)
(* Abstractions.  A check's reading of the audit table is the outcome its  *)
(* query leads to; how the pipeline check comes to a trade's violation is  *)
(* OrderTimeline's model.  Each violation has one trade that shows it.     *)
(* One strategy is monitored.  A counter stops at its highest limit.       *)
(***************************************************************************)
EXTENDS WatchdogLoops, SequencesExt

CONSTANTS
  Modes,               \* bound: the values of PROTECTION_MODE explored
  AlarmAfter,          \* maxFailures of the heartbeat, broker and silence checks
  StructuralCritical,  \* CONSECUTIVE_STRUCTURAL_CRITICAL
  ConfidenceWarning,   \* CONSECUTIVE_CONFIDENCE_WARNING
  ConfidenceCritical   \* CONSECUTIVE_CONFIDENCE_CRITICAL

VARIABLES
  mode,          \* PROTECTION_MODE, fixed in a behaviour
  young,         \* the process started less than the grace period ago
  grace,         \* startupGraceActive, as this cycle took it
  silent,        \* heartbeatFailures, brokerFailures, tradeFrequencyFailures
  counts,        \* consecutiveStructuralViolationsMap
  breaches,      \* consecutiveConfidenceBreaches
  badReadings,   \* history: bad readings in a row, outside the grace period
  sustained,     \* history: assessments in a row that saw the violation
  low            \* history: assessments in a row with low confidence

counters == <<silent, counts, breaches>>
history  == <<badReadings, sustained, low>>
opsVars  == <<mode, young, grace, counters, history>>

Counted == {"HEARTBEAT", "BROKER_CONNECTION", "TRADE_FREQUENCY"}

\* The checks the grace period is about; young does not matter to a plan without.
GraceChecks == {"HEARTBEAT", "BROKER_CONNECTION", "MARKET_DATA"}

OpsInit ==
  /\ mode \in Modes
  /\ young = (\E i \in 1..Len(plan["ops"]) : plan["ops"][i] \in GraceChecks) /\ grace = FALSE
  /\ silent = [c \in Counted |-> 0]
  /\ counts = [v \in Violations |-> 0] /\ breaches = 0
  /\ badReadings = [c \in Counted |-> 0]
  /\ sustained = [v \in Violations |-> 0] /\ low = 0

\* runOpsLoop asks the clock once, before the checks.
BeginOps ==
  /\ Begin("ops")
  /\ grace' = young
  /\ UNCHANGED <<mode, young, counters, history>>

GracePasses ==
  /\ young /\ young' = FALSE
  /\ UNCHANGED <<loopVars, vitals, alertVars, mode, grace, counters, history>>

(***************************************************************************)
(* The heartbeat and the broker connection: three silent readings in a row *)
(* raise an incident; the first two only warn.                             *)
(***************************************************************************)
WarningKey ==
  [HEARTBEAT |-> "heartbeat_lost_warning",
   BROKER_CONNECTION |-> "broker_connection_stale_warning"]

LossType == [HEARTBEAT |-> "HEARTBEAT_LOSS", BROKER_CONNECTION |-> "BROKER_DOWN"]

\* Mutation of CheckLiveness: the grace period is forgotten.
CheckLivenessNoGrace(c, ok, active) ==
  LET n == IF ok THEN 0 ELSE UpTo(silent[c] + 1, AlarmAfter) IN
  /\ Runs("ops", c) /\ LossType[c] \notin active
  /\ silent' = [silent EXCEPT ![c] = n]
  /\ badReadings' = [badReadings EXCEPT
                       ![c] = IF ok THEN 0 ELSE IF grace THEN @ ELSE UpTo(@ + 1, AlarmAfter)]
  /\ Conclude("ops",
       IF ok THEN <<Resolve({c})>>
       ELSE IF n >= AlarmAfter THEN <<Report(c, "CRITICAL")>>
       ELSE <<Alert(WarningKey[c])>>, <<>>)
  /\ UNCHANGED <<errors, owed, mode, young, grace, counts, breaches,
                 sustained, low>>

\* Mutation of CheckLiveness: only a counter that had reached the limit resolves.
CheckLivenessCounted(c, ok, active) ==
  LET n == IF ok THEN 0 ELSE UpTo(silent[c] + 1, AlarmAfter) IN
  /\ Runs("ops", c) /\ LossType[c] \notin active
  /\ IF grace /\ ~ok
       THEN Conclude("ops", <<>>, <<>>) /\ UNCHANGED <<silent, badReadings>>
       ELSE /\ silent' = [silent EXCEPT ![c] = n]
            /\ badReadings' = [badReadings EXCEPT
                                 ![c] = IF ok THEN 0 ELSE UpTo(@ + 1, AlarmAfter)]
            /\ Conclude("ops",
                 IF ok THEN (IF silent[c] >= AlarmAfter THEN <<Resolve({c})>> ELSE <<>>)
                 ELSE IF n >= AlarmAfter THEN <<Report(c, "CRITICAL")>>
                 ELSE <<Alert(WarningKey[c])>>, <<>>)
  /\ UNCHANGED <<errors, owed, mode, young, grace, counts, breaches,
                 sustained, low>>

CheckLiveness(c, ok, active) ==
  LET n == IF ok THEN 0 ELSE UpTo(silent[c] + 1, AlarmAfter) IN
  /\ Runs("ops", c) /\ LossType[c] \notin active
  /\ IF grace /\ ~ok
       THEN Conclude("ops", <<>>, <<>>) /\ UNCHANGED <<silent, badReadings>>
       ELSE /\ silent' = [silent EXCEPT ![c] = n]
            /\ badReadings' = [badReadings EXCEPT
                                 ![c] = IF ok THEN 0 ELSE UpTo(@ + 1, AlarmAfter)]
            /\ Conclude("ops",
                 IF ok THEN <<Resolve({c})>>
                 ELSE IF n >= AlarmAfter THEN <<Report(c, "CRITICAL")>>
                 ELSE <<Alert(WarningKey[c])>>, <<>>)
  /\ UNCHANGED <<errors, owed, mode, young, grace, counts, breaches,
                 sustained, low>>

\* An injected loss is reported at once and leaves the counter alone.
SimulateLoss(c, active) ==
  /\ Runs("ops", c) /\ LossType[c] \in active
  /\ Conclude("ops", <<Report(c, "CRITICAL")>>, <<>>)
  /\ badReadings' = [badReadings EXCEPT ![c] = AlarmAfter]
  /\ UNCHANGED <<errors, owed, mode, young, grace, counters, sustained, low>>

(***************************************************************************)
(* The checks that only alert.                                             *)
(***************************************************************************)
AlertOnly(c, bad, k) ==
  /\ Runs("ops", c)
  /\ Conclude("ops", IF bad THEN <<Alert(k)>> ELSE <<>>, <<>>)
  /\ UNCHANGED <<errors, owed, opsVars>>

MarketKey ==
  [malformed |-> "market_data_telemetry_fail", stale |-> "market_data_telemetry_stale",
   stuck |-> "market_data_stuck"]

\* The grace period covers a feed that is silent, not one that is wrong.
CheckMarketData(verdict) ==
  \/ verdict = "fresh" /\ AlertOnly("MARKET_DATA", FALSE, NoKey)
  \/ verdict # "fresh" /\ AlertOnly("MARKET_DATA", ~(verdict = "stale" /\ grace), MarketKey[verdict])

CheckExchangeAck(timeouts) == AlertOnly("EXCHANGE_ACK", timeouts, "exchange_ack_failure_critical")

CheckLatency(slow) == AlertOnly("LATENCY", slow, "latency_spike_warning")

CheckTradeFrequency(traded) ==
  LET n == IF traded THEN 0 ELSE UpTo(silent["TRADE_FREQUENCY"] + 1, AlarmAfter) IN
  /\ Runs("ops", "TRADE_FREQUENCY")
  /\ silent' = [silent EXCEPT !["TRADE_FREQUENCY"] = n]
  /\ badReadings' = [badReadings EXCEPT !["TRADE_FREQUENCY"] =
                       IF traded THEN 0 ELSE UpTo(@ + 1, AlarmAfter)]
  /\ Conclude("ops", IF n >= AlarmAfter THEN <<Alert("silence_warning")>> ELSE <<>>, <<>>)
  /\ UNCHANGED <<errors, owed, mode, young, grace, counts, breaches,
                 sustained, low>>

(***************************************************************************)
(* The order pipeline.                                                     *)
(***************************************************************************)
TradeStates == {"violates", "valid", "gone"}

\* What a trade in the window makes the check call; one that left it, nothing.
TradeCall(v, state) ==
  IF state = "violates" THEN Report(TradeSource[v], "HIGH") ELSE Resolve({TradeSource[v]})

\* lowConf: valid / (valid + invalid) is below CONFIDENCE_WARNING_THRESHOLD, which
\* takes an invalid trade; degraded: one of the four observability alerts is due.
CheckPipeline(trades, lowConf, degraded) ==
  LET seen == {v \in Violations : trades[v] = "violates"}
      kept == {v \in Violations : trades[v] # "gone"} IN
  /\ Runs("ops", "ORDER_PIPELINE")
  /\ lowConf => seen # {}
  /\ Conclude("ops",
       SetToSeq({TradeCall(v, trades[v]) : v \in kept})
       \o (IF degraded THEN <<Alert("observability_warning")>> ELSE <<>>)
       \o <<Assess(seen, lowConf)>>, <<>>)
  /\ UNCHANGED <<errors, owed, mode, young, grace, counters, history>>

\* A query of the check failed: the cycle is not assessed.
PipelineUnread ==
  /\ Runs("ops", "ORDER_PIPELINE") /\ Erring
  /\ Conclude("ops", <<>>, <<>>)
  /\ UNCHANGED <<owed, opsVars>>

(***************************************************************************)
(* The risk protection engine, reached only when nothing before it threw.  *)
(***************************************************************************)
\* Mutation of Escalation: the halt comes with a new incident only.
EscalationOnce(structural, confidence) ==
  CASE structural >= StructuralCritical \/ confidence >= ConfidenceCritical ->
         <<Report("LIFECYCLE_INTEGRITY", "CRITICAL")>>
         \o (IF mode = "ALERT_ONLY" \/ incident["LIFECYCLE_INTEGRITY"] = "CRITICAL" THEN <<>> ELSE <<HaltBot>>)
    [] /\ ~(structural >= StructuralCritical \/ confidence >= ConfidenceCritical)
       /\ structural >= 1 \/ confidence >= ConfidenceWarning ->
         <<Report("LIFECYCLE_INTEGRITY", "HIGH")>>
    [] OTHER -> <<Resolve({"LIFECYCLE_INTEGRITY"})>>

Escalation(structural, confidence) ==
  CASE structural >= StructuralCritical \/ confidence >= ConfidenceCritical ->
         <<Report("LIFECYCLE_INTEGRITY", "CRITICAL")>>
         \o (IF mode = "ALERT_ONLY" THEN <<>> ELSE <<HaltBot>>)
    [] /\ ~(structural >= StructuralCritical \/ confidence >= ConfidenceCritical)
       /\ structural >= 1 \/ confidence >= ConfidenceWarning ->
         <<Report("LIFECYCLE_INTEGRITY", "HIGH")>>
    [] OTHER -> <<Resolve({"LIFECYCLE_INTEGRITY"})>>

Found == Head(todo["ops"])   \* what the pipeline check found in this cycle

Highest(f) == CHOOSE n \in {f[v] : v \in Violations} : \A v \in Violations : f[v] <= n

\* Mutation of CallAssess: a violation that is gone keeps its count.
CallAssessNoReset ==
  /\ Calls("ops", "assess")
  /\ breaches' = IF Found.low THEN UpTo(breaches + 1, ConfidenceCritical) ELSE 0
  /\ counts' = [v \in Violations |->
                  IF v \in Found.seen THEN UpTo(counts[v] + 1, StructuralCritical) ELSE counts[v]]
  /\ todo' = [todo EXCEPT !["ops"] = Escalation(Highest(counts'), breaches')]
  /\ sustained' = [v \in Violations |->
                     IF v \in Found.seen THEN UpTo(sustained[v] + 1, StructuralCritical) ELSE 0]
  /\ low' = IF Found.low THEN UpTo(low + 1, ConfidenceCritical) ELSE 0
  /\ UNCHANGED <<at, rescue, vitals, alertVars, mode, young, grace, silent,
                 badReadings>>

CallAssess ==
  /\ Calls("ops", "assess")
  /\ breaches' = IF Found.low THEN UpTo(breaches + 1, ConfidenceCritical) ELSE 0
  /\ counts' = [v \in Violations |->
                  IF v \in Found.seen THEN UpTo(counts[v] + 1, StructuralCritical) ELSE 0]
  /\ todo' = [todo EXCEPT !["ops"] = Escalation(Highest(counts'), breaches')]
  /\ sustained' = [v \in Violations |->
                     IF v \in Found.seen THEN UpTo(sustained[v] + 1, StructuralCritical) ELSE 0]
  /\ low' = IF Found.low THEN UpTo(low + 1, ConfidenceCritical) ELSE 0
  /\ UNCHANGED <<at, rescue, vitals, alertVars, mode, young, grace, silent,
                 badReadings>>

\* executeActiveHalt: the POST of /stopbuy or /stop, which may fail.
CallHalt ==
  /\ Calls("ops", "halt")
  /\ UNCHANGED errors \/ Erring
  /\ Done("ops")
  /\ UNCHANGED <<at, rescue, vitals, recent, step, about, alerting, admitted, unlogged,
                 mode, young, grace, counters, history>>

\* clearDetectorState: an event, which may come while a check awaits a call.
LabReset ==
  /\ Erring
  /\ silent' = [c \in Counted |-> 0]
  /\ counts' = [v \in Violations |-> 0]
  /\ breaches' = 0
  /\ UNCHANGED <<loopVars, vitals, recent, step, about, alerting, admitted, unlogged,
                 mode, young, grace, history>>

OpsChecks(active) ==
  /\ Free("ops") /\ at["ops"] > 0
  /\ \/ \E c \in DOMAIN LossType : \/ \E ok \in BOOLEAN : CheckLiveness(c, ok, active)
                                   \/ SimulateLoss(c, active)
     \/ \E verdict \in {"fresh", "malformed", "stale", "stuck"} : CheckMarketData(verdict)
     \/ \E bad \in BOOLEAN : CheckExchangeAck(bad) \/ CheckLatency(bad) \/ CheckTradeFrequency(bad)
     \/ \E trades \in [Violations -> TradeStates], lowConf, degraded \in BOOLEAN :
          CheckPipeline(trades, lowConf, degraded)
     \/ PipelineUnread

OpsCalls == CallAssess \/ CallHalt

OpsTypeOK ==
  /\ mode \in Modes /\ young \in BOOLEAN /\ grace \in BOOLEAN
  /\ silent \in [Counted -> 0..AlarmAfter]
  /\ counts \in [Violations -> 0..StructuralCritical] /\ breaches \in 0..ConfidenceCritical
  /\ badReadings \in [Counted -> 0..AlarmAfter]
  /\ sustained \in [Violations -> 0..StructuralCritical] /\ low \in 0..ConfidenceCritical
=============================================================================
