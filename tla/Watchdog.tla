------------------------------ MODULE Watchdog ------------------------------
(***************************************************************************)
(* The watchdog loops of the agent process together: infrastructure,       *)
(* operations, runtime performance and the lifecycle anomaly detector, on  *)
(* one AlertingService and one IncidentManager.                            *)
(*                                                                         *)
(* The injected failures and LAB_RESET reach the services only where the   *)
(* console shares their process, as in the repository's lab tests; they    *)
(* and a change of the ALERTING flag count as errors of the bound.         *)
(***************************************************************************)
EXTENDS InfrastructureWatchdog, OperationsWatchdog

\* The dedup keys of the checks, and those reportIncident puts together.
KeysSent ==
  {"vm_health_critical", "vm_health_warning", "docker_container_missing",
   "docker_container_unhealthy", "freqtrade_api_unreachable", "host_network_offline",
   "host_network_degraded", "exchange_api_unreachable", "dns_resolution_failed",
   "heartbeat_lost_warning", "broker_connection_stale_warning",
   "market_data_telemetry_fail", "market_data_telemetry_stale", "market_data_stuck",
   "exchange_ack_failure_critical", "silence_warning", "latency_spike_warning",
   "winrate_collapse_critical", "fill_degradation_warning", "observability_warning",
   "global_critical", "global_warning", "symbol_incident"}

ASSUME WatchdogAssumption ==
  /\ Callers = Loops /\ KeysSent \subseteq AlertKeys
  /\ \A p \in Plans : p \in [Loops -> Seq(STRING)]
  /\ Violations \subseteq DOMAIN TradeSource /\ Violations # {}
  /\ {MaxFailures, RestartThreshold, MaxRestarts, AlarmAfter,
      StructuralCritical, ConfidenceWarning, ConfidenceCritical} \subseteq Nat

vars == <<loopVars, vitals, alertVars, infraVars, injected, opsVars>>

Init == LoopsInit /\ InfraInit /\ OpsInit

(***************************************************************************)
(* RuntimeMonitorService: each check only alerts, two of them under a key  *)
(* of the operations checks.                                               *)
(***************************************************************************)
RuntimeKey ==
  [SILENCE |-> "silence_warning", WIN_RATE |-> "winrate_collapse_critical",
   FILL_RATE |-> "fill_degradation_warning", LATENCY |-> "latency_spike_warning"]

CheckRuntime(c, bad) ==
  /\ Runs("runtime", c)
  /\ Conclude("runtime", IF bad THEN <<Alert(RuntimeKey[c])>> ELSE <<>>, <<>>)
  /\ UNCHANGED <<errors, owed>>

(***************************************************************************)
(* LifecycleAnomalyDetector: an order created long ago and not resolved.   *)
(* Once the event leaves the look-back window nothing is called any more.  *)
(***************************************************************************)
CheckAnomalies(order) ==
  /\ Runs("anomaly", "STUCK")
  /\ Conclude("anomaly",
       CASE order = "stuck" -> <<Report("OP_STUCK", "HIGH")>>
         [] order = "resolved" /\ incident["OP_STUCK"] # "none" -> <<Resolve({"OP_STUCK"})>>
         [] OTHER -> <<>>, <<>>)
  /\ UNCHANGED <<errors, owed>>

(***************************************************************************)
(* The lab.                                                                *)
(***************************************************************************)
Inject(f) ==
  /\ Erring /\ f \notin injected
  /\ injected' = injected \cup {f}
  /\ UNCHANGED <<loopVars, vitals, recent, step, about, alerting, admitted, unlogged,
                 infraVars, opsVars>>

\* clearFailure, or the failure's TTL.
ClearFailure(f) ==
  /\ f \in injected
  /\ injected' = injected \ {f}
  /\ UNCHANGED <<loopVars, vitals, alertVars, infraVars, opsVars>>

Reset == LabReset /\ UNCHANGED <<infraVars, injected>>

\* The failure types and checks that matter under the behaviour's plan.
Planned(l, c) == \E i \in 1..Len(plan[l]) : plan[l][i] = c

Injectable ==
  {f \in {"NETWORK_TIMEOUT", "DNS_FAILURE", "HEARTBEAT_LOSS", "BROKER_DOWN"} :
     \/ f = "HEARTBEAT_LOSS" /\ Planned("ops", "HEARTBEAT")
     \/ f = "BROKER_DOWN" /\ Planned("ops", "BROKER_CONNECTION")
     \/ f = "DNS_FAILURE" /\ Planned("infra", "DNS")
     \/ f = "NETWORK_TIMEOUT" /\ \E c \in HttpChecks \cup {"NETWORK"} : Planned("infra", c)}

(***************************************************************************)
(* The loops.                                                              *)
(***************************************************************************)
Infra ==
  /\ plan["infra"] # <<>>
  /\ \/ (Begin("infra") \/ LoopCalls("infra")) /\ UNCHANGED <<infraVars, injected, opsVars>>
     \/ InfraChecks /\ UNCHANGED opsVars

Ops ==
  /\ plan["ops"] # <<>>
  /\ \/ BeginOps /\ UNCHANGED <<infraVars, injected>>
     \/ LoopCalls("ops") /\ UNCHANGED <<infraVars, injected, opsVars>>
     \/ (OpsChecks(injected) \/ OpsCalls) /\ UNCHANGED <<infraVars, injected>>

Runtime ==
  \/ Begin("runtime") \/ AlertCalls("runtime") \/ End("runtime")
  \/ \E c \in DOMAIN RuntimeKey, bad \in BOOLEAN : CheckRuntime(c, bad)

Anomaly ==
  \/ Begin("anomaly") \/ LoopCalls("anomaly")
  \/ \E order \in {"stuck", "resolved", "none"} : CheckAnomalies(order)

CooldownEnds(k) == Cooldown(k) /\ UNCHANGED <<infraVars, injected, opsVars>>

Next ==
  \/ Infra \/ Ops
  \/ (Runtime \/ Anomaly) /\ UNCHANGED <<infraVars, injected, opsVars>>
  \/ GracePasses /\ UNCHANGED <<infraVars, injected>>
  \/ \E k \in AlertKeys : CooldownEnds(k)
  \/ /\ \/ \E s \in Sources : AutoResolve(s)
        \/ \E b \in BOOLEAN : ToggleAlerting(b)
     /\ UNCHANGED <<infraVars, injected, opsVars>>
  \/ \E f \in Injectable : Inject(f) \/ ClearFailure(f)
  \/ Reset

Spec == Init /\ [][Next]_vars

\* setInterval keeps the loops going, an awaited call settles, time passes.
Fairness ==
  /\ WF_vars(Infra) /\ WF_vars(Ops)
  /\ \A c \in HttpChecks : WF_vars(CooldownEnds(HttpKey[c]))

FairSpec == Spec /\ Fairness

(***************************************************************************)
(* Properties.                                                             *)
(***************************************************************************)
TypeOK == LoopsTypeOK /\ InfraTypeOK /\ OpsTypeOK

\* A bad verdict of an infrastructure check always becomes an incident of its
\* source before the loop goes on, whatever failed in between: the audit insert,
\* the alert's insert or its dispatch.
NoVerdictDropped == Free("infra") => owed = NothingOwed

\* The bot is about to be halted only after as many assessments in a row saw the
\* same violation, or low confidence, as the configuration asks for; assessments
\* skipped because an earlier call threw, and a LAB_RESET between the decision
\* and the halt, do not count.
HaltIsEarned ==
  (\E i \in 1..Len(todo["ops"]) : todo["ops"][i].do = "halt")
    => \/ \E v \in Violations : sustained[v] >= StructuralCritical
       \/ low >= ConfidenceCritical

\* An incident of a lost heartbeat or broker connection appears only after three
\* bad readings in a row, none of them in the startup grace period.
AlarmIsEarned ==
  [][\A c \in DOMAIN LossType :
       incident[c] = "none" /\ incident'[c] # "none" => badReadings[c] >= AlarmAfter]_vars

\* A violation seen by every assessment from some time on halts the bot in the
\* modes that halt, although reportIncident may throw before the halt and the
\* incident may be auto-resolved between two cycles.
HaltHappens ==
  mode # "ALERT_ONLY" =>
    \A v \in Violations : <>[](sustained[v] > 0) => []<>Calls("ops", "halt")

\* An outage that every check of it sees is announced again and again, once per
\* cooldown: the cooldown a failed dispatch leaves behind only delays it.
Outage(c) == httpFailures[c] = MaxFailures
OutageAnnounced ==
  \A c \in HttpChecks :
    <>[](Outage(c) /\ alerting /\ injected = {}) => []<>(step["infra"] = "dispatch" /\ about["infra"] = HttpKey[c])

\* Once every reading is good the incidents of the checks go away and stay away.
Recovered(c) == badReadings[c] = 0
RecoveryClears ==
  \A c \in DOMAIN LossType :
    <>[](Recovered(c) /\ Planned("ops", c) /\ ~young /\ injected = {})
      => <>[](incident[c] = "none")
=============================================================================
