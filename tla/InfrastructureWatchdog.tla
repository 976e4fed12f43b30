----------------------- MODULE InfrastructureWatchdog -----------------------
(***************************************************************************)
(* InfrastructureWatchdogService: the six checks of the infra loop.        *)
(*                                                                         *)
(* A check probes, updates its counter, inserts an audit row and sends an  *)
(* alert; runInfraLoop turns the result into an incident or resolves it.   *)
(* A failed insert, or an alert that throws, makes the result CRITICAL     *)
(* after the counters were updated.  An injected failure takes the place   *)
(* of the probe and leaves the counter alone.                              *)
(*                                                                         *)
(* Abstractions.  A resource is below its thresholds, above the lower or   *)
(* above the upper one; a counter stops at the alarm limit.                *)
(***************************************************************************)
EXTENDS WatchdogLoops

CONSTANTS
  MaxFailures,        \* maxFailures of the two HTTP checks
  RestartThreshold,   \* DOCKER_RESTART_THRESHOLD
  MaxRestarts         \* bound: RestartCount of the container

HttpChecks == {"FREQTRADE", "EXCHANGE_REACHABILITY"}

VARIABLES
  httpFailures,   \* freqtradeFailures and exchangeFailures
  booted,         \* lastUptimeSeconds is known
  restarts,       \* lastDockerRestartCount, -1 before the first check
  injected        \* FailureInjectionService: the failure types injected

infraVars == <<httpFailures, booted, restarts>>

InfraInit ==
  /\ httpFailures = [c \in HttpChecks |-> 0]
  /\ booted = FALSE /\ restarts = -1
  /\ injected = {}

\* Mutation of Unhealthy: a known incident is not announced again.
UnhealthyOnce(s, severity, alerts) ==
  /\ Conclude("infra", (IF incident[s] = severity THEN <<>> ELSE alerts) \o <<Report(s, severity)>>,
              <<Report(s, "CRITICAL")>>)
  /\ owed' = [source |-> s, level |-> severity]

\* The result becomes an incident of its source and severity.  The alert, if the
\* check sends one, is sent inside the check, whose catch makes it CRITICAL.
Unhealthy(s, severity, alerts) ==
  /\ Conclude("infra", alerts \o <<Report(s, severity)>>, <<Report(s, "CRITICAL")>>)
  /\ owed' = [source |-> s, level |-> severity]

Healthy(s, alerts) ==
  /\ Conclude("infra", alerts \o <<Resolve({s})>>, <<Report(s, "CRITICAL")>>)
  /\ owed' = NothingOwed

\* The audit insert failed: no alert, and CRITICAL whatever the probe said.
AuditLost(s) == Erring /\ Unhealthy(s, "CRITICAL", <<>>)

(***************************************************************************)
(* VM: a resource over its limit, or an uptime that fell since last time.  *)
(***************************************************************************)
Loads == {"normal", "high", "critical"}

CheckVM(load, fell) ==
  LET alarm == load = "critical" \/ (booted /\ fell) IN
  /\ Runs("infra", "VM")
  /\ booted' = TRUE
  /\ \/ AuditLost("VM")
     \/ /\ alarm
        /\ Unhealthy("VM", "CRITICAL", <<Alert("vm_health_critical")>>)
        /\ UNCHANGED errors
     \/ /\ ~alarm /\ load = "high"
        /\ Healthy("VM", <<Alert("vm_health_warning")>>)
        /\ UNCHANGED errors
     \/ /\ ~alarm /\ load = "normal"
        /\ Healthy("VM", <<>>)
        /\ UNCHANGED errors
  /\ UNCHANGED <<httpFailures, restarts, injected>>

(***************************************************************************)
(* Docker: the container's inspection, or none.                            *)
(***************************************************************************)
Inspections == [running : BOOLEAN, well : BOOLEAN, young : BOOLEAN,
                count : 0..MaxRestarts]

ContainerAlarm(i) ==
  \/ ~i.running \/ ~i.well
  \/ i.count > RestartThreshold
  \/ i.running /\ i.young /\ restarts # -1 /\ i.count > restarts

CheckContainer(i) ==
  /\ Runs("infra", "DOCKER")
  /\ restarts' = i.count
  /\ \/ AuditLost("DOCKER")
     \/ /\ ContainerAlarm(i)
        /\ Unhealthy("DOCKER", "CRITICAL", <<Alert("docker_container_unhealthy")>>)
        /\ UNCHANGED errors
     \/ /\ ~ContainerAlarm(i)
        /\ Healthy("DOCKER", <<>>)
        /\ UNCHANGED errors
  /\ UNCHANGED <<httpFailures, booted, injected>>

ContainerMissing ==
  /\ Runs("infra", "DOCKER")
  /\ \/ AuditLost("DOCKER")
     \/ /\ Unhealthy("DOCKER", "CRITICAL", <<Alert("docker_container_missing")>>)
        /\ UNCHANGED errors
  /\ UNCHANGED <<httpFailures, booted, restarts, injected>>

(***************************************************************************)
(* The Freqtrade API and the exchange: three failures in a row.            *)
(***************************************************************************)
HttpKey ==
  [FREQTRADE |-> "freqtrade_api_unreachable",
   EXCHANGE_REACHABILITY |-> "exchange_api_unreachable"]

CheckHttp(c, ok) ==
  LET n == IF ok THEN 0 ELSE UpTo(httpFailures[c] + 1, MaxFailures) IN
  /\ Runs("infra", c) /\ "NETWORK_TIMEOUT" \notin injected
  /\ httpFailures' = [httpFailures EXCEPT ![c] = n]
  /\ \/ AuditLost(c)
     \/ ok /\ Healthy(c, <<>>) /\ UNCHANGED errors
     \/ /\ ~ok /\ n >= MaxFailures
        /\ Unhealthy(c, "CRITICAL", <<Alert(HttpKey[c])>>)
        /\ UNCHANGED errors
     \/ /\ ~ok /\ n < MaxFailures
        /\ Unhealthy(c, "WARNING", <<>>)
        /\ UNCHANGED errors
  /\ UNCHANGED <<booted, restarts, injected>>

\* The three checks an injected NETWORK_TIMEOUT replaces, and their alerts.
\* intercept awaits simulate outside any catch of the check's own: what throws
\* there, the insert or the alert, ends the check without a result.  MaxErrors
\* counts the injection, and not the failures under it.
SimulateTimeout(c) ==
  /\ Runs("infra", c) /\ "NETWORK_TIMEOUT" \in injected
  /\ c \in HttpChecks \cup {"NETWORK"}
  /\ LET k == IF c = "NETWORK" THEN "host_network_offline" ELSE HttpKey[c] IN
     \/ Conclude("infra", <<Alert(k), Report(c, "CRITICAL")>>, <<>>)
     \/ Conclude("infra", <<>>, <<>>)
  /\ owed' = NothingOwed
  /\ UNCHANGED <<errors, httpFailures, booted, restarts, injected>>

(***************************************************************************)
(* The host's network and DNS: every probe judged by itself.               *)
(***************************************************************************)
CheckNetwork(lost) ==
  /\ Runs("infra", "NETWORK") /\ "NETWORK_TIMEOUT" \notin injected
  /\ \/ AuditLost("NETWORK")
     \/ /\ lost = "all"
        /\ Unhealthy("NETWORK", "CRITICAL", <<Alert("host_network_offline")>>)
        /\ UNCHANGED errors
     \/ /\ lost = "some"
        /\ Healthy("NETWORK", <<Alert("host_network_degraded")>>)
        /\ UNCHANGED errors
     \/ lost = "none" /\ Healthy("NETWORK", <<>>) /\ UNCHANGED errors
  /\ UNCHANGED <<httpFailures, booted, restarts, injected>>

CheckDns(ok) ==
  /\ Runs("infra", "DNS") /\ "DNS_FAILURE" \notin injected
  /\ \/ AuditLost("DNS")
     \/ ok /\ Healthy("DNS", <<>>) /\ UNCHANGED errors
     \/ /\ ~ok
        /\ Unhealthy("DNS", "CRITICAL", <<Alert("dns_resolution_failed")>>)
        /\ UNCHANGED errors
  /\ UNCHANGED <<httpFailures, booted, restarts, injected>>

SimulateDnsFailure ==
  /\ Runs("infra", "DNS") /\ "DNS_FAILURE" \in injected
  /\ \/ Conclude("infra", <<Alert("dns_resolution_failed"), Report("DNS", "CRITICAL")>>, <<>>)
     \/ Conclude("infra", <<>>, <<>>)
  /\ owed' = NothingOwed
  /\ UNCHANGED <<errors, httpFailures, booted, restarts, injected>>

InfraChecks ==
  /\ Free("infra") /\ at["infra"] > 0
  /\ \/ \E load \in Loads, fell \in BOOLEAN : CheckVM(load, fell)
     \/ \E i \in Inspections : CheckContainer(i)
     \/ ContainerMissing
     \/ \E c \in HttpChecks, ok \in BOOLEAN : CheckHttp(c, ok)
     \/ \E c \in HttpChecks \cup {"NETWORK"} : SimulateTimeout(c)
     \/ \E lost \in {"none", "some", "all"} : CheckNetwork(lost)
     \/ \E ok \in BOOLEAN : CheckDns(ok)
     \/ SimulateDnsFailure

InfraTypeOK ==
  /\ httpFailures \in [HttpChecks -> 0..MaxFailures]
  /\ booted \in BOOLEAN /\ restarts \in -1..MaxRestarts
  /\ injected \subseteq {"NETWORK_TIMEOUT", "DNS_FAILURE", "HEARTBEAT_LOSS", "BROKER_DOWN"}
=============================================================================
