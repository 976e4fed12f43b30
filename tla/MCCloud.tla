------------------------------- MODULE MCCloud -------------------------------
(***************************************************************************)
(* A small instance of Cloud: the registry with two agents, the            *)
(* configuration with one agent and with one and its successor, and sets   *)
(* of sources that compete for the blame.                                  *)
(***************************************************************************)
EXTENDS Cloud

CONSTANTS a1, a2

Still == [arriving |-> {}, successors |-> {}, syncing |-> FALSE, faults |-> 0, sources |-> {},
          resolved |-> 0]

Competing ==
  {{"DOCKER", "FREQTRADE", "FREQTRADE_API", "HEARTBEAT"},
   {"DOCKER_HEALTH", "FREQTRADE_API", "HEARTBEAT", "BROKER_CONNECTION", "MARKET_DATA"},
   {"DOCKER", "FREQTRADE_API", "NETWORK", "NETWORK_HEALTH", "DNS", "DNS_HEALTH"},
   {"DOCKER", "FREQTRADE", "DNS", "VM_HEALTH"},
   {"NETWORK_HEALTH", "DNS", "EXCHANGE_REACHABILITY", "EXCHANGE_HEALTH"},
   {"DOCKER_HEALTH", "NETWORK", "EXCHANGE_REACHABILITY", "EXCHANGE_HEALTH"}}

\* Incidents of these come back after they were resolved.
Recurring ==
  {{"DOCKER", "FREQTRADE", "FREQTRADE_API"}, {"NETWORK", "DNS", "EXCHANGE_HEALTH"}}

MCPlans ==
  {[Still EXCEPT !.arriving = {a1, a2}, !.faults = 2],
   [Still EXCEPT !.arriving = {a1}, !.syncing = TRUE, !.faults = 2],
   [Still EXCEPT !.arriving = {a1}, !.successors = {a2}, !.syncing = TRUE, !.faults = 1]}
  \cup {[Still EXCEPT !.sources = s] : s \in Competing}
  \cup {[Still EXCEPT !.sources = s, !.resolved = 1] : s \in Recurring}
=============================================================================
