-------------------------------- MODULE Cloud --------------------------------
(***************************************************************************)
(* The gateway with its agents, registry and configuration, and the        *)
(* analysis of the incident groups its database receives.                  *)
(*                                                                         *)
(* Registry and configuration meet in the agents' processes and in the     *)
(* gateway's: a request is authenticated against the registry, a restart   *)
(* of the gateway drops the handlers of both, and a process that registers *)
(* again keeps its configuration.  The evidence of a group shares nothing  *)
(* with them; a plan says which part of the system moves.                  *)
(***************************************************************************)
EXTENDS AgentRegistry, ConfigSync, Evidence

\* One per behaviour: the agents that register first, those that do so after a
\* rejection, whether configurations are synchronised, the bound on faults, the
\* sources that fail, the bound on incidents that are resolved.
CONSTANT Plans   \* a set of [arriving, successors, syncing, faults, sources, resolved]

ASSUME CloudAssumption == Installations = Agents

VARIABLE plan

vars == <<registryVars, configVars, evidenceVars, plan>>

Init ==
  /\ plan \in Plans
  /\ RegistryInit /\ ConfigInit /\ EvidenceInit(plan.sources)
  /\ ~plan.syncing => raw = Empty

NoConfigChange == UNCHANGED configVars

Arrives(a) ==
  /\ a \in plan.arriving
  /\ \/ Register(a, "beating") \/ RegisterUnanswered(a)
  /\ NoConfigChange

ArrivesAgain(a, b) == b \in plan.successors /\ RegisterAgain(a, b) /\ CarryOver(a, b)

\* A process that is gone takes its configuration and its request with it.
Stops(a) == FallSilent(a) /\ RestartManager(a)
Restarts(a) == RestartProcess(a) /\ RestartManager(a)

Heartbeats(a) == Beats(a) /\ NoConfigChange
HeartbeatFails(a) == BeatFails(a) /\ NoConfigChange

Scan == (ScanBegin \/ ScanMark) /\ NoConfigChange
PurgeStep == (PurgeBegin \/ PurgeHeartbeats \/ PurgeRows \/ PurgeFails) /\ NoConfigChange
AgeOf(a) == Age(a) /\ NoConfigChange

\* syncConfig asks while there is an identity.
Asks(a) ==
  /\ plan.syncing /\ agent[a] \in {"beating", "mute"} /\ Ask(a)
  /\ UNCHANGED registryVars

IsAnswered(a) ==
  /\ \/ Known(a) /\ Serve(a)
     \/ ~Known(a) /\ request[a].at = "asked" /\ Fail(a)
     \/ request[a].at = "refused" /\ Fail(a)
  /\ UNCHANGED registryVars

AnswerArrives(a) == Receive(a) /\ UNCHANGED registryVars

SyncFails(a) ==
  /\ Fail(a) /\ Faulty
  /\ UNCHANGED <<row, expired, beats, agent, beat, scan, purge>>

\* The override is changed in the process's environment ...
Overridden(r) ==
  /\ plan.syncing /\ r # raw /\ SetOverride(r) /\ Faulty
  /\ UNCHANGED <<row, expired, beats, agent, beat, scan, purge>>

\* ... or with the process, which starts again.
GatewayRestarts(r) ==
  /\ (r = raw \/ plan.syncing) /\ DropHandlers /\ RestartService(r)

RegistryNext ==
  \/ \E a \in Agents :
       \/ Arrives(a) \/ Stops(a) \/ Restarts(a)
       \/ Heartbeats(a) \/ HeartbeatFails(a) \/ AgeOf(a)
       \/ \E b \in Agents : ArrivesAgain(a, b)
       \/ Asks(a) \/ IsAnswered(a) \/ AnswerArrives(a) \/ SyncFails(a)
  \/ Scan \/ (ScanFails /\ NoConfigChange) \/ PurgeStep
  \/ \E r \in Overrides : Overridden(r) \/ GatewayRestarts(r)

Next ==
  /\ \/ RegistryNext /\ UNCHANGED evidenceVars
     \/ /\ EvidenceNext /\ Cardinality(resolved') <= plan.resolved
        /\ UNCHANGED <<registryVars, configVars>>
  /\ faults' <= plan.faults
  /\ UNCHANGED plan

Spec == Init /\ [][Next]_vars

\* The agents' intervals and the gateway's scan keep going, a request that was
\* received is handled, and the time since a last heartbeat passes.
Fairness ==
  /\ \A a \in Agents :
       /\ WF_registryVars(Heartbeats(a))
       /\ WF_registryVars(AgeOf(a) /\ agent[a] # "beating")
  /\ WF_registryVars(Scan)

FairSpec == Spec /\ Fairness

TypeOK == RegistryTypeOK /\ ConfigTypeOK /\ EvidenceTypeOK
=============================================================================
