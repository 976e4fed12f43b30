------------------------------ MODULE CloudProofs ------------------------------
(***************************************************************************)
(* Proofs about the gateway's side: configuration synchronisation, the     *)
(* registry of agents, the evidence of incident groups and its analysis,   *)
(* for any agents, overrides, overloads and sources that fail.             *)
(*                                                                         *)
(* That a revision stands for one configuration is not inductive: an       *)
(* answer on its way will be taken later, and the number may have gone up  *)
(* by then.  ConfigInv asks the same of the answers the running process    *)
(* gave, and that no number is ahead of the gateway's (Stands).  The       *)
(* gateway with its registry implements ConfigSync, which carries this     *)
(* over to it.                                                             *)
(*                                                                         *)
(* An incident belongs to one group because groups of a kind are opened    *)
(* further apart than the window.  The two claims of the analysis hold of  *)
(* every set of events with times, whatever their order: the proofs bound  *)
(* the scores of the hypotheses from both sides.                           *)
(***************************************************************************)
EXTENDS Cloud, FiniteSetTheorems, SequenceTheorems, WellFoundedInduction, TLAPS

(***************************************************************************)
(* Configuration.                                                          *)
(***************************************************************************)
\* A number and a configuration that may be told apart from the gateway's.
Stands(r, c) == r <= revision /\ (r = revision => c = Meaning(lastRaw))

AgentsStand == \A a \in current : Stands(rev[a], applied[a])

AnswersStand ==
  \A a \in Installations :
    request[a].at = "answered" /\ request[a].fresh
      => Stands(request[a].revision, request[a].config)

ConfigInv == ConfigTypeOK /\ AgentsStand /\ AnswersStand

\* What an override is read as is an override.
LEMMA MeaningType == \A r \in Overrides \cup {NoRaw} : Meaning(r) \in Overrides
BY ConfigSyncAssumption DEF Meaning

\* The request that is none has the type of a request.
LEMMA NoRequestType == NoRequest \in Requests /\ NoRequest.at = "none"
BY ConfigSyncAssumption DEF NoRequest, Requests

\* No process of the gateway has given anything at the start.
LEMMA ConfigInitInv == ConfigInit => ConfigInv
<1> SUFFICES ASSUME ConfigInit PROVE ConfigInv
  OBVIOUS
<1>1. ConfigTypeOK
  BY NoRequestType, ConfigSyncAssumption DEF ConfigInit, ConfigTypeOK
<1>2. AgentsStand /\ AnswersStand
  BY NoRequestType DEF ConfigInit, AgentsStand, AnswersStand
<1> QED
  BY <1>1, <1>2 DEF ConfigInv

\* A step after which the agents and the answers are as they were, some of
\* them forgotten, under the same number.
LEMMA ForgetInv ==
  ASSUME ConfigInv, ConfigTypeOK', UNCHANGED <<lastRaw, revision>>,
         current' \subseteq current,
         \A a \in current' : applied'[a] = applied[a] /\ rev'[a] = rev[a],
         \A a \in Installations :
           request'[a].at = "answered" => request'[a] = request[a]
  PROVE  ConfigInv'
BY DEF ConfigInv, AgentsStand, AnswersStand, Stands, Meaning

\* Asking leaves every answer and agent alone ...
LEMMA AskInv == ASSUME ConfigInv, NEW a \in Installations, Ask(a) PROVE ConfigInv'
<1> DEFINE q == [NoRequest EXCEPT !.at = "asked", !.revision = rev[a]]
<1>1. q \in Requests /\ q.at = "asked"
  BY NoRequestType, ConfigSyncAssumption DEF NoRequest, Requests, ConfigInv, ConfigTypeOK
<1>2. request' = [request EXCEPT ![a] = q]
      /\ UNCHANGED <<raw, lastRaw, revision, applied, rev, current>>
  BY DEF Ask
<1> HIDE DEF q
<1>3. ConfigTypeOK'
  BY <1>1, <1>2 DEF ConfigInv, ConfigTypeOK
<1> QED
  BY <1>1, <1>2, <1>3, ForgetInv DEF ConfigInv, ConfigTypeOK

\* ... and so does a request that fails ...
LEMMA FailInv == ASSUME ConfigInv, NEW a \in Installations, Fail(a) PROVE ConfigInv'
<1>1. ConfigTypeOK'
  BY NoRequestType DEF Fail, ConfigInv, ConfigTypeOK
<1> QED
  BY <1>1, ForgetInv, NoRequestType DEF Fail, ConfigInv, ConfigTypeOK

\* ... and an override the gateway has not looked at yet.
LEMMA OverrideInv == ASSUME ConfigInv, NEW r, SetOverride(r) PROVE ConfigInv'
<1>1. ConfigTypeOK'
  BY DEF SetOverride, ConfigInv, ConfigTypeOK
<1> QED
  BY <1>1, ForgetInv DEF SetOverride

\* The agent's process forgets what it was given.
LEMMA RestartManagerInv ==
  ASSUME ConfigInv, NEW a \in Installations, RestartManager(a) PROVE ConfigInv'
<1>1. ConfigTypeOK'
  BY NoRequestType, ConfigSyncAssumption DEF RestartManager, ConfigInv, ConfigTypeOK
<1> QED
  BY <1>1, ForgetInv, NoRequestType DEF RestartManager, ConfigInv, ConfigTypeOK

\* The gateway takes up a new override: either nothing was new, or every number
\* given so far is behind the new one.
LEMMA ServeInv == ASSUME ConfigInv, NEW a \in Installations, Serve(a) PROVE ConfigInv'
<1> USE DEF ConfigInv, ConfigTypeOK
<1> DEFINE q == Answer(NewRevision, request[a].revision)
<1>1. /\ lastRaw' = raw /\ revision' = NewRevision
      /\ request' = [request EXCEPT ![a] = q]
      /\ UNCHANGED <<raw, applied, rev, current>>
  BY DEF Serve
<1>2. /\ NewRevision \in Nat
      /\ \/ NewRevision = revision /\ raw = lastRaw
         \/ NewRevision > revision
  BY DEF NewRevision
<1>3. q \in Requests /\ q.revision = NewRevision /\ q.config = Meaning(raw)
  <2>1. Meaning(raw) \in Overrides
    BY MeaningType
  <2>2. (request[a].revision # NewRevision) \in BOOLEAN
    OBVIOUS
  <2> QED
    BY <1>2, <2>1, <2>2 DEF Answer, Requests
<1> HIDE DEF q
<1>4. ConfigTypeOK'
  BY <1>1, <1>2, <1>3
<1>5. ASSUME NEW r \in Nat, NEW c, Stands(r, c)
      PROVE  Stands(r, c)'
  <2>1. CASE NewRevision = revision /\ raw = lastRaw
    BY <1>1, <1>5, <2>1 DEF Stands, Meaning
  <2>2. CASE NewRevision > revision
    BY <1>1, <1>2, <1>5, <2>2 DEF Stands
  <2> QED
    BY <1>2, <2>1, <2>2
<1>6. AgentsStand'
  <2> SUFFICES ASSUME NEW b \in current PROVE Stands(rev[b], applied[b])'
    BY <1>1 DEF AgentsStand
  <2>1. rev[b] \in Nat /\ Stands(rev[b], applied[b])
    BY DEF AgentsStand
  <2> QED
    BY <1>1, <1>5, <2>1 DEF Stands
<1>7. AnswersStand'
  <2> SUFFICES ASSUME NEW b \in Installations,
                      request'[b].at = "answered", request'[b].fresh
               PROVE  Stands(request[b].revision, request[b].config)'
    BY DEF AnswersStand
  <2>1. CASE b = a
    BY <1>1, <1>2, <1>3, <2>1 DEF Stands, Meaning
  <2>2. CASE b # a
    <3>1. request'[b] = request[b] /\ request[b].revision \in Nat
      BY <1>1, <2>2 DEF Requests
    <3>2. Stands(request[b].revision, request[b].config)
      BY <3>1 DEF AnswersStand
    <3> QED
      BY <1>5, <3>1, <3>2 DEF Stands
  <2> QED
    BY <2>1, <2>2
<1> QED
  BY <1>4, <1>6, <1>7

\* The agent takes an answer, which stands if the running process gave it.
LEMMA ReceiveInv == ASSUME ConfigInv, NEW a \in Installations, Receive(a) PROVE ConfigInv'
<1> USE DEF ConfigInv, ConfigTypeOK
<1>0. request[a] \in Requests
  OBVIOUS
<1>1. ConfigTypeOK'
  BY <1>0, NoRequestType DEF Receive, Requests
<1>2. UNCHANGED <<lastRaw, revision>> /\ request' = [request EXCEPT ![a] = NoRequest]
  BY DEF Receive
<1>3. AnswersStand'
  BY <1>2, NoRequestType DEF AnswersStand, Stands, Meaning
<1>4. AgentsStand'
  <2> SUFFICES ASSUME NEW b \in current' PROVE Stands(rev'[b], applied'[b])
    BY <1>2 DEF AgentsStand, Stands, Meaning
  <2>1. CASE b = a /\ request[a].full
    BY <2>1 DEF Receive, AnswersStand
  <2>2. CASE ~ (b = a /\ request[a].full)
    <3>1. b \in current /\ rev'[b] = rev[b] /\ applied'[b] = applied[b]
      BY <2>2 DEF Receive
    <3> QED
      BY <3>1 DEF AgentsStand
  <2> QED
    BY <2>1, <2>2
<1> QED
  BY <1>1, <1>3, <1>4

\* Another process of the gateway has given nothing yet.
LEMMA RestartServiceInv == ASSUME ConfigInv, NEW r, RestartService(r) PROVE ConfigInv'
<1> USE DEF ConfigInv, ConfigTypeOK
<1>1. \A a \in Installations :
        /\ request'[a] \in Requests
        /\ request'[a].at = "answered" => ~ request'[a].fresh
  BY NoRequestType DEF RestartService, Requests
<1>2. request' \in [Installations -> Requests]
  BY <1>1 DEF RestartService
<1>3. ConfigTypeOK'
  BY <1>2 DEF RestartService
<1>4. AgentsStand' /\ AnswersStand'
  BY <1>1 DEF RestartService, AgentsStand, AnswersStand
<1> QED
  BY <1>3, <1>4

\* The process goes on under another row, with what it was given.
LEMMA CarryOverInv ==
  ASSUME ConfigInv, NEW a \in Installations, NEW b \in Installations, CarryOver(a, b)
  PROVE  ConfigInv'
<1> USE DEF ConfigInv, ConfigTypeOK
<1>1. UNCHANGED <<raw, lastRaw, revision>>
  BY DEF CarryOver
<1>2. ConfigTypeOK'
  <2>1. Refused(request[a]) \in Requests
    BY DEF Refused, Requests
  <2> QED
    BY <2>1, NoRequestType DEF CarryOver
<1>3. AgentsStand'
  <2> SUFFICES ASSUME NEW d \in current' PROVE Stands(rev'[d], applied'[d])
    BY <1>1 DEF AgentsStand, Stands, Meaning
  <2>1. CASE d = b
    BY <2>1 DEF CarryOver, AgentsStand
  <2>2. CASE d # b
    <3>1. d \in current /\ rev'[d] = rev[d] /\ applied'[d] = applied[d]
      BY <2>2 DEF CarryOver
    <3> QED
      BY <3>1 DEF AgentsStand
  <2> QED
    BY <2>1, <2>2
<1>4. AnswersStand'
  <2> SUFFICES ASSUME NEW d \in Installations,
                      request'[d].at = "answered", request'[d].fresh
               PROVE  Stands(request'[d].revision, request'[d].config)
    BY <1>1 DEF AnswersStand, Stands, Meaning
  <2>1. \E e \in Installations : request'[d] = request[e]
    <3>1. Refused(request[a]).at = "answered" => Refused(request[a]) = request[a]
      BY DEF Refused, Requests
    <3> QED
      BY <3>1, NoRequestType DEF CarryOver
  <2> QED
    BY <2>1 DEF AnswersStand
<1> QED
  BY <1>2, <1>3, <1>4

\* Every step of the agents, the gateway and the environment keeps ConfigInv.
LEMMA ConfigNextInv == ConfigInv /\ [ConfigNext]_configVars => ConfigInv'
<1> SUFFICES ASSUME ConfigInv, [ConfigNext]_configVars PROVE ConfigInv'
  OBVIOUS
<1>1. CASE \E a \in Installations :
             Ask(a) \/ Serve(a) \/ Fail(a) \/ Receive(a) \/ RestartManager(a)
  BY <1>1, AskInv, ServeInv, FailInv, ReceiveInv, RestartManagerInv
<1>2. CASE \E a, b \in Installations : CarryOver(a, b)
  BY <1>2, CarryOverInv
<1>3. CASE \E r \in Overrides : SetOverride(r) \/ RestartService(r)
  BY <1>3, OverrideInv, RestartServiceInv
<1>4. CASE UNCHANGED configVars
  BY <1>4 DEF configVars, ConfigInv, ConfigTypeOK, AgentsStand, AnswersStand, Stands, Meaning
<1> QED
  BY <1>1, <1>2, <1>3, <1>4 DEF ConfigNext

\* The service, the agents' managers and the requests keep their types.
THEOREM ConfigTyped == ConfigSpec => []ConfigTypeOK
<1>1. ConfigInv => ConfigTypeOK
  BY DEF ConfigInv
<1> QED
  BY <1>1, ConfigInitInv, ConfigNextInv, PTL DEF ConfigSpec

\* Within one process of the gateway a revision stands for one configuration:
\* an agent that was given the current number has the current configuration,
\* however requests, failures and restarts of agents interleave.
THEOREM RevisionsMeanConfigurations == ConfigSpec => []RevisionMeansConfiguration
<1>1. ConfigInv => RevisionMeansConfiguration
  BY DEF ConfigInv, AgentsStand, Stands, RevisionMeansConfiguration
<1> QED
  BY <1>1, ConfigInitInv, ConfigNextInv, PTL DEF ConfigSpec

(***************************************************************************)
(* The gateway implements ConfigSync.                                      *)
(***************************************************************************)
\* Every step of the gateway is one of the configuration's, or none.
LEMMA ConfigSteps == [Next]_vars => [ConfigNext]_configVars
<1> SUFFICES ASSUME [Next]_vars PROVE [ConfigNext]_configVars
  OBVIOUS
<1> USE CloudAssumption
<1>1. CASE RegistryNext
  <2>1. ASSUME NEW a \in Agents,
               \/ Arrives(a) \/ Stops(a) \/ Restarts(a)
               \/ Heartbeats(a) \/ HeartbeatFails(a) \/ AgeOf(a)
        PROVE  [ConfigNext]_configVars
    BY <2>1 DEF Arrives, Stops, Restarts, Heartbeats, HeartbeatFails, AgeOf, NoConfigChange,
                ConfigNext
  <2>2. ASSUME NEW a \in Agents, NEW b \in Agents, ArrivesAgain(a, b)
        PROVE  [ConfigNext]_configVars
    BY <2>2 DEF ArrivesAgain, ConfigNext
  <2>3. ASSUME NEW a \in Agents, Asks(a) \/ IsAnswered(a) \/ AnswerArrives(a) \/ SyncFails(a)
        PROVE  [ConfigNext]_configVars
    BY <2>3 DEF Asks, IsAnswered, AnswerArrives, SyncFails, ConfigNext
  <2>4. CASE Scan \/ (ScanFails /\ NoConfigChange) \/ PurgeStep
    BY <2>4 DEF Scan, PurgeStep, NoConfigChange
  <2>5. ASSUME NEW r \in Overrides, Overridden(r) \/ GatewayRestarts(r)
        PROVE  [ConfigNext]_configVars
    BY <2>5 DEF Overridden, GatewayRestarts, ConfigNext
  <2> QED
    BY <1>1, <2>1, <2>2, <2>3, <2>4, <2>5 DEF RegistryNext
<1>2. CASE UNCHANGED configVars
  BY <1>2
<1> QED
  BY <1>1, <1>2 DEF Next, vars

\* The gateway, its agents and their registry give the configuration service no
\* behaviour that ConfigSync has not: restarts of an agent's process, a second
\* registration and a restart of the gateway are steps of it.
THEOREM ImplementsConfigSync == Spec => ConfigSpec
<1>1. Init => ConfigInit
  BY DEF Init
<1> QED
  BY <1>1, ConfigSteps, PTL DEF Spec, ConfigSpec

\* So a revision stands for one configuration in the gateway too, also for the
\* process that goes on under another agent id.
THEOREM GatewayRevisionsMean == Spec => []RevisionMeansConfiguration
BY ImplementsConfigSync, RevisionsMeanConfigurations, PTL

(***************************************************************************)
(* The registry.                                                           *)
(***************************************************************************)
Rows == /\ row \in [Agents -> {"none", "ONLINE", "OFFLINE"}]
        /\ expired \subseteq Agents
        /\ beats \subseteq {a \in Agents : row[a] # "none"}

Handlers ==
  /\ agent \in [Agents -> {"new", "beating", "mute", "silent", "rejected", "renamed"}]
  /\ beat \in [Agents -> {"none", "sent", "authenticated", "found", "updated"}]
  /\ scan \in [busy : BOOLEAN, found : SUBSET Agents]
  /\ purge \in [at : {"idle", "chosen", "cleared"}, ids : SUBSET Agents]
  /\ faults \in 0..MaxFaults

\* The type invariant in two parts.
LEMMA RegistryParts == RegistryTypeOK <=> Rows /\ Handlers
BY DEF RegistryTypeOK, Rows, Handlers

\* A row that is put in the table, or kept there, keeps its heartbeats.
LEMMA OnlineRows == ASSUME Rows, NEW a \in Agents, Online(a), UNCHANGED beats PROVE Rows'
BY DEF Rows, Online

\* The steps of the agents' processes and of their heartbeats.
LEMMA AgentTypes ==
  ASSUME Rows, Handlers, NEW a \in Agents,
         \/ Register(a, "beating") \/ RegisterUnanswered(a)
         \/ FallSilent(a) \/ RestartProcess(a)
         \/ Beats(a) \/ BeatFails(a) \/ Age(a)
         \/ \E b \in Agents : RegisterAgain(a, b)
  PROVE  Rows' /\ Handlers'
<1> USE AgentRegistryAssumption
<1>1. CASE Register(a, "beating")
  BY <1>1, OnlineRows DEF Register, Handlers
<1>2. CASE RegisterUnanswered(a)
  BY <1>2, OnlineRows DEF RegisterUnanswered, Handlers, Faulty
<1>3. CASE FallSilent(a) \/ RestartProcess(a)
  BY <1>3 DEF FallSilent, RestartProcess, Rows, Handlers, Faulty
<1>4. CASE SendBeat(a)
  BY <1>4 DEF SendBeat, Rows, Handlers
<1>5. CASE Authenticate(a)
  BY <1>5 DEF Authenticate, Progress, Reject, Rows, Handlers, Faulty
<1>6. CASE LookUp(a)
  BY <1>6 DEF LookUp, Progress, Reject, Rows, Handlers
<1>7. CASE Update(a)
  <2>1. Rows'
    BY <1>7, OnlineRows DEF Update, Rows
  <2> QED
    BY <1>7, <2>1 DEF Update, Progress, Handlers
<1>8. CASE Log(a)
  BY <1>8 DEF Log, Progress, Known, Rows, Handlers
<1>9. CASE BeatFails(a)
  BY <1>9 DEF BeatFails, Progress, Rows, Handlers, Faulty
<1>10. CASE Age(a)
  BY <1>10 DEF Age, Rows, Handlers
<1>11. ASSUME NEW b \in Agents, RegisterAgain(a, b) PROVE Rows' /\ Handlers'
  BY <1>11, OnlineRows DEF RegisterAgain, Handlers
<1> QED
  BY <1>1, <1>2, <1>3, <1>4, <1>5, <1>6, <1>7, <1>8, <1>9, <1>10, <1>11 DEF Beats

\* The steps of the gateway's scan, of a purge and of a restart.  Rows go only
\* when none of them has a heartbeat.
LEMMA GatewayTypes ==
  ASSUME Rows, Handlers,
         \/ ScanBegin \/ ScanMark \/ ScanFails \/ DropHandlers
         \/ PurgeBegin \/ PurgeHeartbeats \/ PurgeRows \/ PurgeFails
  PROVE  Rows' /\ Handlers'
<1> USE AgentRegistryAssumption
<1>1. NoScan \in [busy : BOOLEAN, found : SUBSET Agents]
      /\ NoPurge \in [at : {"idle", "chosen", "cleared"}, ids : SUBSET Agents]
  BY DEF NoScan, NoPurge
<1>2. CASE ScanBegin
  <2>1. Overdue \in SUBSET Agents /\ (Overdue # {}) \in BOOLEAN
    BY <1>2 DEF Overdue, Rows
  <2> QED
    BY <1>2, <2>1 DEF ScanBegin, Rows, Handlers
<1>3. CASE ScanMark
  BY <1>1, <1>3 DEF ScanMark, Known, Rows, Handlers
<1>4. CASE ScanFails
  BY <1>1, <1>4 DEF ScanFails, Rows, Handlers, Faulty
<1>5. CASE DropHandlers
  BY <1>1, <1>5 DEF DropHandlers, Rows, Handlers, Faulty
<1>6. CASE PurgeBegin
  BY <1>6 DEF PurgeBegin, Purge, Rows, Handlers
<1>7. CASE PurgeHeartbeats
  BY <1>7 DEF PurgeHeartbeats, Purge, Rows, Handlers
<1>8. CASE PurgeRows
  BY <1>1, <1>8 DEF PurgeRows, Purge, Rows, Handlers
<1>9. CASE PurgeFails
  BY <1>1, <1>9 DEF PurgeFails, Purge, Rows, Handlers, Faulty
<1> QED
  BY <1>2, <1>3, <1>4, <1>5, <1>6, <1>7, <1>8, <1>9

\* The registry with what happens around it.
LEMMA RegistryTypes == ASSUME RegistryTypeOK, [Next]_vars PROVE RegistryTypeOK'
<1> SUFFICES Rows' /\ Handlers'
  BY RegistryParts, PTL
<1>0. Rows /\ Handlers
  BY RegistryParts
<1> USE AgentRegistryAssumption
<1>1. CASE UNCHANGED registryVars
  BY <1>0, <1>1 DEF registryVars, Rows, Handlers
<1>2. CASE RegistryNext
  <2>1. ASSUME NEW a \in Agents,
               \/ Arrives(a) \/ Stops(a) \/ Restarts(a)
               \/ Heartbeats(a) \/ HeartbeatFails(a) \/ AgeOf(a)
               \/ \E b \in Agents : ArrivesAgain(a, b)
        PROVE  Rows' /\ Handlers'
    BY <1>0, <2>1, AgentTypes
    DEF Arrives, Stops, Restarts, Heartbeats, HeartbeatFails, AgeOf, ArrivesAgain
  <2>2. ASSUME NEW a \in Agents, Asks(a) \/ IsAnswered(a) \/ AnswerArrives(a)
        PROVE  Rows' /\ Handlers'
    BY <1>1, <2>2 DEF Asks, IsAnswered, AnswerArrives
  <2>3. CASE Faulty /\ UNCHANGED <<row, expired, beats, agent, beat, scan, purge>>
    BY <1>0, <2>3 DEF Faulty, Rows, Handlers
  <2>4. CASE Scan \/ ScanFails \/ PurgeStep
    BY <1>0, <2>4, GatewayTypes DEF Scan, PurgeStep
  <2>5. ASSUME NEW r \in Overrides, GatewayRestarts(r) PROVE Rows' /\ Handlers'
    BY <1>0, <2>5, GatewayTypes DEF GatewayRestarts
  <2> QED
    BY <1>2, <2>1, <2>2, <2>3, <2>4, <2>5 DEF RegistryNext, SyncFails, Overridden
<1> QED
  BY <1>1, <1>2 DEF Next, vars

(***************************************************************************)
(* The evidence.                                                           *)
(***************************************************************************)
Moments == clock \in Nat /\ moments \in 1..MaxMoments

Events ==
  /\ \A e \in evidence : e.src \in failing /\ e.at \in 0..clock /\ e.over \subseteq Resources
  /\ resolved \subseteq evidence

Kinds == {GroupKind[src] : src \in IncidentSources}

Groups ==
  /\ groups \in SUBSET [kind : Kinds, openedAt : 0..clock, incidents : SUBSET evidence]
  /\ \A g, h \in groups : g # h => g.incidents \cap h.incidents = {}

\* Every incident has a group that took it in.
Housed == \A e \in evidence : e.src \in IncidentSources => \E g \in groups : e \in g.incidents

EvidenceInv == Moments /\ Events /\ Groups /\ Housed

\* An incident has one group, as the groups share none.
LEMMA OneGroup ==
  ASSUME EvidenceInv PROVE EvidenceTypeOK
<1> SUFFICES ASSUME NEW e \in evidence, e.src \in IncidentSources
             PROVE  Cardinality({g \in groups : e \in g.incidents}) = 1
  BY DEF EvidenceInv, Moments, Events, EvidenceTypeOK
<1>1. PICK g \in groups : e \in g.incidents
  BY DEF EvidenceInv, Housed
<1>2. ASSUME NEW h \in groups, e \in h.incidents PROVE h = g
  BY <1>1, <1>2 DEF EvidenceInv, Groups
<1>3. {h \in groups : e \in h.incidents} = {g}
  BY <1>1, <1>2
<1> QED
  BY <1>3, FS_Singleton

\* Nothing has been reported at the start.
LEMMA EvidenceInitInv ==
  ASSUME NEW sources, EvidenceInit(sources) PROVE EvidenceInv
BY EvidenceAssumption
DEF EvidenceInit, EvidenceInv, Moments, Events, Groups, Housed

\* An incident is new, as the source's others are older: it joins a group that
\* is open to it, or opens one, and is in no other.
LEMMA ReportHoused ==
  ASSUME EvidenceInv, NEW src, ReportIncident(src) PROVE EvidenceInv'
<1> USE DEF EvidenceInv, Moments
<1> DEFINE kind == GroupKind[src]
           GroupType == [kind : Kinds, openedAt : 0..clock, incidents : SUBSET evidence']
<1>1. PICK e : e = [src |-> src, at |-> clock, over |-> {}]
  OBVIOUS
<1>2. /\ src \in failing /\ src \in IncidentSources /\ evidence' = evidence \cup {e}
      /\ UNCHANGED <<clock, moments, failing, resolved>>
      /\ \/ \E g \in Joinable(kind) :
              groups' = (groups \ {g}) \cup {[g EXCEPT !.incidents = @ \cup {e}]}
         \/ groups' = groups \cup {[kind |-> kind, openedAt |-> clock, incidents |-> {e}]}
  BY <1>1 DEF ReportIncident
<1>3. e \notin evidence
  BY <1>1 DEF ReportIncident, Events
<1>4. Moments' /\ Events'
  BY <1>1, <1>2 DEF Events
<1>5. \A g \in groups : g \in GroupType /\ e \notin g.incidents
  BY <1>2, <1>3 DEF Groups
<1>6. PICK old, new : /\ groups' = (groups \ old) \cup {new} /\ new \in GroupType
                      /\ e \in new.incidents
                      /\ \/ old = {} /\ new.incidents = {e}
                         \/ \E g \in groups : /\ old = {g}
                                              /\ new.incidents = g.incidents \cup {e}
  <2>1. CASE \E g \in Joinable(kind) :
               groups' = (groups \ {g}) \cup {[g EXCEPT !.incidents = @ \cup {e}]}
    <3>0. PICK g \in Joinable(kind) :
                 groups' = (groups \ {g}) \cup {[g EXCEPT !.incidents = @ \cup {e}]}
      BY <2>1
    <3>1. PICK new : /\ groups' = (groups \ {g}) \cup {new}
                     /\ new = [g EXCEPT !.incidents = @ \cup {e}]
      BY <3>0
    <3>2. g \in groups /\ g \in GroupType
      BY <1>5 DEF Joinable
    <3>3. new \in GroupType /\ new.incidents = g.incidents \cup {e}
      BY <1>2, <3>1, <3>2
    <3> HIDE DEF GroupType
    <3> QED
      BY <3>1, <3>2, <3>3
  <2>2. CASE groups' = groups \cup {[kind |-> kind, openedAt |-> clock, incidents |-> {e}]}
    <3>1. PICK new : new = [kind |-> kind, openedAt |-> clock, incidents |-> {e}]
      OBVIOUS
    <3>2. new \in GroupType /\ new.incidents = {e}
      BY <1>2, <3>1 DEF Kinds
    <3>3. groups' = (groups \ {}) \cup {new}
      BY <2>2, <3>1
    <3> HIDE DEF GroupType
    <3> QED
      BY <3>2, <3>3
  <2> QED
    BY <1>2, <2>1, <2>2
<1> HIDE DEF GroupType
<1>7. \A g \in groups' : g = new \/ (g \in groups /\ g \notin old)
  BY <1>6
<1>8. \A g \in groups : g \notin old => g.incidents \cap new.incidents = {}
  BY <1>5, <1>6 DEF Groups
<1>9. Groups'
  <2>1. groups' \subseteq GroupType
    BY <1>5, <1>6
  <2> QED
    BY <1>2, <1>7, <1>8, <2>1 DEF Groups, GroupType
<1>10. Housed'
  <2> SUFFICES ASSUME NEW i \in evidence', i.src \in IncidentSources
               PROVE  \E g \in groups' : i \in g.incidents
    BY DEF Housed
  <2>1. CASE i = e
    BY <1>6, <2>1
  <2>2. CASE i # e
    <3>1. PICK g \in groups : i \in g.incidents
      BY <1>2, <2>2 DEF Housed
    <3> QED
      BY <1>6, <3>1
  <2> QED
    BY <2>1, <2>2
<1> QED
  BY <1>4, <1>9, <1>10

\* Time, audits and recoveries leave the incidents where they are.
LEMMA OthersHoused ==
  ASSUME EvidenceInv, clock' \in Nat, clock <= clock', moments' \in 1..MaxMoments,
         UNCHANGED <<failing, groups>>, evidence \subseteq evidence', Events',
         \A e \in evidence' : e \in evidence \/ e.src \notin IncidentSources
  PROVE  EvidenceInv'
<1>1. Groups'
  <2>1. [kind : Kinds, openedAt : 0..clock, incidents : SUBSET evidence]
          \subseteq [kind : Kinds, openedAt : 0..clock', incidents : SUBSET evidence']
    BY DEF EvidenceInv, Moments
  <2> QED
    BY <2>1 DEF EvidenceInv, Groups
<1>2. Housed'
  BY DEF EvidenceInv, Housed
<1> QED
  BY <1>1, <1>2 DEF EvidenceInv, Moments

\* Every step keeps the evidence in order.
LEMMA EvidenceStep == ASSUME EvidenceInv, [Next]_vars PROVE EvidenceInv'
<1> USE EvidenceAssumption
<1>1. ASSUME NEW src, ReportIncident(src) PROVE EvidenceInv'
  BY <1>1, ReportHoused
<1>2. ASSUME NEW src, NEW over, WriteAudit(src, over) PROVE EvidenceInv'
  <2> DEFINE new == [src |-> src, at |-> clock, over |-> over]
  <2>1. /\ src \in failing \ IncidentSources /\ over \in Overloads \cup {{}}
        /\ evidence' = evidence \cup {new} /\ UNCHANGED <<clock, moments, failing, groups, resolved>>
    BY <1>2 DEF WriteAudit
  <2>2. Events'
    BY <2>1 DEF EvidenceInv, Moments, Events
  <2> QED
    BY <2>1, <2>2, OthersHoused DEF EvidenceInv, Moments
<1>3. ASSUME NEW gap \in Gaps, TimePasses(gap) PROVE EvidenceInv'
  <2>1. /\ clock' = clock + gap /\ moments' = moments + 1 /\ moments < MaxMoments
        /\ UNCHANGED <<failing, evidence, groups, resolved>> /\ gap \in Nat
    BY <1>3 DEF TimePasses
  <2>2. Events'
    BY <2>1 DEF EvidenceInv, Moments, Events
  <2> QED
    BY <2>1, <2>2, OthersHoused DEF EvidenceInv, Moments
<1>4. ASSUME NEW e, ResolveIncident(e) PROVE EvidenceInv'
  <2>1. /\ e \in evidence /\ resolved' = resolved \cup {e}
        /\ UNCHANGED <<clock, moments, failing, evidence, groups>>
    BY <1>4 DEF ResolveIncident
  <2>2. Events'
    BY <2>1 DEF EvidenceInv, Events
  <2> QED
    BY <2>1, <2>2, OthersHoused DEF EvidenceInv, Moments
<1>5. CASE UNCHANGED evidenceVars
  BY <1>5 DEF evidenceVars, EvidenceInv, Moments, Events, Groups, Housed
<1> QED
  BY <1>1, <1>2, <1>3, <1>4, <1>5 DEF Next, EvidenceNext, vars

\* Nothing that was reported is out of order, in any behaviour.
LEMMA EvidenceInOrder == Spec => []EvidenceInv
<1>1. Init => EvidenceInv
  BY EvidenceInitInv DEF Init
<1>2. EvidenceInv /\ [Next]_vars => EvidenceInv'
  BY EvidenceStep
<1> QED
  BY <1>1, <1>2, PTL DEF Spec

\* The gateway's state keeps its types: a heartbeat in the table has a row, as its
\* foreign key demands, although the purge deletes both in two steps; and every
\* incident belongs to exactly one group.
THEOREM CloudTyped == Spec => []TypeOK
<1>1. Init => RegistryTypeOK
  BY AgentRegistryAssumption
  DEF Init, RegistryInit, RegistryTypeOK, NoScan, NoPurge
<1>2. RegistryTypeOK /\ [Next]_vars => RegistryTypeOK'
  BY RegistryTypes
<1>3. EvidenceInv => EvidenceTypeOK
  BY OneGroup
<1>4. RegistryTypeOK /\ ConfigTypeOK /\ EvidenceTypeOK => TypeOK
  BY DEF TypeOK
<1> QED
  BY <1>1, <1>2, <1>3, <1>4, ImplementsConfigSync, ConfigTyped, EvidenceInOrder, PTL DEF Spec

(***************************************************************************)
(* The analysis: which event comes first.                                  *)
(***************************************************************************)
Named(srcs) == {srcs[i] : i \in DOMAIN srcs}

Timed(E) == \A e \in E : e.at \in Nat

\* What a list of sources selects is a matter of the names in it.
LEMMA UnhealthyAre ==
  ASSUME NEW E, NEW srcs
  PROVE  Unhealthy(E, srcs) = {e \in E : e.src \in Named(srcs)}
BY DEF Unhealthy, Named

\* Of some moments one is the earliest.
LEMMA Earliest ==
  ASSUME NEW V, V \subseteq Nat, V # {}
  PROVE  \E v \in V : \A w \in V : v <= w
<1>1. PICK v \in V : \A w \in V : ~(<<w, v>> \in OpToRel(<, Nat))
  BY NatLessThanWellFounded, WFMin
<1>2. ASSUME NEW w \in V PROVE v <= w
  <2>1. w \in Nat /\ v \in Nat
    OBVIOUS
  <2>2. ~(w < v)
    BY <1>1, <2>1 DEF OpToRel
  <2> QED
    BY <2>1, <2>2
<1> QED
  BY <1>2

\* A source's place is one of the list's.
LEMMA Places ==
  ASSUME NEW S, NEW srcs \in Seq(S), NEW E, NEW e \in Unhealthy(E, srcs)
  PROVE  Place(srcs, e) \in Nat /\ srcs[Place(srcs, e)] = e.src
<1>1. \E i \in DOMAIN srcs : srcs[i] = e.src
  BY DEF Unhealthy
<1>2. Place(srcs, e) \in DOMAIN srcs /\ srcs[Place(srcs, e)] = e.src
  BY <1>1 DEF Place
<1>3. DOMAIN srcs \subseteq Nat
  BY LenProperties
<1> QED
  BY <1>2, <1>3

\* findFirstUnhealthy finds the earliest event of its sources.
LEMMA FirstIs ==
  ASSUME NEW S, NEW srcs \in Seq(S), NEW E, Timed(E), Failed(E, srcs)
  PROVE  /\ FirstUnhealthy(E, srcs) \in Unhealthy(E, srcs)
         /\ \A g \in Unhealthy(E, srcs) : FirstUnhealthy(E, srcs).at <= g.at
<1> DEFINE T == Unhealthy(E, srcs)
           Before(e, f) == e.at < f.at \/ (e.at = f.at /\ Place(srcs, e) <= Place(srcs, f))
<1>0. FirstUnhealthy(E, srcs) = CHOOSE e \in T : \A f \in T \ {e} : Before(e, f)
  BY DEF FirstUnhealthy, Least
<1>1. /\ T # {} /\ \A e \in T : e.at \in Nat /\ Place(srcs, e) \in Nat
  BY Places DEF Failed, Timed, Unhealthy
<1> HIDE DEF T
<1>2. PICK a \in {e.at : e \in T} : \A b \in {e.at : e \in T} : a <= b
  BY <1>1, Earliest
<1>3. PICK U : U = {e \in T : e.at = a}
  OBVIOUS
<1>4. PICK i \in {Place(srcs, e) : e \in U} : \A j \in {Place(srcs, e) : e \in U} : i <= j
  <2>1. {Place(srcs, e) : e \in U} \subseteq Nat /\ {Place(srcs, e) : e \in U} # {}
    BY <1>1, <1>2, <1>3
  <2> QED
    BY <2>1, Earliest
<1>5. PICK e \in T : e.at = a /\ Place(srcs, e) = i
  BY <1>3, <1>4
<1>6. ASSUME NEW f \in T PROVE Before(e, f)
  <2>1. e.at \in Nat /\ f.at \in Nat /\ e.at <= f.at
    BY <1>1, <1>2, <1>5
  <2>2. f.at = a => Place(srcs, e) <= Place(srcs, f)
    BY <1>3, <1>4, <1>5
  <2> QED
    BY <1>5, <2>1, <2>2
<1>7. FirstUnhealthy(E, srcs) \in T /\ \A f \in T \ {FirstUnhealthy(E, srcs)} : Before(FirstUnhealthy(E, srcs), f)
  BY <1>0, <1>5, <1>6
<1> QED
  BY <1>1, <1>7 DEF T

\* The leading event is of the first source that has one, and its earliest.
LEMMA LeadingIs ==
  ASSUME NEW S, NEW srcs \in Seq(S), NEW E, Timed(E), Failed(E, srcs)
  PROVE  /\ Leading(E, srcs) \in Unhealthy(E, srcs)
         /\ \A g \in Unhealthy(E, srcs) :
              g.src = Leading(E, srcs).src => Leading(E, srcs).at <= g.at
<1> DEFINE T == Unhealthy(E, srcs)
           Before(e, f) ==
             Place(srcs, e) < Place(srcs, f) \/ (Place(srcs, e) = Place(srcs, f) /\ e.at <= f.at)
<1>0. Leading(E, srcs) = CHOOSE e \in T : \A f \in T \ {e} : Before(e, f)
  BY DEF Leading, Least
<1>1. /\ T # {} /\ \A e \in T : e.at \in Nat /\ Place(srcs, e) \in Nat
  BY Places DEF Failed, Timed, Unhealthy
<1>2. \A e, f \in T : e.src = f.src => Place(srcs, e) = Place(srcs, f)
  BY DEF Place
<1> HIDE DEF T
<1>3. PICK i \in {Place(srcs, e) : e \in T} : \A j \in {Place(srcs, e) : e \in T} : i <= j
  <2>1. {Place(srcs, e) : e \in T} \subseteq Nat /\ {Place(srcs, e) : e \in T} # {}
    BY <1>1
  <2> QED
    BY <2>1, Earliest
<1>4. PICK U : U = {e \in T : Place(srcs, e) = i}
  OBVIOUS
<1>5. PICK a \in {e.at : e \in U} : \A b \in {e.at : e \in U} : a <= b
  <2>1. {e.at : e \in U} \subseteq Nat /\ {e.at : e \in U} # {}
    BY <1>1, <1>3, <1>4
  <2> QED
    BY <2>1, Earliest
<1>6. PICK e \in T : e.at = a /\ Place(srcs, e) = i
  BY <1>4, <1>5
<1>7. ASSUME NEW f \in T PROVE Before(e, f)
  <2>1. /\ Place(srcs, e) \in Nat /\ Place(srcs, f) \in Nat
        /\ Place(srcs, e) <= Place(srcs, f)
    BY <1>1, <1>3, <1>6
  <2>2. Place(srcs, f) = i => e.at <= f.at
    BY <1>4, <1>5, <1>6
  <2> QED
    BY <1>6, <2>1, <2>2
<1>8. Leading(E, srcs) \in T /\ \A f \in T \ {Leading(E, srcs)} : Before(Leading(E, srcs), f)
  BY <1>0, <1>6, <1>7
<1> QED
  BY <1>1, <1>2, <1>8 DEF T

(***************************************************************************)
(* The sources by name.                                                    *)
(***************************************************************************)
Docker == {"DOCKER", "DOCKER_HEALTH"}
Api == {"FREQTRADE", "FREQTRADE_API"}
Telemetry == {"HEARTBEAT", "BROKER_CONNECTION", "MARKET_DATA"}
Net == {"NETWORK", "NETWORK_HEALTH"}
Dns == {"DNS", "DNS_HEALTH"}
Exchange == {"EXCHANGE_REACHABILITY", "EXCHANGE_HEALTH"}
Names == Docker \cup Api \cup Telemetry \cup {"VM_HEALTH"} \cup Net \cup Dns \cup Exchange

\* The names of two lists in a row are those of both.
LEMMA NamedConcat ==
  ASSUME NEW s \in Seq(Names), NEW t \in Seq(Names)
  PROVE  s \o t \in Seq(Names) /\ Named(s \o t) = Named(s) \cup Named(t)
<1> DEFINE u == s \o t
<1>1. /\ u \in Seq(Names) /\ Len(u) = Len(s) + Len(t)
      /\ \A i \in 1 .. Len(s) + Len(t) : u[i] = IF i <= Len(s) THEN s[i] ELSE t[i - Len(s)]
  BY ConcatProperties
<1> HIDE DEF u
<1>2. Len(s) \in Nat /\ Len(t) \in Nat
  BY LenProperties
<1>3. DOMAIN u = 1..(Len(s) + Len(t)) /\ DOMAIN s = 1..Len(s) /\ DOMAIN t = 1..Len(t)
  BY <1>1, LenProperties
<1>4. \A i \in DOMAIN u : u[i] \in Named(s) \cup Named(t)
  <2> SUFFICES ASSUME NEW i \in DOMAIN u PROVE u[i] \in Named(s) \cup Named(t)
    OBVIOUS
  <2>1. CASE i <= Len(s)
    BY <1>1, <1>2, <1>3, <2>1 DEF Named
  <2>2. CASE ~(i <= Len(s))
    <3>1. i - Len(s) \in DOMAIN t
      BY <1>2, <1>3, <2>2
    <3> QED
      BY <1>1, <1>3, <2>2, <3>1 DEF Named
  <2> QED
    BY <2>1, <2>2
<1>5. \A i \in DOMAIN s : s[i] \in Named(u)
  <2> SUFFICES ASSUME NEW i \in DOMAIN s PROVE s[i] \in Named(u)
    OBVIOUS
  <2>1. i \in DOMAIN u /\ u[i] = s[i]
    BY <1>1, <1>2, <1>3
  <2> QED
    BY <2>1 DEF Named
<1>6. \A i \in DOMAIN t : t[i] \in Named(u)
  <2> SUFFICES ASSUME NEW i \in DOMAIN t PROVE t[i] \in Named(u)
    OBVIOUS
  <2>1. i + Len(s) \in DOMAIN u /\ u[i + Len(s)] = t[i]
    BY <1>1, <1>2, <1>3
  <2> QED
    BY <2>1 DEF Named
<1> QED
  BY <1>1, <1>4, <1>5, <1>6 DEF Named, u

\* The names of a short list.
LEMMA NamedLists ==
  /\ \A a \in Names : <<a>> \in Seq(Names) /\ Named(<<a>>) = {a}
  /\ \A a, b \in Names : <<a, b>> \in Seq(Names) /\ Named(<<a, b>>) = {a, b}
  /\ \A a, b, c \in Names : <<a, b, c>> \in Seq(Names) /\ Named(<<a, b, c>>) = {a, b, c}
BY DEF Named

\* The lists of the rules.
LEMMA Lists ==
  /\ DockerSources \in Seq(Names) /\ Named(DockerSources) = Docker
  /\ ApiSources \in Seq(Names) /\ Named(ApiSources) = Api
  /\ HeartbeatSources \in Seq(Names) /\ Named(HeartbeatSources) = {"HEARTBEAT"}
  /\ TelemetrySources \in Seq(Names) /\ Named(TelemetrySources) = Telemetry
  /\ VMSources \in Seq(Names) /\ Named(VMSources) = {"VM_HEALTH"}
  /\ NetSources \in Seq(Names) /\ Named(NetSources) = Net
  /\ DnsSources \in Seq(Names) /\ Named(DnsSources) = Dns
  /\ LocalSources \in Seq(Names) /\ Named(LocalSources) = Net \cup Dns
  /\ ExchangeSources \in Seq(Names) /\ Named(ExchangeSources) = Exchange
  /\ AllSources \in Seq(Names) /\ Named(AllSources) = Names
<1> USE NamedLists
<1>1. DockerSources \in Seq(Names) /\ Named(DockerSources) = Docker
  BY DEF DockerSources, Docker, Names
<1>2. ApiSources \in Seq(Names) /\ Named(ApiSources) = Api
  BY DEF ApiSources, Api, Names
<1>3. HeartbeatSources \in Seq(Names) /\ Named(HeartbeatSources) = {"HEARTBEAT"}
  BY DEF HeartbeatSources, Telemetry, Names
<1>4. TelemetrySources \in Seq(Names) /\ Named(TelemetrySources) = Telemetry
  BY DEF TelemetrySources, Telemetry, Names
<1>5. VMSources \in Seq(Names) /\ Named(VMSources) = {"VM_HEALTH"}
  BY DEF VMSources, Names
<1>6. NetSources \in Seq(Names) /\ Named(NetSources) = Net
  BY DEF NetSources, Net, Names
<1>7. DnsSources \in Seq(Names) /\ Named(DnsSources) = Dns
  BY DEF DnsSources, Dns, Names
<1>8. ExchangeSources \in Seq(Names) /\ Named(ExchangeSources) = Exchange
  BY DEF ExchangeSources, Exchange, Names
<1>9. LocalSources \in Seq(Names) /\ Named(LocalSources) = Net \cup Dns
  BY <1>6, <1>7, NamedConcat DEF LocalSources
<1>10. AllSources \in Seq(Names) /\ Named(AllSources) = Names
  <2>1. PICK u1 : u1 = DockerSources \o ApiSources
    OBVIOUS
  <2>2. u1 \in Seq(Names) /\ Named(u1) = Docker \cup Api
    BY <1>1, <1>2, <2>1, NamedConcat
  <2>3. PICK u2 : u2 = u1 \o TelemetrySources
    OBVIOUS
  <2>4. u2 \in Seq(Names) /\ Named(u2) = Docker \cup Api \cup Telemetry
    BY <1>4, <2>2, <2>3, NamedConcat
  <2>5. PICK u3 : u3 = u2 \o VMSources
    OBVIOUS
  <2>6. u3 \in Seq(Names) /\ Named(u3) = Docker \cup Api \cup Telemetry \cup {"VM_HEALTH"}
    BY <1>5, <2>4, <2>5, NamedConcat
  <2>7. PICK u4 : u4 = u3 \o LocalSources
    OBVIOUS
  <2>8. /\ u4 \in Seq(Names)
        /\ Named(u4) = Docker \cup Api \cup Telemetry \cup {"VM_HEALTH"} \cup (Net \cup Dns)
    BY <1>9, <2>6, <2>7, NamedConcat
  <2>9. AllSources = u4 \o ExchangeSources
    BY <2>1, <2>3, <2>5, <2>7 DEF AllSources
  <2>10. AllSources \in Seq(Names) /\ Named(AllSources) = Named(u4) \cup Named(ExchangeSources)
    BY <1>8, <2>8, <2>9, NamedConcat
  <2> QED
    BY <1>8, <2>8, <2>10 DEF Names
<1> QED
  BY <1>1, <1>2, <1>3, <1>4, <1>5, <1>6, <1>7, <1>8, <1>9, <1>10

(***************************************************************************)
(* The scores.                                                             *)
(***************************************************************************)
\* Sets given by a few elements.
LEMMA Few ==
  /\ IsFiniteSet({}) /\ Cardinality({}) = 0
  /\ \A a : IsFiniteSet({a}) /\ Cardinality({a}) = 1
  /\ \A a, b : IsFiniteSet({a, b}) /\ Cardinality({a, b}) = IF a = b THEN 1 ELSE 2
<1>1. IsFiniteSet({}) /\ Cardinality({}) = 0
  BY FS_EmptySet
<1>2. ASSUME NEW a PROVE IsFiniteSet({a}) /\ Cardinality({a}) = 1
  BY FS_Singleton
<1>3. ASSUME NEW a, NEW b
      PROVE  IsFiniteSet({a, b}) /\ Cardinality({a, b}) = IF a = b THEN 1 ELSE 2
  <2>1. PICK A : A = {a}
    OBVIOUS
  <2>2. IsFiniteSet(A) /\ Cardinality(A) = 1
    BY <1>2, <2>1
  <2>3. /\ IsFiniteSet(A \cup {b})
        /\ Cardinality(A \cup {b}) = IF b \in A THEN Cardinality(A) ELSE Cardinality(A) + 1
    BY <2>2, FS_AddElement
  <2>4. {a, b} = A \cup {b} /\ (b \in A <=> a = b)
    BY <2>1
  <2> QED
    BY <2>2, <2>3, <2>4
<1> QED
  BY <1>1, <1>2, <1>3

\* One more than two are three.
LEMMA Three ==
  ASSUME NEW a, NEW b, NEW c, a # b, a # c, b # c
  PROVE  IsFiniteSet({a, b, c}) /\ Cardinality({a, b, c}) = 3
<1>1. PICK A : A = {a, b}
  OBVIOUS
<1>2. IsFiniteSet(A) /\ Cardinality(A) = 2
  BY <1>1, Few
<1>3. c \notin A /\ {a, b, c} = A \cup {c}
  BY <1>1
<1> QED
  BY <1>2, <1>3, FS_AddElement

\* One more than three are four.
LEMMA Four ==
  ASSUME NEW a, NEW b, NEW c, NEW d, a # b, a # c, b # c, d \notin {a, b, c}
  PROVE  IsFiniteSet({a, b, c, d}) /\ Cardinality({a, b, c, d}) = 4
<1>0. IsFiniteSet({a, b, c}) /\ Cardinality({a, b, c}) = 3
  BY Three
<1>1. PICK A : A = {a, b, c}
  OBVIOUS
<1>2. IsFiniteSet(A) /\ Cardinality(A) = 3
  BY <1>0, <1>1
<1>3. d \notin A /\ {a, b, c, d} = A \cup {d}
  BY <1>1
<1> QED
  BY <1>2, <1>3, FS_AddElement

\* A part of a finite set has no more elements.
LEMMA AtMost ==
  ASSUME NEW T, IsFiniteSet(T), NEW S, S \subseteq T
  PROVE  IsFiniteSet(S) /\ Cardinality(S) \in Nat /\ Cardinality(S) <= Cardinality(T)
BY FS_Subset, FS_CardinalityType

\* The signals are of the sources asked for, and events have them.
LEMMA SignalsOf ==
  ASSUME NEW E, NEW srcs
  PROVE  /\ Signals(Unhealthy(E, srcs)) \subseteq Named(srcs)
         /\ Failed(E, srcs) <=> Signals(Unhealthy(E, srcs)) # {}
BY UnhealthyAre DEF Signals, Failed

\* The network and DNS are seen in four ways.
LEMMA LocalNames ==
  IsFiniteSet(Named(LocalSources)) /\ Cardinality(Named(LocalSources)) = 4
<1>1. PICK a, b, c, d : a = "NETWORK" /\ b = "NETWORK_HEALTH" /\ c = "DNS" /\ d = "DNS_HEALTH"
  OBVIOUS
<1>2. Named(LocalSources) = {a, b, c, d}
  BY <1>1, Lists DEF Net, Dns
<1>3. a # b /\ a # c /\ b # c /\ d \notin {a, b, c}
  BY <1>1
<1>4. IsFiniteSet({a, b, c, d}) /\ Cardinality({a, b, c, d}) = 4
  BY <1>3, Four
<1> QED
  BY <1>2, <1>4

\* The scores that come in steps.
LEMMA StepScores ==
  ASSUME NEW c, NEW E
  PROVE  /\ ConcurrencyScore(c) \in {0, 900}
         /\ FirstOccurrenceScore(c, E) \in {-1020, 0, 1020}
<1>1. ConcurrencyScore(c) \in {0, 900}
  BY DEF ConcurrencyScore
<1>2. FirstOccurrenceScore(c, E) \in {-1020, 0, 1020}
  BY DEF FirstOccurrenceScore
<1> QED
  BY <1>1, <1>2

\* A hypothesis whose trigger is not the first of all is marked down for it.
LEMMA NotFirst ==
  ASSUME NEW c, NEW E, Failed(E, c.trigger),
         FirstUnhealthy(E, c.trigger) # FirstUnhealthy(E, AllSources)
  PROVE  FirstOccurrenceScore(c, E) = -1020
BY DEF FirstOccurrenceScore

\* Nothing found is nothing taken off.
LEMMA NoneCounted == \A m \in Int : m >= 0 /\ m <= 0 => -800 * m = 0 /\ -1500 * m = 0
OBVIOUS

\* What a network outage scores.
LEMMA NetworkScore ==
  ASSUME NEW E, Failed(E, LocalSources)
  PROVE  \E n \in 1..4, k \in {0, 900}, h \in 0..3 :
           /\ n = Cardinality(Signals(Unhealthy(E, LocalSources)))
           /\ n = 4 => Signals(Unhealthy(E, LocalSources)) = Named(LocalSources)
           /\ Score("NETWORK_OUTAGE", E) =
                4000 + 500 * n + k + FirstOccurrenceScore(NetworkRule(E), E) + 475 * h
<1> DEFINE c == NetworkRule(E)
           S == Signals(Unhealthy(E, LocalSources))
<1>1. c.supporting = Unhealthy(E, LocalSources) /\ c.contradicting = {} /\ c.missing = 0
  BY DEF NetworkRule, Candidate
<1>2. PICK net, dns \in BOOLEAN : net = Failed(E, NetSources) /\ dns = Failed(E, DnsSources)
  BY DEF Failed
<1>3. net \/ dns
  BY <1>2, SignalsOf, UnhealthyAre, Lists DEF Failed
<1>4. c.hints \in 0..3
  <2>1. PICK outage \in BOOLEAN :
          c.hints = One(outage) + One(net) - One(~net) + One(dns) - One(~dns)
                    /\ (outage => net /\ dns)
    BY <1>2 DEF NetworkRule, Candidate
  <2> QED
    BY <1>3, <2>1 DEF One
<1>5. /\ IsFiniteSet(Named(LocalSources)) /\ Cardinality(Named(LocalSources)) = 4
  BY LocalNames
<1>6. S \subseteq Named(LocalSources) /\ S # {}
  BY SignalsOf
<1>7. Cardinality(S) \in 1..4 /\ (Cardinality(S) = 4 => S = Named(LocalSources))
  <2>1. Cardinality(S) \in Nat /\ Cardinality(S) <= 4 /\ IsFiniteSet(S)
    BY <1>5, <1>6, AtMost
  <2>2. Cardinality(S) # 0
    BY <1>6, <2>1, FS_EmptySet
  <2>3. Cardinality(S) = 4 => S = Named(LocalSources)
    BY <1>5, <1>6, FS_Subset
  <2> QED
    BY <2>1, <2>2, <2>3
<1>8. SupportingScore(c) = 500 * Cardinality(S)
  BY <1>1 DEF SupportingScore
<1>9. ContradictionScore(c) = 0 /\ MissingScore(c) = 0
  <2>1. Signals({}) = {}
    BY DEF Signals
  <2>2. Cardinality(Signals(c.contradicting)) = 0
    BY <1>1, <2>1, Few
  <2> HIDE DEF c
  <2>3. ContradictionScore(c) = -1500 * Cardinality(Signals(c.contradicting))
    BY DEF ContradictionScore
  <2>4. MissingScore(c) = -800 * c.missing
    BY DEF MissingScore
  <2>5. /\ c.missing \in Int /\ c.missing >= 0 /\ c.missing <= 0
        /\ Cardinality(Signals(c.contradicting)) \in Int
        /\ Cardinality(Signals(c.contradicting)) >= 0 /\ Cardinality(Signals(c.contradicting)) <= 0
    BY <1>1, <2>2
  <2> QED
    BY <2>3, <2>4, <2>5, NoneCounted
<1>10. HintScore(c) = 475 * c.hints
  BY DEF HintScore
<1>11. Score("NETWORK_OUTAGE", E) =
         4000 + SupportingScore(c) + ContradictionScore(c) + MissingScore(c) + ConcurrencyScore(c)
           + 0 + FirstOccurrenceScore(c, E) + HintScore(c)
  BY DEF Score, CandidateOf
<1> HIDE DEF c, S
<1>12. ConcurrencyScore(c) \in {0, 900} /\ FirstOccurrenceScore(c, E) \in {-1020, 0, 1020}
  BY StepScores
<1>13. Score("NETWORK_OUTAGE", E) =
         4000 + 500 * Cardinality(S) + ConcurrencyScore(c) + FirstOccurrenceScore(c, E) + 475 * c.hints
  BY <1>4, <1>7, <1>8, <1>9, <1>10, <1>11, <1>12
<1> QED
  BY <1>4, <1>7, <1>12, <1>13 DEF c, S

\* What an exchange outage scores, the network's signals counting against it.
LEMMA ExchangeScore ==
  ASSUME NEW E
  PROVE  \E m \in 0..2, n \in 0..4, k \in {0, 900}, h \in {0, 2} :
           /\ n = Cardinality(Signals(Unhealthy(E, LocalSources)))
           /\ Failed(E, LocalSources) => n >= 1 /\ h = 0
           /\ Score("EXCHANGE_OUTAGE", E) =
                4000 + 500 * m - 1500 * n + k + FirstOccurrenceScore(ExchangeRule(E), E) + 475 * h
<1> DEFINE c == ExchangeRule(E)
           S == Signals(Unhealthy(E, LocalSources))
           X == Signals(Unhealthy(E, ExchangeSources))
<1>1. /\ c.supporting = Unhealthy(E, ExchangeSources) /\ c.missing = 0
      /\ c.contradicting = Unhealthy(E, LocalSources)
  BY DEF ExchangeRule, Candidate
<1>2. c.hints \in {0, 2} /\ (Failed(E, LocalSources) => c.hints = 0)
  BY DEF ExchangeRule, Candidate, Failed, One
<1>3. Cardinality(X) \in 0..2
  <2>1. IsFiniteSet(Exchange) /\ Cardinality(Exchange) = 2
    BY Few DEF Exchange
  <2>2. X \subseteq Exchange
    BY SignalsOf, Lists
  <2> QED
    BY <2>1, <2>2, AtMost
<1>4. Cardinality(S) \in 0..4 /\ (Failed(E, LocalSources) => Cardinality(S) >= 1)
  <2>1. IsFiniteSet(Named(LocalSources)) /\ Cardinality(Named(LocalSources)) = 4
    BY LocalNames
  <2>3. Cardinality(S) \in Nat /\ Cardinality(S) <= 4 /\ IsFiniteSet(S)
    BY <2>1, SignalsOf, AtMost
  <2>4. Failed(E, LocalSources) => Cardinality(S) # 0
    BY <2>3, SignalsOf, FS_EmptySet
  <2> QED
    BY <2>3, <2>4
<1>5. SupportingScore(c) = 500 * Cardinality(X) /\ ContradictionScore(c) = -1500 * Cardinality(S)
      /\ MissingScore(c) = 0 /\ HintScore(c) = 475 * c.hints
  <2> HIDE DEF c
  <2>1. SupportingScore(c) = 500 * Cardinality(X)
    BY <1>1 DEF SupportingScore
  <2>2. ContradictionScore(c) = -1500 * Cardinality(S)
    BY <1>1 DEF ContradictionScore
  <2>3. MissingScore(c) = -800 * c.missing
    BY DEF MissingScore
  <2>4. MissingScore(c) = 0
    <3>1. c.missing \in Int /\ c.missing >= 0 /\ c.missing <= 0
      BY <1>1
    <3> QED
      BY <2>3, <3>1, NoneCounted
  <2>5. HintScore(c) = 475 * c.hints
    BY DEF HintScore
  <2> QED
    BY <2>1, <2>2, <2>4, <2>5
<1>6. Score("EXCHANGE_OUTAGE", E) =
         4000 + SupportingScore(c) + ContradictionScore(c) + MissingScore(c) + ConcurrencyScore(c)
           + 0 + FirstOccurrenceScore(c, E) + HintScore(c)
  BY DEF Score, CandidateOf
<1> HIDE DEF c, S, X
<1>7. ConcurrencyScore(c) \in {0, 900} /\ FirstOccurrenceScore(c, E) \in {-1020, 0, 1020}
  BY StepScores
<1>8. Score("EXCHANGE_OUTAGE", E) =
        4000 + 500 * Cardinality(X) - 1500 * Cardinality(S) + ConcurrencyScore(c)
          + FirstOccurrenceScore(c, E) + 475 * c.hints
  BY <1>2, <1>3, <1>4, <1>5, <1>6, <1>7
<1> QED
  BY <1>2, <1>3, <1>4, <1>7, <1>8 DEF c, S

\* A timeline holds events with times.
LEMMA TimelinesTimed == EvidenceInv => \A E \in Timelines : Timed(E)
<1> SUFFICES ASSUME EvidenceInv, NEW E \in Timelines PROVE Timed(E)
  OBVIOUS
<1>1. E \subseteq evidence
  BY DEF Timelines, Collected, EvidenceInv, Groups
<1> QED
  BY <1>1 DEF EvidenceInv, Moments, Events, Timed

\* A network that failed before the exchange did outscores it by a hundred at
\* least: the exchange is not the first to fail, and what speaks for the network
\* speaks against the exchange.
LEMMA NetworkOutscores ==
  ASSUME NEW E, Timed(E), Failed(E, ExchangeSources), Failed(E, LocalSources),
         IsBefore(FirstUnhealthy(E, LocalSources), FirstUnhealthy(E, ExchangeSources))
  PROVE  Score("NETWORK_OUTAGE", E) > Score("EXCHANGE_OUTAGE", E)
<1>1. FirstUnhealthy(E, ExchangeSources) # FirstUnhealthy(E, AllSources)
  <2>1. /\ FirstUnhealthy(E, LocalSources) \in Unhealthy(E, LocalSources)
        /\ FirstUnhealthy(E, ExchangeSources) \in Unhealthy(E, ExchangeSources)
    BY FirstIs, Lists
  <2>2. /\ Unhealthy(E, LocalSources) \subseteq Unhealthy(E, AllSources)
        /\ Unhealthy(E, ExchangeSources) \subseteq E
    BY UnhealthyAre, Lists DEF Names
  <2>3. FirstUnhealthy(E, AllSources).at <= FirstUnhealthy(E, LocalSources).at
    BY <2>1, <2>2, FirstIs, Lists DEF Failed
  <2>4. FirstUnhealthy(E, ExchangeSources).at \in Nat /\ FirstUnhealthy(E, LocalSources).at \in Nat
    BY <2>1, <2>2, UnhealthyAre DEF Timed
  <2> QED
    BY <2>3, <2>4 DEF IsBefore
<1>2. FirstOccurrenceScore(ExchangeRule(E), E) = -1020
  <2>1. ExchangeRule(E).trigger = ExchangeSources
    BY DEF ExchangeRule, Candidate
  <2> QED
    BY <1>1, <2>1, NotFirst
<1>3. PICK n \in 1..4, k \in {0, 900}, h \in 0..3 :
        /\ n = Cardinality(Signals(Unhealthy(E, LocalSources)))
        /\ Score("NETWORK_OUTAGE", E) =
             4000 + 500 * n + k + FirstOccurrenceScore(NetworkRule(E), E) + 475 * h
  BY NetworkScore
<1>4. PICK m \in 0..2, j \in {0, 900} :
        Score("EXCHANGE_OUTAGE", E) = 4000 + 500 * m - 1500 * n + j - 1020
  <2>1. PICK m \in 0..2, i \in 0..4, j \in {0, 900}, g \in {0, 2} :
          /\ i = n /\ g = 0
          /\ Score("EXCHANGE_OUTAGE", E) = 4000 + 500 * m - 1500 * i + j - 1020 + 475 * g
    BY <1>2, <1>3, ExchangeScore
  <2> QED
    BY <2>1
<1>5. FirstOccurrenceScore(NetworkRule(E), E) \in {-1020, 0, 1020}
  BY StepScores
<1> QED
  BY <1>3, <1>4, <1>5

\* An exchange that fails after the local network or DNS did is never ranked above
\* the network's own outage, for any sources, times and audits.
THEOREM NetworkRanksAbove == Spec => []NetworkBeforeExchange
<1>1. EvidenceInv => NetworkBeforeExchange
  BY TimelinesTimed, NetworkOutscores DEF NetworkBeforeExchange
<1> QED
  BY <1>1, EvidenceInOrder, PTL

(***************************************************************************)
(* A container that fails first and takes the API with it.                 *)
(***************************************************************************)
\* Some elements of a finite set bound its size from below.
LEMMA AtLeast ==
  ASSUME NEW T, IsFiniteSet(T)
  PROVE  /\ Cardinality(T) \in Nat
         /\ \A a, b \in T : a # b => Cardinality(T) >= 2
         /\ \A a, b, c \in T : a # b /\ a # c /\ b # c => Cardinality(T) >= 3
         /\ \A a, b, c, d \in T : a # b /\ a # c /\ b # c /\ d \notin {a, b, c} => Cardinality(T) >= 4
<1>1. ASSUME NEW a \in T, NEW b \in T, a # b PROVE Cardinality(T) >= 2
  <2>1. Cardinality({a, b}) = 2 /\ {a, b} \subseteq T
    BY <1>1, Few
  <2>2. Cardinality({a, b}) <= Cardinality(T)
    BY <2>1, AtMost
  <2> QED
    BY <2>1, <2>2, AtMost
<1>2. ASSUME NEW a \in T, NEW b \in T, NEW c \in T, a # b, a # c, b # c PROVE Cardinality(T) >= 3
  <2>1. Cardinality({a, b, c}) = 3
    BY <1>2, Three
  <2>2. {a, b, c} \subseteq T
    OBVIOUS
  <2>3. Cardinality({a, b, c}) <= Cardinality(T)
    BY <2>2, AtMost
  <2> QED
    BY <2>1, <2>3, AtMost
<1>3. ASSUME NEW a \in T, NEW b \in T, NEW c \in T, NEW d \in T, a # b, a # c, b # c, d \notin {a, b, c}
      PROVE  Cardinality(T) >= 4
  <2>1. Cardinality({a, b, c, d}) = 4
    BY <1>3, Four
  <2>2. {a, b, c, d} \subseteq T
    OBVIOUS
  <2>3. Cardinality({a, b, c, d}) <= Cardinality(T)
    BY <2>2, AtMost
  <2> QED
    BY <2>1, <2>3, AtMost
<1>4. Cardinality(T) \in Nat
  BY FS_CardinalityType
<1> QED
  BY <1>1, <1>2, <1>3, <1>4

\* A container failed before everything else, and an event of the API follows.
CascadeSeen(E, e) ==
  /\ Timed(E) /\ Failed(E, DockerSources)
  /\ FirstUnhealthy(E, DockerSources) = FirstUnhealthy(E, AllSources)
  /\ e \in Unhealthy(E, ApiSources)
  /\ Follows(FirstUnhealthy(E, DockerSources), e)

\* No other source was the first.
LEMMA OthersLater ==
  ASSUME NEW E, NEW e, CascadeSeen(E, e), NEW c, c.trigger \in Seq(Names),
         Named(c.trigger) \cap Docker = {}
  PROVE  FirstOccurrenceScore(c, E) \in {-1020, 0} /\ (Failed(E, c.trigger) => FirstOccurrenceScore(c, E) = -1020)
<1>1. CASE Failed(E, c.trigger)
  <2>1. FirstUnhealthy(E, c.trigger) \in Unhealthy(E, c.trigger)
    BY <1>1, FirstIs DEF CascadeSeen
  <2>2. FirstUnhealthy(E, DockerSources) \in Unhealthy(E, DockerSources)
    BY FirstIs, Lists DEF CascadeSeen
  <2>3. FirstUnhealthy(E, c.trigger).src \in Named(c.trigger) /\ FirstUnhealthy(E, DockerSources).src \in Docker
    BY <2>1, <2>2, UnhealthyAre, Lists
  <2>4. FirstUnhealthy(E, c.trigger) # FirstUnhealthy(E, AllSources)
    BY <2>3 DEF CascadeSeen
  <2> QED
    BY <1>1, <2>4, NotFirst
<1>2. CASE ~Failed(E, c.trigger)
  BY <1>2 DEF FirstOccurrenceScore
<1> QED
  BY <1>1, <1>2

\* What the order of the failures says.
LEMMA CascadeOrder ==
  ASSUME NEW E, NEW e, CascadeSeen(E, e), ~ApiCascade(E), OutOfOrder(E)
  PROVE  Failed(E, HeartbeatSources) /\ e.src # Leading(E, ApiSources).src
<1> DEFINE d == FirstUnhealthy(E, DockerSources)
           L == Leading(E, ApiSources)
           H == Leading(E, HeartbeatSources)
<1>1. Failed(E, ApiSources) /\ Timed(E)
  BY DEF CascadeSeen, Failed
<1>2. d \in E /\ L \in Unhealthy(E, ApiSources) /\ e \in Unhealthy(E, ApiSources)
  BY <1>1, FirstIs, LeadingIs, Lists DEF CascadeSeen, Unhealthy
<1>3. Failed(E, HeartbeatSources) => H \in Unhealthy(E, HeartbeatSources)
  BY <1>1, LeadingIs, Lists
<1>4. \A g \in E : g.src \in Names => d.at <= g.at
  <2>1. d \in Unhealthy(E, AllSources)
    BY UnhealthyAre, FirstIs, Lists DEF CascadeSeen, Names
  <2>2. Failed(E, AllSources)
    BY <2>1 DEF Failed
  <2>3. \A g \in Unhealthy(E, AllSources) : d.at <= g.at
    BY <2>2, FirstIs, Lists DEF CascadeSeen
  <2> QED
    BY <2>3, UnhealthyAre, Lists
<1>5. L \in E /\ e \in E /\ L.src \in Names /\ d.at <= L.at
  BY <1>2, <1>4, UnhealthyAre, Lists DEF Names
<1>6. Failed(E, HeartbeatSources) => H \in E /\ d.at <= H.at
  BY <1>3, <1>4, UnhealthyAre, Lists DEF Names, Telemetry
<1>7. d.at \in Nat /\ L.at \in Nat /\ e.at \in Nat /\ (Failed(E, HeartbeatSources) => H.at \in Nat)
  BY <1>1, <1>2, <1>5, <1>6 DEF Timed
<1>8. ~IsBefore(d, L) \/ ~AreWithin(d, L, 120)
  BY <1>1 DEF ApiCascade, Follows, CascadeWindow
<1>9. AreWithin(d, e, 120)
  BY DEF CascadeSeen, Follows, CascadeWindow
<1>10. \/ IsBefore(L, d)
       \/ Failed(E, HeartbeatSources) /\ IsBefore(H, d)
       \/ Failed(E, HeartbeatSources) /\ IsBefore(H, L)
  BY DEF OutOfOrder
<1>11. e.src = L.src => L.at <= e.at
  BY <1>1, <1>2, LeadingIs, Lists
<1> HIDE DEF d, L, H
<1>12. Failed(E, HeartbeatSources) /\ IsBefore(H, L)
  BY <1>5, <1>6, <1>7, <1>10 DEF IsBefore
<1>13. L.at > d.at + 120
  BY <1>5, <1>6, <1>7, <1>8, <1>12 DEF IsBefore, AreWithin
<1>14. e.at <= d.at + 120
  BY <1>7, <1>9 DEF AreWithin
<1>15. ~(L.at <= e.at)
  BY <1>7, <1>13, <1>14
<1> QED
  BY <1>11, <1>12, <1>15 DEF L

\* Without a heartbeat failure nothing is out of order.
LEMMA CascadeInOrder ==
  ASSUME NEW E, NEW e, CascadeSeen(E, e), ~Failed(E, HeartbeatSources)
  PROVE  ~OutOfOrder(E)
<1> DEFINE d == FirstUnhealthy(E, DockerSources)
           L == Leading(E, ApiSources)
<1>1. Failed(E, ApiSources) /\ Timed(E)
  BY DEF CascadeSeen, Failed
<1>2. d \in Unhealthy(E, AllSources) /\ L \in Unhealthy(E, AllSources)
  <2>1. d \in Unhealthy(E, DockerSources) /\ L \in Unhealthy(E, ApiSources)
    BY <1>1, FirstIs, LeadingIs, Lists DEF CascadeSeen
  <2> QED
    BY <2>1, UnhealthyAre, Lists DEF Names
<1>3. Failed(E, AllSources)
  BY <1>2 DEF Failed
<1>4. d.at <= L.at
  BY <1>1, <1>2, <1>3, FirstIs, Lists DEF CascadeSeen
<1>5. d.at \in Nat /\ L.at \in Nat
  BY <1>1, <1>2 DEF Timed, Unhealthy
<1>6. ~IsBefore(L, d)
  BY <1>4, <1>5 DEF IsBefore
<1> QED
  BY <1>6 DEF OutOfOrder

\* How many sources speak for the container.
LEMMA DockerSignals ==
  ASSUME NEW E, NEW e, CascadeSeen(E, e)
  PROVE  \E n \in Nat :
           /\ n = Cardinality(Signals(DockerRule(E).supporting))
           /\ n >= 2
           /\ Failed(E, HeartbeatSources) => n >= 3
           /\ Failed(E, HeartbeatSources) /\ ~ApiCascade(E) /\ OutOfOrder(E) => n >= 4
<1> DEFINE d == FirstUnhealthy(E, DockerSources)
           L == Leading(E, ApiSources)
           T == DockerRule(E).supporting
<1>1. Failed(E, ApiSources) /\ Timed(E)
  BY DEF CascadeSeen, Failed
<1>2. T = {d} \cup Unhealthy(E, ApiSources) \cup Unhealthy(E, HeartbeatSources)
  BY DEF DockerRule, Candidate
<1>3. d.src \in Docker
  BY FirstIs, UnhealthyAre, Lists DEF CascadeSeen
<1>4. e \in Unhealthy(E, ApiSources) /\ L \in Unhealthy(E, ApiSources)
  BY <1>1, LeadingIs, Lists DEF CascadeSeen
<1>5. e.src \in Api /\ L.src \in Api
  BY <1>4, UnhealthyAre, Lists
<1>6. \A f \in Unhealthy(E, HeartbeatSources) : f.src = "HEARTBEAT"
  BY UnhealthyAre, Lists
<1>7. Signals(T) \subseteq Docker \cup Api \cup {"HEARTBEAT"}
  <2>1. \A f \in T : f.src \in Docker \cup Api \cup {"HEARTBEAT"}
    BY <1>2, <1>3, <1>6, UnhealthyAre, Lists
  <2> QED
    BY <2>1 DEF Signals
<1>8. IsFiniteSet(Signals(T))
  <2>1. IsFiniteSet(Docker) /\ IsFiniteSet(Api) /\ IsFiniteSet({"HEARTBEAT"})
    BY Few DEF Docker, Api
  <2>2. IsFiniteSet(Docker \cup Api)
    BY <2>1, FS_Union
  <2>3. IsFiniteSet((Docker \cup Api) \cup {"HEARTBEAT"})
    BY <2>1, <2>2, FS_Union
  <2> QED
    BY <1>7, <2>3, AtMost
<1>9. d.src \in Signals(T) /\ e.src \in Signals(T) /\ L.src \in Signals(T)
  BY <1>2, <1>4 DEF Signals
<1>10. Failed(E, HeartbeatSources) => "HEARTBEAT" \in Signals(T)
  BY <1>2, <1>6 DEF Signals, Failed
<1>11. Failed(E, HeartbeatSources) /\ ~ApiCascade(E) /\ OutOfOrder(E) => e.src # L.src
  BY CascadeOrder
<1>12. PICK x, y, z, w : x = d.src /\ y = e.src /\ z = L.src /\ w = "HEARTBEAT"
  OBVIOUS
<1>13. PICK S : S = Signals(T)
  OBVIOUS
<1>14. x # y /\ x # w /\ y # w /\ x # z /\ z # w
  BY <1>3, <1>5, <1>12 DEF Docker, Api
<1>15. IsFiniteSet(S) /\ x \in S /\ y \in S /\ z \in S
  BY <1>8, <1>9, <1>12, <1>13
<1>16. Cardinality(S) \in Nat /\ Cardinality(S) >= 2
  BY <1>14, <1>15, AtLeast
<1>17. w \in S => Cardinality(S) >= 3
  BY <1>14, <1>15, AtLeast
<1>18. w \in S /\ y # z => Cardinality(S) >= 4
  <2> SUFFICES ASSUME w \in S, y # z PROVE Cardinality(S) >= 4
    OBVIOUS
  <2>1. w \notin {x, y, z}
    BY <1>14
  <2> QED
    BY <1>14, <1>15, <2>1, AtLeast
<1> QED
  BY <1>10, <1>11, <1>12, <1>13, <1>16, <1>17, <1>18

\* The container's score is never below 7170.
LEMMA DockerScore ==
  ASSUME NEW E, NEW e, CascadeSeen(E, e)
  PROVE  Score("DOCKER_CONTAINER_EXITED", E) \in Int /\ Score("DOCKER_CONTAINER_EXITED", E) >= 7170
<1> DEFINE c == DockerRule(E)
<1>1. Failed(E, ApiSources) /\ Timed(E)
  BY DEF CascadeSeen, Failed
<1>2. PICK a, b, f, o \in BOOLEAN :
        /\ a = ApiCascade(E) /\ b = Failed(E, HeartbeatSources)
        /\ f = FullCascade(E) /\ o = OutOfOrder(E)
  BY DEF ApiCascade, Failed, FullCascade, OutOfOrder
<1>3. (f => a /\ b) /\ (~b => ~o)
  BY <1>2, CascadeInOrder DEF FullCascade
<1>4. PICK n \in Nat : /\ n = Cardinality(Signals(c.supporting))
                       /\ n >= 2 /\ (b => n >= 3) /\ (b /\ ~a /\ o => n >= 4)
  BY <1>2, DockerSignals
<1>5. c.missing = One(a /\ ~b) /\ c.contradicting = {} /\ c.trigger = DockerSources
  BY <1>1, <1>2 DEF DockerRule, Candidate, One
<1>6. c.hints = 1 + One(a) + One(f) - One(a /\ ~b)
  BY <1>1, <1>2 DEF DockerRule, Candidate, One
<1>7. ConcurrencyScore(c) = 900
  <2>1. FirstUnhealthy(E, DockerSources) \in c.supporting /\ e \in c.supporting
    BY DEF DockerRule, Candidate, CascadeSeen
  <2>2. FirstUnhealthy(E, DockerSources) # e
    <3>1. FirstUnhealthy(E, DockerSources).src \in Docker /\ e.src \in Api
      BY FirstIs, UnhealthyAre, Lists DEF CascadeSeen
    <3> QED
      BY <3>1 DEF Docker, Api
  <2>3. AreWithin(FirstUnhealthy(E, DockerSources), e, ConcurrencyWindow)
    BY DEF CascadeSeen, Follows, CascadeWindow, ConcurrencyWindow
  <2> QED
    BY <2>1, <2>2, <2>3 DEF ConcurrencyScore, Together
<1>8. FirstOccurrenceScore(c, E) = 1020
  BY <1>5 DEF FirstOccurrenceScore, CascadeSeen
<1>9. CascadeScore(E) = IF o THEN 0 - 1200 ELSE IF f THEN 1200 ELSE IF a THEN 600 ELSE 0
  BY <1>2 DEF CascadeScore
<1>10. ContradictionScore(c) = 0
  <2>1. Signals({}) = {}
    BY DEF Signals
  <2>2. Cardinality(Signals(c.contradicting)) = 0
    BY <1>5, <2>1, Few
  <2> HIDE DEF c
  <2>3. ContradictionScore(c) = -1500 * Cardinality(Signals(c.contradicting))
    BY DEF ContradictionScore
  <2>4. /\ Cardinality(Signals(c.contradicting)) \in Int
        /\ Cardinality(Signals(c.contradicting)) >= 0 /\ Cardinality(Signals(c.contradicting)) <= 0
    BY <2>2
  <2> QED
    BY <2>3, <2>4, NoneCounted
<1> HIDE DEF c
<1>11. SupportingScore(c) = 500 * n /\ HintScore(c) = 475 * c.hints
  BY <1>4 DEF SupportingScore, HintScore
<1>12. PICK m \in Int : m = c.missing /\ m = One(a /\ ~b)
  BY <1>5 DEF One
<1>13. PICK s \in Int : s = MissingScore(c) /\ s = -800 * m
  BY <1>12 DEF MissingScore
<1>14. Score("DOCKER_CONTAINER_EXITED", E) =
         4000 + SupportingScore(c) + ContradictionScore(c) + MissingScore(c) + ConcurrencyScore(c)
           + CascadeScore(E) + FirstOccurrenceScore(c, E) + HintScore(c)
  BY DEF Score, CandidateOf, c
<1>15. PICK h \in Int : h = c.hints /\ h = 1 + One(a) + One(f) - One(a /\ ~b)
  BY <1>6 DEF One
<1>16. PICK k \in Int : k = CascadeScore(E) /\ k = IF o THEN 0 - 1200 ELSE IF f THEN 1200 ELSE IF a THEN 600 ELSE 0
  BY <1>9
<1>17. Score("DOCKER_CONTAINER_EXITED", E) = 4000 + 500 * n + s + 900 + k + 1020 + 475 * h
  BY <1>7, <1>8, <1>10, <1>11, <1>13, <1>14, <1>15, <1>16
<1>18. s = IF a /\ ~b THEN 0 - 800 ELSE 0
  <2>1. CASE a /\ ~b
    <3>1. m = 1
      BY <1>12, <2>1 DEF One
    <3> QED
      BY <1>13, <2>1, <3>1
  <2>2. CASE ~(a /\ ~b)
    <3>1. m >= 0 /\ m <= 0
      BY <1>12, <2>2 DEF One
    <3> QED
      BY <1>13, <2>2, <3>1, NoneCounted
  <2> QED
    BY <2>1, <2>2
<1>19. 4000 + 500 * n + s + 900 + k + 1020 + 475 * h >= 7170
  <2>1. CASE ~b
    BY <1>3, <1>4, <1>15, <1>16, <1>18, <2>1 DEF One
  <2>2. CASE b /\ a
    BY <1>3, <1>4, <1>15, <1>16, <1>18, <2>2 DEF One
  <2>3. CASE b /\ ~a
    BY <1>3, <1>4, <1>15, <1>16, <1>18, <2>3 DEF One
  <2> QED
    BY <2>1, <2>2, <2>3
<1> QED
  BY <1>17, <1>19

\* A telemetry blackout stays below that: every healthy feed counts against it.
LEMMA TelemetryScore ==
  ASSUME NEW E, NEW e, CascadeSeen(E, e)
  PROVE  Score("TELEMETRY_BLACKOUT", E) \in Int /\ Score("TELEMETRY_BLACKOUT", E) < 7170
<1> DEFINE c == TelemetryRule(E)
<1>1. PICK x : x = Cardinality({i \in DOMAIN TelemetrySources : ~Failed(E, <<TelemetrySources[i]>>)})
  OBVIOUS
<1>2. x \in Nat
  <2>1. {i \in DOMAIN TelemetrySources : ~Failed(E, <<TelemetrySources[i]>>)} \subseteq {1, 2, 3}
    BY DEF TelemetrySources
  <2>2. IsFiniteSet({1, 2, 3})
    <3>1. PICK i, j, k : i = 1 /\ j = 2 /\ k = 3
      OBVIOUS
    <3>2. i # j /\ i # k /\ j # k
      BY <3>1
    <3>3. IsFiniteSet({i, j, k})
      BY <3>2, Three
    <3> QED
      BY <3>1, <3>3
  <2> QED
    BY <1>1, <2>1, <2>2, AtMost
<1>3. /\ c.trigger = HeartbeatSources /\ c.supporting = Unhealthy(E, TelemetrySources)
      /\ c.contradicting = {} /\ c.missing = x /\ c.hints = 1 - x
  BY <1>1 DEF TelemetryRule, Candidate
<1>4. FirstOccurrenceScore(c, E) \in {-1020, 0} /\ ConcurrencyScore(c) \in {0, 900}
  <2>1. c.trigger \in Seq(Names) /\ Named(c.trigger) \cap Docker = {}
    BY <1>3, Lists DEF Docker
  <2> HIDE DEF c
  <2> QED
    BY <2>1, OthersLater, StepScores
<1>5. PICK n \in 0..3 : n = Cardinality(Signals(c.supporting))
  <2>1. Signals(Unhealthy(E, TelemetrySources)) \subseteq Telemetry
    BY SignalsOf, Lists
  <2>2. IsFiniteSet(Telemetry) /\ Cardinality(Telemetry) = 3
    BY Three DEF Telemetry
  <2> QED
    BY <1>3, <2>1, <2>2, AtMost
<1>6. ContradictionScore(c) = 0
  <2>1. Signals({}) = {}
    BY DEF Signals
  <2>2. Cardinality(Signals(c.contradicting)) = 0
    BY <1>3, <2>1, Few
  <2> HIDE DEF c
  <2>3. ContradictionScore(c) = -1500 * Cardinality(Signals(c.contradicting))
    BY DEF ContradictionScore
  <2>4. /\ Cardinality(Signals(c.contradicting)) \in Int
        /\ Cardinality(Signals(c.contradicting)) >= 0 /\ Cardinality(Signals(c.contradicting)) <= 0
    BY <2>2
  <2> QED
    BY <2>3, <2>4, NoneCounted
<1>7. Score("TELEMETRY_BLACKOUT", E) =
        4000 + SupportingScore(c) + ContradictionScore(c) + MissingScore(c) + ConcurrencyScore(c)
          + 0 + FirstOccurrenceScore(c, E) + HintScore(c)
  BY DEF Score, CandidateOf
<1> HIDE DEF c
<1>8. SupportingScore(c) = 500 * n /\ MissingScore(c) = -800 * x /\ HintScore(c) = 475 * (1 - x)
  BY <1>3, <1>5 DEF SupportingScore, MissingScore, HintScore
<1>9. PICK s \in Int : s = MissingScore(c) /\ s <= 0
  BY <1>2, <1>8
<1> QED
  BY <1>2, <1>4, <1>5, <1>6, <1>7, <1>8, <1>9

\* And so does an exhausted host.
LEMMA VMScore ==
  ASSUME NEW E, NEW e, CascadeSeen(E, e)
  PROVE  Score("VM_RESOURCE_EXHAUSTION", E) \in Int /\ Score("VM_RESOURCE_EXHAUSTION", E) < 7170
<1> DEFINE c == VMRule(E)
<1>1. PICK x : x = Cardinality(Resources \ UNION {g.over : g \in Unhealthy(E, VMSources)})
  OBVIOUS
<1>2. x \in Nat
  <2>1. IsFiniteSet(Resources)
    BY Three DEF Resources
  <2> QED
    BY <1>1, <2>1, AtMost
<1>3. PICK t \in {0, 1} :
        /\ c.trigger = VMSources /\ c.supporting = Unhealthy(E, VMSources)
        /\ c.contradicting = {} /\ c.missing = 0 /\ c.hints = 1 + t - x
  BY <1>1 DEF VMRule, Candidate, One
<1>4. FirstOccurrenceScore(c, E) \in {-1020, 0} /\ ConcurrencyScore(c) \in {0, 900}
  <2>1. c.trigger \in Seq(Names) /\ Named(c.trigger) \cap Docker = {}
    BY <1>3, Lists DEF Docker
  <2> HIDE DEF c
  <2> QED
    BY <2>1, OthersLater, StepScores
<1>5. PICK n \in 0..1 : n = Cardinality(Signals(c.supporting))
  <2>1. Signals(Unhealthy(E, VMSources)) \subseteq {"VM_HEALTH"}
    BY SignalsOf, Lists
  <2>2. IsFiniteSet({"VM_HEALTH"}) /\ Cardinality({"VM_HEALTH"}) = 1
    BY Few
  <2> QED
    BY <1>3, <2>1, <2>2, AtMost
<1>6. ContradictionScore(c) = 0 /\ MissingScore(c) = 0
  <2>1. Signals({}) = {}
    BY DEF Signals
  <2>2. Cardinality(Signals(c.contradicting)) = 0
    BY <1>3, <2>1, Few
  <2>3. c.missing \in Int /\ c.missing >= 0 /\ c.missing <= 0
    BY <1>3
  <2> HIDE DEF c
  <2>4. ContradictionScore(c) = -1500 * Cardinality(Signals(c.contradicting)) /\ MissingScore(c) = -800 * c.missing
    BY DEF ContradictionScore, MissingScore
  <2>5. /\ Cardinality(Signals(c.contradicting)) \in Int
        /\ Cardinality(Signals(c.contradicting)) >= 0 /\ Cardinality(Signals(c.contradicting)) <= 0
    BY <2>2
  <2> QED
    BY <2>3, <2>4, <2>5, NoneCounted
<1>7. Score("VM_RESOURCE_EXHAUSTION", E) =
        4000 + SupportingScore(c) + ContradictionScore(c) + MissingScore(c) + ConcurrencyScore(c)
          + 0 + FirstOccurrenceScore(c, E) + HintScore(c)
  BY DEF Score, CandidateOf
<1> HIDE DEF c
<1>8. SupportingScore(c) = 500 * n /\ HintScore(c) = 475 * (1 + t - x)
  BY <1>3, <1>5 DEF SupportingScore, HintScore
<1> QED
  BY <1>2, <1>3, <1>4, <1>5, <1>6, <1>7, <1>8

\* A container that fails first and takes the API with it outscores the others.
LEMMA CascadeOutscores ==
  ASSUME NEW E, NEW e, CascadeSeen(E, e),
         NEW h \in Candidates(E) \ {"DOCKER_CONTAINER_EXITED"}
  PROVE  \/ h = "NETWORK_OUTAGE" /\ Signals(Unhealthy(E, LocalSources)) = Named(LocalSources)
         \/ Score("DOCKER_CONTAINER_EXITED", E) > Score(h, E)
<1>1. Score("DOCKER_CONTAINER_EXITED", E) \in Int /\ Score("DOCKER_CONTAINER_EXITED", E) >= 7170
  BY DockerScore
<1>2. h \in {"TELEMETRY_BLACKOUT", "VM_RESOURCE_EXHAUSTION", "NETWORK_OUTAGE", "EXCHANGE_OUTAGE"}
  BY DEF Candidates, Hypotheses, CandidateSources
<1>3. CASE h = "TELEMETRY_BLACKOUT"
  <2>1. Score("TELEMETRY_BLACKOUT", E) \in Int /\ Score("TELEMETRY_BLACKOUT", E) < 7170
    BY TelemetryScore
  <2> QED
    BY <1>1, <1>3, <2>1
<1>4. CASE h = "VM_RESOURCE_EXHAUSTION"
  <2>1. Score("VM_RESOURCE_EXHAUSTION", E) \in Int /\ Score("VM_RESOURCE_EXHAUSTION", E) < 7170
    BY VMScore
  <2> QED
    BY <1>1, <1>4, <2>1
<1>5. CASE h = "NETWORK_OUTAGE"
  <2>1. Failed(E, LocalSources)
    BY <1>5 DEF Candidates, CandidateSources
  <2>2. NetworkRule(E).trigger = LocalSources
    BY DEF NetworkRule, Candidate
  <2>3. FirstOccurrenceScore(NetworkRule(E), E) = -1020
    <3>1. LocalSources \in Seq(Names) /\ Named(LocalSources) \cap Docker = {}
      BY Lists DEF Docker, Net, Dns
    <3>2. PICK c : c = NetworkRule(E)
      OBVIOUS
    <3> QED
      BY <2>1, <2>2, <3>1, <3>2, OthersLater
  <2>4. PICK n \in 1..4, k \in {0, 900}, i \in 0..3 :
          /\ n = 4 => Signals(Unhealthy(E, LocalSources)) = Named(LocalSources)
          /\ Score("NETWORK_OUTAGE", E) = 4000 + 500 * n + k - 1020 + 475 * i
    BY <2>1, <2>3, NetworkScore
  <2> QED
    BY <1>1, <1>5, <2>4
<1>6. CASE h = "EXCHANGE_OUTAGE"
  <2>1. ExchangeRule(E).trigger = ExchangeSources
    BY DEF ExchangeRule, Candidate
  <2>2. FirstOccurrenceScore(ExchangeRule(E), E) \in {-1020, 0}
    <3>1. ExchangeSources \in Seq(Names) /\ Named(ExchangeSources) \cap Docker = {}
      BY Lists DEF Docker, Exchange
    <3>2. PICK c : c = ExchangeRule(E)
      OBVIOUS
    <3> QED
      BY <2>1, <3>1, <3>2, OthersLater
  <2>3. PICK m \in 0..2, n \in 0..4, k \in {0, 900}, i \in {0, 2} :
          Score("EXCHANGE_OUTAGE", E) =
            4000 + 500 * m - 1500 * n + k + FirstOccurrenceScore(ExchangeRule(E), E) + 475 * i
    BY ExchangeScore
  <2> QED
    BY <1>1, <1>6, <2>2, <2>3
<1> QED
  BY <1>2, <1>3, <1>4, <1>5, <1>6

\* A container that fails before everything else and takes the API with it within
\* two minutes is ranked above every other hypothesis, but for a network outage
\* seen in all four ways, for any sources, times and audits.
THEOREM CascadeRanksAbove == Spec => []CascadeBlamed
<1>1. EvidenceInv => CascadeBlamed
  <2> SUFFICES ASSUME EvidenceInv, NEW E \in Timelines, Failed(E, DockerSources),
                      FirstUnhealthy(E, DockerSources) = FirstUnhealthy(E, AllSources),
                      NEW e \in Unhealthy(E, ApiSources), Follows(FirstUnhealthy(E, DockerSources), e),
                      NEW h \in Candidates(E) \ {"DOCKER_CONTAINER_EXITED"}
               PROVE  \/ h = "NETWORK_OUTAGE" /\ Signals(Unhealthy(E, LocalSources)) = Named(LocalSources)
                      \/ Score("DOCKER_CONTAINER_EXITED", E) > Score(h, E)
    BY DEF CascadeBlamed, Named
  <2>1. CascadeSeen(E, e)
    BY TimelinesTimed DEF CascadeSeen
  <2> QED
    BY <2>1, CascadeOutscores
<1> QED
  BY <1>1, EvidenceInOrder, PTL
===============================================================================
