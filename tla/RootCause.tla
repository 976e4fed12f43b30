------------------------------ MODULE RootCause ------------------------------
(***************************************************************************)
(* Root cause analysis of an incident group: the timeline's unhealthy      *)
(* events, the candidate rules and the score of every candidate.           *)
(*                                                                         *)
(* An event is [src, at, over]: a detected incident or an audit with a     *)
(* failure, its time in seconds and, of a VM_HEALTH audit, the resources   *)
(* over their threshold.  Incidents and audits never share a source, so    *)
(* the scoring key of an event (its signal, incident or observation) is    *)
(* its source.  Sources nothing reports (BROKER_PING, MARKET_DATA_STALE,   *)
(* CPU, MEMORY, DISK as events, LIFECYCLE_ANOMALY and with it the          *)
(* lifecycle rule) are left out.  LifecycleDurationRule looks events up by *)
(* an incident's id, which no event has, and never contributes.            *)
(*                                                                         *)
(* Scores are in hundredths.  A concurrency cluster spans a second, less   *)
(* than every window it is an alternative to.                              *)
(***************************************************************************)
EXTENDS Integers, Sequences, FiniteSets

DockerSources == <<"DOCKER", "DOCKER_HEALTH">>
ApiSources == <<"FREQTRADE", "FREQTRADE_API">>
HeartbeatSources == <<"HEARTBEAT">>
TelemetrySources == <<"HEARTBEAT", "BROKER_CONNECTION", "MARKET_DATA">>
VMSources == <<"VM_HEALTH">>
NetSources == <<"NETWORK", "NETWORK_HEALTH">>
DnsSources == <<"DNS", "DNS_HEALTH">>
LocalSources == NetSources \o DnsSources
ExchangeSources == <<"EXCHANGE_REACHABILITY", "EXCHANGE_HEALTH">>

\* In the order the first-occurrence rule lists them.
AllSources ==
  DockerSources \o ApiSources \o TelemetrySources \o VMSources \o LocalSources \o ExchangeSources

CascadeWindow == 120
VMWindow == 120
NetworkWindow == 60
ConcurrencyWindow == 120

(***************************************************************************)
(* TimelineQuery.                                                          *)
(***************************************************************************)
Place(srcs, e) == CHOOSE i \in DOMAIN srcs : srcs[i] = e.src

\* The unhealthy events of some sources, one source after the other.
Unhealthy(E, srcs) == {e \in E : \E i \in DOMAIN srcs : srcs[i] = e.src}

IsBefore(e, f) == e.at < f.at
AreWithin(e, f, window) == e.at - f.at <= window /\ f.at - e.at <= window

Least(S, Precedes(_, _)) == CHOOSE e \in S : \A f \in S \ {e} : Precedes(e, f)

\* Mutation of FirstUnhealthy: the sort is descending.
LatestUnhealthy(E, srcs) ==
  Least(Unhealthy(E, srcs), LAMBDA e, f :
    e.at > f.at \/ (e.at = f.at /\ Place(srcs, e) <= Place(srcs, f)))

\* findFirstUnhealthy: the earliest, by a stable sort.
FirstUnhealthy(E, srcs) ==
  Least(Unhealthy(E, srcs), LAMBDA e, f :
    e.at < f.at \/ (e.at = f.at /\ Place(srcs, e) <= Place(srcs, f)))

\* The first of findUnhealthyEvents, which is not sorted: an incident of the
\* first source comes before an earlier audit of the second.
Leading(E, srcs) ==
  Least(Unhealthy(E, srcs), LAMBDA e, f :
    Place(srcs, e) < Place(srcs, f) \/ (Place(srcs, e) = Place(srcs, f) /\ e.at <= f.at))

Failed(E, srcs) == Unhealthy(E, srcs) # {}

Together(S, window) == \E e, f \in S : e # f /\ AreWithin(e, f, window)

(***************************************************************************)
(* Candidate rules: the trigger's sources, the evidence for and against,   *)
(* how many expected components are missing, and the hints, positive less  *)
(* negative.                                                               *)
(***************************************************************************)
Candidate(trigger, supporting, contradicting, missing, hints) ==
  [trigger |-> trigger, supporting |-> supporting, contradicting |-> contradicting,
   missing |-> missing, hints |-> hints]

One(P) == IF P THEN 1 ELSE 0

Follows(e, f) == IsBefore(e, f) /\ AreWithin(e, f, CascadeWindow)

ApiCascade(E) ==
  Failed(E, ApiSources) /\ Follows(FirstUnhealthy(E, DockerSources), Leading(E, ApiSources))

FullCascade(E) ==
  /\ ApiCascade(E) /\ Failed(E, HeartbeatSources)
  /\ Follows(Leading(E, ApiSources), Leading(E, HeartbeatSources))

DockerRule(E) ==
  LET api == Failed(E, ApiSources)
      quiet == ApiCascade(E) /\ ~Failed(E, HeartbeatSources)
  IN Candidate(DockerSources,
       {FirstUnhealthy(E, DockerSources)}
         \cup Unhealthy(E, ApiSources) \cup Unhealthy(E, HeartbeatSources),
       {},
       One(quiet) + 2 * One(~api),
       1 + One(ApiCascade(E)) + One(FullCascade(E)) - One(quiet) - 2 * One(~api))

TelemetryRule(E) ==
  LET healthy == Cardinality({i \in DOMAIN TelemetrySources : ~Failed(E, <<TelemetrySources[i]>>)})
  IN Candidate(HeartbeatSources, Unhealthy(E, TelemetrySources), {}, healthy, 1 - healthy)

Resources == {"CPU", "MEMORY", "DISK"}

VMRule(E) ==
  LET events == Unhealthy(E, VMSources)
      healthy == Resources \ UNION {e.over : e \in events}
  IN Candidate(VMSources, events, {}, 0,
       1 + One(Together(events, VMWindow)) - Cardinality(healthy))

NetworkRule(E) ==
  LET net == Failed(E, NetSources)
      dns == Failed(E, DnsSources)
      outage == net /\ dns /\ AreWithin(Leading(E, NetSources), Leading(E, DnsSources), NetworkWindow)
  IN Candidate(LocalSources, Unhealthy(E, LocalSources), {}, 0,
       One(outage) + One(net) - One(~net) + One(dns) - One(~dns))

ExchangeRule(E) ==
  LET nearby == Unhealthy(E, LocalSources)
  IN Candidate(ExchangeSources, Unhealthy(E, ExchangeSources), nearby, 0,
       1 + One(nearby = {}) - One(nearby # {}))

CandidateSources ==
  [DOCKER_CONTAINER_EXITED |-> DockerSources, TELEMETRY_BLACKOUT |-> TelemetrySources,
   VM_RESOURCE_EXHAUSTION |-> VMSources, NETWORK_OUTAGE |-> LocalSources,
   EXCHANGE_OUTAGE |-> ExchangeSources]

Hypotheses == DOMAIN CandidateSources

\* The hypotheses whose rules return a candidate.
Candidates(E) == {h \in Hypotheses : Failed(E, CandidateSources[h])}

CandidateOf(h, E) ==
  CASE h = "DOCKER_CONTAINER_EXITED" -> DockerRule(E)
    [] h = "TELEMETRY_BLACKOUT" -> TelemetryRule(E)
    [] h = "VM_RESOURCE_EXHAUSTION" -> VMRule(E)
    [] h = "NETWORK_OUTAGE" -> NetworkRule(E)
    [] OTHER -> ExchangeRule(E)

(***************************************************************************)
(* Scoring rules, each with its weight.                                    *)
(***************************************************************************)
Signals(S) == {e.src : e \in S}

SupportingScore(c) == 500 * Cardinality(Signals(c.supporting))
ContradictionScore(c) == -1500 * Cardinality(Signals(c.contradicting))
MissingScore(c) == -800 * c.missing
ConcurrencyScore(c) == IF Together(c.supporting, ConcurrencyWindow) THEN 900 ELSE 0
HintScore(c) == 475 * c.hints

\* Mutation of OutOfOrder: the API's failure is compared the wrong way round.
OutOfOrderSwapped(E) ==
  /\ Failed(E, ApiSources)
  /\ IsBefore(FirstUnhealthy(E, DockerSources), Leading(E, ApiSources))

OutOfOrder(E) ==
  LET container == FirstUnhealthy(E, DockerSources)
      api == Failed(E, ApiSources)
      heartbeat == Failed(E, HeartbeatSources)
  IN \/ api /\ IsBefore(Leading(E, ApiSources), container)
     \/ heartbeat /\ IsBefore(Leading(E, HeartbeatSources), container)
     \/ api /\ heartbeat /\ IsBefore(Leading(E, HeartbeatSources), Leading(E, ApiSources))

CascadeScore(E) ==
  CASE OutOfOrder(E) -> -1200
    [] ~OutOfOrder(E) /\ FullCascade(E) -> 1200
    [] ~OutOfOrder(E) /\ ApiCascade(E) /\ ~FullCascade(E) -> 600
    [] OTHER -> 0

FirstOccurrenceScore(c, E) ==
  CASE ~Failed(E, c.trigger) -> 0
    [] Failed(E, c.trigger) /\ FirstUnhealthy(E, c.trigger) = FirstUnhealthy(E, AllSources) -> 1020
    [] OTHER -> -1020

\* The raw score the candidates are sorted by.
Score(h, E) ==
  LET c == CandidateOf(h, E)
  IN 4000 + SupportingScore(c) + ContradictionScore(c) + MissingScore(c) + ConcurrencyScore(c)
       + (IF h = "DOCKER_CONTAINER_EXITED" THEN CascadeScore(E) ELSE 0)
       + FirstOccurrenceScore(c, E) + HintScore(c)
=============================================================================
