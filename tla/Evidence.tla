------------------------------ MODULE Evidence ------------------------------
(***************************************************************************)
(* The evidence of incident groups and what the analysis makes of it.      *)
(*                                                                         *)
(* Detectors write audits and report incidents; an incident joins the      *)
(* unresolved group of its kind that was opened within the window, or      *)
(* opens one, and EvidenceCollector gives the group its incidents and      *)
(* every audit since it was opened, whoever wrote it.  An audit insert may *)
(* fail and a report may be delayed, so audits and incidents come in any   *)
(* order.  A group is resolved with the last of its incidents, and keeps   *)
(* the evidence it had then: the unresolved groups are enough to look at.  *)
(*                                                                         *)
(* Time passes in gaps: a moment, more than the network window, more than  *)
(* every window.                                                           *)
(***************************************************************************)
EXTENDS RootCause

CONSTANTS
  Gaps,          \* seconds between two moments
  MaxMoments,    \* bound: moments at which something is reported
  MaxAudits,     \* bound: bad audits of one source
  Overloads      \* the sets of resources a VM_HEALTH audit reports

ASSUME EvidenceAssumption ==
  /\ Gaps \subseteq Nat \ {0} /\ MaxMoments \in Nat \ {0} /\ MaxAudits \in Nat
  /\ Overloads \subseteq SUBSET Resources

VARIABLES
  clock,       \* seconds since the first moment
  moments,     \* how many there have been
  failing,     \* the sources that fail in this behaviour
  evidence,    \* the unhealthy events so far
  groups,      \* the incident groups, [kind, openedAt, incidents]
  resolved     \* the incidents that are resolved

evidenceVars == <<clock, moments, failing, evidence, groups, resolved>>

GroupKind ==
  [DOCKER |-> "INFRASTRUCTURE", FREQTRADE |-> "INFRASTRUCTURE", NETWORK |-> "INFRASTRUCTURE",
   DNS |-> "INFRASTRUCTURE", EXCHANGE_REACHABILITY |-> "INFRASTRUCTURE",
   HEARTBEAT |-> "OPERATIONS", BROKER_CONNECTION |-> "OPERATIONS", MARKET_DATA |-> "OPERATIONS"]

IncidentSources == DOMAIN GroupKind

GroupingWindow == 120

EvidenceInit(sources) ==
  /\ clock = 0 /\ moments = 1 /\ failing = sources
  /\ evidence = {} /\ groups = {} /\ resolved = {}

Unresolved(g) == ~ (g.incidents \subseteq resolved)

\* The groups an incident of this kind joins now.
Joinable(kind) ==
  {g \in groups : /\ g.kind = kind /\ Unresolved(g)
                  /\ clock - g.openedAt <= GroupingWindow}

\* A source whose incident is not resolved has that one updated, no more.
ReportIncident(src) ==
  LET e == [src |-> src, at |-> clock, over |-> {}]
      kind == GroupKind[src]
  IN
  /\ src \in failing \cap IncidentSources
  /\ \A i \in evidence : i.src = src => i \in resolved /\ i.at < clock
  /\ evidence' = evidence \cup {e}
  /\ \/ \E g \in Joinable(kind) :
          groups' = (groups \ {g}) \cup {[g EXCEPT !.incidents = @ \cup {e}]}
     \/ /\ Joinable(kind) = {}
        /\ groups' = groups \cup {[kind |-> kind, openedAt |-> clock, incidents |-> {e}]}
  /\ UNCHANGED <<clock, moments, failing, resolved>>

ResolveIncident(e) ==
  /\ e \in evidence \ resolved /\ e.src \in IncidentSources
  /\ resolved' = resolved \cup {e}
  /\ UNCHANGED <<clock, moments, failing, evidence, groups>>

WriteAudit(src, over) ==
  /\ src \in failing \ IncidentSources
  /\ over \in (IF src = "VM_HEALTH" THEN Overloads ELSE {{}})
  /\ Cardinality({e \in evidence : e.src = src}) < MaxAudits
  /\ \A e \in evidence : e.src = src => e.at < clock
  /\ evidence' = evidence \cup {[src |-> src, at |-> clock, over |-> over]}
  /\ UNCHANGED <<clock, moments, failing, groups, resolved>>

TimePasses(gap) ==
  /\ moments < MaxMoments /\ evidence # {}
  /\ clock' = clock + gap /\ moments' = moments + 1
  /\ UNCHANGED <<failing, evidence, groups, resolved>>

EvidenceNext ==
  \/ \E src \in failing : ReportIncident(src) \/ \E over \in Overloads \cup {{}} : WriteAudit(src, over)
  \/ \E e \in evidence : ResolveIncident(e)
  \/ \E gap \in Gaps : TimePasses(gap)

\* EvidenceCollector, limited to what the rules call unhealthy.
Collected(g) ==
  g.incidents \cup {e \in evidence : e.src \notin IncidentSources /\ e.at >= g.openedAt}

Timelines == {Collected(g) : g \in {h \in groups : Unresolved(h)}}

EvidenceTypeOK ==
  /\ clock \in Nat /\ moments \in 1..MaxMoments
  /\ \A e \in evidence : e.src \in failing /\ e.at \in 0..clock /\ e.over \subseteq Resources
  /\ resolved \subseteq evidence
  /\ \A e \in evidence : e.src \in IncidentSources =>
       Cardinality({g \in groups : e \in g.incidents}) = 1

\* An exchange that fails after the local network or DNS did is never ranked
\* above the network's own outage, whatever failed before both.
NetworkBeforeExchange ==
  \A E \in Timelines :
    (/\ Failed(E, ExchangeSources) /\ Failed(E, LocalSources)
     /\ IsBefore(FirstUnhealthy(E, LocalSources), FirstUnhealthy(E, ExchangeSources)))
      => Score("NETWORK_OUTAGE", E) > Score("EXCHANGE_OUTAGE", E)

\* A container that fails before everything else and takes the API with it is
\* ranked above every other hypothesis, also when heartbeats, feeds or the host
\* fail in the same group and when the API's incident comes long after its first
\* bad audit; only a network outage seen in all four ways may rank above it.
CascadeBlamed ==
  \A E \in Timelines :
    (/\ Failed(E, DockerSources) /\ FirstUnhealthy(E, DockerSources) = FirstUnhealthy(E, AllSources)
     /\ \E e \in Unhealthy(E, ApiSources) : Follows(FirstUnhealthy(E, DockerSources), e))
      => \A h \in Candidates(E) \ {"DOCKER_CONTAINER_EXITED"} :
           \/ h = "NETWORK_OUTAGE" /\ Signals(Unhealthy(E, LocalSources)) = {LocalSources[i] : i \in DOMAIN LocalSources}
           \/ Score("DOCKER_CONTAINER_EXITED", E) > Score(h, E)
=============================================================================
