----------------------------- MODULE ConfigSync -----------------------------
(***************************************************************************)
(* Configuration synchronisation: ConfigurationService numbers the         *)
(* overrides it finds in the gateway's environment, the agent sends the    *)
(* number it has and is told "not modified" when it is the gateway's.      *)
(*                                                                         *)
(* The number lives in the gateway's process and starts at 0 with it; the  *)
(* agent's copy lives in the agent's process.  One request per agent:      *)
(* AgentConfigurationScheduler.isExecuting.                                *)
(***************************************************************************)
EXTENDS Naturals

CONSTANTS
  Installations,   \* the agents
  Overrides,       \* values of MOCK_CONFIG_OVERRIDES
  Malformed,       \* the overrides that are not JSON
  Empty,           \* no override, which the service reads as '{}'
  NoRaw            \* the empty string lastRaw starts with

ASSUME ConfigSyncAssumption ==
  /\ Malformed \subseteq Overrides /\ Empty \in Overrides \ Malformed
  /\ NoRaw \notin Overrides

VARIABLES
  raw,          \* the override in the environment
  lastRaw, revision,              \* ConfigurationService
  applied, rev,                   \* applied[a], rev[a]: AgentConfigurationManager
  request,      \* request[a]: a's request, its refusal or its answer on the way
  current       \* history: the agents whose configuration the gateway's
                \* process that is running has given them

configVars == <<raw, lastRaw, revision, applied, rev, request, current>>

Meaning(r) == IF r \in Malformed \cup {NoRaw} THEN Empty ELSE r

\* What stands in for the fields a request does not have.
NoRequest == [at |-> "none", revision |-> 0, full |-> FALSE, config |-> Empty, fresh |-> FALSE]

ConfigInit ==
  /\ raw \in Overrides /\ lastRaw = NoRaw /\ revision = 0
  /\ applied = [a \in Installations |-> Empty]
  /\ rev = [a \in Installations |-> 0]
  /\ request = [a \in Installations |-> NoRequest]
  /\ current = {}

\* syncConfig sends the revision the agent has.
Ask(a) ==
  /\ request[a] = NoRequest
  /\ request' = [request EXCEPT ![a] = [NoRequest EXCEPT !.at = "asked", !.revision = rev[a]]]
  /\ UNCHANGED <<raw, lastRaw, revision, applied, rev, current>>

Answer(r, asked) ==
  [at |-> "answered", revision |-> r, full |-> asked # r, config |-> Meaning(raw), fresh |-> TRUE]

\* Mutation of NewRevision: an override that is removed is not a new one.
NewRevisionSet == IF raw # lastRaw /\ raw # Empty THEN revision + 1 ELSE revision

NewRevision == IF raw # lastRaw THEN revision + 1 ELSE revision

\* The gateway notices a new override when it is asked for the configuration.
Serve(a) ==
  /\ request[a].at = "asked"
  /\ lastRaw' = raw /\ revision' = NewRevision
  /\ request' = [request EXCEPT ![a] = Answer(NewRevision, request[a].revision)]
  /\ UNCHANGED <<raw, applied, rev, current>>

\* Rejected, failed or timed out: markSyncFailed leaves the configuration.
Fail(a) ==
  /\ request[a] # NoRequest
  /\ request' = [request EXCEPT ![a] = NoRequest]
  /\ UNCHANGED <<raw, lastRaw, revision, applied, rev, current>>

\* updateConfig takes whatever revision the answer has; "not modified" only
\* counts as a success.
Receive(a) ==
  /\ request[a].at = "answered"
  /\ request' = [request EXCEPT ![a] = NoRequest]
  /\ IF request[a].full
     THEN /\ applied' = [applied EXCEPT ![a] = request[a].config]
          /\ rev' = [rev EXCEPT ![a] = request[a].revision]
          /\ current' = IF request[a].fresh THEN current \cup {a} ELSE current \ {a}
     ELSE UNCHANGED <<applied, rev, current>>
  /\ UNCHANGED <<raw, lastRaw, revision>>

SetOverride(r) ==
  /\ r \in Overrides /\ raw' = r
  /\ UNCHANGED <<lastRaw, revision, applied, rev, request, current>>

\* The gateway's process starts again, under any override.
RestartService(r) ==
  /\ r \in Overrides /\ raw' = r
  /\ lastRaw' = NoRaw /\ revision' = 0 /\ current' = {}
  /\ request' = [a \in Installations |->
       IF request[a].at = "answered" THEN [request[a] EXCEPT !.fresh = FALSE] ELSE NoRequest]
  /\ UNCHANGED <<applied, rev>>

\* The agent's process starts again.
RestartManager(a) ==
  /\ applied' = [applied EXCEPT ![a] = Empty]
  /\ rev' = [rev EXCEPT ![a] = 0]
  /\ request' = [request EXCEPT ![a] = NoRequest]
  /\ current' = current \ {a}
  /\ UNCHANGED <<raw, lastRaw, revision>>

\* A request is authenticated under the id it was sent with, which is gone.
Refused(q) == IF q.at = "asked" THEN [q EXCEPT !.at = "refused"] ELSE q

\* The process of a goes on as b, with the manager and the request it has.
CarryOver(a, b) ==
  /\ a # b
  /\ applied' = [applied EXCEPT ![b] = applied[a]]
  /\ rev' = [rev EXCEPT ![b] = rev[a]]
  /\ current' = IF a \in current THEN current \cup {b} ELSE current \ {b}
  /\ request' = [request EXCEPT ![b] = Refused(request[a]), ![a] = NoRequest]
  /\ UNCHANGED <<raw, lastRaw, revision>>

ConfigNext ==
  \/ \E a \in Installations : Ask(a) \/ Serve(a) \/ Fail(a) \/ Receive(a) \/ RestartManager(a)
  \/ \E a, b \in Installations : CarryOver(a, b)
  \/ \E r \in Overrides : SetOverride(r) \/ RestartService(r)

ConfigSpec == ConfigInit /\ [][ConfigNext]_configVars

Requests == [at : {"none", "asked", "refused", "answered"}, revision : Nat, full : BOOLEAN,
             config : Overrides, fresh : BOOLEAN]

ConfigTypeOK ==
  /\ raw \in Overrides /\ lastRaw \in Overrides \cup {NoRaw} /\ revision \in Nat
  /\ applied \in [Installations -> Overrides] /\ rev \in [Installations -> Nat]
  /\ request \in [Installations -> Requests]
  /\ current \subseteq Installations

\* What a revision is for: an agent that has the gateway's revision, from the
\* process of the gateway that is running, has the gateway's configuration.
\* Nothing of the kind holds across a restart of the gateway, where two
\* configurations may both be number 1.
RevisionMeansConfiguration ==
  \A a \in current : rev[a] = revision => applied[a] = Meaning(lastRaw)
=============================================================================
