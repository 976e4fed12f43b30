---------------------------- MODULE AgentRegistry ----------------------------
(***************************************************************************)
(* The gateway's table of agents: registrations and heartbeats that keep a *)
(* row ONLINE, the scan of AgentStatusService that turns it OFFLINE, and   *)
(* the console's purge of OFFLINE rows.  Heartbeats, the scan and the      *)
(* purge are cut at their queries; nothing runs in a transaction.  A       *)
(* registration is one step, its last query: the look-up before it changes *)
(* nothing, and when the row it found is purged before the update, the     *)
(* query fails and the agent registers later (AgentIdentity cuts it too).  *)
(*                                                                         *)
(* Abstractions.  An agent is an agent id: a process whose heartbeat was   *)
(* rejected registers anew under another id (AgentIdentity has that part). *)
(* An agent has one heartbeat at a time in the gateway's hands.  The last  *)
(* heartbeat's time is the fact that it is too long ago, which Age makes   *)
(* true at any moment.  All agents use the token the purge is limited to.  *)
(***************************************************************************)
EXTENDS Naturals

CONSTANTS
  Agents,
  MaxFaults    \* bound: lost answers, failed queries, restarts, new overrides

ASSUME AgentRegistryAssumption == MaxFaults \in Nat

VARIABLES
  row,       \* row[a]: ONLINE, OFFLINE, or none where the table has no row
  expired,   \* the rows whose last heartbeat is older than the timeout
  beats,     \* the agents with rows in agent_heartbeats
  agent,     \* agent[a]: new, beating, mute (registered again after a rejection,
             \* its heartbeat scheduler stopped), silent (gone for good), rejected,
             \* renamed (its process carries on under another id)
  beat,      \* beat[a]: how far the gateway is with a's heartbeat
  scan,      \* isScanning, and the ids the scan has found
  purge,     \* how far a purge is, and the ids it has chosen
  faults

registryVars == <<row, expired, beats, agent, beat, scan, purge, faults>>

NoScan == [busy |-> FALSE, found |-> {}]
NoPurge == [at |-> "idle", ids |-> {}]

RegistryInit ==
  /\ row = [a \in Agents |-> "none"] /\ expired = {} /\ beats = {}
  /\ agent = [a \in Agents |-> "new"]
  /\ beat = [a \in Agents |-> "none"]
  /\ scan = NoScan /\ purge = NoPurge
  /\ faults = 0

Faulty == faults < MaxFaults /\ faults' = faults + 1

Online(a) ==
  /\ row' = [row EXCEPT ![a] = "ONLINE"]
  /\ expired' = expired \ {a}

(***************************************************************************)
(* Registration: a row is created, or the machine's row is updated.        *)
(***************************************************************************)
Register(a, as) ==
  /\ agent[a] = "new" /\ Online(a)
  /\ agent' = [agent EXCEPT ![a] = as]
  /\ UNCHANGED <<beats, beat, scan, purge, faults>>

\* The agent did not get the answer and will register again.
RegisterUnanswered(a) ==
  /\ agent[a] = "new" /\ Online(a) /\ Faulty
  /\ UNCHANGED <<beats, agent, beat, scan, purge>>

\* The process that was rejected as a registers as b; the scheduler that
\* stopped itself does not beat for b.
RegisterAgain(a, b) ==
  /\ agent[a] = "rejected" /\ agent[b] = "new" /\ Online(b)
  /\ agent' = [agent EXCEPT ![a] = "renamed", ![b] = "mute"]
  /\ UNCHANGED <<beats, beat, scan, purge, faults>>

(***************************************************************************)
(* The agent's process.                                                    *)
(***************************************************************************)
SendBeat(a) ==
  /\ agent[a] = "beating" /\ beat[a] = "none"
  /\ beat' = [beat EXCEPT ![a] = "sent"]
  /\ UNCHANGED <<row, expired, beats, agent, scan, purge, faults>>

\* The host is switched off; what it sent is still being handled.
FallSilent(a) ==
  /\ agent[a] \in {"beating", "mute"}
  /\ agent' = [agent EXCEPT ![a] = "silent"]
  /\ UNCHANGED <<row, expired, beats, beat, scan, purge, faults>>

\* The process starts again with the identity it has saved.
RestartProcess(a) ==
  /\ agent[a] \in {"beating", "mute"} /\ Faulty
  /\ agent' = [agent EXCEPT ![a] = "beating"]
  /\ UNCHANGED <<row, expired, beats, beat, scan, purge>>

(***************************************************************************)
(* A heartbeat at the gateway: authentication, a second look-up, the       *)
(* update, the insert into agent_heartbeats.                               *)
(***************************************************************************)
Known(a) == row[a] # "none"

Progress(a, to) ==
  /\ beat' = [beat EXCEPT ![a] = to]
  /\ UNCHANGED <<agent, scan, purge>>

\* 403 INVALID_TOKEN: the agent stops beating and drops its identity.
Reject(a) ==
  /\ beat' = [beat EXCEPT ![a] = "none"]
  /\ agent' = [agent EXCEPT ![a] = IF @ = "beating" THEN "rejected" ELSE @]
  /\ UNCHANGED <<row, expired, beats, scan, purge>>

Authenticate(a) ==
  /\ beat[a] = "sent"
  /\ \/ Known(a) /\ Progress(a, "authenticated") /\ UNCHANGED <<row, expired, beats, faults>>
     \/ ~Known(a) /\ Reject(a) /\ UNCHANGED faults
     \/ Reject(a) /\ Faulty      \* a database error is answered the same way

LookUp(a) ==
  /\ beat[a] = "authenticated"
  /\ \/ Known(a) /\ Progress(a, "found") /\ UNCHANGED <<row, expired, beats>>
     \/ ~Known(a) /\ Reject(a)
  /\ UNCHANGED faults

\* Updating a row that is gone throws: 500.
Update(a) ==
  /\ beat[a] = "found"
  /\ \/ Known(a) /\ Online(a) /\ Progress(a, "updated")
     \/ ~Known(a) /\ Progress(a, "none") /\ UNCHANGED <<row, expired>>
  /\ UNCHANGED <<beats, faults>>

\* Mutation of Log: a table without the foreign key.
LogUnrelated(a) ==
  /\ beat[a] = "updated" /\ Progress(a, "none")
  /\ beats' = beats \cup {a}
  /\ UNCHANGED <<row, expired, faults>>

\* The foreign key refuses the insert once the row is gone.
Log(a) ==
  /\ beat[a] = "updated" /\ Progress(a, "none")
  /\ beats' = IF Known(a) THEN beats \cup {a} ELSE beats
  /\ UNCHANGED <<row, expired, faults>>

\* A query failed, 500; or an answer of any kind is lost on its way.
BeatFails(a) ==
  /\ beat[a] # "none" /\ Faulty /\ Progress(a, "none")
  /\ UNCHANGED <<row, expired, beats>>

Beats(a) == SendBeat(a) \/ Authenticate(a) \/ LookUp(a) \/ Update(a) \/ Log(a)

(***************************************************************************)
(* The offline scan, every ten seconds.                                    *)
(***************************************************************************)
Age(a) ==
  /\ Known(a) /\ a \notin expired
  /\ expired' = expired \cup {a}
  /\ UNCHANGED <<row, beats, agent, beat, scan, purge, faults>>

Overdue == {a \in expired : row[a] = "ONLINE"}

\* Mutation of ScanBegin: an empty result returns without the finally block.
ScanBeginStuck ==
  /\ ~scan.busy
  /\ scan' = [busy |-> TRUE, found |-> Overdue]
  /\ UNCHANGED <<row, expired, beats, agent, beat, purge, faults>>

ScanBegin ==
  /\ ~scan.busy
  /\ scan' = [busy |-> Overdue # {}, found |-> Overdue]
  /\ UNCHANGED <<row, expired, beats, agent, beat, purge, faults>>

\* The rows are marked by id, whatever has happened to them since.
ScanMark ==
  /\ scan.found # {}
  /\ row' = [a \in Agents |-> IF a \in scan.found /\ Known(a) THEN "OFFLINE" ELSE row[a]]
  /\ scan' = NoScan
  /\ UNCHANGED <<expired, beats, agent, beat, purge, faults>>

ScanFails ==
  /\ scan.found # {} /\ Faulty
  /\ scan' = NoScan
  /\ UNCHANGED <<row, expired, beats, agent, beat, purge>>

(***************************************************************************)
(* The purge: ids are chosen, their heartbeats deleted, then their rows.   *)
(***************************************************************************)
Purge(p) ==
  /\ purge' = p
  /\ UNCHANGED <<expired, agent, beat, scan>>

PurgeBegin ==
  /\ purge = NoPurge /\ \E a \in Agents : row[a] = "OFFLINE"
  /\ Purge([at |-> "chosen", ids |-> {a \in Agents : row[a] = "OFFLINE"}])
  /\ UNCHANGED <<row, beats, faults>>

PurgeHeartbeats ==
  /\ purge.at = "chosen" /\ Purge([purge EXCEPT !.at = "cleared"])
  /\ beats' = beats \ purge.ids
  /\ UNCHANGED <<row, faults>>

\* One delete for all of the ids; a heartbeat logged in between, of any of
\* them, makes the foreign key refuse it as a whole.
PurgeRows ==
  /\ purge.at = "cleared" /\ Purge(NoPurge)
  /\ row' = [a \in Agents |-> IF a \in purge.ids /\ beats \cap purge.ids = {}
                              THEN "none" ELSE row[a]]
  /\ UNCHANGED <<beats, faults>>

PurgeFails ==
  /\ purge # NoPurge /\ Faulty /\ Purge(NoPurge)
  /\ UNCHANGED <<row, beats>>

(***************************************************************************)
(* The gateway's process starts again: what it was handling is dropped.    *)
(***************************************************************************)
DropHandlers ==
  /\ Faulty
  /\ beat' = [a \in Agents |-> "none"]
  /\ scan' = NoScan /\ purge' = NoPurge
  /\ UNCHANGED <<row, expired, beats, agent>>

RegistryTypeOK ==
  /\ row \in [Agents -> {"none", "ONLINE", "OFFLINE"}]
  /\ expired \subseteq Agents
  /\ beats \subseteq {a \in Agents : row[a] # "none"}
  /\ agent \in [Agents -> {"new", "beating", "mute", "silent", "rejected", "renamed"}]
  /\ beat \in [Agents -> {"none", "sent", "authenticated", "found", "updated"}]
  /\ scan \in [busy : BOOLEAN, found : SUBSET Agents]
  /\ purge \in [at : {"idle", "chosen", "cleared"}, ids : SUBSET Agents]
  /\ faults \in 0..MaxFaults

\* The table tells the truth in the end: an agent that stops beating does not
\* stay ONLINE, whatever request of its is still being handled, and one that
\* keeps beating is ONLINE again and again, although the scan marks by id rows
\* that have beaten since it read them.
StatusConverges ==
  \A a \in Agents :
    /\ <>[](agent[a] # "beating") => <>[](row[a] # "ONLINE")
    /\ <>[](agent[a] = "beating") => []<>(row[a] = "ONLINE")
=============================================================================
