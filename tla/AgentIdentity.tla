---------------------------- MODULE AgentIdentity ----------------------------
(***************************************************************************)
(* One installation of the agent and its row at the gateway:               *)
(* AgentIdentityService, IdentityStore and AgentHeartbeatScheduler on one  *)
(* side, DeveloperConsoleController.registerAgent on the other.            *)
(*                                                                         *)
(* The identity service loads the identity file or registers in a retry    *)
(* loop; the heartbeat scheduler runs while there is an identity and, when *)
(* the gateway rejects it, wipes it and has the service register anew.     *)
(* Both are cut at their awaits.  A registration request is cut at the     *)
(* gateway's queries: the agent's row is looked up by machine id, the rows *)
(* of the token are counted, the row is created.  A request the agent      *)
(* stopped waiting for goes on there.                                      *)
(*                                                                         *)
(* Abstractions.  Machine ids are numbered as they are generated, agent    *)
(* ids as they are issued; the secret goes with the agent id, and so does  *)
(* the machine id in the identity file.  Capabilities are the choice       *)
(* whether a heartbeat's answer changes them.  A file being written when   *)
(* the process dies, or whose write fails, may be left torn.               *)
(***************************************************************************)
EXTENDS Integers, Sequences, FiniteSets

CONSTANTS
  MaxAgents,   \* maxAgents of the registration token
  MaxFaults    \* bound: deaths, network and disk faults, rejections, purges

ASSUME IdentityAssumption == MaxAgents \in Nat \ {0} /\ MaxFaults \in Nat

None == 0      \* no identity, no file, no machine id
Torn == -1     \* a file that load() reports as CORRUPTED

VARIABLES
  process,     \* the agent: "up", "stopping" after a signal, "down"
  identity,    \* the service's identity: an agent id or None
  machine,     \* activeMachineId
  registering, \* isRegistering
  timer,       \* the timeout behind retryTimeoutId has yet to fire
  reg,         \* what the service awaits: load, register, save, clear, nothing
  granted,     \* the agent id of the answer being saved
  running,     \* the heartbeat scheduler's isRunning
  interval,    \* its intervalId is set
  beat,        \* the heartbeat cycle: idle, send, caps (saving capabilities)
  file,        \* the identity file: an agent id, None or Torn
  machines,    \* machine ids generated so far
  rows,        \* the gateway's agents not deleted
  owner,       \* owner[a]: the machine id agent a was created for
  requests,    \* registrations being handled at the gateway
  active,      \* the registration token is ACTIVE
  deaths, netFaults, diskFaults, resets, purges

service   == <<identity, machine, registering, timer, reg, granted, machines>>
scheduler == <<running, interval, beat>>
gateway   == <<rows, owner, requests, active>>
counts    == <<deaths, netFaults, diskFaults, resets, purges>>
vars == <<process, service, scheduler, file, gateway, counts>>

Request == [machine : Nat, step : {"lookup", "count", "create"}, abandoned : Nat]

Budget == deaths + netFaults + diskFaults + resets + purges < MaxFaults

Init ==
  /\ process = "down"
  /\ identity = None /\ machine = None /\ machines = 0
  /\ registering = FALSE /\ timer = FALSE /\ reg = "idle" /\ granted = None
  /\ running = FALSE /\ interval = FALSE /\ beat = "idle"
  /\ file = None
  /\ rows = {} /\ owner = <<>> /\ requests = {} /\ active = TRUE
  /\ deaths = 0 /\ netFaults = 0 /\ diskFaults = 0 /\ resets = 0 /\ purges = 0

\* The request whose answer the service awaits; abandoned ones carry a number.
Waited    == {r \in requests : r.abandoned = 0}
Abandoned == (requests \ Waited) \cup
             {[r EXCEPT !.abandoned = deaths + netFaults + 1] : r \in Waited}

\* triggerRegistrationLoop: one loop at a time, and none while registered.
Trigger(id, busy) ==
  IF id = None /\ ~busy
    THEN registering' = TRUE /\ timer' = TRUE
    ELSE registering' = busy /\ UNCHANGED timer

Generate == machine' = machines + 1 /\ machines' = machines + 1

\* The callback of a registration: setupHeartbeatInterval, whose immediate cycle
\* runs only if the scheduler does and no cycle is executing.
OnRegistered ==
  /\ interval' = TRUE
  /\ beat' = IF running /\ beat = "idle" THEN "send" ELSE beat
  /\ UNCHANGED running

(***************************************************************************)
(* The process.                                                            *)
(***************************************************************************)
\* The orchestrator starts the service, whose initialize() awaits the file, and
\* then the scheduler, which waits for an identity.
Start ==
  /\ process = "down" /\ process' = "up"
  /\ reg' = "load" /\ running' = TRUE
  /\ UNCHANGED <<identity, machine, registering, timer, granted, machines,
                 interval, beat, file, gateway, counts>>

\* stop() of the scheduler and of the service; what they await is not cancelled.
Stop ==
  /\ process = "up" /\ process' = "stopping"
  /\ Budget /\ deaths' = deaths + 1
  /\ running' = FALSE /\ interval' = FALSE
  /\ registering' = FALSE /\ timer' = FALSE
  /\ UNCHANGED <<identity, machine, reg, granted, machines, beat, file, gateway,
                 netFaults, diskFaults, resets, purges>>

\* What may be on the disk when writing a is cut short or fails, or unlink is.
Written(a) == {file, Torn, a}

Left == CASE reg = "save"  -> Written(granted)
          [] reg = "clear" -> {file, None}
          [] beat = "caps" -> Written(identity)
          [] OTHER         -> {file}

Exit ==
  /\ \/ process = "stopping"
     \/ process = "up" /\ Budget
  /\ process' = "down" /\ deaths' = deaths + 1
  /\ file' \in Left
  /\ identity' = None /\ machine' = None /\ granted' = None
  /\ registering' = FALSE /\ timer' = FALSE /\ reg' = "idle"
  /\ running' = FALSE /\ interval' = FALSE /\ beat' = "idle"
  /\ requests' = Abandoned
  /\ UNCHANGED <<machines, rows, owner, active, netFaults, diskFaults, resets, purges>>

(***************************************************************************)
(* AgentIdentityService.                                                   *)
(***************************************************************************)
\* Mutations of Load: a corrupt file is taken for an identity; the branch of a
\* file that was loaded does not return.
LoadTorn ==
  /\ reg = "load" /\ reg' = "idle"
  /\ \/ /\ file # None
        /\ identity' = file
        /\ OnRegistered
        /\ UNCHANGED <<machine, machines, registering, timer, file>>
     \/ /\ file = None
        /\ Generate
        /\ Trigger(identity, registering)
        /\ UNCHANGED <<identity, scheduler, file>>
  /\ UNCHANGED <<process, granted, gateway, counts>>

LoadAndRegister ==
  /\ reg = "load" /\ reg' = "idle"
  /\ Generate
  /\ Trigger(None, registering)
  /\ \/ /\ file \notin {None, Torn} /\ identity' = file
        /\ OnRegistered /\ UNCHANGED file
     \/ /\ file \in {None, Torn} /\ file' \in {file, None}
        /\ UNCHANGED <<identity, scheduler>>
  /\ UNCHANGED <<process, granted, gateway, counts>>

\* initialize(): a file that is missing or corrupt starts the registration loop;
\* a corrupt one is renamed first, and a failure of that is only logged.
Load ==
  /\ reg = "load" /\ reg' = "idle"
  /\ \/ /\ file \notin {None, Torn}
        /\ identity' = file
        /\ OnRegistered
        /\ UNCHANGED <<machine, machines, registering, timer, file>>
     \/ /\ file \in {None, Torn}
        /\ file' \in {file, None}
        /\ Generate
        /\ Trigger(identity, registering)
        /\ UNCHANGED <<identity, scheduler>>
  /\ UNCHANGED <<process, granted, gateway, counts>>

\* The file cannot be read: it is taken for a corrupt one.
LoadFails ==
  /\ reg = "load" /\ reg' = "idle"
  /\ file \notin {None, Torn} /\ file' \in {file, None}
  /\ Budget /\ diskFaults' = diskFaults + 1
  /\ Generate
  /\ Trigger(identity, registering)
  /\ UNCHANGED <<process, identity, granted, scheduler, gateway,
                 deaths, netFaults, resets, purges>>

\* Mutation of Attempt: every attempt registers under a fresh machine id.
AttemptFresh ==
  /\ timer /\ reg = "idle"
  /\ timer' = FALSE
  /\ machine' = machines + 1 /\ machines' = machines + 1
  /\ reg' = "register"
  /\ requests' = requests \cup {[machine |-> machine', step |-> "lookup", abandoned |-> 0]}
  /\ UNCHANGED <<process, identity, registering, granted, scheduler, file,
                 rows, owner, active, counts>>

\* The timeout fires: one attempt, under the machine id of the loop.
Attempt ==
  /\ timer
  /\ timer' = FALSE
  /\ IF identity # None
       THEN registering' = FALSE /\ UNCHANGED <<reg, requests>>
       ELSE /\ reg' = "register"
            /\ requests' = requests \cup
                 {[machine |-> machine, step |-> "lookup", abandoned |-> 0]}
            /\ UNCHANGED registering
  /\ UNCHANGED <<process, identity, machine, granted, machines, scheduler, file,
                 rows, owner, active, counts>>

\* Mutation of Retry: isRegistering is still set when the retry is scheduled.
RetryWhileBusy == reg' = "idle" /\ Trigger(identity, TRUE)

\* The awaited request fails: isRegistering is cleared, the loop goes on.
Retry == reg' = "idle" /\ Trigger(identity, FALSE)

\* The gateway cannot be reached or answers 5xx and the request is gone, or the
\* agent gives up waiting and the request goes on without it.
AttemptFails ==
  /\ reg = "register"
  /\ Budget /\ netFaults' = netFaults + 1
  /\ requests' \in {requests \ Waited, Abandoned}
  /\ Retry
  /\ UNCHANGED <<process, identity, machine, granted, machines, scheduler, file,
                 rows, owner, active, deaths, diskFaults, resets, purges>>

\* Mutation of Saved: the identity is used before it is written.
SavedLater ==
  /\ reg = "save" /\ reg' = "idle"
  /\ identity' = granted /\ granted' = None
  /\ OnRegistered
  /\ UNCHANGED <<process, machine, machines, registering, timer, file, gateway, counts>>

Saved ==
  /\ reg = "save" /\ reg' = "idle"
  /\ file' = granted /\ identity' = granted /\ granted' = None
  /\ OnRegistered
  /\ UNCHANGED <<process, machine, machines, registering, timer, gateway, counts>>

SaveFails ==
  /\ reg = "save"
  /\ Budget /\ diskFaults' = diskFaults + 1
  /\ file' \in Written(granted) \ {granted} /\ granted' = None
  /\ Retry
  /\ UNCHANGED <<process, identity, machine, machines, scheduler, gateway,
                 deaths, netFaults, resets, purges>>

\* clearIdentityAndReRegister, once the file is deleted.
Cleared ==
  /\ reg = "clear" /\ reg' = "idle"
  /\ file' = None
  /\ Generate
  /\ Trigger(identity, registering)
  /\ UNCHANGED <<process, identity, granted, scheduler, gateway, counts>>

\* unlink throws: the caller logs it, no loop is started.
ClearFails ==
  /\ reg = "clear" /\ reg' = "idle"
  /\ Budget /\ diskFaults' = diskFaults + 1
  /\ UNCHANGED <<process, identity, machine, registering, timer, granted, machines,
                 scheduler, file, gateway, deaths, netFaults, resets, purges>>

(***************************************************************************)
(* registerAgent at the gateway.  An answer reaches the service only if it *)
(* still waits for it.                                                     *)
(***************************************************************************)
Answer(r, granting) ==
  /\ requests' = requests \ {r}
  /\ IF r \in Waited
       THEN IF granting = None
              THEN Retry /\ UNCHANGED granted
              ELSE /\ reg' = "save" /\ granted' = granting
                   /\ registering' = FALSE /\ timer' = FALSE
       ELSE UNCHANGED <<reg, registering, timer, granted>>

GatewayFrame == UNCHANGED <<process, identity, machine, machines, scheduler, file,
                            active, counts>>

Proceed(r, s) ==
  /\ requests' = (requests \ {r}) \cup {[r EXCEPT !.step = s]}
  /\ UNCHANGED <<reg, registering, timer, granted, rows, owner>>

RowsOf(m) == {a \in rows : owner[a] = m}

\* INVALID_TOKEN: the service halts its loop.
TokenRefused(r) ==
  /\ r.step = "lookup" /\ ~active
  /\ requests' = requests \ {r}
  /\ IF r \in Waited
       THEN reg' = "idle" /\ registering' = FALSE /\ UNCHANGED timer
       ELSE UNCHANGED <<reg, registering, timer>>
  /\ GatewayFrame /\ UNCHANGED <<granted, rows, owner>>

\* Mutation of LookUp: a machine that is known is not recognised.
LookUpNothing(r) ==
  /\ r.step = "lookup" /\ active
  /\ Proceed(r, "count")
  /\ GatewayFrame

\* A machine id that has a row is given that row's credentials again.
LookUp(r) ==
  /\ r.step = "lookup" /\ active
  /\ \/ \E a \in RowsOf(r.machine) : Answer(r, a) /\ UNCHANGED <<rows, owner>>
     \/ RowsOf(r.machine) = {} /\ Proceed(r, "count")
  /\ GatewayFrame

\* LIMIT_EXCEEDED reaches the client as an error to retry.
Count(r) ==
  /\ r.step = "count"
  /\ \/ Cardinality(rows) >= MaxAgents /\ Answer(r, None) /\ UNCHANGED <<rows, owner>>
     \/ Cardinality(rows) < MaxAgents /\ Proceed(r, "create")
  /\ GatewayFrame

\* The machine id is unique: a second insert fails, and the client retries.
Create(r) ==
  /\ r.step = "create"
  /\ \/ /\ RowsOf(r.machine) = {}
        /\ owner' = Append(owner, r.machine)
        /\ rows' = rows \cup {Len(owner')}
        /\ Answer(r, Len(owner'))
     \/ RowsOf(r.machine) # {} /\ Answer(r, None) /\ UNCHANGED <<rows, owner>>
  /\ GatewayFrame

\* An operator deletes an agent, or purges one that is OFFLINE.
Purge(a) ==
  /\ a \in rows /\ rows' = rows \ {a}
  /\ Budget /\ purges' = purges + 1
  /\ UNCHANGED <<process, service, scheduler, file, owner, requests, active,
                 deaths, netFaults, diskFaults, resets>>

RevokeToken ==
  /\ active /\ active' = FALSE
  /\ UNCHANGED <<process, service, scheduler, file, rows, owner, requests, counts>>

(***************************************************************************)
(* AgentHeartbeatScheduler.                                                *)
(***************************************************************************)
BeatFrame == UNCHANGED <<process, machine, registering, timer, granted, machines,
                         gateway, deaths, netFaults, purges>>

\* The interval fires; a cycle in progress, a stopped scheduler or a missing
\* identity makes it do nothing.
Beat ==
  /\ interval /\ running /\ beat = "idle" /\ identity # None
  /\ beat' = "send"
  /\ BeatFrame /\ UNCHANGED <<identity, reg, running, interval, file, diskFaults, resets>>

\* Acknowledged, or lost: nothing changes but, with an answer that changes the
\* capabilities, the file.
BeatEnds ==
  /\ beat = "send"
  /\ \/ beat' = "idle"
     \/ identity \in rows /\ beat' = "caps"
  /\ BeatFrame /\ UNCHANGED <<identity, reg, running, interval, file, diskFaults, resets>>

CapabilitiesSaved ==
  /\ beat = "caps" /\ beat' = "idle"
  /\ \/ file' = identity /\ UNCHANGED diskFaults
     \/ Budget /\ diskFaults' = diskFaults + 1 /\ file' \in Written(identity) \ {identity}
  /\ BeatFrame /\ UNCHANGED <<identity, reg, running, interval, resets>>

\* 401 or 403: the agent is unknown, or the gateway failed to look it up and says
\* the same.  The scheduler stops itself; clearIdentityAndReRegister begins.
BeatRejected ==
  /\ beat = "send" /\ beat' = "idle"
  /\ Budget /\ resets' = resets + 1
  /\ running' = FALSE /\ interval' = FALSE
  /\ identity' = None /\ reg' = "clear"
  /\ BeatFrame /\ UNCHANGED <<file, diskFaults>>

-----------------------------------------------------------------------------
Service   == Load \/ Attempt \/ Saved \/ Cleared
Handle(r) == TokenRefused(r) \/ LookUp(r) \/ Count(r) \/ Create(r)
Handling  == \E r \in requests : Handle(r)
Scheduler == Beat \/ BeatEnds \/ CapabilitiesSaved

Next ==
  \/ Start \/ Stop \/ Exit
  \/ Service \/ LoadFails \/ AttemptFails \/ SaveFails \/ ClearFails
  \/ Handling
  \/ \E a \in rows : Purge(a)
  \/ RevokeToken
  \/ Scheduler \/ BeatRejected

Spec == Init /\ [][Next]_vars

\* The event loop runs the callbacks that are due, the disk answers, the gateway
\* answers the requests it has; a process told to stop exits, and systemd starts
\* one that has exited.  The network and the disk need not work until MaxFaults
\* is used up.
Fairness ==
  /\ WF_vars(Service)
  /\ WF_vars(\E r \in Waited : Handle(r))
  /\ WF_vars(Beat) /\ WF_vars(BeatEnds) /\ WF_vars(CapabilitiesSaved)
  /\ WF_vars(Start) /\ WF_vars(process = "stopping" /\ Exit)

FairSpec == Spec /\ Fairness

-----------------------------------------------------------------------------
(***************************************************************************)
(* Properties.                                                             *)
(***************************************************************************)
TypeOK ==
  /\ process \in {"up", "stopping", "down"}
  /\ identity \in Nat /\ machine \in Nat /\ granted \in Nat /\ machines \in Nat
  /\ registering \in BOOLEAN /\ timer \in BOOLEAN
  /\ reg \in {"idle", "load", "register", "save", "clear"}
  /\ running \in BOOLEAN /\ interval \in BOOLEAN /\ beat \in {"idle", "send", "caps"}
  /\ file \in Nat \cup {Torn}
  /\ owner \in Seq(Nat) /\ rows \subseteq DOMAIN owner
  /\ requests \subseteq Request /\ active \in BOOLEAN
  /\ {deaths, netFaults, diskFaults, resets, purges} \subseteq Nat

\* A lost or late answer never registers the installation twice: the rows the
\* gateway holds for it are at most one per start without a file and one per
\* reset, whatever the retries and however late an abandoned request is handled.
RowsPaidFor == Cardinality(rows) <= 1 + deaths + resets

\* A restart finds the identity the agent was using: unless the disk failed, an
\* identity in use is the one in the file.
InUseIsOnDisk ==
  identity # None /\ beat # "caps" => file = identity \/ diskFaults > 0

\* The service never comes to rest without an identity: either the token was
\* revoked, or the old file could not be deleted, or the process is stopping.
NeverStranded ==
  process = "up" /\ identity = None /\ reg = "idle" /\ ~timer =>
    ~active \/ diskFaults > 0

\* Two registrations of one process are never under way at once.
OneAttempt ==
  /\ Cardinality(Waited) <= 1
  /\ timer => reg = "idle" /\ identity = None /\ Waited = {}

\* While the token is active and has room the agent gets an identity, through
\* restarts, lost answers and resets.
EventuallyRegistered ==
  (process = "up" /\ identity = None) ~>
    \/ identity # None
    \/ ~active \/ Cardinality(rows) >= MaxAgents \/ diskFaults > 0

\* docs/architecture/01-agent-lifecycle.md:190: once a new identity is issued by
\* the gateway, the schedulers restart automatically.
HeartbeatsRestart == identity # None ~> (beat = "send" \/ identity = None)

\* cloud/developer/DeveloperConsoleController.ts:257: "Enforce maxAgents limit".
LimitEnforced == Cardinality(rows) <= MaxAgents
=============================================================================
