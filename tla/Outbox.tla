------------------------------- MODULE Outbox -------------------------------
(***************************************************************************)
(* The incident outbox: rows inserted by OutboxPublisher, drained by the   *)
(* one OutboxSyncWorker of the agent process, requeued by the console.     *)
(*                                                                         *)
(* A cycle of the worker is cut at its awaits: the query of the due rows,  *)
(* one POST per row, one update per failed POST, one update for all that   *)
(* were acknowledged.  What it knows in between (batch, snap, acked) is    *)
(* local and dies with the process; an exception of the database inside a  *)
(* cycle drops it too.                                                     *)
(*                                                                         *)
(* Abstractions.  A payload is its row's id; ids are given in the order of *)
(* insertion.  nextRetryAt is the fact whether it has passed.  A POST that *)
(* times out is aborted by the worker, not taken back from the network: it *)
(* may reach the gateway later.  Both endpoints, incidents and alerts,     *)
(* answer alike and neither recognises a copy.                             *)
(***************************************************************************)
EXTENDS Naturals, FiniteSets

CONSTANTS
  MaxRows,       \* bound: rows ever inserted
  MaxAttempts,   \* maxAttempts of the worker
  BatchSize,     \* batchSize of the worker
  MaxFaults,     \* bound: timeouts, database errors and process deaths
  MaxRetries     \* bound: console requests to retry

ASSUME OutboxAssumption ==
  /\ MaxRows \in Nat /\ MaxFaults \in Nat /\ MaxRetries \in Nat
  /\ MaxAttempts \in Nat \ {0} /\ BatchSize \in Nat \ {0}

Ids == 1..MaxRows

VARIABLES
  status,     \* status[i]: the row's column, "absent" before the insert
  attempts,   \* the row's column
  due,        \* the rows whose nextRetryAt has passed
  process,    \* the agent: "up", "stopping" after a signal, "down"
  timer,      \* the worker's timeout is set
  pc,         \* the cycle: idle, read, post, record, mark (not idle: isSyncing)
  batch,      \* records not yet processed in this cycle
  snap,       \* snap[i]: record.attempts as the query returned it
  acked,      \* successIds
  late,       \* timed-out POSTs that may still arrive
  copies,     \* copies[i]: how often the gateway has accepted row i
  faults, retries

rowVars    == <<status, attempts, due>>
cycleVars  == <<timer, pc, batch, snap, acked>>
netVars    == <<late, copies>>
vars == <<rowVars, process, cycleVars, netVars, faults, retries>>

Init ==
  /\ status = [i \in Ids |-> "absent"]
  /\ attempts = [i \in Ids |-> 0]
  /\ due = {}
  /\ process = "down" /\ timer = FALSE /\ pc = "idle"
  /\ batch = {} /\ snap = [i \in Ids |-> 0] /\ acked = {}
  /\ late = {} /\ copies = [i \in Ids |-> 0]
  /\ faults = 0 /\ retries = 0

Faulty == faults < MaxFaults /\ faults' = faults + 1

(***************************************************************************)
(* The publisher, time, and the console.                                   *)
(***************************************************************************)
Enqueue(i) ==
  /\ process = "up"
  /\ status[i] = "absent" /\ \A j \in Ids : j < i => status[j] # "absent"
  /\ status' = [status EXCEPT ![i] = "PENDING"]
  /\ due' = due \cup {i}
  /\ UNCHANGED <<attempts, process, cycleVars, netVars, faults, retries>>

BackoffPasses(i) ==
  /\ status[i] = "PENDING" /\ i \notin due
  /\ due' = due \cup {i}
  /\ UNCHANGED <<status, attempts, process, cycleVars, netVars, faults, retries>>

\* Mutation of RetryFailed: no filter on the status.
RetryAnyStatus(S) ==
  LET hit == {i \in S : status[i] # "absent"} IN
  /\ hit # {} /\ retries < MaxRetries
  /\ retries' = retries + 1
  /\ status' = [i \in Ids |-> IF i \in hit THEN "PENDING" ELSE status[i]]
  /\ attempts' = [i \in Ids |-> IF i \in hit THEN 0 ELSE attempts[i]]
  /\ due' = due \cup hit
  /\ UNCHANGED <<process, cycleVars, netVars, faults>>

\* retryFailedOutbox, for all failed rows or for the ids asked for.
RetryFailed(S) ==
  LET hit == {i \in S : status[i] = "FAILED"} IN
  /\ hit # {} /\ retries < MaxRetries
  /\ retries' = retries + 1
  /\ status' = [i \in Ids |-> IF i \in hit THEN "PENDING" ELSE status[i]]
  /\ attempts' = [i \in Ids |-> IF i \in hit THEN 0 ELSE attempts[i]]
  /\ due' = due \cup hit
  /\ UNCHANGED <<process, cycleVars, netVars, faults>>

(***************************************************************************)
(* The process.  main() exits on SIGTERM once stop() is done, whatever the *)
(* cycle is at, and on any uncaught exception; systemd starts it again.    *)
(***************************************************************************)
Forget ==
  /\ pc' = "idle"
  /\ batch' = {} /\ snap' = [i \in Ids |-> 0] /\ acked' = {}

Start ==
  /\ process = "down" /\ process' = "up"
  /\ timer' = TRUE
  /\ UNCHANGED <<rowVars, pc, batch, snap, acked, netVars, faults, retries>>

Stop ==
  /\ process = "up" /\ process' = "stopping"
  /\ Faulty
  /\ timer' = FALSE
  /\ UNCHANGED <<rowVars, pc, batch, snap, acked, netVars, retries>>

Exit ==
  /\ \/ process = "stopping" /\ UNCHANGED faults
     \/ process = "up" /\ Faulty
  /\ process' = "down" /\ timer' = FALSE
  /\ Forget
  /\ UNCHANGED <<rowVars, netVars, retries>>

(***************************************************************************)
(* One cycle of the worker.                                                *)
(***************************************************************************)
CycleFrame == UNCHANGED <<process, retries>>

\* The finally clauses: isSyncing is cleared and, unless stop() was called, the
\* next timeout is set.
EndCycle == Forget /\ timer' = (process = "up")

TimerFires ==
  /\ timer /\ pc = "idle"
  /\ timer' = FALSE /\ pc' = "read"
  /\ CycleFrame /\ UNCHANGED <<rowVars, batch, snap, acked, netVars, faults>>

\* Mutation of Eligible: the query does not ask for status PENDING.
EligibleAnyStatus == {i \in due : attempts[i] < MaxAttempts}

Eligible == {i \in due : status[i] = "PENDING" /\ attempts[i] < MaxAttempts}

\* The oldest BatchSize of the eligible rows; with none the cycle is over.
Fetch ==
  /\ pc = "read"
  /\ IF Eligible = {}
       THEN EndCycle
       ELSE /\ batch' = {i \in Eligible :
                          Cardinality({j \in Eligible : j <= i}) <= BatchSize}
            /\ snap' = [i \in Ids |-> IF i \in batch' THEN attempts[i] ELSE 0]
            /\ pc' = "post" /\ UNCHANGED <<timer, acked>>
  /\ CycleFrame /\ UNCHANGED <<rowVars, netVars, faults>>

Current(i) == pc = "post" /\ i \in batch /\ \A j \in batch : i <= j

Received(i) == copies' = [copies EXCEPT ![i] = @ + 1]

\* A 2xx answer with received = true.
PostAcked(i) ==
  /\ Current(i)
  /\ Received(i)
  /\ acked' = acked \cup {i} /\ batch' = batch \ {i}
  /\ CycleFrame /\ UNCHANGED <<rowVars, timer, pc, snap, late, faults>>

\* Mutation of PostRefused: response.ok is not looked at.
RefusalTakenForAck(i) ==
  /\ Current(i)
  /\ acked' = acked \cup {i} /\ batch' = batch \ {i}
  /\ CycleFrame /\ UNCHANGED <<rowVars, timer, pc, snap, netVars, faults>>

\* Refused, unauthorized, or no connection: the gateway has not taken it.
PostRefused(i) ==
  /\ Current(i)
  /\ pc' = "record"
  /\ CycleFrame /\ UNCHANGED <<rowVars, timer, batch, snap, acked, netVars, faults>>

\* Aborted after timeoutMs, or the answer was lost.
PostTimesOut(i) ==
  /\ Current(i) /\ Faulty
  /\ pc' = "record"
  /\ late' = late \cup {i}
  /\ CycleFrame /\ UNCHANGED <<rowVars, timer, batch, snap, acked, copies>>

LateArrival(i) ==
  /\ i \in late
  /\ late' = late \ {i} /\ Received(i)
  /\ UNCHANGED <<rowVars, process, cycleVars, faults, retries>>

\* Mutation of RecordFailure: > for >=.
RecordOneTooMany(i) ==
  /\ pc = "record" /\ i \in batch /\ \A j \in batch : i <= j
  /\ attempts' = [attempts EXCEPT ![i] = snap[i] + 1]
  /\ status' = [status EXCEPT ![i] =
                  IF snap[i] + 1 > MaxAttempts THEN "FAILED" ELSE "PENDING"]
  /\ due' = due \ {i}
  /\ batch' = batch \ {i} /\ pc' = "post"
  /\ CycleFrame /\ UNCHANGED <<timer, snap, acked, netVars, faults>>

\* The failed record is the oldest of the batch still.
RecordFailure(i) ==
  /\ pc = "record" /\ i \in batch /\ \A j \in batch : i <= j
  /\ attempts' = [attempts EXCEPT ![i] = snap[i] + 1]
  /\ status' = [status EXCEPT ![i] =
                  IF snap[i] + 1 >= MaxAttempts THEN "FAILED" ELSE "PENDING"]
  /\ due' = due \ {i}
  /\ batch' = batch \ {i} /\ pc' = "post"
  /\ CycleFrame /\ UNCHANGED <<timer, snap, acked, netVars, faults>>

BatchDone ==
  /\ pc = "post" /\ batch = {}
  /\ IF acked = {} THEN EndCycle
                   ELSE pc' = "mark" /\ UNCHANGED <<timer, batch, snap, acked>>
  /\ CycleFrame /\ UNCHANGED <<rowVars, netVars, faults>>

MarkSent ==
  /\ pc = "mark"
  /\ status' = [i \in Ids |-> IF i \in acked THEN "SENT" ELSE status[i]]
  /\ EndCycle
  /\ CycleFrame /\ UNCHANGED <<attempts, due, netVars, faults>>

\* Mutation of DatabaseFails: an exception skips the next timeout.
DatabaseFailsForGood ==
  /\ pc \in {"read", "record", "mark"} /\ Faulty
  /\ Forget /\ UNCHANGED timer
  /\ CycleFrame /\ UNCHANGED <<rowVars, netVars>>

\* A query or an update throws: the cycle is abandoned where it stands.
DatabaseFails ==
  /\ pc \in {"read", "record", "mark"} /\ Faulty
  /\ EndCycle
  /\ CycleFrame /\ UNCHANGED <<rowVars, netVars>>

-----------------------------------------------------------------------------
Worker ==
  \/ TimerFires \/ Fetch \/ BatchDone \/ MarkSent
  \/ \E i \in Ids : PostAcked(i)
  \/ \E i \in Ids : PostRefused(i)
  \/ \E i \in Ids : RecordFailure(i)

Next ==
  \/ \E i \in Ids : Enqueue(i)
  \/ \E i \in Ids : BackoffPasses(i)
  \/ \E S \in SUBSET Ids : RetryFailed(S)
  \/ Start \/ Stop \/ Exit
  \/ Worker
  \/ \E i \in Ids : PostTimesOut(i)
  \/ \E i \in Ids : LateArrival(i)
  \/ DatabaseFails

Spec == Init /\ [][Next]_vars

\* The event loop runs the worker's callbacks and every POST ends, at the latest
\* by its timeout; time passes; a process told to stop exits, and systemd
\* (Restart=always) starts one that has exited.  Nothing makes the gateway
\* accept, a late request arrive, or an operator retry.
Fairness ==
  /\ WF_vars(Worker)
  /\ \A i \in Ids : WF_vars(BackoffPasses(i))
  /\ WF_vars(Start) /\ WF_vars(process = "stopping" /\ Exit)

FairSpec == Spec /\ Fairness

-----------------------------------------------------------------------------
(***************************************************************************)
(* Properties.                                                             *)
(***************************************************************************)
TypeOK ==
  /\ status \in [Ids -> {"absent", "PENDING", "SENT", "FAILED"}]
  /\ attempts \in [Ids -> 0..MaxAttempts]
  /\ due \subseteq Ids
  /\ process \in {"up", "stopping", "down"} /\ timer \in BOOLEAN
  /\ pc \in {"idle", "read", "post", "record", "mark"}
  /\ batch \subseteq Ids /\ acked \subseteq Ids /\ late \subseteq Ids
  /\ snap \in [Ids -> 0..(MaxAttempts - 1)]
  /\ copies \in [Ids -> Nat]
  /\ faults \in Nat /\ retries \in Nat

\* No event is written off as sent that the gateway never took: SENT is decided
\* by a later update of all acknowledged ids, after failures, aborts and retries
\* of other rows in the same batch.
SentWasReceived == \A i \in Ids : status[i] = "SENT" => copies[i] > 0

\* No row falls between the worker's query (PENDING, attempts < max) and the
\* console's (FAILED): every row not sent is in reach of exactly one of them.
NoLimbo ==
  \A i \in Ids : /\ status[i] = "PENDING" => attempts[i] < MaxAttempts
                 /\ status[i] = "FAILED"  => attempts[i] = MaxAttempts

\* The gateway sees a second copy of an event only because something broke: each
\* extra copy is paid for by a timeout, a database error or a process death.
CopiesPaidFor == \A i \in Ids : copies[i] <= 1 + faults

\* The outbox is an at-least-once delivery; SENT is final.
WithStatus(s) == {i \in Ids : status[i] = s}

Channel == INSTANCE Delivery WITH
  queued <- WithStatus("PENDING"),
  confirmed <- WithStatus("SENT"),
  abandoned <- WithStatus("FAILED")

DeliverySpec == Channel!Spec

\* No event waits for ever: a queued row is sent or given up, whatever fails and
\* however often the process dies, and no cycle is left hanging.
EventuallySettled ==
  \A i \in Ids : status[i] = "PENDING" ~> status[i] \in {"SENT", "FAILED"}

\* docs/architecture/07-failure-recovery.md:105: buffered records are
\* transmitted in strict chronological order of their creation.
ChronologicalDrainage ==
  [][\A i, j \in Ids : copies'[j] > copies[j] /\ i < j => copies[i] > 0]_vars
=============================================================================
