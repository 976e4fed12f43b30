# Verification of the trading operations monitor

TLA+ specifications of the core of this repository, TLC runs that check them on
small instances, and TLAPS proofs of what matters most for every instance. Every
definition is translated from the TypeScript; `PROJECT.json` ("map") names the
lines each one stands for.

## 1. The system

An **agent** runs beside a Freqtrade bot: one Node process, several timer-driven
loops that interleave at their `await`s, one PostgreSQL database, restarted by
systemd whenever it exits. A **gateway** (developer console) runs in the cloud:
agents register with it, send heartbeats, incidents and alerts, and fetch
configuration. The two share no state; requests are lost, time out, and arrive
late.

| Component | State | Operations | Hard behaviour |
|---|---|---|---|
| Orchestrator, `main.ts`, systemd | one running flag per loop | start, stop, five loops | loops interleave, none overlaps itself; exit in the middle of anything |
| Incident manager | active incidents in memory; tables of incidents, groups, transitions | report, resolve (by source, key, prefix, symbol), TTL sweep, lab reset, rehydrate | memory first, transaction later; READ COMMITTED; failures swallowed; event queued after the commit |
| Outbox publisher and sync worker | `incident_outbox`; the cycle's batch and acknowledged ids | enqueue, cycle, retry failed | lost answers, back-off, exit in a cycle, console edits rows under a running cycle |
| Agent identity service and store | identity, machine id, loop flag and timer; identity file | initialize, register with retry, save, clear | late answers, torn file, a reset racing what is under way |
| Heartbeat scheduler | running flag, interval, executing flag | start, stop, cycle | stops itself inside its own cycle |
| Gateway registration | agents, registration tokens | registerAgent, heartbeat, purge | look-up, count, create in separate queries |
| Gateway status scan and purge | ONLINE / OFFLINE per agent | scan, purge | both act by ids read before; foreign key against the purge |
| Alerting | cooldown map | sendAlert | check, await, set; a dispatch that throws at the caller |
| Configuration sync | revision on both sides | getConfig, updateConfig | the revision restarts with the gateway |
| Telemetry ingestion (polling, WebSocket) | order status cache, audit table, socket | poll, message, reconnect | two sources of one event, check-then-insert, events of a replaced socket |
| Operations watchdog | consecutive-failure counters, risk counters, metric snapshots | checks, order timeline validation, protective halt | counters against reports; a halt that depends on a report |
| Infrastructure watchdog | consecutive-failure counters, last uptime and restart count | one check per probe | the verdict survives a failed insert or alert |
| Runtime monitor, lifecycle anomaly detector | none that persists | scans | share alert keys and incidents with the others |
| Evidence and root cause analysis | none | timeline, candidates, scores | pure functions of incidents recorded in any order |
| Console, simulations, health tree, reporting | test state, views | | read-only or for tests |

They interact through calls (detectors to the incident manager, orchestrator to
everything), shared tables (publisher, worker, console; detectors and heartbeat
metrics), callbacks (registration to the schedulers), an in-process event bus
(LAB_RESET) and HTTP (agent to gateway).

What makes each one correct:

* **Incident manager**: one unresolved incident per source and symbol; memory and
  tables agree when nothing is under way; groups follow their children; every call
  returns; what is past the TTL goes; events match what is committed.
* **Outbox**: nothing is written off as sent that was not received; nothing is
  out of reach of both worker and console; copies only come from faults;
  everything queued is settled.
* **Identity**: one registration at a time; an identity in use survives a
  restart; a retry never registers twice; the loop is never lost.
* **Registry**: the status of an agent converges to the truth. **Alerting**: the
  copies of an alert within a cooldown are bounded, and no verdict is lost because
  its alert failed. **Configuration**: a revision stands for one configuration.
* **Ingestion**: an event is polled into the table once; an outcome gets recorded;
  the feed comes back; a legal life recorded in an orderly way is no violation.
* **Operations and infrastructure**: an alarm, a trend or a halt only after so many
  bad readings in a row; a lasting violation does halt, a lasting outage is
  announced, and what has recovered is cleared.
* **Analysis**: what failed first, and what others depend on, is blamed.

`PROJECT.json` lists every component with its status and every hazard with the
line where it bites and the properties that would catch it.

## 2. Modules

| Module | Models | Composed with |
|---|---|---|
| `IncidentManager` | `IncidentManager.ts`, the loops that call it | refines `IncidentLedger` |
| `IncidentLedger` | what the incident table promises: episodes, one open at a time per key | |
| `IncidentGroups` | the incident groups under transactions that overlap: `IncidentManager` with a history variable | extends `IncidentManager` |
| `MCIncidentManager`, `MCIncidentGroups` | instances of the above | |
| `Outbox` | `OutboxPublisher.ts`, `OutboxSyncWorker.ts`, `retryFailedOutbox` | refines `Delivery` |
| `Delivery` | at-least-once delivery | |
| `AgentIdentity` | `AgentIdentityService.ts`, `IdentityStore.ts`, `AgentHeartbeatScheduler.ts`, `registerAgent` | |
| `Alerting` | `AlertingService.ts`, `CloudTransport.ts` | used by `WatchdogLoops` |
| `WatchdogLoops` | the loops of `WatchdogOrchestrator.ts`, their calls of alerting and incident manager | |
| `InfrastructureWatchdog`, `OperationsWatchdog` | the two services, check by check, on `WatchdogLoops` | |
| `Watchdog` | both, the runtime monitor, the anomaly detector, injected failures, `LAB_RESET` | composes the above |
| `OrderTimeline` | attribution and validation of order events in `checkOrderPipeline` (pure) | |
| `SocketFeed` | the connection of `FreqtradeWebSocketAdapter.ts` | |
| `Ingestion` | `FreqtradeAdapter.ts`, `TelemetryMapper.ts`, `EventPersistenceService.ts` | on `SocketFeed`, `OrderTimeline` |
| `PipelineMetrics` | `checkOrderPipeline` over the table: verdicts, coverage, trend | on `Ingestion` |
| `AgentRegistry` | heartbeat and purge routes, `AgentStatusService.ts` | |
| `ConfigSync` | `ConfigurationService.ts`, `AgentConfigurationScheduler.ts`, `AgentConfigurationManager.ts` | |
| `RootCause` | `CandidateRules.ts`, `CandidateGenerator.ts`, `ScoringRules.ts`, `RootCauseScoringEngine.ts` (pure) | |
| `Evidence` | the incidents and audits of a group, `EvidenceCollector.ts`, `TimelineReconstructor.ts` | on `RootCause` |
| `Cloud` | the gateway's side: registry, configuration, evidence | composes the above |
| `MCWatchdog`, `MCIngestion`, `MCCloud` | instances | |
| `IncidentManagerProofs`, `IncidentLedgerProofs`, `OutboxProofs`, `AgentIdentityProofs`, `AlertingProofs`, `WatchdogProofs`, `IngestionProofs`, `CloudProofs` | proofs | |

A definition preceded by "Mutation of ..." is not part of the model: it is a
plausible bug in the definition it names, which the properties must catch.

### IncidentManager

`mem[k]` is the entry of `state.symbols` or `globalIncidents`, `inc` and `grp` the
two tables; `pc`, `req`, `found`, `gsel`, `plan` are the local variables of the
call each caller is in. The callers are the reporting loops (infrastructure,
operations, anomaly), the TTL sweep, the lab reset and a manual recovery
(`resolveIncident`, which only tests call today). A key stands for a symbol
and a source, and each is reported by exactly one loop, as in the code.

A call is one synchronous action (guard, memory, start of the transaction) and
then `Find`, `Stage` and a commit. The cut is at what others can observe under
READ COMMITTED: reads see only committed rows, a row that is updated is locked
until the commit, and the recomputation of a group reads the children after the
call's own writes. Whether an open group is still within the grouping window is a
free choice. `TxFail` is the swallowed exception; `Enqueue` and `EnqueueFail` the
publisher's insert that nobody awaits; `Crash` and `InitFromDb` / `InitFails` the
restart. The sweep is modelled step by step, with the exception a vanished key
raises in it.

`IncidentGroups` adds the history variable `overtaken`: the groups to which one
transaction committed while another relied on what it had read of them, the group
it picked for a row or an update it had planned. There the later write may not fit
the children, as `incident_group_open` shows; every other group must fit them,
however many transactions run at once. The variable restricts no step.

### Outbox

One action per await of `syncCycle`: the query (`Fetch`), each POST (`PostAcked`,
`PostRefused`, `PostTimesOut`), the update of a failed record (`RecordFailure`,
from the attempts as they were read), the update of the acknowledged ids
(`MarkSent`). `DatabaseFails` is an exception of any of the database calls;
`Stop` clears the timeout and leaves the cycle running until `Exit`. A timed-out
POST may reach the gateway later (`LateArrival`).

### AgentIdentity

`reg` is what the service awaits (file, gateway, save, clear), `registering` and
`timer` the loop's flag and timeout, `beat` the heartbeat cycle. At the gateway a
registration is a request that moves through look-up, count and create; one the
agent stopped waiting for goes on. `file` may be torn by a crash or a failed
write, and one that cannot be read is taken for corrupt (`LoadFails`). `resets` counts heartbeats answered 401 or 403, which the gateway also does
when its own look-up of the agent throws.

### Alerting, WatchdogLoops, Watchdog

`recent` is `recentAlerts`; `step[c]` says at which await of `sendAlert` a loop is.
A check of a loop is one step that reads the world and reaches a verdict; the
alerts, reports and resolutions the verdict leads to are the list `todo[l]`, and
each of them is a step of its own, because each is awaited. `rescue[l]` is what the
catch around the check does when an alert throws: in the infrastructure loop the
report that follows the check anyway, in the runtime loop nothing and the end of
the cycle. `incident[s]` is what the incident manager holds in memory; its tables
are the subject of `IncidentManager`. `owed`, `badReadings`, `sustained` and `low`
are history: what the last verdict calls for and how many readings in a row were
bad. An injected failure replaces a check by its simulation (`intercept`), whose
exceptions nothing catches before the loop.

`OperationsWatchdog` keeps the three liveness counters with the startup grace
period, the counters per violation type, the confidence counter, and the
escalation `report, then halt`, of which the halt is dropped when the report
throws. `InfrastructureWatchdog` keeps the HTTP counters, the uptime and the
restart count; a check whose audit insert fails reports CRITICAL (`AuditLost`).

### SocketFeed, Ingestion, OrderTimeline, PipelineMetrics

The trade has three orders that follow one another. `wire` holds messages,
`handling` the messages whose handler is at its queries, `answer`, `at` and
`inserting` the poll under way: it is at the first order whose polled status is
not the one in `cache`. A message names the trade and the side; its record has no
order until a poll that looks for the outcome of one binds it. `table` is
`decision_audit`. `tainted` is history: it says why a record may be wrong (a
message crossed a poll, a look-up failed, a binding missed, an exit was placed
anew before the end of the last one was stored, a partly filled order was cancelled
under the spelling the code does not know and got a second event id), so that the properties can say
exactly under which circumstances the record is right. `OrderTimeline` takes the
table as the pipeline check does: orders to trades, events without an order to
the closest order that fits (the query has no `orderBy`, so which audit decides the
trade of an order that several name is left open), and a walk over each order's stages (`Meet`, event
by event in the order of `createdAt`, as a function over the sets of events).

### AgentRegistry, ConfigSync, RootCause, Evidence, Cloud

A heartbeat is cut at its queries (authentication, look-up, update, insert), the
scan at its two, the purge at its three. An agent that was rejected registers
under another id and, as `agent_heartbeats` shows, does not beat again (`mute`).
A registration is one step here, its last query: the look-up before it changes
nothing, and a query that fails because the row is gone leaves the agent as it was
(`AgentIdentity` cuts registrations at their queries).
The time of a last heartbeat is the fact that it is too old, which becomes true
at any moment. In `ConfigSync` `current` is history: the agents that got their
configuration from the process of the gateway that is running; a request under
way while the agent registers again bears the old id and is refused. `Evidence` lets
the sources of an outage fail in any order and at several distances in time,
each recorded as incidents and audits, groups them as the incident manager does
(an incident joins an unresolved group of its kind in the window, a group is
resolved with the last of its incidents, and a source whose incident was resolved
may report another), and `RootCause` ranks the candidates.

## 3. What the runs check

| Run | Result | Shows |
|---|---|---|
| `incident_concurrent` | pass | three keys of two loops (one exempt from the TTL, two of one symbol), lab reset, two transactions at a time, two calls besides the sweep, a failure and a crash: `OneActiveRow`, `ExemptAgrees`, `NoPhantomEvents`, refinement of the ledger |
| `incident_groups` | pass | two transactions at a time, lab reset, manual recovery, a failure and a crash: `GroupTracksChildren`, `CallsReturn`, `ExpiredAreResolved` |
| `outbox_delivery` | pass | three rows, batches of two, two attempts, two faults, one operator retry: `SentWasReceived`, `NoLimbo`, `CopiesPaidFor`, refinement of `Delivery`, `EventuallySettled` |
| `agent_identity` | pass | a token for two agents, three faults of any kind: `RowsPaidFor`, `InUseIsOnDisk`, `NeverStranded`, `OneAttempt`, `EventuallyRegistered` |
| `watchdog_loops` | pass | twelve plans (a loop's checks alone or with those of another loop that shares a key), one database failure, injection or change of the flag: `AlertsBounded`, `NoVerdictDropped`, `HaltIsEarned`, `AlarmIsEarned`, `HaltHappens`, `OutageAnnounced`, `RecoveryClears` |
| `order_ingestion` | pass | up to three orders, drops, restarts, failed queries, the flag, signals and snapshots in seven budgets: `NoPolledDuplicate`, `OwnOrder`, `NoFalseAlarm`, `TrendIsSustained`, `CacheHidesNothing`, `FeedNeverLost`, `OutcomeRecorded`, `FeedSettles`, `FalseAlarmsClear` |
| `cloud_gateway` | pass | two agents, two faults, three overrides (one malformed), six sets of up to six sources and two in which an incident comes back after it was resolved: `RevisionMeansConfiguration`, `NetworkBeforeExchange`, `CascadeBlamed`, `StatusConverges` |
| `incident_atomic_outbox` | violated | a crash between commit and insert loses the event |
| `incident_group_open` | violated | a group closes under a new child |
| `outbox_order` | violated | a refused record is overtaken |
| `agent_heartbeats` | violated | heartbeats do not restart after a rejection |
| `agent_limit` | violated | the count and the create are not atomic |

The violated properties state what the repository's documents, comments or tests
say; `PROJECT.json` ("findings") quotes them.

**Bounds.** The interesting cases need two parties: two keys (one incident that
the TTL resolves and one it may not touch, or a symbol's and a global one), two
open transactions, a batch of two with a third row waiting, two agents per token.
Two calls and the sweep are enough for a report and a change or a recovery of one
key, for a second episode after the sweep has ended the first, and for calls of
two loops to overlap with it; longer histories of an incident are left to the
theorems, which bound nothing. The two violated runs of the incidents make three
calls. One crash or failure at any point shows what recovery does with what was
under way. In `agent_identity` three
faults allow a lost answer, a crash in the middle of the save and a rejection in
one behaviour. Every bound is a constant whose name begins with `Max`, or a set,
and only guards the environment: calls, faults, rows inserted, operator requests,
and the names for sockets, one of which must be free for a new connection.

The three larger systems are explored by *plans*: a behaviour fixes at its start
which checks run (`watchdog_loops`), what the environment may spend
(`order_ingestion`: `Budgets`) or which part of the gateway moves
(`cloud_gateway`). Every check, fault and message is in a plan, and those that
share state are in one together; checks that share nothing are not multiplied
with each other. In `watchdog_loops` the liveness and HTTP checks alarm after two
failures where the code has three, confidence is critical after two breaches
where it has five: the counters only compare with these limits. In `order_ingestion` one entry
and two exits are the least that shows a cancelled exit placed anew; snapshots of
a trend are three where the code asks for five. In `cloud_gateway` the moments of a
group are 1, 61 or 121 seconds apart, on both sides of the windows of 60 and 120
seconds in the rules; a source has up to two audits, and two incidents where one of them was resolved.
In `incident_groups` two transactions overlap; that both have staged updates of
different groups takes more calls than the run makes and is left to the proof.

**Deadlock** is not an error of these runs: the bounds end a behaviour, a
stopped agent with a revoked token has nothing to do, and an idle agent need not
be called. What must not stop is stated as liveness.

**Fairness.** `IncidentManager`: the steps of a call that is under way and of the
sweep, because Node runs the callbacks that are due and the database answers;
nothing obliges a detector to report. `Outbox`: the worker's steps (a POST ends
at the latest by its timeout), the passing of time, exit after a stop and restart
after an exit (`Restart=always` in `watchdog.service`); the gateway need not
accept, nor an operator retry. `AgentIdentity`: the service's callbacks, the
gateway's handling of the request the agent waits for, the heartbeat cycle, exit
and restart. `Watchdog`: the infrastructure and the operations loop go on
(`setInterval`, every call settles or fails by its timeout) and the cooldown of an
HTTP alert runs out; nothing obliges a probe to fail or recover. `PipelineMetrics`:
the poll and its queries, the arrival and handling of messages, start after an
exit, the end of a connection attempt, the close event of a closed socket, the
five-second timer, the operations loop. `Cloud`: each agent's interval together
with the gateway's handling of its beat, the scan, and the ageing of agents that
do not beat. All of it is weak fairness.

## 4. What is proved

For every value of the constants, from the named `ASSUME`s of the modules, which
say what the constants are (bounds are natural numbers; a batch, the attempts of
a row and the agents of a token are at least one; what stands for no socket, no
order, no override is not one) and what the code fixes: each key has one
reporting loop, exempt keys are global, the loops are the callers of the alerting
service, the key of a trend is no trade's, the orders of a trade are distinct
and its exits trade on the other side than its entry. One theorem needs a hypothesis more,
which its statement carries: `ProtectedAgree`, `Operators = {}`.

* `IncidentManagerProofs`: `TypeCorrect`, `NoDuplicateIncident`. `OneActiveRow`
  is not inductive: a call that found no row may insert one. The invariant adds
  `CallInv`, what each phase of a call implies about its local variables, and
  `NoRival`: while a call that found no row of its key is under way, no row of
  that key is unresolved. That holds because each key is reported by one loop,
  and a loop is in one call at a time; it is where the correctness of the table
  depends on the orchestrator's running flags and not on the schema.
* `IncidentManagerProofs`: `GroupsFollowChildren`, for a pool of any size. The
  invariant says of every group that nobody has overtaken that it fits its
  children, and that each transaction relying on it is `Informed`: the group it
  picked is open, and the update it has planned is what the children will say
  after its own write. A commit keeps this, as it either informs nobody else of
  the group it writes, or overtakes those who rely on it and excuses the group
  from then on. Without the excuse the claim is false, which is what the run
  `incident_group_open` shows.
* `IncidentLedgerProofs`: `ImplementsLedger`, `EventsFollowTables`. The ledger's
  level of a key is that of its one unresolved row, so the mapping rests on
  `OneActiveRow`: an insert opens an episode because of `NoRival`, an update of a
  level touches one row (`PersistInv`) and is a stutter when another call has
  resolved that row meanwhile, and a resolving commit closes the keys of the rows
  found that are still open. Events follow the tables because they are published
  by commits alone, and no commit makes a resolved row active again.
* `OutboxProofs`: `TypeCorrect`, `NothingSentUnreceived`, `NothingInLimbo`,
  `DuplicatesPaidFor`, `ImplementsDelivery`. The invariant adds `CycleInv` (what
  the cycle holds: acknowledged ids were received, the batch was read as pending)
  and `Budget` (a copy that is not yet written down is paid for by the fault that
  will have to happen for it to be sent again). The refinement maps each step to
  one of `Delivery` or to a stutter under that invariant.
* `AgentIdentityProofs`: `TypeCorrect`, `OneRegistration`,
  `IdentitySurvivesRestart`, `LoopNeverLost`, `RowsAccountedFor`. The invariant
  adds `Phases` and `Pending` (what may be under way together: a pending timer,
  an awaited request, a heartbeat), `Table` (one row per machine id, no request
  for an id not yet generated) and `Paid` (each machine id was generated by a
  start or a reset).
* `AlertingProofs`: `AlertingTyped`, `AlertsAreBounded`. The bound is not
  inductive: a call that was let through may still find its key in no cooldown
  when it returns. While a key is not in its cooldown, the copies are covered by
  the calls inserting it and the inserts that failed (`Covered`).
* `WatchdogProofs`: `WatchdogTyped`, `AlertsStayBounded`, `NoVerdictIsDropped`,
  `HaltsAreEarned`, `AlarmsAreEarned`. The invariant (`WInv`) says what the list
  of calls a check has still to make looks like: it is the end of a list the
  check can have drawn up, its alarms were earned by the counters as they stand,
  and what a check owes is on it. The alerting bound is carried over from
  `AlertingProofs` step by step, because the loops add a flag and a lab reset.
  `AlarmsAreEarned` is an action property.
* `IngestionProofs`: `StoryHolds`, `RecordsFindTheirOrder`, `NoOrderlyAlarm`. The
  code has no order id for what the WebSocket tells, and guesses it from side,
  direction and time. `NoFalseAlarm` says when the guess and the walk over the
  stages are right, and nothing in it is inductive. The invariant is the story the
  records tell (`Story`) while nothing is tainted (`Clean`): what is recorded is
  true of the exchange (`Told`), the records of an order are in the order of its
  life (`InOrder`), what the socket has still to deliver is newer than all of them
  (`Pending`), a poll is about no order of which a message is under way (`Quiet`),
  its answer lies between the cache and the exchange (`Behind`) and is news
  (`News`), and an exit was placed when the end of the one before was recorded
  (`Over`), so that the records of exits do not overlap (`Sorted`). `Story` holds
  of every clean state because a step never cleans a tainted one (`CleanBefore`).
  From it follows that the closest record of the right side and direction is of
  the record's own order (`Attributed`): of another order with that side all
  records lie before or after, and the one that names the order is closer. Then
  the walk over an order's events finds a legal life (`LegalLife`). As there is no
  induction to cite, that is proved by a least counterexample: were the claim
  wrong for the events up to some time, it would be for a least number of them,
  and one `Meet` leads there from one fewer. That the recursive function `Lives`
  exists at all is shown in the same way (`LivesDefined`).
* `IngestionProofs`: `CacheIsHonest`, `FeedIsNeverLost`, `OrderlyChecksClear`, the
  safety on which three of the liveness properties rest. What the cache passes
  over is on record (`OutcomeRecorded`); a socket whose close event is to come, or
  the timer, is always there (`FeedSettles`; the invariant adds that
  `shouldReconnect` is set while the process runs with the flag on); and one check
  of orderly records resolves every incident (`FalseAlarmsClear`; the invariant
  adds that there is no incident before there is a record of an order, `Grounds`).
* `IngestionProofs`: `IngestionTyped`, `PolledOnce`, `TrendsAreSustained`. That an
  event is polled once does not rest on the status cache, which a restart
  empties: every polled record names its order (`Named`), so that the look-up by
  event id finds it. An alert of the trend rests on the snapshots being the
  coverages of the last checks in order (`Tracked`) and on the baseline, a
  percentile, being one of those before them (`BaselineIsPast`).
* `CloudProofs`: `ConfigTyped`, `RevisionsMeanConfigurations`. The invariant
  asks of an answer on its way what the property asks of an agent, and that no
  number is ahead of the gateway's (`AgentsStand`, `AnswersStand`).
  `ImplementsConfigSync` shows that `Cloud`, in which the registry and the
  evidence move beside it, implements `ConfigSync` (`ConfigSpec`), from which
  `GatewayRevisionsMean` follows. `CloudTyped` needs that no two groups share an
  incident, so that every incident has one group, although sources report again
  and groups of a kind follow one another within the window.
* `CloudProofs`: `NetworkRanksAbove`, `CascadeRanksAbove`. These hold of any set
  of events with times, not only of those the moments and gaps of the run make.
  The earliest event is found by well-founded choice, not by induction, and the
  number of signals is bounded by the number of sources. For the first, what
  speaks for the network speaks against the exchange, whose event is not the first
  (`NetworkScore`, `ExchangeScore`). For the second, the container scores at least
  7170 (in hundredths) and every other candidate less; the case that decides is a
  cascade the rules take for out of order, when the first event of the API's
  sources is not the leading one, and a fourth signal makes up for it
  (`CascadeOrder`, `DockerSignals`). A network seen in all four ways can reach
  7305, hence the exception in the property.

**Only model-checked**: liveness (`CallsReturn`, `ExpiredAreResolved`,
`EventuallySettled`, `EventuallyRegistered`, `HaltHappens`, `OutageAnnounced`,
`RecoveryClears`, `OutcomeRecorded`, `FeedSettles`, `FalseAlarmsClear`,
`StatusConverges`), because the prover has neither fairness nor ENABLED. Every
invariant and every action property of a passing run is proved. Proved without a
run of their own are the type invariants of `Outbox`, `Watchdog` and
`PipelineMetrics`, and `OrderlyCheckClears`, a step of `FalseAlarmsClear`. `AlarmsAreEarned` speaks of the checks with counters; checks without one
alarm on a single reading.

## 5. What the models show beside the properties

Stating a property so that it holds meant finding where the plainer statement
does not. What a maintainer should know:

* **Alerting.** Alerts of all global incidents of a level share one key, as
  `reportIncident` sets no `dedupKey`: within a cooldown the incident of a second
  component is not announced (`docs/architecture/11-alerting-architecture.md:132`
  promises that one source's cooldown does not block another's). Two loops can send the same alert twice.
* **Infrastructure.** A healthy API whose audit insert failed is reported
  CRITICAL. An empty list of network targets counts as all of them lost. A VM
  warning resolves the VM incident.
* **Operations.** The protective halt comes after the incident's alert and is
  skipped for the cycle when the alert throws; it comes in a later one.
* **Ingestion.** A message that crosses a poll of the same order is stored twice
  under different event ids and raises `DUPLICATE_FILL` or `BACKWARD_TRANSITION`
  for good. The binding of a message ignores the side. `canceled` is polled as an
  open order. Once an insert failed the cache hides the event until a restart.
  Two `connect()` calls, or `disconnect()` and `connect()`, leave a close handler
  that opens a new connection every five seconds, until a close finds
  `shouldReconnect` unset; only the flag leads there.
* **Registry.** A purge can delete an agent that has come back ONLINE, and a
  heartbeat logged in between makes it fail as a whole.
* **Configuration.** After a restart of the gateway with another override the
  revision is 1 again, and an agent that has a revision 1 is told it is up to
  date. `updateConfig` takes any revision, although
  `docs/architecture/05-configuration-protocol.md` has older payloads ignored.
  A malformed override makes heartbeats fail and is served as no override.
* **Analysis.** Audits before the group was opened are cut off, so that a group
  opened by a symptom scores the cause as out of order; `LifecycleDurationRule`
  and `LifecycleRule` match nothing. Only tests and scripts call the engine.

## 6. What is not modelled, and the plan

Next: several trades and strategies in `Ingestion`; the pollers of heartbeats, broker status and
market data, which write at most one row a minute.

Not planned: the probes themselves (I/O) and the numeric thresholds over their
measurements, reporting, the health tree, the console and its page, the Telegram
transport and `monitorSystemHealth` (nothing calls them), `getUpdate` (tests
only), the persistence of feature flags, the code under `later/` that nothing
imports.
