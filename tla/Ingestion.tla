------------------------------ MODULE Ingestion ------------------------------
(***************************************************************************)
(* How the life of a trade's orders reaches the audit table: the messages  *)
(* of the WebSocket and the polling of the REST API write into one table,  *)
(* each checking it before it inserts, and the pipeline check reads what   *)
(* came of it (OrderTimeline).                                             *)
(*                                                                         *)
(* The orders of the trade follow one another, each placed when the one    *)
(* before it has ended: the entry, then an exit that may be cancelled and  *)
(* placed anew.  A message names the trade and the side but no order.      *)
(*                                                                         *)
(* Abstractions.  now counts the observations, as each has a Date.now() of *)
(* its own: the arrival of a message, a poll that finds something new.  A  *)
(* poll that gets no answer changes nothing and is left out.  Messages on  *)
(* their way belong to the one socket there is while the flag is not used. *)
(***************************************************************************)
EXTENDS SocketFeed, OrderTimeline, SequencesExt

CONSTANTS
  Orders,        \* the trade's orders, first to last
  Side,          \* Side[o]: BUY or SELL
  MaxOnWire      \* bound: messages on their way at once

OrderSet == ToSet(Orders)

ASSUME IngestAssumption ==
  /\ Orders \in Seq(STRING) /\ Orders # <<>> /\ NoOrder \notin OrderSet
  /\ \A i, j \in DOMAIN Orders : Orders[i] = Orders[j] => i = j
  /\ Side \in [OrderSet -> STRING \ {"none"}] /\ MaxOnWire \in Nat
  /\ \A n \in DOMAIN Orders : n > 1 => Side[Orders[n]] # Side[Orders[1]]

VARIABLES
  status,     \* status[o] at the exchange
  wire,       \* messages the socket has still to deliver
  handling,   \* messages whose handler is at its queries
  table,      \* decision_audit; of tells the order the event is really about
  now,
  cache,      \* lastKnownOrderStatus
  answer,     \* the statuses the poll under way was told, <<>> when there is none
  at,         \* its observedAt, 0 until the answer is merged
  inserting,  \* the look-up about the order it is at found nothing
  process,    \* down, running, or stopping
  tainted     \* history: why an order's record may be wrong

pollVars == <<cache, answer, at, inserting>>
ingestVars == <<status, wire, handling, table, now, pollVars, process, tainted>>

Trade == "t1"
Cancelled == {"cancelled", "canceled"}     \* the code knows the first spelling only
Ended == {"closed"} \cup Cancelled

\* The process is about to start; the entry may have been filled before ...
Fresh ==
  /\ FeedInit
  /\ status = [o \in OrderSet |-> IF o = Orders[1] /\ budget.filled > 0 THEN "closed" ELSE "none"]
  /\ table = {} /\ now = 0
  /\ cache = [o \in OrderSet |-> "none"]
  /\ process = "down"

\* ... or it runs, and has recorded all that was said about the entry.
EntryRecorded ==
  LET entry == Orders[1]
      Event(type, t, o, v) == [type |-> type, trade |-> Trade, order |-> o,
                               side |-> Side[entry], at |-> t, via |-> v, of |-> entry]
      first == [o \in OrderSet |-> IF o = entry THEN "closed" ELSE "none"]
  IN
  /\ ws = (CHOOSE s \in Sockets : TRUE)
  /\ socket = [s \in Sockets |-> IF s = ws THEN "open" ELSE "free"]
  /\ isConnected = TRUE /\ timer = FALSE /\ shouldReconnect = TRUE /\ enabled = TRUE
  /\ status = first /\ cache = first
  /\ table = {Event("ORDER_CREATED", 1, NoOrder, "socket"), Event("ORDER_OPEN", 2, entry, "poll"),
              Event("ORDER_FILLED", 3, entry, "socket")}
  /\ now = 3
  /\ process = "running"

IngestInit ==
  /\ budget \in Budgets
  /\ IF budget.recorded > 0 THEN EntryRecorded ELSE Fresh
  /\ wire = <<>> /\ handling = {}
  /\ answer = <<>> /\ at = 0 /\ inserting = FALSE
  /\ tainted = {}

Failing == Spend("failures")

Taint(O, why) == tainted' = tainted \cup (O \X {why})

(***************************************************************************)
(* The exchange, and Freqtrade's messages about it.                        *)
(***************************************************************************)
Polling == answer # <<>>

\* The poll under way has o still before it.
BeingPolled(o) == Polling /\ answer[o] # cache[o]

\* The type of the event a polled status stands for; an order that is neither
\* open, closed nor spelled "cancelled" counts as filled only when all of it was.
EventType(s) ==
  CASE s = "closed" -> "ORDER_FILLED"
    [] s = "cancelled" -> "ORDER_CANCELLED"
    [] OTHER -> "ORDER_OPEN"

Recorded(o) == \E r \in table : r.order = o /\ r.type = EventType(status[o])

\* A message goes out if the socket is there to take it, else it is lost.
Announced(o, type) ==
  IF isConnected THEN Append(wire, [type |-> type, order |-> o]) ELSE wire

Crossed(o) == IF isConnected /\ BeingPolled(o) THEN {<<o, "raced">>} ELSE {}

\* The entry opens the trade; an exit follows it, or an exit that was cancelled.
Placeable(n) ==
  /\ status[Orders[n]] = "none"
  /\ n = 2 => status[Orders[1]] = "closed"
  /\ n > 2 => status[Orders[n - 1]] \in Cancelled

Place(n) ==
  /\ Placeable(n) /\ Len(wire) < MaxOnWire
  /\ Spend("placements")
  /\ status' = [status EXCEPT ![Orders[n]] = "open"]
  /\ wire' = Announced(Orders[n], "ORDER_CREATED")
  /\ tainted' = tainted \cup Crossed(Orders[n]) \cup
       IF n > 2 /\ ~Recorded(Orders[n - 1]) THEN {<<Orders[n], "crowded">>} ELSE {}
  /\ UNCHANGED <<handling, table, now, pollVars, process, feedVars>>

Finish(o, s) ==
  /\ status[o] = "open" /\ Len(wire) < MaxOnWire
  /\ IF s = "canceled" THEN Spend("misspelt") ELSE UNCHANGED budget
  /\ status' = [status EXCEPT ![o] = s]
  /\ wire' = Announced(o, IF s = "closed" THEN "ORDER_FILLED" ELSE "ORDER_CANCELLED")
  /\ tainted' = tainted \cup Crossed(o)
  /\ UNCHANGED <<handling, table, now, pollVars, process, feedVars>>

(***************************************************************************)
(* The message handler.                                                    *)
(***************************************************************************)
\* mapFreqtradeWebSocket: the trade and the side, and no order.
FromMessage(m, t) ==
  [type |-> m.type, trade |-> Trade, order |-> NoOrder, side |-> Side[m.order],
   at |-> t, via |-> "socket", of |-> m.order]

Arrive ==
  /\ wire # <<>> /\ handling = {}                \* bound: one handler at a time
  /\ wire' = Tail(wire)
  /\ now' = now + 1
  /\ handling' = handling \cup {FromMessage(Head(wire), now + 1)}
  /\ UNCHANGED <<status, table, pollVars, process, budget, tainted, feedVars>>

\* hasLifecycleEvent never finds the event: observedAt is part of its id.
Persist(r) ==
  /\ r \in handling
  /\ handling' = handling \ {r}
  /\ table' = table \cup {r}
  /\ UNCHANGED <<status, wire, now, pollVars, process, budget, tainted, feedVars>>

PersistFails(r) ==
  /\ r \in handling /\ Failing
  /\ handling' = handling \ {r}
  /\ UNCHANGED <<status, wire, table, now, pollVars, process, tainted, feedVars>>

(***************************************************************************)
(* The poll.                                                               *)
(***************************************************************************)
Fetch ==
  /\ process = "running" /\ ~Polling
  /\ cache # status
  /\ answer' = status
  /\ at' = 0 /\ inserting' = FALSE
  /\ Taint({o \in OrderSet : /\ status[o] # cache[o]
                             /\ \/ \E i \in DOMAIN wire : wire[i].order = o
                                \/ \E r \in handling : r.of = o}, "raced")
  /\ UNCHANGED <<status, wire, handling, table, now, cache, process, budget, feedVars>>

\* Both requests have answered; the orders whose status is not cached follow,
\* one after the other.
Observe ==
  /\ Polling /\ at = 0
  /\ now' = now + 1 /\ at' = now + 1
  /\ UNCHANGED <<status, wire, handling, table, cache, answer, inserting,
                 process, budget, tainted, feedVars>>

Earlier(p, o) == \E i, j \in DOMAIN Orders : i < j /\ Orders[i] = p /\ Orders[j] = o

AtOrder(o) ==
  /\ BeingPolled(o) /\ at > 0
  /\ \A p \in OrderSet : Earlier(p, o) => ~BeingPolled(p)

\* The poll ends with its last order.
GoOn(o) ==
  LET over == \A p \in OrderSet \ {o} : ~BeingPolled(p) IN
  /\ answer' = IF over THEN <<>> ELSE answer
  /\ at' = IF over THEN 0 ELSE at
  /\ inserting' = FALSE

\* Mutation of Go: what is cached is the status of now, not that of the answer.
GoAhead(o) == cache' = [cache EXCEPT ![o] = status[o]] /\ GoOn(o)

Go(o) == cache' = [cache EXCEPT ![o] = answer[o]] /\ GoOn(o)

\* Only outcomes are looked up under their trade.
LooksUp(o) == EventType(answer[o]) \in TerminalTypes

ExactMatch(o) == {r \in table : r.type = EventType(answer[o]) /\ r.order = o}
Unbound(o) == {r \in table : r.type = EventType(answer[o]) /\ r.order = NoOrder}

\* hasEquivalentLifecycleEvent finds the order's own record ...
FindExact(o) ==
  /\ AtOrder(o) /\ ~inserting /\ LooksUp(o)
  /\ ExactMatch(o) # {}
  /\ Go(o)
  /\ UNCHANGED <<status, wire, handling, table, now, process, budget, tainted, feedVars>>

\* ... or one of the trade that has no order yet, whatever its side, and binds it ...
Bind(o) ==
  /\ AtOrder(o) /\ ~inserting /\ LooksUp(o)
  /\ ExactMatch(o) = {}
  /\ \E r \in Unbound(o) :
       /\ table' = (table \ {r}) \cup {[r EXCEPT !.order = o]}
       /\ Taint(IF r.of = o THEN {} ELSE {r.of, o}, "misbound")
  /\ Go(o)
  /\ UNCHANGED <<status, wire, handling, now, process, budget, feedVars>>

\* ... or nothing, or it fails, which is taken for nothing.
FindNothing(o) ==
  /\ AtOrder(o) /\ ~inserting /\ LooksUp(o)
  /\ \/ ExactMatch(o) = {} /\ Unbound(o) = {} /\ UNCHANGED <<budget, tainted>>
     \/ Failing /\ Taint({o}, "failed")
  /\ inserting' = TRUE
  /\ UNCHANGED <<status, wire, handling, table, now, cache, answer, at, process, feedVars>>

\* mapFreqtradePolledOrder; eventId holds the order, the type and the exchange's time.
FromPoll(o) ==
  [type |-> EventType(answer[o]), trade |-> Trade, order |-> o, side |-> Side[o],
   at |-> at, via |-> "poll", of |-> o]

HasLifecycleEvent(o) ==
  \E r \in table : r.via = "poll" /\ r.order = o /\ r.type = EventType(answer[o])

\* An order cancelled under the spelling the code does not know passes for open
\* still; the time in its event id is that of its last fill if it had one, and
\* not that of the ORDER_OPEN on record.  The second id is inserted once.
OtherTime(o) == answer[o] = "canceled" /\ <<o, "partly">> \notin tainted

\* Mutation of Insert: the event id is not looked up.
InsertAlways(o) ==
  /\ AtOrder(o) /\ (inserting \/ ~LooksUp(o))
  /\ table' = table \cup {FromPoll(o)}
  /\ Go(o)
  /\ UNCHANGED <<status, wire, handling, now, process, budget, tainted, feedVars>>

\* hasLifecycleEvent, whose failure is taken for a no, and persistLifecycleEvent.
Insert(o) ==
  /\ AtOrder(o) /\ (inserting \/ ~LooksUp(o))
  /\ \/ /\ table' = IF HasLifecycleEvent(o) THEN table ELSE table \cup {FromPoll(o)}
        /\ UNCHANGED <<budget, tainted>>
     \/ /\ table' = table \cup {FromPoll(o)}
        /\ \/ Failing /\ Taint({o}, "failed")
           \/ OtherTime(o) /\ Taint({o}, "partly") /\ UNCHANGED budget
  /\ Go(o)
  /\ UNCHANGED <<status, wire, handling, now, process, feedVars>>

\* A failed insert is swallowed: the status is cached all the same.
InsertFails(o) ==
  /\ AtOrder(o) /\ (inserting \/ ~LooksUp(o))
  /\ Failing /\ Taint({o}, "lost")
  /\ Go(o)
  /\ UNCHANGED <<status, wire, handling, table, now, process, feedVars>>

PollOrders ==
  \/ Fetch \/ Observe
  \/ \E o \in OrderSet :
       FindExact(o) \/ Bind(o) \/ FindNothing(o) \/ Insert(o) \/ InsertFails(o)

(***************************************************************************)
(* The process, and the connection underneath.                             *)
(***************************************************************************)
\* start() of the orchestrator.
Start ==
  /\ process = "down" /\ process' = "running"
  /\ Connect
  /\ UNCHANGED <<status, wire, handling, table, now, pollVars, budget, tainted,
                 enabled>>

\* stop(): a poll or a handler under way goes on until the process exits.
Stop ==
  /\ process = "running" /\ process' = "stopping"
  /\ Spend("restarts")
  /\ Disconnect
  /\ UNCHANGED <<status, wire, handling, table, now, pollVars, tainted,
                 enabled>>

\* The process exits after stop(), or by a crash; only the table is kept.
Exit ==
  /\ \/ process = "stopping" /\ UNCHANGED budget
     \/ process = "running" /\ Spend("restarts")
  /\ process' = "down"
  /\ wire' = <<>> /\ handling' = {}
  /\ cache' = [o \in OrderSet |-> "none"]
  /\ answer' = <<>> /\ at' = 0 /\ inserting' = FALSE
  /\ ws' = NoSocket
  /\ socket' = [s \in Sockets |-> "free"]
  /\ isConnected' = FALSE /\ timer' = FALSE
  /\ shouldReconnect' = TRUE /\ enabled' = TRUE
  /\ UNCHANGED <<status, table, now, tainted>>

\* A step of the connection; what a closed socket had not delivered is lost.
Connection ==
  /\ FeedNext
  /\ wire' = IF ws # NoSocket /\ socket'[ws] = "free" THEN <<>> ELSE wire
  /\ UNCHANGED <<status, handling, table, now, pollVars, process, tainted>>

IngestNext ==
  \/ \E n \in DOMAIN Orders : Place(n)
  \/ \E o \in OrderSet, s \in Ended : Finish(o, s)
  \/ Arrive
  \/ \E r \in handling : Persist(r) \/ PersistFails(r)
  \/ PollOrders
  \/ Start \/ Stop \/ Exit
  \/ Connection

\* The scheduler and the queries of the process go on, systemd starts it again,
\* and a connection attempt ends one way or the other.
IngestFairness ==
  /\ WF_<<ingestVars, feedVars>>(PollOrders)
  /\ WF_<<ingestVars, feedVars>>(Arrive \/ \E r \in handling : Persist(r))
  /\ WF_<<ingestVars, feedVars>>(Start)
  /\ WF_<<ingestVars, feedVars>>(process = "stopping" /\ Exit)
  /\ WF_<<ingestVars, feedVars>>(Connection /\ \E s \in Sockets : Opened(s))
  /\ WF_<<ingestVars, feedVars>>(Connection /\ \E s \in Sockets : socket[s] = "closing" /\ Closed(s))
  /\ WF_<<ingestVars, feedVars>>(Connection /\ TimerFires)

IngestTypeOK ==
  /\ FeedTypeOK
  /\ status \in [OrderSet -> {"none", "open"} \cup Ended]
  /\ \A i \in DOMAIN wire : wire[i].order \in OrderSet
  /\ \A r \in table : r.at \in 1..now /\ r.type \in Types
  /\ cache \in [OrderSet -> {"none", "open"} \cup Ended]
  /\ Polling => at \in 0..now
  /\ process \in {"down", "running", "stopping"}

(***************************************************************************)
(* Properties.                                                             *)
(***************************************************************************)
\* However often the process restarts and forgets its cache, and whatever the
\* WebSocket stored before, polling stores the same event of an order once,
\* unless a look-up failed, or a partly filled order was cancelled under the
\* other spelling and counts as open a second time.
NoPolledDuplicate ==
  \A r, q \in table :
    \/ r = q \/ r.via # "poll" \/ q.via # "poll"
    \/ r.of # q.of \/ r.type # q.type
    \/ \E why \in {"failed", "partly"} : <<r.of, why>> \in tainted

\* What a polled status cannot tell apart.
Misspelt(o) == status[o] \in Cancelled \ {"cancelled"}

Known(o) == \E r \in table : r.order = o

\* Every order placed has a record that names it, no message crossed a poll of
\* its order, no look-up failed, no record was bound to another order than its
\* own, and no exit was placed anew before the end of the last one was recorded.
Orderly ==
  \A o \in OrderSet :
    /\ \A why \in {"raced", "failed", "misbound", "crowded"} : <<o, why>> \notin tainted
    /\ ~Misspelt(o)
    /\ status[o] # "none" => Known(o)

\* The pipeline check tells every record of the trade to the order it is about,
\* although a message names none, as long as records are orderly: it goes by the
\* side, the direction and the distance in time alone.
OwnOrder ==
  Orderly =>
    \A tl \in {TradeTimeline(table, Trade)} :
      \A a \in Placed(tl) : ResolvedOrder(tl, a) = a.of

\* Orders that went through legal lives and were recorded in an orderly way,
\* even with messages and records lost, never look like a violation to the
\* pipeline check.
NoFalseAlarm ==
  Orderly =>
    Invalid(Verdicts(OrderTimelines(TradeTimeline(table, Trade)), "FREQTRADE",
                     Unexpected(table, Trade, "FREQTRADE"))) = {}

\* The cache, for which polls pass over an order from then on, hides nothing:
\* what it holds of an order is on record under the order's id, by whatever way,
\* unless that very insert failed.
CacheHidesNothing ==
  \A o \in OrderSet : cache[o] # "none" =>
    \/ \E r \in table : r.order = o /\ r.type = EventType(cache[o])
    \/ <<o, "lost">> \in tainted

\* An order that has ended gets its outcome recorded under its own id, by the
\* WebSocket and a binding or by polling, unless that very insert failed.
OutcomeRecorded ==
  \A o \in OrderSet :
    status[o] \in {"closed", "cancelled"} ~> Recorded(o) \/ <<o, "lost">> \in tainted

\* While the process runs and wants the feed, a socket whose close event is still
\* to come or the timer is there to bring it back, whichever of the sockets that
\* were replaced close in whatever order.
FeedNeverLost == process = "running" /\ enabled => timer \/ \E s \in Sockets : Live(s)

\* As long as the flag is not used, the feed comes back after every drop and
\* stays: the handlers of sockets that were replaced do not bring it down.
FeedSettles == [](enabled) => <>[]isConnected
=============================================================================
