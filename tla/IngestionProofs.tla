---------------------------- MODULE IngestionProofs ----------------------------
(***************************************************************************)
(* Proofs about PipelineMetrics and the Ingestion underneath it, for any   *)
(* orders, signals, sockets and budgets.                                   *)
(*                                                                         *)
(* That polling stores an event once rests on the order id it stores: the  *)
(* look-up of the event id finds the earlier record only because a record  *)
(* of polling names the order it is about, and no binding ever renames it  *)
(* (Named).  That a single bad check is no trend rests on the snapshots    *)
(* being the coverages of the last checks (Tracked) and on the baseline    *)
(* being one of them (BaselineIsPast).                                     *)
(*                                                                         *)
(* That orderly records raise no alarm rests on the story they tell        *)
(* (Story), which untainted steps keep: the records of an order are in the *)
(* order of its life, and those of an exit come before those of the next.  *)
(* From it follows which order the pipeline check tells a record to        *)
(* (Attributed), and, by induction on the events of an order, that it      *)
(* finds the life of each order legal (LegalLife).                         *)
(*                                                                         *)
(* The last sections are the safety on which the liveness of the recording *)
(* rests: the cache is honest, the feed is wanted as long as the process   *)
(* runs, and an incident had its grounds in the table.                     *)
(***************************************************************************)
EXTENDS PipelineMetrics, FiniteSetTheorems, SequenceTheorems, WellFoundedInduction, TLAPS

Statuses == {"none", "open"} \cup Ended

TradeIds == {Trade} \cup {g.trade : g \in Signals}
Sides == {"none"} \cup {Side[o] : o \in OrderSet}

\* The records of the audit table, and the messages on their way to it.
Audit ==
  [type : Types, trade : TradeIds, order : OrderSet \cup {NoOrder}, side : Sides,
   at : Nat \ {0}, via : {"socket", "poll", "meta", "event"},
   of : OrderSet \cup {NoOrder}]

Message == [type : Types, order : OrderSet]

\* A record of polling names the order it is really about.
Named(r) == r.via = "poll" => r.order = r.of /\ r.of \in OrderSet

TableOK ==
  /\ table \subseteq Audit /\ IsFiniteSet(table)
  /\ \A r \in table : r.at <= now /\ Named(r)

HandlersOK ==
  /\ handling \subseteq Audit
  /\ \A r \in handling : r.at <= now /\ r.via = "socket"

PollOK ==
  /\ now \in Nat /\ at \in 0..now
  /\ status \in [OrderSet -> Statuses] /\ cache \in [OrderSet -> Statuses]
  /\ Polling => answer \in [OrderSet -> Statuses]
  /\ process \in {"down", "running", "stopping"}

Ingested ==
  /\ wire \in Seq(Message)
  /\ TableOK /\ HandlersOK /\ PollOK /\ FeedTypeOK /\ NoPolledDuplicate

Row == [coverage : Nat, correlation : Nat]

\* Unless one was not stored, the snapshots are the coverages of the last checks.
Tracked ==
  ~missed => /\ Len(rows) <= Len(lately)
             /\ \A i \in 1..Len(rows) : rows[i].coverage = lately[i]

MetricsOK ==
  /\ ripe \subseteq SignalAudits
  /\ rows \in Seq(Row) /\ Len(rows) <= MaxRows
  /\ lately \in Seq(Nat) /\ Len(lately) <= MaxRows + 1
  /\ missed \in BOOLEAN
  /\ Tracked /\ TrendIsSustained

IInv == Ingested /\ MetricsOK

(***************************************************************************)
(* The connection.                                                         *)
(***************************************************************************)
Budgeted == \A k \in DOMAIN budget : budget[k] \in Nat

\* Spending leaves a bound a natural number.
LEMMA SpendLeaves ==
  ASSUME Budgeted, NEW k, Spend(k)
  PROVE  Budgeted'
  BY DEF Budgeted, Spend

\* A new socket is one of the names, and the one held before is on its way out.
LEMMA EstablishTypes ==
  ASSUME FeedTypeOK, EstablishConnection
  PROVE  /\ ws' \in Sockets
         /\ socket' \in [Sockets -> {"free", "connecting", "open", "closing"}]
<1>1. (CHOOSE s \in Unused : TRUE) \in Unused
  BY DEF EstablishConnection
<1>2. ws' \in Sockets
  BY <1>1 DEF EstablishConnection, Unused
<1>3. ClosingHeld \in [Sockets -> {"free", "connecting", "open", "closing"}]
  BY DEF ClosingHeld, FeedTypeOK
<1> QED
  BY <1>2, <1>3 DEF EstablishConnection

LEMMA ConnectTypes ==
  ASSUME FeedTypeOK, Connect, enabled' \in BOOLEAN, Budgeted'
  PROVE  FeedTypeOK'
  BY EstablishTypes DEF Connect, FeedTypeOK, Budgeted

LEMMA DisconnectTypes ==
  ASSUME FeedTypeOK, Disconnect, enabled' \in BOOLEAN, Budgeted'
  PROVE  FeedTypeOK'
  BY DEF Disconnect, ClosingHeld, FeedTypeOK, Budgeted

\* Every step of the connection.
LEMMA FeedTypes ==
  ASSUME FeedTypeOK, FeedNext
  PROVE  FeedTypeOK'
<1>0. Budgeted
  BY DEF FeedTypeOK, Budgeted
<1>1. ASSUME NEW s \in Sockets, Opened(s) PROVE FeedTypeOK'
  BY <1>1 DEF Opened, FeedTypeOK
<1>2. ASSUME NEW s \in Sockets, Closed(s) PROVE FeedTypeOK'
  <2>1. Budgeted'
    BY <1>0, <1>2, SpendLeaves DEF Closed, Budgeted
  <2> QED
    BY <1>2, <2>1 DEF Closed, HandleReconnect, FeedTypeOK, Budgeted
<1>3. CASE TimerFires
  <2>1. CASE enabled
    BY <1>3, <2>1, EstablishTypes DEF TimerFires, FeedTypeOK
  <2>2. CASE ~enabled
    BY <1>3, <2>2 DEF TimerFires, FeedTypeOK
  <2> QED
    BY <2>1, <2>2
<1>4. ASSUME NEW b \in BOOLEAN, ToggleWebSocket(b) PROVE FeedTypeOK'
  <2>1. Budgeted' /\ enabled' \in BOOLEAN
    BY <1>0, <1>4, SpendLeaves DEF ToggleWebSocket
  <2> QED
    BY <1>4, <2>1, ConnectTypes, DisconnectTypes DEF ToggleWebSocket
<1> QED
  BY <1>1, <1>2, <1>3, <1>4 DEF FeedNext

\* A step that leaves the connection alone may spend.
LEMMA FeedIdle ==
  ASSUME FeedTypeOK, UNCHANGED feedVars, UNCHANGED budget \/ \E k : Spend(k)
  PROVE  FeedTypeOK'
<1>1. Budgeted'
  BY SpendLeaves DEF FeedTypeOK, Budgeted
<1> QED
  BY <1>1 DEF feedVars, connVars, FeedTypeOK, Budgeted

(***************************************************************************)
(* The table.                                                              *)
(***************************************************************************)
\* An ingestion step keeps the invariant, and no signal leaves the table.
Kept == Ingested' /\ SignalAudits \subseteq SignalAudits'

LEMMA FirstOrder == Orders[1] \in OrderSet /\ \A n \in DOMAIN Orders : Orders[n] \in OrderSet
<1>1. 1 \in DOMAIN Orders
  BY IngestAssumption
<1> QED
  BY <1>1 DEF OrderSet, ToSet

LEMMA PolledTypes ==
  ASSUME NEW s
  PROVE  /\ EventType(s) \in Types /\ EventType(s) # "SIGNAL"
         /\ EventType(s) \in {"ORDER_FILLED", "ORDER_CANCELLED", "ORDER_OPEN"}
  BY DEF EventType, Types, StateValue

\* What was true of a pair of records stays true as taints are added.
LEMMA SameTable ==
  ASSUME Ingested, table' = table, tainted \subseteq tainted', now' \in Nat, now' >= now
  PROVE  TableOK' /\ NoPolledDuplicate' /\ SignalAudits \subseteq SignalAudits'
<1>1. TableOK'
  <2>1. \A r \in table : r.at \in Nat /\ r.at <= now /\ Named(r)
    BY DEF Ingested, TableOK, Audit
  <2> QED
    BY <2>1 DEF Ingested, TableOK, PollOK, Named
<1>2. NoPolledDuplicate'
  BY DEF Ingested, NoPolledDuplicate
<1>3. SignalAudits \subseteq SignalAudits'
  BY DEF SignalAudits
<1> QED
  BY <1>1, <1>2, <1>3

\* A record that polling did not write joins the table.
LEMMA OtherRecord ==
  ASSUME Ingested, NEW r \in Audit, r.via # "poll", r.at <= now', now' \in Nat, now' >= now,
         table' = table \cup {r}, tainted \subseteq tainted'
  PROVE  TableOK' /\ NoPolledDuplicate' /\ SignalAudits \subseteq SignalAudits'
<1>1. TableOK'
  <2>1. \A q \in table : q.at \in Nat /\ q.at <= now /\ Named(q)
    BY DEF Ingested, TableOK, Audit
  <2>2. IsFiniteSet(table')
    BY FS_AddElement DEF Ingested, TableOK
  <2> QED
    BY <2>1, <2>2 DEF Ingested, TableOK, PollOK, Named
<1>2. NoPolledDuplicate'
  BY DEF Ingested, NoPolledDuplicate
<1>3. SignalAudits \subseteq SignalAudits'
  BY DEF SignalAudits
<1> QED
  BY <1>1, <1>2, <1>3

(***************************************************************************)
(* The exchange and the messages.                                          *)
(***************************************************************************)
LEMMA AnnouncedTypes ==
  ASSUME Ingested, NEW o \in OrderSet, NEW type \in Types
  PROVE  Announced(o, type) \in Seq(Message)
<1>1. [type |-> type, order |-> o] \in Message
  BY DEF Message
<1> QED
  BY <1>1 DEF Announced, Ingested

\* The exchange moves and tells of it; the table stays.
LEMMA ExchangeKept ==
  ASSUME Ingested, UNCHANGED <<handling, table, now, pollVars, process, feedVars>>,
         UNCHANGED budget \/ \E k : Spend(k), tainted \subseteq tainted',
         status' \in [OrderSet -> Statuses], wire' \in Seq(Message)
  PROVE  Kept
<1>1. TableOK' /\ NoPolledDuplicate' /\ SignalAudits \subseteq SignalAudits'
  BY SameTable DEF Ingested, PollOK
<1>2. HandlersOK' /\ PollOK'
  BY DEF Ingested, HandlersOK, PollOK, pollVars, Polling
<1>3. FeedTypeOK'
  BY FeedIdle DEF Ingested
<1> QED
  BY <1>1, <1>2, <1>3 DEF Kept, Ingested

LEMMA PlaceKept ==
  ASSUME Ingested, NEW n \in DOMAIN Orders, Place(n)
  PROVE  Kept
<1>1. Orders[n] \in OrderSet /\ "ORDER_CREATED" \in Types
  BY FirstOrder DEF Types, StateValue
<1>2. status' \in [OrderSet -> Statuses]
  BY DEF Place, Ingested, PollOK, Statuses
<1>3. wire' \in Seq(Message)
  BY <1>1, AnnouncedTypes DEF Place
<1> QED
  BY <1>2, <1>3, ExchangeKept DEF Place

LEMMA FinishKept ==
  ASSUME Ingested, NEW o \in OrderSet, NEW s \in Ended, Finish(o, s)
  PROVE  Kept
<1>1. "ORDER_FILLED" \in Types /\ "ORDER_CANCELLED" \in Types
  BY DEF Types, StateValue
<1>2. status' \in [OrderSet -> Statuses]
  BY DEF Finish, Ingested, PollOK, Statuses
<1>3. wire' \in Seq(Message)
  BY <1>1, AnnouncedTypes DEF Finish
<1>4. UNCHANGED budget \/ \E k : Spend(k)
  BY DEF Finish
<1> QED
  BY <1>2, <1>3, <1>4, ExchangeKept DEF Finish

\* A message arrives and is observed now.
LEMMA ArriveKept ==
  ASSUME Ingested, Arrive
  PROVE  Kept
<1>1. wire # <<>> /\ wire \in Seq(Message)
  BY DEF Arrive, Ingested
<1>2. PICK m : m = Head(wire) /\ m \in Message /\ Tail(wire) \in Seq(Message)
  BY <1>1
<1>3. now' = now + 1 /\ now \in Nat
  BY DEF Arrive, Ingested, PollOK
<1>4. FromMessage(m, now + 1) \in Audit /\ FromMessage(m, now + 1).via = "socket"
      /\ FromMessage(m, now + 1).at = now'
  <2>1. /\ m.type \in Types /\ m.order \in OrderSet /\ Side[m.order] \in Sides
        /\ now + 1 \in Nat \ {0}
    BY <1>2, <1>3 DEF Message, Sides
  <2>2. Trade \in TradeIds /\ NoOrder \in OrderSet \cup {NoOrder}
    BY DEF TradeIds
  <2>3. FromMessage(m, now + 1) \in Audit
    BY <2>1, <2>2 DEF FromMessage, Audit
  <2> QED
    BY <1>3, <2>3 DEF FromMessage
<1>5. TableOK' /\ NoPolledDuplicate' /\ SignalAudits \subseteq SignalAudits'
  BY <1>3, SameTable DEF Arrive
<1>6. HandlersOK'
  <2>1. \A r \in handling : r.at \in Nat /\ r.at <= now
    BY DEF Ingested, HandlersOK, Audit
  <2>2. handling' = handling \cup {FromMessage(m, now + 1)}
    BY <1>2 DEF Arrive
  <2> QED
    BY <1>3, <1>4, <2>1, <2>2 DEF Ingested, HandlersOK
<1>7. PollOK'
  BY <1>3 DEF Arrive, Ingested, PollOK, pollVars, Polling
<1>8. FeedTypeOK'
  BY FeedIdle DEF Arrive, Ingested
<1> QED
  BY <1>2, <1>5, <1>6, <1>7, <1>8 DEF Kept, Ingested, Arrive

\* Its insert is answered, one way or the other.
LEMMA PersistKept ==
  ASSUME Ingested, NEW r \in handling, Persist(r) \/ PersistFails(r)
  PROVE  Kept
<1>1. /\ UNCHANGED <<status, wire, now, pollVars, process, tainted, feedVars>>
      /\ UNCHANGED budget \/ \E k : Spend(k)
      /\ handling' = handling \ {r}
  BY DEF Persist, PersistFails, Failing
<1>2. r \in Audit /\ r.via = "socket" /\ r.at <= now /\ now \in Nat
  BY DEF Ingested, HandlersOK, PollOK
<1>3. TableOK' /\ NoPolledDuplicate' /\ SignalAudits \subseteq SignalAudits'
  <2>1. CASE Persist(r)
    BY <1>1, <1>2, <2>1, OtherRecord DEF Persist
  <2>2. CASE PersistFails(r)
    BY <1>1, <1>2, <2>2, SameTable DEF PersistFails
  <2> QED
    BY <2>1, <2>2
<1>4. HandlersOK' /\ PollOK'
  BY <1>1 DEF Ingested, HandlersOK, PollOK, pollVars, Polling
<1>5. FeedTypeOK'
  BY <1>1, FeedIdle DEF Ingested
<1> QED
  BY <1>1, <1>3, <1>4, <1>5 DEF Kept, Ingested

(***************************************************************************)
(* The poll.                                                               *)
(***************************************************************************)
\* The poll goes on: what it knows of the orders keeps its type.
LEMMA PollGoesOn ==
  ASSUME Ingested, UNCHANGED <<wire, status, handling, process, feedVars>>,
         UNCHANGED budget \/ \E k : Spend(k),
         now' \in Nat, now' >= now, at' \in 0..now',
         cache' \in [OrderSet -> Statuses],
         Polling' => answer' \in [OrderSet -> Statuses],
         TableOK', NoPolledDuplicate', SignalAudits \subseteq SignalAudits'
  PROVE  Kept
<1>1. HandlersOK'
  <2>1. \A r \in handling : r.at \in Nat /\ r.at <= now /\ now \in Nat
    BY DEF Ingested, HandlersOK, PollOK, Audit
  <2> QED
    BY <2>1 DEF Ingested, HandlersOK
<1>2. PollOK'
  BY DEF Ingested, PollOK
<1>3. FeedTypeOK'
  BY FeedIdle DEF Ingested
<1> QED
  BY <1>1, <1>2, <1>3 DEF Kept, Ingested

LEMMA FetchKept ==
  ASSUME Ingested, Fetch
  PROVE  Kept
<1>1. now \in Nat /\ status \in [OrderSet -> Statuses] /\ cache \in [OrderSet -> Statuses]
  BY DEF Ingested, PollOK
<1>2. TableOK' /\ NoPolledDuplicate' /\ SignalAudits \subseteq SignalAudits'
  BY <1>1, SameTable DEF Fetch, Taint
<1> QED
  BY <1>1, <1>2, PollGoesOn DEF Fetch

LEMMA ObserveKept ==
  ASSUME Ingested, Observe
  PROVE  Kept
<1>1. now \in Nat /\ cache \in [OrderSet -> Statuses] /\ answer \in [OrderSet -> Statuses]
  BY DEF Observe, Ingested, PollOK
<1>2. TableOK' /\ NoPolledDuplicate' /\ SignalAudits \subseteq SignalAudits'
  BY <1>1, SameTable DEF Observe
<1> QED
  BY <1>1, <1>2, PollGoesOn DEF Observe

\* The poll is done with an order and caches its status.
LEMMA GoTypes ==
  ASSUME Ingested, NEW o \in OrderSet, AtOrder(o), Go(o)
  PROVE  /\ at' \in 0..now /\ at \in 1..now /\ now \in Nat
         /\ cache' \in [OrderSet -> Statuses]
         /\ Polling' => answer' \in [OrderSet -> Statuses]
         /\ answer[o] \in Statuses
<1>1. /\ at \in 0..now /\ now \in Nat /\ at > 0 /\ cache \in [OrderSet -> Statuses]
      /\ answer \in [OrderSet -> Statuses]
  BY DEF AtOrder, BeingPolled, Ingested, PollOK
<1>2. at' \in {0, at} /\ answer' \in {answer, <<>>}
  BY DEF Go, GoOn
<1>3. cache' \in [OrderSet -> Statuses]
  BY <1>1 DEF Go
<1> QED
  BY <1>1, <1>2, <1>3 DEF Polling

LEMMA FindExactKept ==
  ASSUME Ingested, NEW o \in OrderSet, FindExact(o)
  PROVE  Kept
<1>1. /\ at' \in 0..now /\ now \in Nat /\ cache' \in [OrderSet -> Statuses]
      /\ Polling' => answer' \in [OrderSet -> Statuses]
  BY GoTypes DEF FindExact
<1>2. TableOK' /\ NoPolledDuplicate' /\ SignalAudits \subseteq SignalAudits'
  BY <1>1, SameTable DEF FindExact
<1> QED
  BY <1>1, <1>2, PollGoesOn DEF FindExact

LEMMA FindNothingKept ==
  ASSUME Ingested, NEW o \in OrderSet, FindNothing(o)
  PROVE  Kept
<1>1. /\ at \in 0..now /\ now \in Nat /\ cache \in [OrderSet -> Statuses]
      /\ answer \in [OrderSet -> Statuses]
  BY DEF FindNothing, AtOrder, BeingPolled, Ingested, PollOK
<1>2. tainted \subseteq tainted' /\ (UNCHANGED budget \/ \E k : Spend(k))
  BY DEF FindNothing, Taint, Failing
<1>3. TableOK' /\ NoPolledDuplicate' /\ SignalAudits \subseteq SignalAudits'
  BY <1>1, <1>2, SameTable DEF FindNothing
<1> QED
  BY <1>1, <1>2, <1>3, PollGoesOn DEF FindNothing

LEMMA InsertFailsKept ==
  ASSUME Ingested, NEW o \in OrderSet, InsertFails(o)
  PROVE  Kept
<1>1. /\ at' \in 0..now /\ now \in Nat /\ cache' \in [OrderSet -> Statuses]
      /\ Polling' => answer' \in [OrderSet -> Statuses]
  BY GoTypes DEF InsertFails
<1>2. tainted \subseteq tainted' /\ (UNCHANGED budget \/ \E k : Spend(k))
  BY DEF InsertFails, Taint, Failing
<1>3. TableOK' /\ NoPolledDuplicate' /\ SignalAudits \subseteq SignalAudits'
  BY <1>1, <1>2, SameTable DEF InsertFails
<1> QED
  BY <1>1, <1>2, <1>3, PollGoesOn DEF InsertFails

\* A record without an order is given one.  Polling did not write it, as its own
\* records are named from the start; nor is it a signal.
LEMMA BindKept ==
  ASSUME Ingested, NEW o \in OrderSet, Bind(o)
  PROVE  Kept
<1>1. /\ at' \in 0..now /\ now \in Nat /\ cache' \in [OrderSet -> Statuses]
      /\ Polling' => answer' \in [OrderSet -> Statuses]
  BY GoTypes DEF Bind
<1>2. PICK r \in Unbound(o) : table' = (table \ {r}) \cup {[r EXCEPT !.order = o]}
  BY DEF Bind
<1>3. /\ r \in table /\ r \in Audit /\ r.order = NoOrder /\ r.at <= now /\ Named(r)
      /\ r.type = EventType(answer[o])
  BY DEF Unbound, Ingested, TableOK
<1>4. PICK b : b = [r EXCEPT !.order = o]
  OBVIOUS
<1>5. b \in Audit /\ b.via = r.via /\ b.at = r.at /\ b.type = r.type /\ b.order = o
  BY <1>3, <1>4 DEF Audit
<1>6. r.via # "poll" /\ r.type # "SIGNAL"
  BY <1>3, PolledTypes, IngestAssumption DEF Named
<1>7. tainted \subseteq tainted' /\ now' = now
  BY DEF Bind, Taint
<1>8. TableOK'
  <2>1. IsFiniteSet(table')
    BY <1>2, FS_AddElement, FS_RemoveElement DEF Ingested, TableOK
  <2> QED
    BY <1>2, <1>3, <1>4, <1>5, <1>6, <1>7, <2>1 DEF Ingested, TableOK, Named
<1>9. NoPolledDuplicate'
  BY <1>2, <1>4, <1>5, <1>6, <1>7 DEF Ingested, NoPolledDuplicate
<1>10. SignalAudits \subseteq SignalAudits'
  BY <1>2, <1>6 DEF SignalAudits
<1> QED
  BY <1>1, <1>7, <1>8, <1>9, <1>10, PollGoesOn DEF Bind

\* Polling inserts: unless the look-up fails, or finds the event under another id,
\* and either taints the order, no record of polling has the order and the event.
LEMMA InsertKept ==
  ASSUME Ingested, NEW o \in OrderSet, Insert(o)
  PROVE  Kept
<1>1. /\ at' \in 0..now /\ now \in Nat /\ cache' \in [OrderSet -> Statuses]
      /\ Polling' => answer' \in [OrderSet -> Statuses]
      /\ at \in 1..now /\ answer[o] \in Statuses
  BY GoTypes DEF Insert
<1>2. /\ tainted \subseteq tainted' /\ (UNCHANGED budget \/ \E k : Spend(k))
      /\ now' = now
  BY DEF Insert, Taint, Failing
<1>3. PICK p : p = FromPoll(o)
  OBVIOUS
<1>4. /\ p \in Audit /\ p.via = "poll" /\ p.order = o /\ p.of = o /\ p.at <= now
      /\ p.type = EventType(answer[o])
  <2>1. /\ EventType(answer[o]) \in Types /\ Side[o] \in Sides
        /\ at \in Nat \ {0} /\ at <= now
    BY <1>1, PolledTypes DEF Sides
  <2>2. Trade \in TradeIds
    BY DEF TradeIds
  <2>3. p \in Audit
    BY <1>3, <2>1, <2>2 DEF FromPoll, Audit
  <2> QED
    BY <1>3, <2>1, <2>3 DEF FromPoll
<1>5. CASE table' = table
  <2>1. TableOK' /\ NoPolledDuplicate' /\ SignalAudits \subseteq SignalAudits'
    BY <1>1, <1>2, <1>5, SameTable
  <2> QED
    BY <1>1, <1>2, <2>1, PollGoesOn DEF Insert
<1>6. CASE table' # table
  <2> DEFINE Excused(q) == \E why \in {"failed", "partly"} : <<q, why>> \in tainted'
  <2>1. table' = table \cup {p} /\ (~HasLifecycleEvent(o) \/ Excused(o))
    BY <1>3, <1>6 DEF Insert, Taint
  <2>2. TableOK'
    <3>1. IsFiniteSet(table')
      BY <2>1, FS_AddElement DEF Ingested, TableOK
    <3> QED
      BY <1>2, <1>4, <2>1, <3>1 DEF Ingested, TableOK, Named
  <2>3. ASSUME NEW r \in table, r.via = "poll", r.of = o, r.type = p.type
        PROVE  Excused(o)
    <3>1. r.order = o
      BY <2>3 DEF Ingested, TableOK, Named
    <3>2. HasLifecycleEvent(o)
      BY <1>4, <2>3, <3>1 DEF HasLifecycleEvent
    <3> QED
      BY <2>1, <3>2
  <2>4. NoPolledDuplicate'
    <3> SUFFICES ASSUME NEW r \in table', NEW q \in table', r # q, r.via = "poll",
                        q.via = "poll", r.of = q.of, r.type = q.type
                 PROVE  Excused(r.of)
      BY DEF NoPolledDuplicate
    <3>1. CASE r \in table /\ q \in table
      BY <1>2, <3>1 DEF Ingested, NoPolledDuplicate
    <3>2. CASE r = p \/ q = p
      BY <1>4, <2>1, <2>3, <3>2
    <3> QED
      BY <2>1, <3>1, <3>2
  <2>5. SignalAudits \subseteq SignalAudits'
    BY <2>1 DEF SignalAudits
  <2> QED
    BY <1>1, <1>2, <2>2, <2>4, <2>5, PollGoesOn DEF Insert
<1> QED
  BY <1>5, <1>6

LEMMA PollOrdersKept ==
  ASSUME Ingested, PollOrders
  PROVE  Kept
  BY FetchKept, ObserveKept, FindExactKept, BindKept, FindNothingKept, InsertKept,
     InsertFailsKept DEF PollOrders

(***************************************************************************)
(* The process and the connection.                                         *)
(***************************************************************************)
\* The process and its connection change; the table stays, and so does the poll
\* unless it was thrown away.
LEMMA ProcessKept ==
  ASSUME Ingested, status' = status, table' = table, now' = now, tainted' = tainted,
         handling' \in {handling, {}}, wire' \in Seq(Message),
         cache' \in [OrderSet -> Statuses], answer' \in {answer, <<>>}, at' \in {at, 0},
         process' \in {"down", "running", "stopping"}, FeedTypeOK'
  PROVE  Kept
<1>1. TableOK' /\ NoPolledDuplicate' /\ SignalAudits \subseteq SignalAudits'
  BY SameTable DEF Ingested, PollOK
<1>2. HandlersOK'
  BY DEF Ingested, HandlersOK
<1>3. PollOK'
  BY DEF Ingested, PollOK, Polling
<1> QED
  BY <1>1, <1>2, <1>3 DEF Kept, Ingested

LEMMA StartKept ==
  ASSUME Ingested, Start
  PROVE  Kept
<1>1. FeedTypeOK'
  <2>1. Budgeted' /\ enabled' \in BOOLEAN
    BY DEF Start, Ingested, FeedTypeOK, Budgeted
  <2> QED
    BY <2>1, ConnectTypes DEF Start, Ingested
<1>2. /\ status' = status /\ table' = table /\ now' = now /\ tainted' = tainted
      /\ handling' = handling /\ answer' = answer /\ at' = at
      /\ cache' \in [OrderSet -> Statuses]
  BY DEF Ingested, PollOK, Start, pollVars
<1>3. wire' \in Seq(Message) /\ process' = "running"
  BY DEF Start, Ingested
<1> QED
  BY <1>1, <1>2, <1>3, ProcessKept

LEMMA StopKept ==
  ASSUME Ingested, Stop
  PROVE  Kept
<1>1. FeedTypeOK'
  <2>1. Budgeted' /\ enabled' \in BOOLEAN
    BY SpendLeaves DEF Stop, Ingested, FeedTypeOK, Budgeted
  <2> QED
    BY <2>1, DisconnectTypes DEF Stop, Ingested
<1>2. /\ status' = status /\ table' = table /\ now' = now /\ tainted' = tainted
      /\ handling' = handling /\ answer' = answer /\ at' = at
      /\ cache' \in [OrderSet -> Statuses]
  BY DEF Ingested, PollOK, Stop, pollVars
<1>3. wire' \in Seq(Message) /\ process' = "stopping"
  BY DEF Stop, Ingested
<1> QED
  BY <1>1, <1>2, <1>3, ProcessKept

LEMMA ExitKept ==
  ASSUME Ingested, Exit
  PROVE  Kept
<1>1. FeedTypeOK'
  <2>1. Budgeted'
    BY SpendLeaves DEF Exit, Ingested, FeedTypeOK, Budgeted
  <2> QED
    BY <2>1 DEF Exit, FeedTypeOK, Budgeted
<1>2. wire' \in Seq(Message)
  BY DEF Exit
<1>3. cache' \in [OrderSet -> Statuses]
  BY DEF Exit, Statuses
<1> QED
  BY <1>1, <1>2, <1>3, ProcessKept DEF Exit

LEMMA ConnectionKept ==
  ASSUME Ingested, Connection
  PROVE  Kept
<1>1. FeedTypeOK'
  BY FeedTypes DEF Connection, Ingested
<1>2. wire' \in Seq(Message)
  BY DEF Connection, Ingested
<1>3. process' \in {"down", "running", "stopping"}
  BY DEF Connection, Ingested, PollOK
<1>4. /\ status' = status /\ table' = table /\ now' = now /\ tainted' = tainted
      /\ handling' = handling /\ answer' = answer /\ at' = at
      /\ cache' \in [OrderSet -> Statuses]
  BY DEF Ingested, PollOK, Connection, pollVars
<1> QED
  BY <1>1, <1>2, <1>3, <1>4, ProcessKept

\* Every step of the ingestion.
LEMMA IngestNextKept ==
  ASSUME Ingested, IngestNext
  PROVE  Kept
<1>1. ASSUME NEW n \in DOMAIN Orders, Place(n) PROVE Kept
  BY <1>1, PlaceKept
<1>2. ASSUME NEW o \in OrderSet, NEW s \in Ended, Finish(o, s) PROVE Kept
  BY <1>2, FinishKept
<1>3. ASSUME NEW r \in handling, Persist(r) \/ PersistFails(r) PROVE Kept
  BY <1>3, PersistKept
<1> QED
  BY <1>1, <1>2, <1>3, ArriveKept, PollOrdersKept, StartKept, StopKept, ExitKept,
     ConnectionKept DEF IngestNext

(***************************************************************************)
(* The steps of the metrics, seen from the table.                          *)
(***************************************************************************)
\* Nothing of the ingestion moves, except what is left of the bound.
LEMMA IdleKept ==
  ASSUME Ingested, UNCHANGED <<ingestVars, feedVars>>,
         UNCHANGED budget \/ \E k : Spend(k)
  PROVE  Kept
<1>1. /\ status' = status /\ table' = table /\ now' = now /\ tainted' = tainted
      /\ handling' = handling /\ answer' = answer /\ at' = at
      /\ wire' = wire /\ process' = process /\ cache' \in [OrderSet -> Statuses]
  BY DEF Ingested, PollOK, ingestVars, pollVars
<1>2. FeedTypeOK'
  BY FeedIdle DEF Ingested
<1>3. wire' \in Seq(Message) /\ process' \in {"down", "running", "stopping"}
  BY <1>1 DEF Ingested, PollOK
<1> QED
  BY <1>1, <1>2, <1>3, ProcessKept

LEMMA SignalKept ==
  ASSUME Ingested, NEW g \in Signals, Signal(g)
  PROVE  Kept
<1>1. now \in Nat /\ now' = now + 1
  BY DEF Signal, Ingested, PollOK
<1>2. PICK r : r = [type |-> "SIGNAL", trade |-> g.trade, order |-> NoOrder,
                    side |-> "none", at |-> now + 1, via |-> g.place, of |-> NoOrder]
  OBVIOUS
<1>3. r \in Audit /\ r.via # "poll" /\ r.at = now'
  <2>1. /\ "SIGNAL" \in Types /\ g.trade \in TradeIds /\ "none" \in Sides
        /\ g.place \in {"meta", "event"} /\ now + 1 \in Nat \ {0}
    BY <1>1, MetricsAssumption DEF Types, StateValue, TradeIds, Sides
  <2>2. r \in Audit
    BY <1>2, <2>1 DEF Audit
  <2> QED
    BY <1>1, <1>2, <2>1, <2>2
<1>4. table' = table \cup {r}
  BY <1>2 DEF Signal
<1>5. tainted' = tainted
  BY DEF Signal
<1>6. TableOK' /\ NoPolledDuplicate' /\ SignalAudits \subseteq SignalAudits'
  BY <1>1, <1>3, <1>4, <1>5, OtherRecord
<1>7. HandlersOK'
  <2>1. \A q \in handling : q.at \in Nat /\ q.at <= now
    BY DEF Ingested, HandlersOK, Audit
  <2> QED
    BY <1>1, <2>1 DEF Signal, Ingested, HandlersOK
<1>8. PollOK'
  BY <1>1 DEF Signal, Ingested, PollOK, pollVars, Polling
<1>9. FeedTypeOK'
  BY FeedIdle DEF Signal, Ingested
<1> QED
  BY <1>6, <1>7, <1>8, <1>9 DEF Signal, Kept, Ingested

(***************************************************************************)
(* The trend.                                                              *)
(***************************************************************************)
\* One of any things is the least by a natural measure.
LEMMA LeastBy ==
  ASSUME NEW S, S # {}, NEW measure \in [S -> Nat]
  PROVE  \E x \in S : \A y \in S : measure[x] <= measure[y]
<1>1. PICK V : V = {measure[x] : x \in S}
  OBVIOUS
<1>2. V \subseteq Nat /\ V # {}
  BY <1>1
<1>3. PICK v \in V : \A w \in V : ~(<<w, v>> \in OpToRel(<, Nat))
  BY <1>2, NatLessThanWellFounded, WFMin
<1>4. ASSUME NEW w \in V PROVE v <= w
  <2>1. w \in Nat /\ v \in Nat
    BY <1>2
  <2>2. ~(w < v)
    BY <1>3, <2>1 DEF OpToRel
  <2> QED
    BY <2>1, <2>2
<1> QED
  BY <1>1, <1>4

\* Of the values a sequence has at some of its places one is the least.
LEMMA LeastValue ==
  ASSUME NEW values \in Seq(Nat), NEW I, I \subseteq 1..Len(values), I # {}
  PROVE  \E i \in I : \A j \in I : values[i] <= values[j]
<1>1. PICK value : value = [i \in I |-> values[i]]
  OBVIOUS
<1>2. value \in [I -> Nat]
  BY <1>1
<1> QED
  BY <1>1, <1>2, LeastBy

\* And one is the greatest: it has the most others up to it.
LEMMA GreatestValue ==
  ASSUME NEW values \in Seq(Nat), values # <<>>
  PROVE  \E m \in 1..Len(values) : \A j \in 1..Len(values) : values[j] <= values[m]
<1>1. PICK n \in Nat : n = Len(values) /\ n > 0
  OBVIOUS
<1>2. PICK upto : upto = [i \in 1..n |-> {j \in 1..n : values[j] <= values[i]}]
  OBVIOUS
<1>3. IsFiniteSet(1..n) /\ Cardinality(1..n) = n
  <2>1. \A b \in Nat : b > 0 => IsFiniteSet(1..b) /\ Cardinality(1..b) = b
    BY FS_Interval
  <2> QED
    BY <1>1, <2>1
<1>4. \A i \in 1..n : IsFiniteSet(upto[i]) /\ Cardinality(upto[i]) \in 0..n
  BY <1>2, <1>3, FS_Subset, FS_CardinalityType
<1>5. PICK beyond : beyond = [i \in 1..n |-> n - Cardinality(upto[i])]
  OBVIOUS
<1>6. beyond \in Seq(Nat) /\ Len(beyond) = n
  BY <1>4, <1>5
<1>7. PICK m \in 1..n : \A j \in 1..n : beyond[m] <= beyond[j]
  <2>1. PICK I : I = 1..n
    OBVIOUS
  <2>2. I \subseteq 1..Len(beyond) /\ I # {}
    <3>1. 1 \in I
      BY <1>1, <2>1
    <3> QED
      BY <1>6, <2>1, <3>1
  <2>3. \E i \in I : \A j \in I : beyond[i] <= beyond[j]
    BY <1>6, <2>2, LeastValue
  <2> QED
    BY <2>1, <2>3
<1>8. ASSUME NEW j \in 1..n PROVE values[j] <= values[m]
  <2> SUFFICES ASSUME values[j] > values[m] PROVE FALSE
    BY <1>1
  <2>1. upto[m] \subseteq upto[j] /\ j \in upto[j] /\ j \notin upto[m]
    BY <1>1, <1>2
  <2>2. Cardinality(upto[m]) < Cardinality(upto[j])
    <3>1. Cardinality(upto[m]) <= Cardinality(upto[j])
      BY <1>4, <2>1, FS_Subset
    <3>2. Cardinality(upto[m]) # Cardinality(upto[j])
      BY <1>4, <2>1, FS_Subset
    <3> QED
      BY <1>4, <3>1, <3>2
  <2> QED
    BY <1>4, <1>5, <1>7, <2>2
<1> QED
  BY <1>1, <1>8

\* The baseline is one of the values it is taken from.
LEMMA BaselineIsPast ==
  ASSUME NEW values \in Seq(Nat), values # <<>>
  PROVE  \E k \in 1..Len(values) : P95(values) = values[k]
<1> DEFINE n == Len(values)
           index == IF (95 * n) \div 100 < n THEN (95 * n) \div 100 ELSE n - 1
           Upto(i) == {j \in 1..n : values[j] <= values[i]}
           above == {i \in 1..n : Cardinality(Upto(i)) > index}
<1>1. n \in Nat /\ n > 0 /\ index < n
  OBVIOUS
<1>2. above # {}
  <2>1. PICK m \in 1..n : \A j \in 1..n : values[j] <= values[m]
    BY GreatestValue
  <2>2. Upto(m) = 1..n
    BY <2>1
  <2>3. \A b \in Nat : b > 0 => Cardinality(1..b) = b
    BY FS_Interval
  <2>4. Cardinality(Upto(m)) = n
    BY <1>1, <2>2, <2>3
  <2> QED
    BY <1>1, <2>4
<1>3. PICK k \in above : k = CHOOSE i \in above : \A j \in above : values[i] <= values[j]
  <2>1. \E i \in above : \A j \in above : values[i] <= values[j]
    BY <1>2, LeastValue
  <2> QED
    BY <2>1
<1>4. k \in 1..n
  OBVIOUS
<1>5. P95(values) = values[k]
  BY <1>1, <1>3 DEF P95
<1> QED
  BY <1>4, <1>5

(***************************************************************************)
(* The check.                                                              *)
(***************************************************************************)
LEMMA PercentType ==
  ASSUME NEW part \in Nat, NEW whole \in Nat
  PROVE  Percent(part, whole) \in Nat
  BY DEF Percent

\* The signals that are counted are finitely many.
LEMMA RatiosTyped ==
  ASSUME Ingested, ripe \subseteq SignalAudits
  PROVE  CorrelationQuality \in Nat /\ \A v : CoverageRatio(v) \in Nat
<1>1. IsFiniteSet(SignalAudits)
  BY FS_Subset DEF Ingested, TableOK, SignalAudits
<1>2. IsFiniteSet(Correlatable(SignalAudits)) /\ IsFiniteSet(Correlatable(ripe))
  <2>1. Correlatable(SignalAudits) \subseteq SignalAudits
    BY DEF Correlatable
  <2>2. Correlatable(ripe) \subseteq SignalAudits
    BY DEF Correlatable
  <2> QED
    BY <1>1, <2>1, <2>2, FS_Subset
<1>3. IsFiniteSet(Correlatable(ripe) \ Unfilled)
  BY <1>2, FS_Subset
<1>4. CorrelationQuality \in Nat
  BY <1>1, <1>2, FS_CardinalityType, PercentType DEF CorrelationQuality
<1>5. ASSUME NEW v PROVE CoverageRatio(v) \in Nat
  BY <1>2, <1>3, FS_CardinalityType, PercentType DEF CoverageRatio
<1> QED
  BY <1>4, <1>5

\* The look-back keeps the newest and cuts off the rest.
LEMMA LatestOf ==
  ASSUME NEW S, NEW u \in Seq(S), NEW n \in Nat, NEW t, t = Latest(u, n)
  PROVE  /\ t \in Seq(S)
         /\ Len(t) = IF Len(u) < n THEN Len(u) ELSE n
         /\ \A i \in 1..Len(t) : t[i] = u[i]
<1>1. t = SubSeq(u, 1, IF Len(u) < n THEN Len(u) ELSE n)
  BY DEF Latest
<1>4. PICK k \in 0..Len(u) : t = SubSeq(u, 1, k) /\ k = IF Len(u) < n THEN Len(u) ELSE n
  BY <1>1
<1>5. t \in Seq(S) /\ Len(t) = k /\ \A i \in 1..k : t[i] = u[i]
  <2>1. \A i \in 1..k : u[i] \in S
    OBVIOUS
  <2>2. /\ SubSeq(u, 1, k) \in Seq(S)
        /\ Len(SubSeq(u, 1, k)) = IF 1 <= k THEN k - 1 + 1 ELSE 0
        /\ \A i \in 1..(k - 1 + 1) : SubSeq(u, 1, k)[i] = u[1 + i - 1]
    BY <2>1, SubSeqProperties
  <2>3. ASSUME NEW i \in 1..k PROVE SubSeq(u, 1, k)[i] = u[i]
    <3>1. i \in 1..(k - 1 + 1) /\ 1 + i - 1 = i
      OBVIOUS
    <3> QED
      BY <2>2, <3>1
  <2>4. Len(SubSeq(u, 1, k)) = k
    BY <2>2
  <2> QED
    BY <1>4, <2>2, <2>3, <2>4
<1> QED
  BY <1>4, <1>5

\* A snapshot stored, or lost and remembered as missed, and a coverage.
LEMMA CheckTracks ==
  ASSUME Ingested, MetricsOK, CheckOrderPipeline
  PROVE  /\ rows' \in Seq(Row) /\ Len(rows') <= MaxRows
         /\ lately' \in Seq(Nat) /\ Len(lately') <= MaxRows + 1
         /\ missed' \in BOOLEAN /\ Tracked'
<1>1. PICK row : /\ row \in Row
                 /\ lately' = Latest(<<row.coverage>> \o lately, MaxRows + 1)
                 /\ \/ rows' = Latest(<<row>> \o rows, MaxRows) /\ missed' = missed
                    \/ missed' = TRUE /\ rows' = rows
  <2>1. PICK v : v = PipelineVisibility(Classifications)
    OBVIOUS
  <2>2. PICK row : row = [coverage |-> CoverageRatio(v), correlation |-> CorrelationQuality]
    OBVIOUS
  <2>3. row \in Row
    BY <2>2, RatiosTyped DEF Row, MetricsOK
  <2> QED
    BY <2>1, <2>2, <2>3 DEF CheckOrderPipeline
<1>2. PICK r, l : r = rows /\ l = lately
  OBVIOUS
<1>3. PICK rn, ln : rn = rows' /\ ln = lately'
  OBVIOUS
<1>4. /\ MaxRows \in Nat /\ MaxRows + 1 \in Nat /\ r \in Seq(Row) /\ l \in Seq(Nat)
      /\ row.coverage \in Nat /\ Len(r) <= MaxRows /\ missed \in BOOLEAN
      /\ ~missed => Len(r) <= Len(l) /\ \A i \in 1..Len(r) : r[i].coverage = l[i]
  BY <1>1, <1>2, MetricsAssumption DEF MetricsOK, Row, Tracked
<1>5. /\ ln \in Seq(Nat)
      /\ Len(ln) = IF Len(l) + 1 < MaxRows + 1 THEN Len(l) + 1 ELSE MaxRows + 1
      /\ \A i \in 1..Len(ln) : ln[i] = IF i = 1 THEN row.coverage ELSE l[i - 1]
  <2>1. PICK u : u = <<row.coverage>> \o l
    OBVIOUS
  <2>2. /\ u \in Seq(Nat) /\ Len(u) = Len(l) + 1
        /\ \A i \in 1..Len(u) : u[i] = IF i = 1 THEN row.coverage ELSE l[i - 1]
    BY <1>4, <2>1
  <2>3. ln = Latest(u, MaxRows + 1)
    BY <1>1, <1>2, <1>3, <2>1
  <2>4. /\ ln \in Seq(Nat)
        /\ Len(ln) = IF Len(u) < MaxRows + 1 THEN Len(u) ELSE MaxRows + 1
        /\ \A i \in 1..Len(ln) : ln[i] = u[i]
    BY <1>4, <2>2, <2>3, LatestOf
  <2>5. 1..Len(ln) \subseteq 1..Len(u) /\ Len(u) \in Nat /\ Len(l) \in Nat
    BY <1>4, <2>2, <2>4
  <2>6. \A i \in 1..Len(ln) : ln[i] = IF i = 1 THEN row.coverage ELSE l[i - 1]
    BY <2>2, <2>4, <2>5
  <2> QED
    BY <2>2, <2>4, <2>6
<1>6. CASE rows' = Latest(<<row>> \o rows, MaxRows) /\ missed' = missed
  <2>1. rn = Latest(<<row>> \o r, MaxRows)
    BY <1>2, <1>3, <1>6
  <2>2. /\ rn \in Seq(Row)
        /\ Len(rn) = IF Len(r) + 1 < MaxRows THEN Len(r) + 1 ELSE MaxRows
        /\ \A i \in 1..Len(rn) : rn[i] = IF i = 1 THEN row ELSE r[i - 1]
    <3>1. PICK u : u = <<row>> \o r
      OBVIOUS
    <3>2. /\ u \in Seq(Row) /\ Len(u) = Len(r) + 1
          /\ \A i \in 1..Len(u) : u[i] = IF i = 1 THEN row ELSE r[i - 1]
      BY <1>1, <1>4, <3>1
    <3>3. rn = Latest(u, MaxRows)
      BY <2>1, <3>1
    <3>4. /\ rn \in Seq(Row)
          /\ Len(rn) = IF Len(u) < MaxRows THEN Len(u) ELSE MaxRows
          /\ \A i \in 1..Len(rn) : rn[i] = u[i]
      BY <1>4, <3>2, <3>3, LatestOf
    <3>5. 1..Len(rn) \subseteq 1..Len(u) /\ Len(u) \in Nat /\ Len(r) \in Nat
      BY <1>4, <3>2, <3>4
    <3>6. \A i \in 1..Len(rn) : rn[i] = IF i = 1 THEN row ELSE r[i - 1]
      BY <3>2, <3>4, <3>5
    <3> QED
      BY <3>2, <3>4, <3>6
  <2>3. ASSUME ~missed PROVE Len(rn) <= Len(ln) /\ \A i \in 1..Len(rn) : rn[i].coverage = ln[i]
    <3>1. Len(r) \in Nat /\ Len(l) \in Nat /\ Len(r) <= Len(l)
      BY <1>4, <2>3
    <3>2. Len(rn) <= Len(ln)
      <4>1. PICK b \in Nat, x \in Nat, y \in Nat : b = MaxRows /\ x = Len(r) /\ y = Len(l)
        BY <1>4, <3>1
      <4>2. x <= y /\ Len(rn) = (IF x + 1 < b THEN x + 1 ELSE b)
            /\ Len(ln) = (IF y + 1 < b + 1 THEN y + 1 ELSE b + 1)
        BY <1>5, <2>2, <3>1, <4>1
      <4> QED
        BY <4>2
    <3>3. ASSUME NEW i \in 1..Len(rn) PROVE rn[i].coverage = ln[i]
      <4>1. i \in 1..Len(ln)
        BY <2>2, <1>5, <3>2
      <4>2. CASE i = 1
        BY <1>5, <2>2, <4>1, <4>2
      <4>3. CASE i # 1
        <5>1. i - 1 \in 1..Len(r)
          BY <1>4, <2>2, <3>1, <4>3
        <5>2. rn[i] = r[i - 1] /\ ln[i] = l[i - 1]
          BY <1>5, <2>2, <4>1, <4>3
        <5> QED
          BY <1>4, <2>3, <5>1, <5>2
      <4> QED
        BY <4>2, <4>3
    <3> QED
      BY <3>2, <3>3
  <2>4. Tracked'
    BY <1>3, <1>6, <2>3 DEF Tracked
  <2>5. Len(rn) <= MaxRows /\ Len(ln) <= MaxRows + 1
    <3>1. Len(r) \in Nat /\ Len(l) \in Nat
      BY <1>4
    <3>2. Len(rn) <= MaxRows
      BY <1>4, <2>2, <3>1
    <3>3. Len(ln) <= MaxRows + 1
      BY <1>4, <1>5, <3>1
    <3> QED
      BY <3>2, <3>3
  <2> QED
    BY <1>3, <1>4, <1>5, <1>6, <2>2, <2>4, <2>5
<1>7. CASE missed' = TRUE /\ rows' = rows
  <2>1. Len(ln) <= MaxRows + 1
    BY <1>4, <1>5
  <2> QED
    BY <1>2, <1>3, <1>4, <1>5, <1>7, <2>1 DEF Tracked
<1> QED
  BY <1>1, <1>6, <1>7

\* The baseline is the coverage of a check that no lost snapshot has displaced.
LEMMA CheckSustains ==
  ASSUME Ingested, MetricsOK, CheckOrderPipeline
  PROVE  TrendIsSustained'
<1> SUFFICES ASSUME "coverage_degradation_trend" \in alerts', ~missed'
             PROVE  \E i \in DOMAIN lately' : \A j \in 1..3 : lately'[j] <= lately'[i] - 15
  BY DEF TrendIsSustained
<1>1. PICK cov : /\ cov \in Nat
                 /\ lately' = Latest(<<cov>> \o lately, MaxRows + 1)
                 /\ Sustained(cov, Column("coverage"), 15)
  <2>1. PICK v : v = PipelineVisibility(Classifications)
    OBVIOUS
  <2>2. PICK trends \in TrendAlerts(CoverageRatio(v), CorrelationQuality) :
          alerts' \subseteq trends \cup {"observability_schema_drift"} \cup {a.trade : a \in Unfilled}
    BY <2>1 DEF CheckOrderPipeline
  <2>3. \A a \in Unfilled : a.trade # "coverage_degradation_trend"
    <3>1. \A a \in Unfilled : a \in Audit
      BY DEF Unfilled, Correlatable, MetricsOK, SignalAudits, Ingested, TableOK
    <3>2. \A x \in TradeIds : x # "coverage_degradation_trend"
      BY MetricsAssumption DEF TradeIds, Trade
    <3> QED
      BY <3>1, <3>2 DEF Audit
  <2>4. "coverage_degradation_trend" \in trends
    BY <2>2, <2>3
  <2>5. Sustained(CoverageRatio(v), Column("coverage"), 15)
    BY <2>4 DEF TrendAlerts
  <2>6. lately' = Latest(<<CoverageRatio(v)>> \o lately, MaxRows + 1)
    BY <2>1 DEF CheckOrderPipeline
  <2> QED
    BY <2>5, <2>6, RatiosTyped DEF MetricsOK
<1>2. MaxRows \in Nat /\ MaxRows + 1 \in Nat /\ MinRows >= 2 /\ MinRows \in Nat
  BY MetricsAssumption
<1>3. PICK l, ln, n : l = lately /\ ln = lately' /\ n = Len(rows)
  OBVIOUS
<1>4. PICK past : past = Column("coverage")
  OBVIOUS
<1>5. /\ past \in Seq(Nat) /\ Len(past) = n /\ n \in Nat /\ n <= MaxRows
      /\ l \in Seq(Nat) /\ n <= Len(l) /\ \A i \in 1..n : past[i] = l[i]
  <2>1. /\ rows \in Seq(Row) /\ lately \in Seq(Nat) /\ Len(rows) <= MaxRows
        /\ Len(rows) <= Len(lately) /\ \A i \in 1..Len(rows) : rows[i].coverage = lately[i]
    BY DEF CheckOrderPipeline, MetricsOK, Tracked
  <2>2. \A i \in 1..Len(rows) : rows[i].coverage \in Nat
    BY <2>1 DEF Row
  <2>3. past = [i \in 1..n |-> rows[i].coverage] /\ n \in Nat
    BY <1>3, <1>4, <2>1 DEF Column
  <2> QED
    BY <1>3, <2>1, <2>2, <2>3
<1>6. /\ Len(past) >= 2
      /\ cov - P95(past) <= -15 /\ past[1] - P95(past) <= -15 /\ past[2] - P95(past) <= -15
  BY <1>1, <1>2, <1>4, <1>5 DEF Sustained
<1>7. PICK k \in 1..Len(past) : P95(past) = past[k]
  <2>1. past # <<>>
    BY <1>6
  <2> QED
    BY <1>5, <2>1, BaselineIsPast
<1>8. /\ ln \in Seq(Nat)
      /\ Len(ln) = IF Len(l) + 1 < MaxRows + 1 THEN Len(l) + 1 ELSE MaxRows + 1
      /\ \A i \in 1..Len(ln) : ln[i] = IF i = 1 THEN cov ELSE l[i - 1]
  <2>1. PICK u : u = <<cov>> \o l
    OBVIOUS
  <2>2. /\ u \in Seq(Nat) /\ Len(u) = Len(l) + 1
        /\ \A i \in 1..Len(u) : u[i] = IF i = 1 THEN cov ELSE l[i - 1]
    BY <1>1, <1>5, <2>1
  <2>3. ln = Latest(u, MaxRows + 1)
    BY <1>1, <1>3, <2>1
  <2>4. /\ ln \in Seq(Nat)
        /\ Len(ln) = IF Len(u) < MaxRows + 1 THEN Len(u) ELSE MaxRows + 1
        /\ \A i \in 1..Len(ln) : ln[i] = u[i]
    BY <1>2, <2>2, <2>3, LatestOf
  <2>5. 1..Len(ln) \subseteq 1..Len(u) /\ Len(u) \in Nat /\ Len(l) \in Nat
    <3>1. Len(u) \in Nat /\ Len(l) \in Nat /\ Len(ln) \in Nat
      BY <1>5, <2>2, <2>4
    <3>2. Len(ln) <= Len(u)
      BY <1>2, <2>4, <3>1
    <3> QED
      BY <3>1, <3>2
  <2>6. \A i \in 1..Len(ln) : ln[i] = IF i = 1 THEN cov ELSE l[i - 1]
    BY <2>2, <2>4, <2>5
  <2> QED
    BY <2>2, <2>4, <2>6
<1>9. Len(ln) >= n + 1 /\ Len(ln) \in Nat /\ n >= 2 /\ n \in Nat
  BY <1>2, <1>5, <1>6, <1>8
<1>10. /\ ln[1] = cov
       /\ \A i \in 1..n : i + 1 \in 1..Len(ln) /\ ln[i + 1] = past[i] /\ past[i] \in Nat
  <2>1. ln[1] = cov
    <3>1. 1 \in 1..Len(ln)
      BY <1>9
    <3> QED
      BY <1>8, <3>1
  <2>2. ASSUME NEW i \in 1..n PROVE i + 1 \in 1..Len(ln) /\ ln[i + 1] = past[i] /\ past[i] \in Nat
    <3>1. i + 1 \in 1..Len(ln) /\ i + 1 # 1 /\ (i + 1) - 1 = i
      BY <1>5, <1>9
    <3>2. ln[i + 1] = l[i]
      BY <1>8, <3>1
    <3> QED
      BY <1>5, <3>1, <3>2
  <2> QED
    BY <2>1, <2>2
<1>11. PICK m : m = k + 1
  OBVIOUS
<1>12. m \in DOMAIN ln /\ ln[m] = past[k] /\ past[k] \in Nat
  <2>1. k \in 1..n /\ DOMAIN ln = 1..Len(ln)
    BY <1>5, <1>7, <1>8
  <2> QED
    BY <1>10, <1>11, <2>1
<1>13. ln[2] = past[1] /\ ln[3] = past[2] /\ past[1] \in Nat /\ past[2] \in Nat
  <2>1. 1 \in 1..n /\ 2 \in 1..n /\ 1 + 1 = 2 /\ 2 + 1 = 3
    BY <1>5, <1>9
  <2> QED
    BY <1>10, <2>1
<1>14. ln[1] <= ln[m] - 15 /\ ln[2] <= ln[m] - 15 /\ ln[3] <= ln[m] - 15
  BY <1>1, <1>6, <1>7, <1>10, <1>12, <1>13
<1> QED
  <2>1. \A j \in 1..3 : j = 1 \/ j = 2 \/ j = 3
    OBVIOUS
  <2> QED
    BY <1>3, <1>12, <1>14, <2>1

(***************************************************************************)
(* The invariant.                                                          *)
(***************************************************************************)
\* A step that leaves the metrics alone keeps what is said of them.
LEMMA MetricsStay ==
  ASSUME MetricsOK, Kept, UNCHANGED metricVars
  PROVE  MetricsOK'
  BY DEF MetricsOK, Kept, metricVars, Tracked, TrendIsSustained

LEMMA CheckKept ==
  ASSUME IInv, CheckOrderPipeline
  PROVE  IInv'
<1>1. Kept
  <2>1. UNCHANGED <<ingestVars, feedVars>> /\ (UNCHANGED budget \/ \E k : Spend(k))
    BY DEF CheckOrderPipeline, Failing
  <2> QED
    BY <2>1, IdleKept DEF IInv
<1>2. ripe' \subseteq SignalAudits'
  BY <1>1 DEF CheckOrderPipeline, Kept, IInv, MetricsOK
<1> QED
  BY <1>1, <1>2, CheckTracks, CheckSustains DEF IInv, Kept, MetricsOK

LEMMA InitIngested == ASSUME IngestInit PROVE Ingested
<1>0. /\ Orders[1] \in OrderSet /\ Budgeted
      /\ wire = <<>> /\ handling = {} /\ answer = <<>> /\ at = 0
  BY FirstOrder, SocketAssumption DEF IngestInit, Budgeted
<1>1. CASE Fresh
  <2>1. FeedTypeOK
    BY <1>0, <1>1 DEF Fresh, FeedInit, FeedTypeOK, Budgeted
  <2>2. TableOK /\ NoPolledDuplicate /\ HandlersOK
    BY <1>0, <1>1, FS_EmptySet DEF Fresh, TableOK, NoPolledDuplicate, HandlersOK
  <2>3. PollOK
    BY <1>0, <1>1 DEF Fresh, PollOK, Polling, Statuses, Ended
  <2> QED
    BY <1>0, <2>1, <2>2, <2>3 DEF Ingested
<1>2. CASE EntryRecorded
  <2>1. FeedTypeOK
    <3>1. (CHOOSE s \in Sockets : TRUE) \in Sockets
      BY SocketAssumption
    <3> QED
      BY <1>0, <1>2, <3>1 DEF EntryRecorded, FeedTypeOK, Budgeted
  <2>2. PICK entry : entry = Orders[1] /\ entry \in OrderSet
    BY <1>0
  <2>3. PICK a, b, c :
          /\ a = [type |-> "ORDER_CREATED", trade |-> Trade, order |-> NoOrder,
                  side |-> Side[entry], at |-> 1, via |-> "socket", of |-> entry]
          /\ b = [type |-> "ORDER_OPEN", trade |-> Trade, order |-> entry,
                  side |-> Side[entry], at |-> 2, via |-> "poll", of |-> entry]
          /\ c = [type |-> "ORDER_FILLED", trade |-> Trade, order |-> entry,
                  side |-> Side[entry], at |-> 3, via |-> "socket", of |-> entry]
    OBVIOUS
  <2>4. table = {a, b, c} /\ now = 3
    BY <1>2, <2>2, <2>3 DEF EntryRecorded
  <2>5. /\ a \in Audit /\ b \in Audit /\ c \in Audit
        /\ a.via = "socket" /\ c.via = "socket" /\ Named(b)
        /\ a.at <= 3 /\ b.at <= 3 /\ c.at <= 3
    BY <2>2, <2>3 DEF Audit, Types, StateValue, TradeIds, Sides, Named
  <2>6. IsFiniteSet(table)
    <3>1. IsFiniteSet({a} \cup {b})
      BY FS_Singleton, FS_AddElement
    <3>2. IsFiniteSet(({a} \cup {b}) \cup {c})
      BY <3>1, FS_AddElement
    <3>3. table = ({a} \cup {b}) \cup {c}
      BY <2>4
    <3> QED
      BY <3>2, <3>3
  <2>7. TableOK
    BY <2>4, <2>5, <2>6 DEF TableOK, Named
  <2>8. NoPolledDuplicate
    BY <2>4, <2>5 DEF NoPolledDuplicate
  <2>9. PollOK
    BY <1>0, <1>2 DEF EntryRecorded, PollOK, Polling, Statuses, Ended
  <2>10. HandlersOK
    BY <1>0 DEF HandlersOK
  <2> QED
    BY <1>0, <2>1, <2>7, <2>8, <2>9, <2>10 DEF Ingested
<1> QED
  BY <1>1, <1>2 DEF IngestInit

LEMMA InitInv == Init => IInv
<1> SUFFICES ASSUME IngestInit, MetricsInit PROVE MetricsOK
  BY InitIngested DEF Init, IInv
<1>1. PICK n \in {0, MaxRows} :
        /\ rows = [i \in 1..n |-> [coverage |-> 100, correlation |-> 100]]
        /\ lately = [i \in 1..n |-> 100]
  BY DEF MetricsInit
<1>2. n \in Nat /\ n <= MaxRows /\ MaxRows \in Nat
  BY MetricsAssumption
<1>3. rows \in Seq(Row) /\ Len(rows) = n /\ lately \in Seq(Nat) /\ Len(lately) = n
  BY <1>1, <1>2 DEF Row
<1>4. Tracked
  BY <1>1, <1>2, <1>3 DEF Tracked
<1>5. ripe = {} /\ alerts = {} /\ missed = FALSE
  BY DEF MetricsInit
<1>6. Len(rows) <= MaxRows /\ Len(lately) <= MaxRows + 1
  BY <1>2, <1>3
<1> QED
  BY <1>3, <1>4, <1>5, <1>6 DEF MetricsOK, TrendIsSustained

LEMMA StepInv == IInv /\ [Next]_allVars => IInv'
<1> SUFFICES ASSUME IInv, [Next]_allVars PROVE IInv'
  OBVIOUS
<1>1. CASE IngestNext /\ UNCHANGED metricVars
  BY <1>1, IngestNextKept, MetricsStay DEF IInv, Kept
<1>2. CASE CheckOrderPipeline
  BY <1>2, CheckKept
<1>3. CASE Wake
  <2>1. Kept
    BY <1>3, IdleKept DEF Wake, IInv
  <2> QED
    BY <1>3, <2>1 DEF Wake, IInv, Kept, MetricsOK, Tracked, TrendIsSustained
<1>4. ASSUME NEW g \in Signals, Signal(g) PROVE IInv'
  BY <1>4, SignalKept, MetricsStay DEF IInv, Kept, Signal
<1>5. ASSUME NEW a \in SignalAudits, Ripen(a) PROVE IInv'
  <2>1. Kept
    BY <1>5, IdleKept DEF Ripen, IInv
  <2> QED
    BY <1>5, <2>1 DEF Ripen, IInv, Kept, MetricsOK, Tracked, TrendIsSustained
<1>6. CASE UNCHANGED allVars
  <2>1. UNCHANGED <<ingestVars, feedVars>> /\ UNCHANGED budget /\ UNCHANGED metricVars
    BY <1>6 DEF allVars
  <2>2. Kept
    BY <2>1, IdleKept DEF IInv
  <2> QED
    BY <2>1, <2>2, MetricsStay DEF IInv, Kept
<1> QED
  BY <1>1, <1>2, <1>3, <1>4, <1>5, <1>6 DEF Next

THEOREM Invariance == Spec => []IInv
  BY InitInv, StepInv, PTL DEF Spec

\* The table holds events that were observed by now, the statuses are the
\* exchange's, and the look-backs keep to their windows.
THEOREM IngestionTyped == Spec => []TypeOK
<1>1. IInv => TypeOK
  <2> SUFFICES ASSUME IInv PROVE TypeOK
    OBVIOUS
  <2>1. \A i \in DOMAIN wire : wire[i].order \in OrderSet
    <3>1. wire \in Seq(Message)
      BY DEF IInv, Ingested
    <3>2. \A i \in DOMAIN wire : wire[i] \in Message
      BY <3>1
    <3> QED
      BY <3>2 DEF Message
  <2>2. \A r \in table : r.at \in 1..now /\ r.type \in Types
    BY DEF IInv, Ingested, TableOK, Audit, PollOK
  <2> QED
    BY <2>1, <2>2 DEF IInv, Ingested, PollOK, MetricsOK, TypeOK, IngestTypeOK, Statuses
<1> QED
  BY <1>1, Invariance, PTL

\* Polling stores an event of an order once, however often the process restarts
\* and forgets its cache, unless a look-up failed.
THEOREM PolledOnce == Spec => []NoPolledDuplicate
<1>1. IInv => NoPolledDuplicate
  BY DEF IInv, Ingested
<1> QED
  BY <1>1, Invariance, PTL

\* Coverage is said to be degrading only if it was low at the last three checks.
THEOREM TrendsAreSustained == Spec => []TrendIsSustained
<1>1. IInv => TrendIsSustained
  BY DEF IInv, MetricsOK
<1> QED
  BY <1>1, Invariance, PTL

(***************************************************************************)
(* The story the records tell.                                             *)
(***************************************************************************)
\* No taint but that of a lost record, and every status spelled as the code knows it.
Clean ==
  \A o \in OrderSet :
    /\ \A why \in {"raced", "failed", "misbound", "crowded"} : <<o, why>> \notin tainted
    /\ ~Misspelt(o)

\* The records there are, and those about to be.
Seen == table \cup handling

\* p is an exit that was placed before the exit o.
Rival(p, o) == Earlier(p, o) /\ p # Orders[1]

Ends(r) == StateValue[r.type] = Terminal

\* What a status lets be said of its order.
Since(type, s) ==
  \/ type \in {"ORDER_CREATED", "ORDER_OPEN"} /\ s # "none"
  \/ type = "ORDER_FILLED" /\ s = "closed"
  \/ type = "ORDER_CANCELLED" /\ s = "cancelled"

\* A record is true of the order it is about, and names no other.
Truthful(r) ==
  \/ r.type = "SIGNAL" /\ r.of = NoOrder /\ r.order = NoOrder
  \/ /\ r.of \in OrderSet /\ r.trade = Trade /\ r.side = Side[r.of]
     /\ r.order \in {NoOrder, r.of}
     /\ r.type = "ORDER_CREATED" => r.order = NoOrder
     /\ r.type = "ORDER_OPEN" => r.order = r.of
     /\ Since(r.type, status[r.of])

Told ==
  /\ \A r \in Seen : Truthful(r)
  /\ \A r \in handling : r.order = NoOrder
  /\ \A i \in DOMAIN wire :
       wire[i].type # "ORDER_OPEN" /\ Since(wire[i].type, status[wire[i].order])

Precedes(r, q) ==
  /\ r.at < q.at
  /\ StateValue[r.type] <= StateValue[q.type] /\ StateValue[r.type] < Terminal

\* The records of an order are in the order of its life, and one ends it.
InOrder ==
  \A r, q \in Seen :
    r.of = q.of /\ r.of \in OrderSet => r = q \/ Precedes(r, q) \/ Precedes(q, r)

\* What the socket has still to tell of an order is newer than all that is recorded.
Pending ==
  /\ \A i \in DOMAIN wire, r \in Seen :
       r.of = wire[i].order => StateValue[r.type] < StateValue[wire[i].type]
  /\ \A i, j \in DOMAIN wire :
       i < j /\ wire[i].order = wire[j].order =>
         StateValue[wire[i].type] < StateValue[wire[j].type]

\* Nothing is told of an order while a poll is about it.
Quiet ==
  \A o \in OrderSet : BeingPolled(o) =>
    /\ \A i \in DOMAIN wire : wire[i].order # o
    /\ \A r \in handling : r.of # o

Before(s, t) == s = t \/ s = "none" \/ (s = "open" /\ t \in Ended)

\* The cache is behind the answer, and the answer behind the exchange.
Behind ==
  \A o \in OrderSet :
    /\ Before(cache[o], status[o])
    /\ Polling => Before(cache[o], answer[o]) /\ Before(answer[o], status[o])

Unended(o) == \A r \in Seen : r.of = o => ~Ends(r)

\* What the poll under way is about to record of an order is news of it, and
\* later than all that is recorded of it and of its rivals.
News ==
  /\ inserting => at > 0
  /\ \A o \in OrderSet : BeingPolled(o) =>
       /\ answer[o] = "open" => Unended(o)
       /\ at > 0 => \A r \in Seen : r.of = o \/ Rival(r.of, o) => r.at < at
       /\ inserting /\ AtOrder(o) => answer[o] \in Ended /\ Unended(o)

\* An exit is placed when the end of those before it is on record ...
Over ==
  \A p, o \in OrderSet :
    Rival(p, o) /\ status[o] # "none" => \E q \in table : q.order = p /\ Ends(q)

\* ... so the records of one exit come before those of the next.
Sorted == \A r, q \in Seen : Rival(r.of, q.of) => r.at < q.at

Story == Told /\ InOrder /\ Pending /\ Quiet /\ Behind /\ News /\ Over /\ Sorted

\* Every record that a step leaves stands for one of the same event before it.
Shadowed ==
  \A r \in Seen' : \E q \in Seen : q.of = r.of /\ q.type = r.type /\ q.at = r.at

\* The values of the types that are recorded.
LEMMA Values ==
  /\ \A t \in Types : StateValue[t] \in 0..6
  /\ "none" \notin Types
  /\ StateValue["SIGNAL"] = 0 /\ StateValue["ORDER_CREATED"] = 1 /\ StateValue["ORDER_OPEN"] = 4
  /\ StateValue["ORDER_FILLED"] = 6 /\ StateValue["ORDER_CANCELLED"] = 6
  /\ {"SIGNAL", "ORDER_CREATED", "ORDER_OPEN", "ORDER_FILLED", "ORDER_CANCELLED"} \subseteq Types
  BY DEF Types, StateValue

\* The records and the messages are typed.
LEMMA SeenTypes ==
  ASSUME Ingested
  PROVE  /\ \A r \in Seen : r \in Audit /\ r.at <= now /\ r.type \in Types
                            /\ r.at \in Nat /\ StateValue[r.type] \in 0..6
         /\ \A i \in DOMAIN wire : wire[i] \in Message /\ wire[i].order \in OrderSet
                                   /\ StateValue[wire[i].type] \in 0..6
         /\ now \in Nat /\ at \in Nat /\ wire \in Seq(Message)
<1>1. \A r \in Seen : r \in Audit /\ r.at <= now
  BY DEF Ingested, TableOK, HandlersOK, Seen
<1>2. wire \in Seq(Message) /\ now \in Nat /\ at \in Nat
  BY DEF Ingested, PollOK
<1>3. \A i \in DOMAIN wire : wire[i] \in Message
  BY <1>2
<1> QED
  BY <1>1, <1>2, <1>3, Values DEF Audit, Message

\* Orders are told apart by their places.
LEMMA Rivals ==
  ASSUME NEW p, NEW o, Rival(p, o)
  PROVE  p \in OrderSet /\ o \in OrderSet /\ p # o /\ ~Rival(o, p)
<1>1. PICK i \in DOMAIN Orders, j \in DOMAIN Orders : i < j /\ Orders[i] = p /\ Orders[j] = o
  BY DEF Rival, Earlier
<1>2. DOMAIN Orders \subseteq Nat
  BY IngestAssumption
<1> QED
  BY <1>1, <1>2, FirstOrder, IngestAssumption DEF Rival, Earlier

\* Two different orders of one side are rivals, one way or the other.
LEMMA SideRivals ==
  ASSUME NEW p \in OrderSet, NEW o \in OrderSet, p # o, Side[p] = Side[o]
  PROVE  Rival(p, o) \/ Rival(o, p)
<1>1. PICK i \in DOMAIN Orders, j \in DOMAIN Orders : Orders[i] = p /\ Orders[j] = o
  BY IngestAssumption DEF OrderSet, ToSet
<1>2. i \in Nat /\ j \in Nat /\ i # j /\ i > 0 /\ j > 0 /\ 1 \in DOMAIN Orders
  BY <1>1, IngestAssumption
<1>3. i # 1 /\ j # 1
  BY <1>1, <1>2, IngestAssumption
<1>4. p # Orders[1] /\ o # Orders[1]
  BY <1>1, <1>2, <1>3, IngestAssumption
<1> QED
  BY <1>1, <1>2, <1>4 DEF Rival, Earlier

(***************************************************************************)
(* What a story says.                                                      *)
(***************************************************************************)
\* A record that ends an order has the type of the status the order ended with.
LEMMA EndTold ==
  ASSUME Ingested, Told, NEW r \in Seen, r.of \in OrderSet, Ends(r)
  PROVE  status[r.of] \in {"closed", "cancelled"} /\ r.type = EventType(status[r.of])
<1>1. Truthful(r) /\ r.type # "SIGNAL" /\ r.of # NoOrder
  BY Values, IngestAssumption DEF Told, Ends, Terminal
<1>2. r.type \in {"ORDER_FILLED", "ORDER_CANCELLED"}
  BY <1>1, Values DEF Truthful, Since, Ends, Terminal
<1> QED
  BY <1>1, <1>2 DEF Truthful, Since, EventType

\* An order something is recorded of was placed.
LEMMA ToldPlaced ==
  ASSUME Told, NEW r \in Seen, r.of \in OrderSet
  PROVE  status[r.of] # "none" /\ r.type # "SIGNAL"
  BY IngestAssumption DEF Told, Truthful, Since

\* Once an exit is placed, those before it are over and done with: no message of
\* theirs is on its way, and a poll that is about them has found their end.
LEMMA RivalDone ==
  ASSUME Ingested, Story, NEW p, NEW o, Rival(p, o), status[o] # "none"
  PROVE  /\ \E q \in table : q.of = p /\ q.order = p /\ Ends(q)
                             /\ q.type = EventType(status[p])
         /\ status[p] \in {"closed", "cancelled"}
         /\ \A i \in DOMAIN wire : wire[i].order # p
         /\ BeingPolled(p) => ~inserting \/ ~AtOrder(p)
         /\ BeingPolled(p) => answer[p] = status[p]
<1>1. p \in OrderSet /\ o \in OrderSet
  BY Rivals
<1>2. PICK q \in table : q.order = p /\ Ends(q)
  BY <1>1 DEF Story, Over
<1>3. q \in Seen /\ q.of = p
  <2>1. q \in Seen /\ Truthful(q)
    BY DEF Story, Told, Seen
  <2> QED
    BY <1>1, <1>2, <2>1, IngestAssumption DEF Truthful
<1>4. status[p] \in {"closed", "cancelled"} /\ q.type = EventType(status[p])
  BY <1>1, <1>2, <1>3, EndTold DEF Story
<1>5. \A i \in DOMAIN wire : wire[i].order # p
  <2> SUFFICES ASSUME NEW i \in DOMAIN wire, wire[i].order = p PROVE FALSE
    OBVIOUS
  <2>1. StateValue[q.type] < StateValue[wire[i].type]
    BY <1>3 DEF Story, Pending
  <2> QED
    BY <1>2, <2>1, SeenTypes DEF Ends, Terminal
<1>6. ASSUME BeingPolled(p) PROVE (~inserting \/ ~AtOrder(p)) /\ answer[p] = status[p]
  <2>1. ~Unended(p)
    BY <1>2, <1>3 DEF Unended
  <2>2. answer[p] # "open" /\ ~(inserting /\ AtOrder(p))
    BY <1>1, <1>6, <2>1 DEF Story, News
  <2>3. Before(cache[p], answer[p]) /\ Before(answer[p], status[p]) /\ answer[p] # cache[p]
    BY <1>1, <1>6 DEF Story, Behind, BeingPolled
  <2> QED
    BY <2>2, <2>3 DEF Before, Ended, Cancelled
<1> QED
  BY <1>2, <1>3, <1>4, <1>5, <1>6

\* An order a poll is about was placed, and what its answer says is so.
LEMMA PolledPlaced ==
  ASSUME Behind, NEW o \in OrderSet, BeingPolled(o), ~Misspelt(o)
  PROVE  /\ status[o] # "none" /\ answer[o] # "none"
         /\ Since(EventType(answer[o]), status[o])
         /\ answer[o] \in Ended => status[o] = answer[o]
<1>1. Before(cache[o], answer[o]) /\ Before(answer[o], status[o]) /\ answer[o] # cache[o]
  BY DEF Behind, BeingPolled
<1> QED
  BY <1>1 DEF Before, Since, EventType, Ended, Cancelled, Misspelt

(***************************************************************************)
(* What a step leaves of a story.                                          *)
(***************************************************************************)
\* A step that adds no record leaves what is pending pending and exits sorted.
LEMMA ShadowsKept ==
  ASSUME Pending, Sorted, Shadowed, wire' \in {wire, <<>>}
  PROVE  Pending' /\ Sorted'
<1>1. Sorted'
  BY DEF Sorted, Shadowed
<1>2. Pending'
  <2>1. CASE wire' = wire
    BY <2>1 DEF Pending, Shadowed
  <2>2. CASE wire' = <<>>
    BY <2>2 DEF Pending
  <2> QED
    BY <2>1, <2>2
<1> QED
  BY <1>1, <1>2

LEMMA SubsetShadowed ==
  ASSUME Seen' \subseteq Seen
  PROVE  Shadowed
  BY DEF Shadowed

\* No record appears, and none that names an order goes.
LEMMA RecordsKept ==
  ASSUME Story, Seen' \subseteq Seen, handling' \subseteq handling, wire' \in {wire, <<>>},
         status' = status, \A q \in table : q.order # NoOrder => q \in table'
  PROVE  Told' /\ InOrder' /\ Pending' /\ Over' /\ Sorted'
<1>1. Told'
  <2>1. \A r \in Seen' : Truthful(r)'
    BY DEF Story, Told, Truthful
  <2>2. CASE wire' = wire
    BY <2>1, <2>2 DEF Story, Told
  <2>3. CASE wire' = <<>>
    BY <2>1, <2>3 DEF Story, Told
  <2> QED
    BY <2>2, <2>3
<1>2. InOrder'
  BY DEF Story, InOrder
<1>3. Pending' /\ Sorted'
  BY ShadowsKept, SubsetShadowed DEF Story
<1>4. Over'
  BY IngestAssumption DEF Story, Over
<1> QED
  BY <1>1, <1>2, <1>3, <1>4

\* The poll, if there is one, makes no progress.
LEMMA PollKept ==
  ASSUME Story, Shadowed, handling' \subseteq handling, wire' \in {wire, <<>>},
         status' = status, UNCHANGED <<cache, answer, at, inserting>>
  PROVE  Quiet' /\ Behind' /\ News'
<1>1. \A o : (BeingPolled(o)' <=> BeingPolled(o)) /\ (AtOrder(o)' <=> AtOrder(o))
  BY DEF AtOrder, BeingPolled, Polling
<1>2. \A o : Unended(o) => Unended(o)'
  BY DEF Unended, Ends, Shadowed
<1>3. Quiet'
  <2>1. CASE wire' = wire
    BY <1>1, <2>1 DEF Story, Quiet
  <2>2. CASE wire' = <<>>
    BY <1>1, <2>2 DEF Story, Quiet
  <2> QED
    BY <2>1, <2>2
<1>4. Behind'
  BY DEF Story, Behind, Polling
<1>5. News'
  BY <1>1, <1>2 DEF Story, News, Shadowed
<1> QED
  BY <1>3, <1>4, <1>5

\* The poll is done with an order; it goes on with the others, or it ends.
LEMMA GoLeaves ==
  ASSUME Ingested, NEW o \in OrderSet, AtOrder(o), Go(o)
  PROVE  /\ \A p \in OrderSet : BeingPolled(p)' =>
              BeingPolled(p) /\ p # o /\ answer' = answer /\ at' = at
         /\ Polling' => answer' = answer
         /\ inserting' = FALSE /\ at > 0 /\ Polling
         /\ cache' = [cache EXCEPT ![o] = answer[o]]
<1>1. cache \in [OrderSet -> Statuses]
  BY DEF Ingested, PollOK
<1>2. /\ cache' = [cache EXCEPT ![o] = answer[o]] /\ inserting' = FALSE
      /\ \/ answer' = answer /\ at' = at
         \/ answer' = <<>>
  BY DEF Go, GoOn
<1>3. Polling /\ at > 0
  BY DEF AtOrder, BeingPolled
<1> QED
  BY <1>1, <1>2, <1>3 DEF BeingPolled, Polling

\* What is cached is what was answered.
LEMMA GoBehind ==
  ASSUME Ingested, Story, NEW o \in OrderSet, AtOrder(o), Go(o), status' = status
  PROVE  Behind'
<1>0. /\ Polling' => answer' = answer
      /\ Polling /\ cache' = [cache EXCEPT ![o] = answer[o]]
  BY GoLeaves
<1> SUFFICES ASSUME NEW p \in OrderSet
             PROVE  /\ Before(cache'[p], status[p])
                    /\ Polling' => Before(cache'[p], answer[p]) /\ Before(answer[p], status[p])
  BY <1>0 DEF Behind
<1>1. cache \in [OrderSet -> Statuses] /\ Before(answer[p], answer[p])
  BY DEF Ingested, PollOK, Before
<1>2. /\ Before(cache[p], status[p]) /\ Before(cache[p], answer[p])
      /\ Before(answer[p], status[p])
  BY <1>0 DEF Story, Behind
<1>3. CASE p = o
  BY <1>0, <1>1, <1>2, <1>3
<1>4. CASE p # o
  BY <1>0, <1>1, <1>2, <1>4
<1> QED
  BY <1>3, <1>4

\* No other order changes its place in the poll.
LEMMA GoKept ==
  ASSUME Ingested, Story, NEW o \in OrderSet, AtOrder(o), Go(o), Shadowed,
         UNCHANGED <<handling, wire, status>>
  PROVE  Quiet' /\ Behind' /\ News'
<1>0. /\ \A p \in OrderSet : BeingPolled(p)' =>
           BeingPolled(p) /\ p # o /\ answer' = answer /\ at' = at
      /\ Polling' => answer' = answer
      /\ inserting' = FALSE /\ Polling /\ cache' = [cache EXCEPT ![o] = answer[o]]
  BY GoLeaves
<1>1. \A p : Unended(p) => Unended(p)'
  BY DEF Unended, Ends, Shadowed
<1>2. Quiet'
  BY <1>0 DEF Story, Quiet
<1>3. Behind'
  BY GoBehind
<1>4. News'
  <2> SUFFICES ASSUME NEW p \in OrderSet, BeingPolled(p)'
               PROVE  /\ answer[p] = "open" => Unended(p)'
                      /\ at > 0 => \A r \in Seen' : r.of = p \/ Rival(r.of, p) => r.at < at
    BY <1>0 DEF News
  <2> QED
    BY <1>0, <1>1 DEF Story, News, Shadowed
<1> QED
  BY <1>2, <1>3, <1>4

(***************************************************************************)
(* Steps that add no record.                                               *)
(***************************************************************************)
LEMMA PersistStory ==
  ASSUME Story, NEW r \in handling, Persist(r) \/ PersistFails(r)
  PROVE  Story'
<1>1. /\ Seen' \subseteq Seen /\ handling' \subseteq handling /\ wire' = wire
      /\ status' = status /\ UNCHANGED <<cache, answer, at, inserting>>
      /\ \A q \in table : q \in table'
  BY DEF Persist, PersistFails, Seen, pollVars
<1> QED
  BY <1>1, RecordsKept, PollKept, SubsetShadowed DEF Story

LEMMA IdleStory ==
  ASSUME Story, UNCHANGED <<status, handling, table, cache, answer, at, inserting>>,
         wire' \in {wire, <<>>}
  PROVE  Story'
<1>1. Seen' \subseteq Seen /\ \A q \in table : q \in table'
  BY DEF Seen
<1> QED
  BY <1>1, RecordsKept, PollKept, SubsetShadowed DEF Story

LEMMA ExitStory ==
  ASSUME Ingested, Story, Exit
  PROVE  Story'
<1>1. Seen' \subseteq Seen /\ table' = table /\ handling' = {} /\ wire' = <<>> /\ status' = status
  BY DEF Exit, Seen
<1>2. Told' /\ InOrder' /\ Pending' /\ Over' /\ Sorted'
  BY <1>1, RecordsKept
<1>3. ~Polling' /\ inserting' = FALSE /\ cache' = [o \in OrderSet |-> "none"]
  BY DEF Exit, Polling
<1> QED
  BY <1>2, <1>3 DEF Story, Quiet, Behind, News, BeingPolled, Before

LEMMA FetchStory ==
  ASSUME Ingested, Story, Fetch, Clean'
  PROVE  Story'
<1>1. /\ UNCHANGED <<status, wire, handling, table, cache>> /\ Seen' = Seen
      /\ answer' = status /\ at' = 0 /\ inserting' = FALSE
  BY DEF Fetch, Seen
<1>2. Told' /\ InOrder' /\ Pending' /\ Over' /\ Sorted'
  BY <1>1, RecordsKept
<1>3. \A o \in OrderSet : BeingPolled(o)' => status[o] # cache[o]
  BY <1>1 DEF BeingPolled
<1>4. Quiet'
  <2> SUFFICES ASSUME NEW o \in OrderSet, BeingPolled(o)'
               PROVE  (\A i \in DOMAIN wire : wire[i].order # o) /\ \A r \in handling : r.of # o
    BY <1>1 DEF Quiet
  <2>1. <<o, "raced">> \notin tainted'
    BY DEF Clean
  <2>2. \/ status[o] = cache[o]
        \/ ~(\/ \E i \in DOMAIN wire : wire[i].order = o
             \/ \E r \in handling : r.of = o)
    BY <2>1 DEF Fetch, Taint
  <2> QED
    BY <1>3, <2>2
<1>5. Behind'
  BY <1>1 DEF Story, Behind, Before
<1>6. News'
  <2>1. \A o \in OrderSet : status[o] = "open" => Unended(o)
    BY EndTold DEF Unended, Story
  <2>2. \A o \in OrderSet : Unended(o) => Unended(o)'
    BY <1>1 DEF Unended
  <2> QED
    BY <1>1, <2>1, <2>2 DEF News
<1> QED
  BY <1>2, <1>4, <1>5, <1>6 DEF Story

\* What is recorded was observed before the poll observes its answer.
LEMMA ObserveStory ==
  ASSUME Ingested, Story, Observe
  PROVE  Story'
<1>1. /\ UNCHANGED <<status, wire, handling, table, cache, answer, inserting>> /\ Seen' = Seen
      /\ at' = now + 1 /\ at = 0 /\ now \in Nat /\ Polling
  BY DEF Observe, Seen, Ingested, PollOK
<1>2. Told' /\ InOrder' /\ Pending' /\ Over' /\ Sorted'
  BY <1>1, RecordsKept
<1>3. inserting = FALSE \/ ~inserting
  BY <1>1 DEF Story, News
<1>4. /\ \A o : BeingPolled(o)' <=> BeingPolled(o)
      /\ \A o : Unended(o)' <=> Unended(o)
  BY <1>1 DEF BeingPolled, Polling, Unended
<1>5. Quiet' /\ Behind'
  BY <1>1, <1>4 DEF Story, Quiet, Behind, Polling
<1>6. \A r \in Seen : r.at < at'
  <2>1. \A r \in Seen : r.at \in Nat /\ r.at <= now
    BY SeenTypes
  <2> QED
    BY <1>1, <2>1
<1>7. ~inserting
  BY <1>1 DEF Story, News
<1>8. News'
  BY <1>1, <1>4, <1>6, <1>7 DEF Story, News
<1> QED
  BY <1>2, <1>5, <1>8 DEF Story

\* The poll is done with an order, and the table stays.
LEMMA PassStory ==
  ASSUME Ingested, Story, NEW o \in OrderSet, FindExact(o) \/ InsertFails(o)
  PROVE  Story'
<1>1. AtOrder(o) /\ Go(o) /\ UNCHANGED <<status, wire, handling, table>>
  BY DEF FindExact, InsertFails
<1>2. Seen' \subseteq Seen /\ Shadowed
  BY <1>1, SubsetShadowed DEF Seen
<1>3. \A q \in table : q.order # NoOrder => q \in table'
  BY <1>1
<1>4. Told' /\ InOrder' /\ Pending' /\ Over' /\ Sorted'
  BY <1>1, <1>2, <1>3, RecordsKept
<1>5. Quiet' /\ Behind' /\ News'
  BY <1>1, <1>2, GoKept
<1> QED
  BY <1>4, <1>5 DEF Story

\* A look-up that does not fail and finds nothing: the order's end is not recorded.
LEMMA FindNothingStory ==
  ASSUME Ingested, Story, NEW o \in OrderSet, FindNothing(o), Clean'
  PROVE  Story'
<1>1. /\ UNCHANGED <<status, wire, handling, table, cache, answer, at>> /\ Seen' = Seen
      /\ AtOrder(o) /\ LooksUp(o) /\ inserting' = TRUE /\ at > 0 /\ BeingPolled(o)
  BY DEF FindNothing, Seen, AtOrder
<1>2. Told' /\ InOrder' /\ Pending' /\ Over' /\ Sorted'
  BY <1>1, RecordsKept
<1>3. /\ \A p : BeingPolled(p)' <=> BeingPolled(p)
      /\ \A p : Unended(p)' <=> Unended(p)
      /\ \A p : AtOrder(p)' <=> AtOrder(p)
  BY <1>1 DEF BeingPolled, Polling, Unended, AtOrder
<1>4. Quiet' /\ Behind'
  BY <1>1, <1>3 DEF Story, Quiet, Behind, Polling
<1>5. ExactMatch(o) = {} /\ Unbound(o) = {}
  <2>1. <<o, "failed">> \notin tainted'
    BY DEF Clean
  <2> QED
    BY <2>1 DEF FindNothing, Taint
<1>6. answer[o] \in Ended /\ status[o] = answer[o]
  <2>1. ~Misspelt(o)
    BY <1>1 DEF Clean, Misspelt
  <2>2. answer[o] \in Ended
    <3>1. EventType(answer[o]) # "ORDER_OPEN"
      BY <1>1, Values DEF LooksUp, TerminalTypes, Terminal
    <3> QED
      BY <3>1 DEF EventType, Ended, Cancelled
  <2> QED
    BY <1>1, <2>1, <2>2, PolledPlaced DEF Story
<1>7. Unended(o)
  <2> SUFFICES ASSUME NEW r \in Seen, r.of = o, Ends(r) PROVE FALSE
    BY DEF Unended
  <2>1. r.type = EventType(answer[o])
    BY <1>6, EndTold DEF Story
  <2>2. r \in table
    BY <1>1 DEF Story, Quiet, Seen
  <2>3. r.order \in {NoOrder, o}
    BY DEF Story, Told, Truthful
  <2> QED
    BY <1>5, <2>1, <2>2, <2>3 DEF ExactMatch, Unbound
<1>8. \A p \in OrderSet : AtOrder(p) => p = o
  <2> SUFFICES ASSUME NEW p \in OrderSet, AtOrder(p), p # o PROVE FALSE
    OBVIOUS
  <2>1. Earlier(p, o) \/ Earlier(o, p)
    <3>1. PICK i \in DOMAIN Orders, j \in DOMAIN Orders : Orders[i] = p /\ Orders[j] = o
      BY IngestAssumption DEF OrderSet, ToSet
    <3>2. i \in Nat /\ j \in Nat /\ i # j
      BY <3>1, IngestAssumption
    <3> QED
      BY <3>1, <3>2 DEF Earlier
  <2> QED
    BY <1>1, <2>1 DEF AtOrder
<1>9. News'
  BY <1>1, <1>3, <1>6, <1>7, <1>8 DEF Story, News
<1> QED
  BY <1>2, <1>4, <1>9 DEF Story

(***************************************************************************)
(* The exchange.                                                           *)
(***************************************************************************)
\* An order takes its next status and tells of it: unless a poll is about it,
\* which would be tainted, the story goes on.
LEMMA ExchangeStory ==
  ASSUME Ingested, Story, NEW o \in OrderSet, NEW s, NEW type,
         UNCHANGED <<handling, table, now, cache, answer, at, inserting>>,
         status' = [status EXCEPT ![o] = s],
         \/ status[o] = "none" /\ s = "open"
         \/ status[o] = "open" /\ s \in Ended,
         wire' = Announced(o, type), type \in Types, type # "ORDER_OPEN", Since(type, s),
         \A r \in Seen : r.of = o => StateValue[r.type] < StateValue[type],
         \A i \in DOMAIN wire : wire[i].order = o => StateValue[wire[i].type] < StateValue[type],
         Crossed(o) = {}, Over'
  PROVE  Story'
<1>1. Seen' = Seen /\ status \in [OrderSet -> Statuses] /\ wire \in Seq(Message)
  BY DEF Seen, Ingested, PollOK
<1>2. PICK m : m = [type |-> type, order |-> o]
  OBVIOUS
<1>3. m \in Message /\ m.type = type /\ m.order = o
  BY <1>2 DEF Message
<1>4. PICK n \in Nat : n = Len(wire) /\ DOMAIN wire = 1..n
  BY <1>1
<1>5. \/ ~isConnected /\ wire' = wire
      \/ /\ isConnected /\ DOMAIN wire' = 1..(n + 1)
         /\ wire'[n + 1] = m /\ \A i \in 1..n : wire'[i] = wire[i]
  BY <1>1, <1>2, <1>3, <1>4 DEF Announced
<1>6. \A i \in DOMAIN wire' : \/ i \in DOMAIN wire /\ wire'[i] = wire[i]
                              \/ i = n + 1 /\ wire'[i] = m /\ isConnected
  BY <1>4, <1>5
<1>7. \A p \in OrderSet : p # o => status'[p] = status[p]
  BY <1>1
<1>8. status'[o] = s
  BY <1>1
<1>9. Told'
  <2>1. \A t, p : p \in OrderSet /\ Since(t, status[p]) => Since(t, status'[p])
    BY <1>7, <1>8 DEF Since, Ended, Cancelled
  <2>2. \A r \in Seen : Truthful(r)'
    BY <2>1 DEF Story, Told, Truthful
  <2>3. \A i \in DOMAIN wire' : wire'[i].type # "ORDER_OPEN"
                                /\ Since(wire'[i].type, status'[wire'[i].order])
    <3> SUFFICES ASSUME NEW i \in DOMAIN wire'
                 PROVE  wire'[i].type # "ORDER_OPEN" /\ Since(wire'[i].type, status'[wire'[i].order])
      OBVIOUS
    <3>1. CASE i \in DOMAIN wire /\ wire'[i] = wire[i]
      <4>1. wire[i].order \in OrderSet
        BY <3>1, SeenTypes
      <4>2. wire[i].type # "ORDER_OPEN" /\ Since(wire[i].type, status[wire[i].order])
        BY <3>1 DEF Story, Told
      <4> QED
        BY <2>1, <3>1, <4>1, <4>2
    <3>2. CASE wire'[i] = m
      BY <1>3, <1>8, <3>2
    <3> QED
      BY <1>6, <3>1, <3>2
  <2> QED
    BY <1>1, <2>2, <2>3 DEF Story, Told
<1>10. InOrder' /\ Sorted'
  BY <1>1 DEF Story, InOrder, Sorted
<1>11. Pending'
  <2>1. ASSUME NEW i \in DOMAIN wire', NEW r \in Seen, r.of = wire'[i].order
        PROVE  StateValue[r.type] < StateValue[wire'[i].type]
    BY <1>3, <1>6, <2>1 DEF Story, Pending
  <2>2. ASSUME NEW i \in DOMAIN wire', NEW j \in DOMAIN wire', i < j,
               wire'[i].order = wire'[j].order
        PROVE  StateValue[wire'[i].type] < StateValue[wire'[j].type]
    <3>1. i \in DOMAIN wire /\ wire'[i] = wire[i]
      BY <1>4, <1>5, <2>2
    <3>2. CASE j \in DOMAIN wire /\ wire'[j] = wire[j]
      BY <2>2, <3>1, <3>2 DEF Story, Pending
    <3>3. CASE wire'[j] = m
      BY <1>3, <2>2, <3>1, <3>3
    <3> QED
      BY <1>6, <3>2, <3>3
  <2> QED
    BY <1>1, <2>1, <2>2 DEF Pending
<1>12. \A p : (BeingPolled(p)' <=> BeingPolled(p)) /\ (AtOrder(p)' <=> AtOrder(p))
              /\ (Unended(p)' <=> Unended(p))
  BY <1>1 DEF BeingPolled, AtOrder, Polling, Unended
<1>13. Quiet'
  <2>1. \A p \in OrderSet : BeingPolled(p) /\ isConnected => p # o
    BY DEF Crossed
  <2> QED
    BY <1>3, <1>6, <1>12, <2>1 DEF Story, Quiet
<1>14. Behind'
  <2>1. \A x : Before(x, status[o]) => Before(x, s)
    BY DEF Before, Ended, Cancelled
  <2> QED
    BY <1>7, <1>8, <2>1 DEF Story, Behind, Polling
<1>15. News'
  BY <1>1, <1>12 DEF Story, News
<1> QED
  BY <1>9, <1>10, <1>11, <1>13, <1>14, <1>15 DEF Story

\* A new exit finds the end of the one before it on record, and through it that
\* of every exit before that.
LEMMA PlaceStory ==
  ASSUME Ingested, Story, NEW n \in DOMAIN Orders, Place(n), Clean'
  PROVE  Story'
<1>1. PICK o \in OrderSet : o = Orders[n]
  BY FirstOrder
<1>2. status \in [OrderSet -> Statuses] /\ status[o] = "none"
      /\ status' = [status EXCEPT ![o] = "open"] /\ table' = table
  BY <1>1 DEF Place, Placeable, Ingested, PollOK
<1>3. \A r \in Seen : r.of # o
  BY <1>2, ToldPlaced DEF Story
<1>4. \A i \in DOMAIN wire : wire[i].order # o
  BY <1>2, SeenTypes DEF Story, Told, Since
<1>5. tainted' = tainted \cup Crossed(o) \cup
        IF n > 2 /\ ~Recorded(Orders[n - 1]) THEN {<<o, "crowded">>} ELSE {}
  BY <1>1 DEF Place
<1>6. Crossed(o) = {}
  <2>1. <<o, "raced">> \notin tainted'
    BY DEF Clean
  <2> QED
    BY <1>5, <2>1 DEF Crossed
<1>7. Over'
  <2> SUFFICES ASSUME NEW p \in OrderSet, NEW x \in OrderSet, Rival(p, x), status'[x] # "none"
               PROVE  \E q \in table : q.order = p /\ Ends(q)
    BY <1>2 DEF Over
  <2>1. CASE x # o
    BY <1>2, <2>1 DEF Story, Over
  <2>2. CASE x = o
    <3>1. PICK i \in DOMAIN Orders : i < n /\ Orders[i] = p /\ i # 1
      BY <1>1, <2>2, IngestAssumption DEF Rival, Earlier
    <3>2. DOMAIN Orders = 1..Len(Orders) /\ Len(Orders) \in Nat
      BY IngestAssumption
    <3>3. n \in Nat /\ i \in Nat /\ n > 2 /\ n - 1 \in DOMAIN Orders
      BY <3>1, <3>2
    <3>4. PICK l \in OrderSet : l = Orders[n - 1]
      BY <3>3, FirstOrder
    <3>5. status[l] \in Cancelled /\ Recorded(l)
      <4>1. <<o, "crowded">> \notin tainted'
        BY DEF Clean
      <4> QED
        BY <1>5, <3>3, <3>4, <4>1 DEF Place, Placeable
    <3>6. CASE p = l
      <4>1. status[l] = "cancelled"
        BY <3>5, <1>2, <2>2, <1>1, <3>3, <3>4, IngestAssumption DEF Clean, Misspelt, Cancelled
      <4>2. EventType(status[l]) = "ORDER_CANCELLED"
        BY <4>1 DEF EventType
      <4> QED
        BY <3>5, <3>6, <4>2, Values DEF Recorded, Ends, Terminal
    <3>7. CASE p # l
      <4>1. i < n - 1
        BY <3>1, <3>3, <3>4, <3>7
      <4>2. Rival(p, l)
        BY <2>2, <3>1, <3>3, <3>4, <4>1 DEF Rival, Earlier
      <4>3. status[l] # "none"
        BY <3>5 DEF Cancelled
      <4> QED
        BY <4>2, <4>3 DEF Story, Over
    <3> QED
      BY <3>6, <3>7
  <2> QED
    BY <2>1, <2>2
<1>8. /\ UNCHANGED <<handling, table, now, cache, answer, at, inserting>>
      /\ wire' = Announced(o, "ORDER_CREATED")
  BY <1>1 DEF Place, pollVars
<1>9. "ORDER_CREATED" \in Types /\ Since("ORDER_CREATED", "open")
  BY Values DEF Since
<1> QED
  BY <1>2, <1>3, <1>4, <1>6, <1>7, <1>8, <1>9, ExchangeStory

LEMMA FinishStory ==
  ASSUME Ingested, Story, NEW o \in OrderSet, NEW s \in Ended, Finish(o, s), Clean'
  PROVE  Story'
<1>1. /\ status \in [OrderSet -> Statuses] /\ status[o] = "open" /\ table' = table
      /\ status' = [status EXCEPT ![o] = s]
      /\ UNCHANGED <<handling, table, now, cache, answer, at, inserting>>
      /\ tainted' = tainted \cup Crossed(o)
  BY DEF Finish, Ingested, PollOK, pollVars
<1>2. PICK type : type = IF s = "closed" THEN "ORDER_FILLED" ELSE "ORDER_CANCELLED"
  OBVIOUS
<1>3. s # "canceled" /\ Crossed(o) = {}
  <2>1. ~Misspelt(o)' /\ <<o, "raced">> \notin tainted'
    BY DEF Clean
  <2> QED
    BY <1>1, <2>1 DEF Misspelt, Cancelled, Crossed
<1>4. type \in Types /\ type # "ORDER_OPEN" /\ Since(type, s) /\ StateValue[type] = 6
  BY <1>2, <1>3, Values DEF Since, Ended, Cancelled
<1>5. wire' = Announced(o, type)
  BY <1>2 DEF Finish
<1>6. \A r \in Seen : r.of = o => StateValue[r.type] < StateValue[type]
  <2> SUFFICES ASSUME NEW r \in Seen, r.of = o PROVE StateValue[r.type] < 6
    BY <1>4
  <2>1. ~Ends(r)
    BY <1>1, EndTold DEF Story
  <2> QED
    BY <2>1, SeenTypes DEF Ends, Terminal
<1>7. \A i \in DOMAIN wire : wire[i].order = o => StateValue[wire[i].type] < StateValue[type]
  <2> SUFFICES ASSUME NEW i \in DOMAIN wire, wire[i].order = o
               PROVE  StateValue[wire[i].type] < 6
    BY <1>4
  <2>1. wire[i].type = "ORDER_CREATED"
    BY <1>1 DEF Story, Told, Since
  <2> QED
    BY <2>1, Values
<1>8. Over'
  <2> SUFFICES ASSUME NEW p \in OrderSet, NEW x \in OrderSet, Rival(p, x), status'[x] # "none"
               PROVE  \E q \in table : q.order = p /\ Ends(q)
    BY <1>1 DEF Over
  <2>1. status[x] # "none"
    BY <1>1
  <2> QED
    BY <2>1 DEF Story, Over
<1> QED
  BY <1>1, <1>3, <1>4, <1>5, <1>6, <1>7, <1>8, ExchangeStory

(***************************************************************************)
(* Steps that record something.                                            *)
(***************************************************************************)
\* An event of order o joins the records after all that is recorded of o and of
\* the exits before it, and before anything is recorded of those after it.
LEMMA NewsInOrder ==
  ASSUME Ingested, Story, NEW o \in OrderSet, NEW e, Seen' = Seen \cup {e}, e.of = o,
         StateValue[e.type] \in 0..6,
         \A r \in Seen : r.of = o \/ Rival(r.of, o) => r.at < e.at,
         \A r \in Seen : r.of = o => StateValue[r.type] <= StateValue[e.type] /\ ~Ends(r),
         \A r \in Seen : Rival(o, r.of) => e.at < r.at
  PROVE  InOrder' /\ Sorted'
<1>1. InOrder'
  <2> SUFFICES ASSUME NEW r \in Seen', NEW q \in Seen', r.of = q.of, r.of \in OrderSet, r # q
               PROVE  Precedes(r, q) \/ Precedes(q, r)
    BY DEF InOrder
  <2>1. ASSUME NEW x \in Seen, x.of = o PROVE Precedes(x, e)
    <3>1. StateValue[x.type] \in 0..6 /\ StateValue[x.type] # 6
      BY <2>1, SeenTypes DEF Ends, Terminal
    <3> QED
      BY <2>1, <3>1 DEF Precedes, Terminal
  <2>2. CASE r \in Seen /\ q \in Seen
    BY <2>2 DEF Story, InOrder
  <2>3. CASE r = e
    BY <2>1, <2>3
  <2>4. CASE q = e
    BY <2>1, <2>4
  <2> QED
    BY <2>2, <2>3, <2>4
<1>2. Sorted'
  <2> SUFFICES ASSUME NEW r \in Seen', NEW q \in Seen', Rival(r.of, q.of) PROVE r.at < q.at
    BY DEF Sorted
  <2>1. ~Rival(o, o)
    BY Rivals
  <2>2. CASE r \in Seen /\ q \in Seen
    BY <2>2 DEF Story, Sorted
  <2>3. CASE r = e
    BY <2>1, <2>3
  <2>4. CASE q = e
    BY <2>1, <2>4
  <2> QED
    BY <2>2, <2>3, <2>4
<1> QED
  BY <1>1, <1>2

\* A message arrives: what it tells is news, and the exits after its order are
\* not placed yet.
LEMMA ArriveStory ==
  ASSUME Ingested, Story, Arrive
  PROVE  Story'
<1>1. /\ wire # <<>> /\ wire \in Seq(Message) /\ wire' = Tail(wire) /\ now' = now + 1
      /\ now \in Nat /\ at \in Nat
      /\ UNCHANGED <<status, table, cache, answer, at, inserting>>
  BY SeenTypes DEF Arrive, pollVars
<1>2. PICK m : m = wire[1]
  OBVIOUS
<1>3. PICK n \in Nat : Len(wire) = n /\ n > 0 /\ DOMAIN wire = 1..n
  BY <1>1
<1>4. /\ m \in Message /\ m = Head(wire) /\ 1 \in DOMAIN wire /\ m.order \in OrderSet
      /\ StateValue[m.type] \in 0..6
  BY <1>1, <1>2, <1>3, SeenTypes
<1>5. \A i \in DOMAIN wire' : i + 1 \in DOMAIN wire /\ wire'[i] = wire[i + 1]
                              /\ i \in Nat /\ 1 < i + 1
  BY <1>1, <1>3
<1>6. PICK e : e = FromMessage(m, now + 1)
  OBVIOUS
<1>7. /\ e.type = m.type /\ e.trade = Trade /\ e.order = NoOrder /\ e.side = Side[m.order]
      /\ e.at = now + 1 /\ e.of = m.order
  BY <1>6 DEF FromMessage
<1>8. PICK o \in OrderSet : o = m.order
  BY <1>4
<1>9. handling' = handling \cup {e} /\ Seen' = Seen \cup {e}
  BY <1>4, <1>6 DEF Arrive, Seen
<1>10. m.type # "ORDER_OPEN" /\ Since(m.type, status[o])
  BY <1>2, <1>4, <1>8 DEF Story, Told
<1>11. status[o] # "none" /\ m.type # "SIGNAL"
  BY <1>10 DEF Since
<1>12. \A r \in Seen : r.at < e.at /\ r.at \in Nat
  BY <1>1, <1>7, SeenTypes
<1>13. \A r \in Seen : r.of = o => StateValue[r.type] < StateValue[e.type]
  BY <1>2, <1>4, <1>7, <1>8 DEF Story, Pending
<1>14. \A r \in Seen : ~Rival(o, r.of)
  <2> SUFFICES ASSUME NEW r \in Seen, Rival(o, r.of) PROVE FALSE
    OBVIOUS
  <2>1. r.of \in OrderSet
    BY Rivals
  <2>2. status[r.of] # "none"
    BY <2>1, ToldPlaced DEF Story
  <2> QED
    BY <1>2, <1>4, <1>8, <2>2, RivalDone
<1>15. InOrder' /\ Sorted'
  <2>1. \A r \in Seen : r.of = o => StateValue[r.type] <= StateValue[e.type] /\ ~Ends(r)
    <3> SUFFICES ASSUME NEW r \in Seen, r.of = o
                 PROVE  StateValue[r.type] <= StateValue[e.type] /\ ~Ends(r)
      OBVIOUS
    <3>1. StateValue[r.type] \in 0..6 /\ StateValue[e.type] \in 0..6
      BY <1>4, <1>7, SeenTypes
    <3>2. StateValue[r.type] < StateValue[e.type]
      BY <1>13
    <3> QED
      BY <3>1, <3>2 DEF Ends, Terminal
  <2>2. e.of = o /\ StateValue[e.type] \in 0..6
    BY <1>4, <1>7, <1>8
  <2>3. Seen' = Seen \cup {e}
    BY <1>9
  <2>4. /\ \A r \in Seen : r.of = o \/ Rival(r.of, o) => r.at < e.at
        /\ \A r \in Seen : Rival(o, r.of) => e.at < r.at
    BY <1>12, <1>14
  <2> QED
    BY <2>1, <2>2, <2>3, <2>4, NewsInOrder
<1>16. Told'
  <2>1. \A r \in Seen : Truthful(r)'
    BY <1>1 DEF Story, Told, Truthful
  <2>2. Truthful(e)'
    <3>1. m.type # "ORDER_OPEN" /\ status' = status
      BY <1>1, <1>10
    <3> QED
      BY <1>7, <1>8, <1>10, <3>1 DEF Truthful
  <2>3. \A i \in DOMAIN wire' : wire'[i].type # "ORDER_OPEN"
                                /\ Since(wire'[i].type, status'[wire'[i].order])
    BY <1>1, <1>5 DEF Story, Told
  <2> QED
    BY <1>7, <1>9, <2>1, <2>2, <2>3 DEF Story, Told
<1>17. Pending'
  <2>1. ASSUME NEW i \in DOMAIN wire', NEW r \in Seen', r.of = wire'[i].order
        PROVE  StateValue[r.type] < StateValue[wire'[i].type]
    <3>1. CASE r \in Seen
      BY <1>5, <2>1, <3>1 DEF Story, Pending
    <3>2. CASE r = e
      BY <1>2, <1>4, <1>5, <1>7, <2>1, <3>2 DEF Story, Pending
    <3> QED
      BY <1>9, <3>1, <3>2
  <2>2. ASSUME NEW i \in DOMAIN wire', NEW j \in DOMAIN wire', i < j,
               wire'[i].order = wire'[j].order
        PROVE  StateValue[wire'[i].type] < StateValue[wire'[j].type]
    <3>1. i + 1 < j + 1
      BY <1>5, <2>2
    <3> QED
      BY <1>5, <2>2, <3>1 DEF Story, Pending
  <2> QED
    BY <2>1, <2>2 DEF Pending
<1>18. ~BeingPolled(o)
  BY <1>2, <1>4, <1>8 DEF Story, Quiet
<1>19. \A p : (BeingPolled(p)' <=> BeingPolled(p)) /\ (AtOrder(p)' <=> AtOrder(p))
  BY <1>1 DEF BeingPolled, AtOrder, Polling
<1>20. \A p : p # o /\ Unended(p) => Unended(p)'
  BY <1>7, <1>8, <1>9 DEF Unended
<1>21. Quiet'
  BY <1>5, <1>7, <1>8, <1>9, <1>18, <1>19 DEF Story, Quiet
<1>22. Behind'
  BY <1>1 DEF Story, Behind, Polling
<1>23. ASSUME NEW p \in OrderSet, BeingPolled(p) PROVE ~Rival(o, p)
  <2> SUFFICES ASSUME Rival(o, p) PROVE FALSE
    OBVIOUS
  <2>1. status[p] # "none"
    BY <1>23 DEF Story, Behind, BeingPolled, Before, Ended, Cancelled
  <2> QED
    BY <1>2, <1>4, <1>8, <2>1, RivalDone
<1>24. News'
  <2> SUFFICES ASSUME NEW p \in OrderSet, BeingPolled(p)
               PROVE  /\ answer[p] = "open" => Unended(p)'
                      /\ at > 0 => \A r \in Seen' : r.of = p \/ Rival(r.of, p) => r.at < at
                      /\ inserting /\ AtOrder(p) => answer[p] \in Ended /\ Unended(p)'
    BY <1>1, <1>19 DEF Story, News
  <2>1. p # o /\ ~Rival(o, p)
    BY <1>18, <1>23
  <2> QED
    BY <1>7, <1>8, <1>9, <1>20, <2>1 DEF Story, News
<1>25. Over'
  BY <1>1 DEF Story, Over
<1> QED
  BY <1>15, <1>16, <1>17, <1>21, <1>22, <1>24, <1>25 DEF Story

\* A signal is about no order.
LEMMA SignalStory ==
  ASSUME Ingested, Story, NEW g \in Signals, Signal(g)
  PROVE  Story'
<1>1. PICK e : e = [type |-> "SIGNAL", trade |-> g.trade, order |-> NoOrder,
                    side |-> "none", at |-> now + 1, via |-> g.place, of |-> NoOrder]
  OBVIOUS
<1>2. e.type = "SIGNAL" /\ e.order = NoOrder /\ e.of = NoOrder
  BY <1>1
<1>3. /\ table' = table \cup {e} /\ Seen' = Seen \cup {e}
      /\ UNCHANGED <<status, wire, handling, cache, answer, at, inserting>>
  BY <1>1 DEF Signal, Seen, pollVars
<1>4. NoOrder \notin OrderSet /\ \A p : ~Rival(p, NoOrder) /\ ~Rival(NoOrder, p)
  BY Rivals, IngestAssumption
<1>5. \A p : (BeingPolled(p)' <=> BeingPolled(p)) /\ (AtOrder(p)' <=> AtOrder(p))
  BY <1>3 DEF BeingPolled, AtOrder, Polling
<1>6. \A p \in OrderSet : Unended(p) => Unended(p)'
  BY <1>2, <1>3, <1>4 DEF Unended
<1>7. Told'
  BY <1>2, <1>3 DEF Story, Told, Truthful
<1>8. InOrder' /\ Sorted'
  BY <1>2, <1>3, <1>4 DEF Story, InOrder, Sorted
<1>9. Pending'
  <2>1. \A i \in DOMAIN wire : wire[i].order # NoOrder
    BY <1>4, SeenTypes
  <2> QED
    BY <1>2, <1>3, <2>1 DEF Story, Pending
<1>10. Quiet' /\ Behind'
  BY <1>3, <1>5 DEF Story, Quiet, Behind, Polling
<1>11. News'
  BY <1>2, <1>3, <1>4, <1>5, <1>6 DEF Story, News
<1>12. Over'
  BY <1>3 DEF Story, Over
<1> QED
  BY <1>7, <1>8, <1>9, <1>10, <1>11, <1>12 DEF Story

\* A record without an order is given its own one.
LEMMA BindStory ==
  ASSUME Ingested, Story, NEW o \in OrderSet, Bind(o), Clean'
  PROVE  Story'
<1>1. /\ AtOrder(o) /\ Go(o) /\ UNCHANGED <<status, wire, handling>> /\ BeingPolled(o)
  BY DEF Bind, AtOrder
<1>2. PICK r \in Unbound(o) : /\ table' = (table \ {r}) \cup {[r EXCEPT !.order = o]}
                              /\ Taint(IF r.of = o THEN {} ELSE {r.of, o}, "misbound")
  BY DEF Bind
<1>3. r \in table /\ r \in Seen /\ r \in Audit /\ r.order = NoOrder /\ r.type = EventType(answer[o])
  BY DEF Unbound, Ingested, TableOK, Seen
<1>4. r.of = o
  <2>1. <<o, "misbound">> \notin tainted'
    BY DEF Clean
  <2> QED
    BY <1>2, <2>1 DEF Taint
<1>5. PICK b : b = [r EXCEPT !.order = o]
  OBVIOUS
<1>6. /\ b.type = r.type /\ b.trade = r.trade /\ b.order = o /\ b.side = r.side
      /\ b.at = r.at /\ b.of = o
  BY <1>3, <1>4, <1>5 DEF Audit
<1>7. r \notin handling
  BY <1>1, <1>4 DEF Story, Quiet
<1>8. Seen' = (Seen \ {r}) \cup {b}
  BY <1>1, <1>2, <1>5, <1>7 DEF Seen
<1>9. Shadowed
  BY <1>3, <1>4, <1>6, <1>8 DEF Shadowed
<1>10. Told'
  <2>1. \A q \in Seen : Truthful(q)'
    BY <1>1 DEF Story, Told, Truthful
  <2>2. r.type # "ORDER_CREATED"
    BY <1>3, PolledTypes
  <2>3. Truthful(b)'
    <3>1. Truthful(r)' /\ r.type # "SIGNAL"
      BY <1>3, <2>1, PolledTypes
    <3> QED
      BY <1>4, <1>6, <2>2, <3>1 DEF Truthful
  <2> QED
    BY <1>1, <1>8, <2>1, <2>3 DEF Story, Told
<1>11. InOrder'
  <2> SUFFICES ASSUME NEW x \in Seen', NEW y \in Seen', x.of = y.of, x.of \in OrderSet, x # y
               PROVE  Precedes(x, y) \/ Precedes(y, x)
    BY DEF InOrder
  <2>1. ASSUME NEW z \in Seen, z # r, z.of = o PROVE Precedes(z, b) \/ Precedes(b, z)
    <3>1. Precedes(z, r) \/ Precedes(r, z)
      BY <1>3, <1>4, <2>1 DEF Story, InOrder
    <3> QED
      BY <1>6, <3>1 DEF Precedes
  <2>2. CASE x # b /\ y # b
    BY <1>8, <2>2 DEF Story, InOrder
  <2>3. CASE x = b
    BY <1>6, <1>8, <2>1, <2>3
  <2>4. CASE y = b
    BY <1>6, <1>8, <2>1, <2>4
  <2> QED
    BY <2>2, <2>3, <2>4
<1>12. Pending' /\ Sorted'
  BY <1>1, <1>9, ShadowsKept DEF Story
<1>13. Quiet' /\ Behind' /\ News'
  BY <1>1, <1>9, GoKept
<1>14. Over'
  <2> SUFFICES ASSUME NEW p \in OrderSet, NEW x \in OrderSet, Rival(p, x), status[x] # "none"
               PROVE  \E q \in table' : q.order = p /\ Ends(q)
    BY <1>1 DEF Over
  <2>1. PICK q \in table : q.order = p /\ Ends(q)
    BY DEF Story, Over
  <2>2. q # r
    BY <1>3, <2>1, IngestAssumption
  <2> QED
    BY <1>2, <2>1, <2>2
<1> QED
  BY <1>10, <1>11, <1>12, <1>13, <1>14 DEF Story

\* Polling inserts what is news of the order; the exits after it are not placed yet.
LEMMA InsertStory ==
  ASSUME Ingested, Story, Clean, NEW o \in OrderSet, Insert(o), Clean'
  PROVE  Story'
<1>1. /\ AtOrder(o) /\ Go(o) /\ UNCHANGED <<status, wire, handling>> /\ BeingPolled(o)
      /\ at > 0 /\ (inserting \/ ~LooksUp(o))
  BY DEF Insert, AtOrder
<1>2. PICK e : e = FromPoll(o)
  OBVIOUS
<1>3. /\ e.type = EventType(answer[o]) /\ e.trade = Trade /\ e.order = o /\ e.side = Side[o]
      /\ e.at = at /\ e.of = o
  BY <1>2 DEF FromPoll
<1>4. /\ status[o] # "none" /\ answer[o] # "none" /\ Since(e.type, status[o])
      /\ answer[o] \in Ended => status[o] = answer[o]
  <2>1. ~Misspelt(o)
    BY DEF Clean
  <2> QED
    BY <1>1, <1>3, <2>1, PolledPlaced DEF Story
<1>5. CASE table' = table
  <2>1. Seen' \subseteq Seen /\ Shadowed
    BY <1>1, <1>5, SubsetShadowed DEF Seen
  <2>2. \A q \in table : q.order # NoOrder => q \in table'
    BY <1>5
  <2>3. Told' /\ InOrder' /\ Pending' /\ Over' /\ Sorted'
    BY <1>1, <2>1, <2>2, RecordsKept
  <2> QED
    BY <1>1, <2>1, <2>3, GoKept DEF Story
<1>6. CASE table' # table
  <2>1. table' = table \cup {e} /\ Seen' = Seen \cup {e}
    BY <1>1, <1>2, <1>6 DEF Insert, Seen
  <2>2. Unended(o)
    <3>1. CASE inserting
      BY <1>1, <3>1 DEF Story, News
    <3>2. CASE ~inserting
      <4>1. EventType(answer[o]) = "ORDER_OPEN"
        BY <1>1, <3>2, PolledTypes, Values DEF LooksUp, TerminalTypes, Terminal
      <4>2. answer[o] = "open"
        <5>1. answer[o] \in Statuses
          BY <1>1 DEF Ingested, PollOK, BeingPolled
        <5>2. answer[o] # "canceled"
          <6>1. ~Misspelt(o)
            BY DEF Clean
          <6> QED
            BY <1>4, <6>1 DEF Misspelt, Ended, Cancelled
        <5> QED
          BY <1>4, <4>1, <5>1, <5>2 DEF Statuses, Ended, Cancelled, EventType
      <4> QED
        BY <1>1, <4>2 DEF Story, News
    <3> QED
      BY <3>1, <3>2
  <2>3. \A r \in Seen : ~Rival(o, r.of)
    <3> SUFFICES ASSUME NEW r \in Seen, Rival(o, r.of) PROVE FALSE
      OBVIOUS
    <3>1. status[r.of] # "none"
      BY Rivals, ToldPlaced DEF Story
    <3>2. PICK q \in table : q.of = o /\ Ends(q)
      BY <3>1, RivalDone
    <3> QED
      BY <2>2, <3>2 DEF Unended, Seen
  <2>4. e.type \in {"ORDER_OPEN", "ORDER_FILLED", "ORDER_CANCELLED"} /\ StateValue[e.type] \in {4, 6}
    BY <1>3, PolledTypes, Values
  <2>5. \A r \in Seen : r.of = o => StateValue[r.type] <= StateValue[e.type] /\ ~Ends(r)
    <3> SUFFICES ASSUME NEW r \in Seen, r.of = o
                 PROVE  StateValue[r.type] <= StateValue[e.type] /\ ~Ends(r)
      OBVIOUS
    <3>1. ~Ends(r)
      BY <2>2 DEF Unended
    <3>2. r.type \in {"ORDER_CREATED", "ORDER_OPEN"}
      <4>1. Truthful(r) /\ r.of # NoOrder
        BY IngestAssumption DEF Story, Told
      <4> QED
        BY <3>1, <4>1, Values DEF Truthful, Since, Ends, Terminal
    <3> QED
      BY <2>4, <3>1, <3>2, Values
  <2>6. InOrder' /\ Sorted'
    <3>1. \A r \in Seen : r.of = o \/ Rival(r.of, o) => r.at < e.at
      BY <1>1, <1>3 DEF Story, News
    <3>2. StateValue[e.type] \in 0..6
      BY <2>4
    <3> QED
      BY <1>3, <2>1, <2>3, <2>5, <3>1, <3>2, NewsInOrder
  <2>7. Told'
    <3>1. \A r \in Seen : Truthful(r)'
      BY <1>1 DEF Story, Told, Truthful
    <3>2. Truthful(e)'
      BY <1>1, <1>3, <1>4, <2>4 DEF Truthful
    <3> QED
      BY <1>1, <2>1, <3>1, <3>2 DEF Story, Told
  <2>8. \A i \in DOMAIN wire : wire[i].order # o
    BY <1>1 DEF Story, Quiet
  <2>9. Pending'
    BY <1>1, <1>3, <2>1, <2>8 DEF Story, Pending
  <2>10. Over'
    BY <1>1, <2>1 DEF Story, Over
  <2>11. /\ \A p \in OrderSet : BeingPolled(p)' =>
              BeingPolled(p) /\ p # o /\ answer' = answer /\ at' = at
         /\ Polling' => answer' = answer
         /\ inserting' = FALSE /\ Polling /\ cache' = [cache EXCEPT ![o] = answer[o]]
    BY <1>1, GoLeaves
  <2>12. Quiet'
    BY <1>1, <2>11 DEF Story, Quiet
  <2>13. Behind'
    BY <1>1, GoBehind
  <2>14. News'
    <3> SUFFICES ASSUME NEW p \in OrderSet, BeingPolled(p)'
                 PROVE  /\ answer[p] = "open" => Unended(p)'
                        /\ at > 0 => \A r \in Seen' : r.of = p \/ Rival(r.of, p) => r.at < at
      BY <2>11 DEF News
    <3>1. BeingPolled(p) /\ p # o
      BY <2>11
    <3>2. ~Rival(o, p)
      <4> SUFFICES ASSUME Rival(o, p) PROVE FALSE
        OBVIOUS
      <4>1. status[p] # "none"
        BY <3>1, PolledPlaced DEF Story, Clean
      <4>2. PICK q \in table : q.of = o /\ Ends(q)
        BY <4>1, RivalDone
      <4> QED
        BY <2>2, <4>2 DEF Unended, Seen
    <3> QED
      BY <1>3, <2>1, <3>1, <3>2 DEF Story, News, Unended
  <2> QED
    BY <2>6, <2>7, <2>9, <2>10, <2>12, <2>13, <2>14 DEF Story
<1> QED
  BY <1>5, <1>6

(***************************************************************************)
(* The story of every behaviour.                                           *)
(***************************************************************************)
\* What is tainted stays so, and a misspelt end is an end.
LEMMA CleanBefore ==
  ASSUME Ingested, Next, Clean'
  PROVE  Clean
<1>1. ASSUME tainted \subseteq tainted', \A o \in OrderSet : Misspelt(o) => Misspelt(o)'
      PROVE  Clean
  BY <1>1 DEF Clean
<1>2. ASSUME tainted \subseteq tainted', status' = status
      PROVE  Clean
  BY <1>1, <1>2 DEF Misspelt
<1>3. ASSUME NEW o \in OrderSet, NEW s, status[o] \notin Cancelled, tainted \subseteq tainted',
             status' = [status EXCEPT ![o] = s]
      PROVE  Clean
  <2>1. status \in [OrderSet -> Statuses]
    BY DEF Ingested, PollOK
  <2> QED
    BY <1>1, <1>3, <2>1 DEF Misspelt
<1>4. ASSUME NEW n \in DOMAIN Orders, Place(n) PROVE Clean
  <2>1. PICK o \in OrderSet : o = Orders[n]
    BY FirstOrder
  <2>2. status[o] \notin Cancelled
    BY <1>4, <2>1 DEF Place, Placeable, Cancelled
  <2>3. status' = [status EXCEPT ![o] = "open"] /\ tainted \subseteq tainted'
    BY <1>4, <2>1 DEF Place
  <2> QED
    BY <1>3, <2>2, <2>3
<1>5. ASSUME NEW o \in OrderSet, NEW s \in Ended, Finish(o, s) PROVE Clean
  BY <1>3, <1>5 DEF Finish, Cancelled
<1>6. CASE IngestNext
  <2>1. CASE Arrive
    BY <1>2, <2>1 DEF Arrive
  <2>2. ASSUME NEW r \in handling, Persist(r) \/ PersistFails(r) PROVE Clean
    BY <1>2, <2>2 DEF Persist, PersistFails
  <2>3. CASE PollOrders
    <3>1. tainted \subseteq tainted' /\ status' = status
      BY <2>3 DEF PollOrders, Fetch, Observe, FindExact, Bind, FindNothing, Insert,
                  InsertFails, Taint
    <3> QED
      BY <1>2, <3>1
  <2>4. CASE Start \/ Stop \/ Exit \/ Connection
    BY <1>2, <2>4 DEF Start, Stop, Exit, Connection
  <2> QED
    BY <1>4, <1>5, <1>6, <2>1, <2>2, <2>3, <2>4 DEF IngestNext
<1>7. CASE ~IngestNext
  <2>1. tainted' = tainted /\ status' = status
    BY <1>7 DEF Next, CheckOrderPipeline, Wake, Signal, Ripen, ingestVars
  <2> QED
    BY <1>2, <2>1
<1> QED
  BY <1>6, <1>7

LEMMA PollStory ==
  ASSUME Ingested, Clean, Story, PollOrders, Clean'
  PROVE  Story'
<1>1. ASSUME NEW o \in OrderSet, FindExact(o) \/ Bind(o) \/ FindNothing(o) \/ Insert(o)
                                  \/ InsertFails(o)
      PROVE  Story'
  BY <1>1, PassStory, BindStory, FindNothingStory, InsertStory
<1> QED
  BY <1>1, FetchStory, ObserveStory DEF PollOrders

LEMMA StepStory ==
  ASSUME Ingested, Clean => Story, [Next]_allVars
  PROVE  Clean' => Story'
<1> SUFFICES ASSUME Clean' PROVE Story'
  OBVIOUS
<1>1. CASE UNCHANGED allVars
  <2>1. UNCHANGED <<status, handling, table, cache, answer, at, inserting, wire, tainted>>
    BY <1>1 DEF allVars, ingestVars, pollVars
  <2>2. Clean
    BY <2>1 DEF Clean, Misspelt
  <2> QED
    BY <2>1, <2>2, IdleStory
<1>2. CASE Next
  <2>1. Clean /\ Story
    BY <1>2, CleanBefore
  <2>2. ASSUME NEW n \in DOMAIN Orders, Place(n) PROVE Story'
    BY <2>1, <2>2, PlaceStory
  <2>3. ASSUME NEW o \in OrderSet, NEW s \in Ended, Finish(o, s) PROVE Story'
    BY <2>1, <2>3, FinishStory
  <2>4. ASSUME NEW r \in handling, Persist(r) \/ PersistFails(r) PROVE Story'
    BY <2>1, <2>4, PersistStory
  <2>5. CASE Start \/ Stop \/ Connection
    <3>1. UNCHANGED <<status, handling, table, cache, answer, at, inserting>>
          /\ wire' \in {wire, <<>>}
      BY <2>5 DEF Start, Stop, Connection, pollVars
    <3> QED
      BY <2>1, <3>1, IdleStory
  <2>6. ASSUME NEW g \in Signals, Signal(g) PROVE Story'
    BY <2>1, <2>6, SignalStory
  <2>7. ASSUME UNCHANGED <<ingestVars, feedVars>> PROVE Story'
    <3>1. UNCHANGED <<status, handling, table, cache, answer, at, inserting, wire>>
      BY <2>7 DEF ingestVars, pollVars
    <3> QED
      BY <2>1, <3>1, IdleStory
  <2>8. CASE CheckOrderPipeline \/ Wake \/ \E a \in SignalAudits : Ripen(a)
    BY <2>7, <2>8 DEF CheckOrderPipeline, Wake, Ripen
  <2>9. CASE IngestNext
    BY <2>1, <2>2, <2>3, <2>4, <2>5, <2>9, ArriveStory, PollStory, ExitStory DEF IngestNext
  <2> QED
    BY <1>2, <2>6, <2>8, <2>9 DEF Next
<1> QED
  BY <1>1, <1>2

\* At the start nothing is told, or all of the entry.
LEMMA InitStory == ASSUME IngestInit PROVE Story
<1>1. wire = <<>> /\ handling = {} /\ ~Polling /\ inserting = FALSE /\ Seen = table
  BY DEF IngestInit, Polling, Seen
<1>2. \A o \in OrderSet : ~BeingPolled(o)
  BY <1>1 DEF BeingPolled
<1>3. Quiet /\ News /\ Pending
  BY <1>1, <1>2 DEF Quiet, News, Pending
<1>4. PICK entry \in OrderSet : entry = Orders[1]
  BY FirstOrder
<1>5. \A o \in OrderSet : status[o] # "none" => o = entry
  BY <1>4 DEF IngestInit, Fresh, EntryRecorded
<1>6. \A p, o \in OrderSet : Rival(p, o) => p # entry /\ o # entry
  <2> SUFFICES ASSUME NEW p, NEW o, Rival(p, o) PROVE p # entry /\ o # entry
    OBVIOUS
  <2>1. PICK i \in DOMAIN Orders, j \in DOMAIN Orders : i < j /\ Orders[i] = p /\ Orders[j] = o
    BY DEF Rival, Earlier
  <2>2. DOMAIN Orders = 1..Len(Orders) /\ Len(Orders) \in Nat
    BY IngestAssumption
  <2>3. j # 1 /\ 1 \in DOMAIN Orders
    BY <2>1, <2>2
  <2> QED
    BY <1>4, <2>1, <2>3, IngestAssumption DEF Rival
<1>7. Over
  BY <1>5, <1>6 DEF Over
<1>8. CASE Fresh
  BY <1>1, <1>3, <1>7, <1>8 DEF Story, Fresh, Told, InOrder, Sorted, Behind, Before
<1>9. CASE EntryRecorded
  <2>1. PICK c : c = [type |-> "ORDER_CREATED", trade |-> Trade, order |-> NoOrder,
                      side |-> Side[entry], at |-> 1, via |-> "socket", of |-> entry]
    OBVIOUS
  <2>2. PICK d : d = [type |-> "ORDER_OPEN", trade |-> Trade, order |-> entry,
                      side |-> Side[entry], at |-> 2, via |-> "poll", of |-> entry]
    OBVIOUS
  <2>3. PICK f : f = [type |-> "ORDER_FILLED", trade |-> Trade, order |-> entry,
                      side |-> Side[entry], at |-> 3, via |-> "socket", of |-> entry]
    OBVIOUS
  <2>4. table = {c, d, f} /\ status[entry] = "closed" /\ cache = status
    BY <1>4, <1>9, <2>1, <2>2, <2>3 DEF EntryRecorded
  <2>5. Told
    BY <1>1, <2>1, <2>2, <2>3, <2>4 DEF Told, Truthful, Since
  <2>6. InOrder
    BY <1>1, <2>1, <2>2, <2>3, <2>4, Values DEF InOrder, Precedes, Terminal
  <2>7. Sorted
    BY <1>1, <1>6, <2>1, <2>2, <2>3, <2>4, Rivals DEF Sorted
  <2>8. Behind
    BY <1>1, <2>4 DEF Behind, Before
  <2> QED
    BY <1>3, <1>7, <2>5, <2>6, <2>7, <2>8 DEF Story
<1> QED
  BY <1>8, <1>9 DEF IngestInit

(***************************************************************************)
(* Which order a record is told to.                                        *)
(***************************************************************************)
\* Of the records observed so far one is the newest.
LEMMA NewestFound ==
  ASSUME NEW S, S # {}, NEW n \in Nat, \A a \in S : a.at \in Nat /\ a.at <= n
  PROVE  Newest(S) \in S /\ \A b \in S : b.at <= Newest(S).at
<1>1. PICK age : age = [a \in S |-> n - a.at]
  OBVIOUS
<1>2. age \in [S -> Nat]
  BY <1>1
<1>3. PICK a \in S : \A b \in S : age[a] <= age[b]
  BY <1>2, LeastBy
<1>4. \A b \in S : b.at <= a.at
  <2> SUFFICES ASSUME NEW b \in S PROVE b.at <= a.at
    OBVIOUS
  <2>1. n - a.at <= n - b.at
    BY <1>1, <1>3
  <2> QED
    BY <2>1
<1> QED
  BY <1>4 DEF Newest

\* And one is the closest to a given one.
LEMMA ClosestFound ==
  ASSUME NEW S, S # {}, NEW a, a.at \in Nat, \A b \in S : b.at \in Nat
  PROVE  Closest(a, S) \in S /\ \A b \in S : Distance(a, Closest(a, S)) <= Distance(a, b)
<1>1. \A b \in S : Distance(a, b) \in Nat
  BY DEF Distance
<1>2. PICK far : far = [b \in S |-> Distance(a, b)]
  OBVIOUS
<1>3. PICK d \in S : \A b \in S : far[d] <= far[b]
  <2>1. far \in [S -> Nat]
    BY <1>1, <1>2
  <2> QED
    BY <2>1, LeastBy
<1>4. PICK T : T = {b \in S : Distance(a, b) = Distance(a, d)}
  OBVIOUS
<1>5. PICK time : time = [b \in T |-> b.at]
  OBVIOUS
<1>6. PICK e \in T : \A b \in T : time[e] <= time[b]
  <2>1. time \in [T -> Nat] /\ d \in T
    BY <1>4, <1>5
  <2> QED
    BY <2>1, LeastBy
<1>7. e \in S /\ \A c \in S : \/ Distance(a, e) < Distance(a, c)
                              \/ Distance(a, e) = Distance(a, c) /\ e.at <= c.at
  <2> SUFFICES ASSUME NEW c \in S, Distance(a, e) # Distance(a, c)
                                   \/ ~(e.at <= c.at)
               PROVE  Distance(a, e) < Distance(a, c)
    BY <1>4
  <2>1. Distance(a, e) = Distance(a, d) /\ Distance(a, d) <= Distance(a, c)
    BY <1>2, <1>3, <1>4
  <2>2. Distance(a, c) = Distance(a, d) => e.at <= c.at
    BY <1>4, <1>5, <1>6
  <2> QED
    BY <1>1, <2>1, <2>2
<1>8. PICK b \in S : b = Closest(a, S) /\ \A c \in S : \/ Distance(a, b) < Distance(a, c)
                                                       \/ Distance(a, b) = Distance(a, c) /\ b.at <= c.at
  BY <1>7 DEF Closest
<1>9. \A c \in S : Distance(a, b) <= Distance(a, c)
  BY <1>1, <1>8
<1> QED
  BY <1>8, <1>9

\* The records told to an order are those about one.
LEMMA PlacedRecords ==
  ASSUME Ingested, Told
  PROVE  Placed(TradeTimeline(table, Trade)) = {a \in table : a.of \in OrderSet}
<1>1. \A a \in table : Truthful(a) /\ a.type \in Types
  BY SeenTypes DEF Told, Seen
<1>2. \A a \in table : StateValue[a.type] > 0 <=> a.of \in OrderSet
  <2> SUFFICES ASSUME NEW a \in table PROVE StateValue[a.type] > 0 <=> a.of \in OrderSet
    OBVIOUS
  <2> QED
    BY <1>1, Values, IngestAssumption DEF Truthful, Since
<1>3. \A a \in table : a.of \in OrderSet => a.trade = Trade
  BY <1>1, IngestAssumption DEF Truthful
<1> QED
  BY <1>2, <1>3 DEF Placed, TradeTimeline

LEMMA OrderlyClean ==
  ASSUME Orderly
  PROVE  Clean /\ \A o \in OrderSet : status[o] # "none" => Known(o)
  BY DEF Orderly, Clean

\* Of an order that is known there is a record that names it; and what has no
\* order says how the order began or how it ended.
LEMMA KnownBy ==
  ASSUME Ingested, Told, Orderly, NEW a \in table, a.of \in OrderSet, a.order = NoOrder
  PROVE  /\ \E k \in table : k.order = a.of /\ k.of = a.of
         /\ a.type \in {"ORDER_CREATED", "ORDER_FILLED", "ORDER_CANCELLED"}
<1>1. \A q \in table : Truthful(q) /\ q \in Seen
  BY DEF Told, Seen
<1>2. status[a.of] # "none"
  BY <1>1, ToldPlaced
<1>3. PICK k \in table : k.order = a.of
  BY <1>2, OrderlyClean DEF Known
<1>4. k.of = a.of
  BY <1>1, <1>3, IngestAssumption DEF Truthful
<1>5. a.type # "ORDER_OPEN" /\ a.type # "SIGNAL"
  BY <1>1, IngestAssumption DEF Truthful, Since
<1> QED
  BY <1>1, <1>3, <1>4, <1>5, IngestAssumption DEF Truthful, Since

\* A record that does not name its order is told to it all the same: the record
\* of an order that is closest to it, on the right side and in the right
\* direction, is its own order's.
LEMMA Attributed ==
  ASSUME Ingested, Story, Orderly, NEW tl, tl = TradeTimeline(table, Trade),
         NEW a \in Placed(tl)
  PROVE  ResolvedOrder(tl, a) = a.of
<1>1. Placed(tl) = {b \in table : b.of \in OrderSet}
  BY PlacedRecords DEF Story
<1>2. \A b \in Placed(tl) : b \in table /\ b \in Seen /\ b.of \in OrderSet /\ Truthful(b) 
                             /\ b.at \in Nat
  BY <1>1, SeenTypes DEF Story, Told, Seen
<1>3. CASE a.order # NoOrder
  BY <1>2, <1>3, IngestAssumption DEF ResolvedOrder, Truthful
<1>4. CASE a.order = NoOrder
  <2>1. PICK k \in Placed(tl) : k.order = a.of /\ k.of = a.of
    BY <1>1, <1>2, <1>4, KnownBy DEF Story
  <2>2. a.type \in {"ORDER_CREATED", "ORDER_FILLED", "ORDER_CANCELLED"}
    BY <1>2, <1>4, KnownBy DEF Story
  <2>3. PICK o \in OrderSet : o = a.of
    BY <1>2
  <2>4. Precedes(a, k) \/ Precedes(k, a)
    <3>1. a # k
      BY <1>4, <2>1, <2>3, IngestAssumption
    <3> QED
      BY <1>2, <2>1, <3>1 DEF Story, InOrder
  <2>5. RightWay(a, k) /\ k.at # a.at
    <3>1. CASE a.type = "ORDER_CREATED"
      <4>1. k.type # "ORDER_CREATED" /\ k.type # "SIGNAL"
        BY <1>2, <2>1, <2>3, IngestAssumption DEF Truthful, Since
      <4>2. StateValue[k.type] > 1
        <5>1. Truthful(k) /\ k.of # NoOrder
          BY <1>2, <2>1, <2>3, IngestAssumption
        <5> QED
          BY <4>1, <5>1, Values DEF Truthful, Since
      <4>3. StateValue[k.type] \in 0..6
        BY <1>2, SeenTypes
      <4>4. a.at < k.at
        BY <2>4, <3>1, <4>2, <4>3, Values DEF Precedes
      <4>5. a.type \notin TerminationTypes
        BY <3>1, Values DEF TerminationTypes, TerminalTypes, Terminal
      <4> QED
        BY <1>2, <4>4, <4>5 DEF RightWay
    <3>2. CASE a.type # "ORDER_CREATED"
      <4>1. StateValue[a.type] = 6
        BY <2>2, <3>2, Values
      <4>2. k.at < a.at
        BY <1>2, <2>4, <4>1 DEF Precedes, Terminal
      <4>3. a.type \notin InitiationTypes
        BY <4>1 DEF InitiationTypes
      <4> QED
        BY <1>2, <4>2, <4>3 DEF RightWay
    <3> QED
      BY <3>1, <3>2
  <2>6. PICK directed : directed = {b \in Placed(tl) : /\ b.order # NoOrder /\ SameSide(a, b)
                                                       /\ RightWay(a, b)}
    OBVIOUS
  <2>7. k \in directed /\ Candidates(tl, a) = directed
    <3>1. SameSide(a, k)
      BY <1>2, <2>1, <2>3, IngestAssumption DEF SameSide, Truthful
    <3>2. k \in directed
      BY <2>1, <2>3, <2>5, <2>6, <3>1, IngestAssumption
    <3> QED
      BY <2>6, <3>2 DEF Candidates
  <2>8. PICK c \in directed : c = Closest(a, directed) /\ Distance(a, c) <= Distance(a, k)
    <3>1. directed # {} /\ a.at \in Nat /\ \A b \in directed : b.at \in Nat
      BY <1>2, <2>6, <2>7
    <3> QED
      BY <2>7, <3>1, ClosestFound
  <2>9. c \in Placed(tl) /\ c.order # NoOrder /\ SameSide(a, c) /\ RightWay(a, c)
    BY <2>6
  <2>10. c.order = c.of /\ c.of \in OrderSet
    BY <1>2, <2>9, IngestAssumption DEF Truthful
  <2>11. c.of = o
    <3> SUFFICES ASSUME c.of # o PROVE FALSE
      OBVIOUS
    <3>1. Side[c.of] = Side[o]
      <4>1. a.side = Side[o] /\ c.side = Side[c.of]
        BY <1>2, <2>3, <2>9, <2>10, IngestAssumption DEF Truthful
      <4>2. Side[o] # "none" /\ Side[c.of] # "none"
        BY <2>10, IngestAssumption
      <4> QED
        BY <2>9, <4>1, <4>2 DEF SameSide
    <3>2. Rival(c.of, o) \/ Rival(o, c.of)
      BY <2>10, <3>1, SideRivals
    <3>3. a.at \in Nat /\ k.at \in Nat /\ c.at \in Nat
      BY <1>2, <2>9
    <3>4. /\ Rival(c.of, o) => c.at < a.at /\ c.at < k.at
          /\ Rival(o, c.of) => a.at < c.at /\ k.at < c.at
      BY <1>2, <2>1, <2>3, <2>9 DEF Story, Sorted
    <3>5. CASE a.type = "ORDER_CREATED"
      <4>1. a.at <= c.at /\ a.at <= k.at
        <5>1. a.type \in InitiationTypes
          BY <3>5, Values DEF InitiationTypes
        <5> QED
          BY <2>5, <2>9, <5>1 DEF RightWay
      <4>2. k.at < c.at
        BY <3>2, <3>3, <3>4, <4>1
      <4> QED
        BY <2>8, <3>3, <4>1, <4>2 DEF Distance
    <3>6. CASE a.type # "ORDER_CREATED"
      <4>1. c.at <= a.at /\ k.at <= a.at
        <5>1. a.type \in TerminationTypes
          BY <2>2, <3>6, Values DEF TerminationTypes, TerminalTypes, Terminal
        <5> QED
          BY <2>5, <2>9, <5>1 DEF RightWay
      <4>2. c.at < k.at
        BY <3>2, <3>3, <3>4, <4>1
      <4> QED
        BY <2>8, <3>3, <4>1, <4>2 DEF Distance
    <3> QED
      BY <3>5, <3>6
  <2> QED
    BY <1>4, <2>3, <2>7, <2>8, <2>10, <2>11 DEF ResolvedOrder
<1> QED
  BY <1>3, <1>4

(***************************************************************************)
(* The life of an order.                                                   *)
(***************************************************************************)
\* Induction, as far as sets go.
LEMMA AllNaturals ==
  ASSUME NEW V, V \subseteq Nat, 0 \in V, \A n \in V : n + 1 \in V
  PROVE  V = Nat
<1> SUFFICES ASSUME Nat \ V # {} PROVE FALSE
  OBVIOUS
<1>1. PICK id : id = [n \in Nat \ V |-> n]
  OBVIOUS
<1>2. PICK m \in Nat \ V : \A n \in Nat \ V : id[m] <= id[n]
  <2>1. id \in [Nat \ V -> Nat]
    BY <1>1
  <2> QED
    BY <2>1, LeastBy
<1>3. m - 1 \in Nat /\ (m - 1) + 1 = m
  OBVIOUS
<1>4. m - 1 \in V
  BY <1>1, <1>2, <1>3
<1> QED
  BY <1>3, <1>4

\* The lives of the sets of events are well defined: each is what the newest
\* event makes of the life of the others.
LEMMA LivesDefined ==
  ASSUME NEW E, IsFiniteSet(E), NEW G, NEW u,
         \A S \in SUBSET E : S # {} => Newest(S) \in S
  PROVE  \A S \in SUBSET E :
           Lives(E, G, u)[S] =
             IF S = {} THEN Unseen
             ELSE Meet(Lives(E, G, u)[S \ {Newest(S)}], Newest(S).type, G, u)
<1> DEFINE Body(f, S) == IF S = {} THEN Unseen
                         ELSE Meet(f[S \ {Newest(S)}], Newest(S).type, G, u)
           Upto(f, n) == \A S \in SUBSET E : Cardinality(S) <= n => f[S] = Body(f, S)
           V == {n \in Nat : \E f : f = [S \in SUBSET E |-> f[S]] /\ Upto(f, n)}
<1>1. \A S \in SUBSET E : IsFiniteSet(S) /\ Cardinality(S) \in Nat
  BY FS_Subset, FS_CardinalityType
<1>2. 0 \in V
  <2>1. PICK f : f = [S \in SUBSET E |-> Unseen]
    OBVIOUS
  <2>2. f = [S \in SUBSET E |-> f[S]]
    BY <2>1
  <2>3. Upto(f, 0)
    <3> SUFFICES ASSUME NEW S \in SUBSET E, Cardinality(S) <= 0 PROVE f[S] = Body(f, S)
      OBVIOUS
    <3>1. S = {}
      BY <1>1, FS_EmptySet
    <3> QED
      BY <2>1, <3>1
  <2> QED
    BY <2>2, <2>3
<1>3. ASSUME NEW n \in V PROVE n + 1 \in V
  <2>1. PICK f : f = [S \in SUBSET E |-> f[S]] /\ Upto(f, n)
    OBVIOUS
  <2>2. PICK g : g = [S \in SUBSET E |-> Body(f, S)]
    OBVIOUS
  <2>3. Upto(g, n + 1)
    <3> SUFFICES ASSUME NEW S \in SUBSET E, Cardinality(S) <= n + 1, S # {}
                 PROVE  g[S] = Body(g, S)
      BY <2>2
    <3>1. PICK T : T = S \ {Newest(S)}
      OBVIOUS
    <3>2. T \in SUBSET E /\ Cardinality(T) <= n
      <4>1. Newest(S) \in S /\ IsFiniteSet(S) /\ n \in Nat /\ Cardinality(S) \in Nat
        BY <1>1
      <4>2. Cardinality(T) = Cardinality(S) - 1
        BY <3>1, <4>1, FS_RemoveElement
      <4> QED
        BY <3>1, <4>1, <4>2
    <3>3. g[T] = f[T]
      BY <2>1, <2>2, <3>2
    <3> QED
      BY <2>2, <3>1, <3>3
  <2>4. g = [S \in SUBSET E |-> g[S]]
    BY <2>2
  <2>5. n + 1 \in Nat
    OBVIOUS
  <2> HIDE DEF Upto
  <2> QED
    BY <2>3, <2>4, <2>5
<1>4. V = Nat
  <2> HIDE DEF Upto
  <2>1. V \subseteq Nat
    OBVIOUS
  <2> HIDE DEF V
  <2> QED
    BY <1>2, <1>3, <2>1, AllNaturals
<1>5. PICK f : f = [S \in SUBSET E |-> f[S]] /\ Upto(f, Cardinality(E))
  <2>1. Cardinality(E) \in V
    BY <1>1, <1>4
  <2> QED
    BY <2>1
<1>6. f = [S \in SUBSET E |-> Body(f, S)]
  <2>1. \A S \in SUBSET E : f[S] = Body(f, S)
    BY <1>1, <1>5, FS_Subset
  <2> HIDE DEF Body
  <2> QED
    BY <1>5, <2>1
<1>7. Lives(E, G, u) = CHOOSE h : h = [S \in SUBSET E |-> Body(h, S)]
  BY DEF Lives
<1>8. Lives(E, G, u) = [S \in SUBSET E |-> Body(Lives(E, G, u), S)]
  <2> HIDE DEF Body
  <2> QED
    BY <1>6, <1>7
<1> QED
  BY <1>8

\* A life that went well so far.
Lived(v, type) ==
  /\ v.type = type /\ v.stage = StateValue[type]
  /\ v.stage < Terminal => v.ended = {}

Outcome ==
  [stage : Int, type : Types \cup {"none"}, ended : SUBSET Types, violation : {"none"},
   skipped : BOOLEAN, duplicates : Nat]

\* The next event of a legal life is met without a violation.
LEMMA Lawful ==
  ASSUME NEW v \in Outcome, NEW type \in Types, NEW G, NEW u, ~u,
         v = Unseen \/ \E t \in Types : /\ Lived(v, t) /\ StateValue[t] < Terminal
                                        /\ StateValue[t] <= StateValue[type]
  PROVE  Meet(v, type, G, u) \in Outcome /\ Lived(Meet(v, type, G, u), type)
<1>1. v.ended = {} /\ v.stage <= StateValue[type] /\ v.stage < 6 /\ v.violation = "none"
  BY Values DEF Unseen, Lived, Terminal, Outcome
<1>2. v.stage \in Int /\ StateValue[type] \in 0..6
  BY Values DEF Outcome
<1>3. CASE type = v.type
  <2>1. PICK t \in Types : Lived(v, t) /\ StateValue[t] < Terminal
    BY <1>3, Values DEF Unseen
  <2>2. type # "ORDER_FILLED" /\ v.stage = StateValue[type]
    BY <1>3, <2>1, Values DEF Lived, Terminal
  <2>3. Meet(v, type, G, u) = [v EXCEPT !.duplicates = @ + 1]
    BY <1>3, <2>2 DEF Meet, Repeat, Outcome
  <2> QED
    BY <1>1, <1>3, <2>2, <2>3 DEF Outcome, Lived
<1>4. CASE type # v.type
  <2>1. PICK skips \in BOOLEAN : skips = (Passed(v, type) \cap G # {})
    OBVIOUS
  <2>2. PICK ended \in SUBSET Types : ended = IF StateValue[type] = Terminal THEN {type} ELSE {}
    OBVIOUS
  <2>3. PICK skipped \in BOOLEAN : skipped = (v.skipped \/ skips)
    OBVIOUS
  <2>4. Violation(v, type, u /\ skips) = "none"
    <3>1. v.ended \ {type} = {} /\ ~(StateValue[type] < v.stage)
      BY <1>1, <1>2
    <3> QED
      BY <1>1, <3>1 DEF Violation
  <2>5. PICK w : w = Meet(v, type, G, u)
    OBVIOUS
  <2>6. w = [v EXCEPT !.stage = StateValue[type], !.type = type, !.ended = ended,
                      !.violation = "none", !.skipped = skipped]
    <3>1. w = [Advance(v, type, u /\ skips) EXCEPT !.skipped = @ \/ skips]
      BY <1>4, <2>1, <2>5 DEF Meet
    <3>2. Advance(v, type, u /\ skips) =
            [v EXCEPT !.stage = StateValue[type], !.type = type, !.ended = ended,
                      !.violation = "none"]
      BY <1>1, <2>2, <2>4 DEF Advance, Outcome
    <3> QED
      BY <2>3, <3>1, <3>2 DEF Outcome
  <2>7. /\ w.stage = StateValue[type] /\ w.type = type /\ w.ended = ended
    BY <2>6 DEF Outcome
  <2>8. w \in Outcome
    <3>1. w = [stage |-> StateValue[type], type |-> type, ended |-> ended,
               violation |-> "none", skipped |-> skipped, duplicates |-> v.duplicates]
      BY <2>6 DEF Outcome
    <3>2. v.duplicates \in Nat /\ StateValue[type] \in Int
      BY <1>2 DEF Outcome
    <3> QED
      BY <3>1, <3>2 DEF Outcome
  <2>9. w.stage < Terminal => w.ended = {}
    BY <1>2, <2>2, <2>7 DEF Terminal
  <2> QED
    BY <2>5, <2>7, <2>8, <2>9 DEF Lived
<1> QED
  BY <1>3, <1>4

\* Events in the order of a life, of which only the last ends it, make a legal life.
LEMMA LegalLife ==
  ASSUME NEW E, IsFiniteSet(E), NEW n \in Nat,
         \A a \in E : a.at \in Nat /\ a.at <= n /\ a.type \in Types,
         \A r, q \in E : r = q \/ Precedes(r, q) \/ Precedes(q, r),
         NEW G, NEW u, ~u
  PROVE  Validate(E, G, u).violation = "none"
<1> DEFINE life == Lives(E, G, u)
           Good(S) == /\ life[S] \in Outcome
                      /\ S = {} => life[S] = Unseen
                      /\ S # {} => Lived(life[S], Newest(S).type)
           V == {i \in Nat : \A S \in SUBSET E : Cardinality(S) <= i => Good(S)}
<1>1. \A S \in SUBSET E : IsFiniteSet(S) /\ Cardinality(S) \in Nat
  BY FS_Subset, FS_CardinalityType
<1>2. \A S \in SUBSET E : S # {} => Newest(S) \in S /\ \A b \in S : b.at <= Newest(S).at
  BY NewestFound
<1>3. \A S \in SUBSET E :
        life[S] = IF S = {} THEN Unseen
                  ELSE Meet(life[S \ {Newest(S)}], Newest(S).type, G, u)
  BY <1>2, LivesDefined
<1> HIDE DEF life
<1>4. Good({})
  <2>1. Unseen \in Outcome
    BY DEF Unseen, Outcome
  <2> QED
    BY <1>3, <2>1
<1>5. 0 \in V
  <2>1. \A S \in SUBSET E : Cardinality(S) <= 0 => S = {}
    BY <1>1, FS_EmptySet
  <2> HIDE DEF Good
  <2> QED
    BY <1>4, <2>1
<1>6. ASSUME NEW i \in V PROVE i + 1 \in V
  <2> SUFFICES ASSUME NEW S \in SUBSET E, Cardinality(S) <= i + 1, S # {} PROVE Good(S)
    <3> HIDE DEF Good
    <3> QED
      BY <1>4
  <2>1. PICK e \in S : e = Newest(S) /\ \A b \in S : b.at <= e.at
    BY <1>2
  <2>2. PICK T : T = S \ {e}
    OBVIOUS
  <2>3. T \in SUBSET E /\ Cardinality(T) <= i
    <3>1. IsFiniteSet(S) /\ i \in Nat /\ Cardinality(S) \in Nat
      BY <1>1
    <3>2. Cardinality(T) = Cardinality(S) - 1
      BY <2>2, <3>1, FS_RemoveElement
    <3> QED
      BY <2>2, <3>1, <3>2
  <2>4. Good(T)
    <3> HIDE DEF Good
    <3> QED
      BY <2>3
  <2>5. life[S] = Meet(life[T], e.type, G, u)
    BY <1>3, <2>1, <2>2
  <2>6. \/ life[T] = Unseen
        \/ \E t \in Types : /\ Lived(life[T], t) /\ StateValue[t] < Terminal
                            /\ StateValue[t] <= StateValue[e.type]
    <3>1. CASE T = {}
      BY <2>4, <3>1
    <3>2. CASE T # {}
      <4>1. PICK f \in T : f = Newest(T)
        BY <1>2, <2>3, <3>2
      <4>2. f \in E /\ e \in E /\ f # e /\ f.at <= e.at /\ f.at \in Nat /\ e.at \in Nat
        BY <2>1, <2>2, <2>3
      <4>3. Precedes(f, e)
        BY <4>2 DEF Precedes
      <4>4. Lived(life[T], f.type) /\ f.type \in Types
        BY <2>4, <3>2, <4>1, <4>2
      <4> QED
        BY <4>3, <4>4 DEF Precedes
    <3> QED
      BY <3>1, <3>2
  <2>7. PICK v \in Outcome : v = life[T]
    BY <2>4
  <2>8. e.type \in Types
    BY <2>1
  <2>9. Meet(v, e.type, G, u) \in Outcome /\ Lived(Meet(v, e.type, G, u), e.type)
    <3>1. v = Unseen \/ \E t \in Types : /\ Lived(v, t) /\ StateValue[t] < Terminal
                                         /\ StateValue[t] <= StateValue[e.type]
      BY <2>6, <2>7
    <3> QED
      BY <2>8, <3>1, Lawful
  <2> QED
    BY <2>1, <2>5, <2>7, <2>9
<1>7. Good(E)
  <2>1. V = Nat
    <3>1. V \subseteq Nat
      OBVIOUS
    <3> HIDE DEF V
    <3> QED
      BY <1>5, <1>6, <3>1, AllNaturals
  <2>2. Cardinality(E) \in V
    BY <1>1, <2>1
  <2> HIDE DEF Good
  <2> QED
    BY <1>1, <2>2
<1> QED
  BY <1>7 DEF Validate, life, Outcome

(***************************************************************************)
(* No false alarm.                                                         *)
(***************************************************************************)
LEMMA StoryLegal ==
  ASSUME Ingested, Clean => Story
  PROVE  NoFalseAlarm
<1> SUFFICES ASSUME Orderly
             PROVE  Invalid(Verdicts(OrderTimelines(TradeTimeline(table, Trade)), "FREQTRADE",
                                     Unexpected(table, Trade, "FREQTRADE"))) = {}
  BY DEF NoFalseAlarm
<1>1. Story
  BY OrderlyClean
<1>2. PICK u : u = Unexpected(table, Trade, "FREQTRADE")
  OBVIOUS
<1>3. ~u
  BY <1>2 DEF Unexpected
<1>4. PICK tl : tl = TradeTimeline(table, Trade)
  OBVIOUS
<1>5. PICK lives : lives = OrderTimelines(tl)
  OBVIOUS
<1>6. Placed(tl) = {a \in table : a.of \in OrderSet}
  BY <1>1, <1>4, PlacedRecords DEF Story
<1>7. \A a \in Placed(tl) : ResolvedOrder(tl, a) = a.of
  BY <1>1, <1>4, Attributed
<1>8. \A o \in DOMAIN lives : o \in OrderSet /\ lives[o] = {a \in table : a.of = o}
  <2>1. lives = [o \in {ResolvedOrder(tl, a) : a \in Placed(tl)} |->
                   {a \in Placed(tl) : ResolvedOrder(tl, a) = o}]
    BY <1>5 DEF OrderTimelines
  <2> QED
    BY <1>6, <1>7, <2>1
<1>9. ASSUME NEW o \in DOMAIN lives
      PROVE  Validate(lives[o], GuaranteedStages("FREQTRADE"), u).violation = "none"
  <2>1. PICK E : E = lives[o]
    OBVIOUS
  <2>2. E \subseteq table /\ \A a \in E : a.of = o /\ a.of \in OrderSet
    BY <1>8, <2>1
  <2>3. IsFiniteSet(E) /\ now \in Nat
    BY <2>2, FS_Subset, SeenTypes DEF Ingested, TableOK
  <2>4. \A a \in E : a.at \in Nat /\ a.at <= now /\ a.type \in Types
    BY <2>2, SeenTypes DEF Seen
  <2>5. \A r, q \in E : r = q \/ Precedes(r, q) \/ Precedes(q, r)
    BY <1>1, <2>2 DEF Story, InOrder, Seen
  <2> QED
    BY <1>3, <2>1, <2>3, <2>4, <2>5, LegalLife
<1>10. Verdicts(lives, "FREQTRADE", u) =
         [o \in DOMAIN lives |-> Validate(lives[o], GuaranteedStages("FREQTRADE"), u)]
  BY DEF Verdicts
<1>11. Invalid(Verdicts(lives, "FREQTRADE", u)) = {}
  BY <1>9, <1>10 DEF Invalid
<1> QED
  BY <1>2, <1>4, <1>5, <1>11

\* The untainted tell the story of their orders, for any interleaving of messages,
\* polls, faults and restarts.
THEOREM StoryHolds == Spec => [](Clean => Story)
<1>1. Init => (Clean => Story)
  BY InitStory DEF Init
<1>2. IInv /\ (Clean => Story) /\ [Next]_allVars => (Clean => Story)'
  BY StepStory DEF IInv
<1> QED
  BY <1>1, <1>2, Invariance, PTL DEF Spec

\* Orders that went through legal lives and were recorded in an orderly way,
\* messages and inserts being lost or not, never look like a violation to the
\* check of the pipeline.
THEOREM NoOrderlyAlarm == Spec => []NoFalseAlarm
<1>1. IInv /\ (Clean => Story) => NoFalseAlarm
  BY StoryLegal DEF IInv
<1> QED
  BY <1>1, StoryHolds, Invariance, PTL

\* The pipeline check tells every record to the order it is about.
THEOREM RecordsFindTheirOrder == Spec => []OwnOrder
<1>1. IInv /\ (Clean => Story) => OwnOrder
  <2> SUFFICES ASSUME IInv, Clean => Story, Orderly, NEW tl, tl = TradeTimeline(table, Trade),
                      NEW a \in Placed(tl)
               PROVE  ResolvedOrder(tl, a) = a.of
    BY DEF OwnOrder
  <2>1. Story /\ Ingested
    BY OrderlyClean DEF IInv
  <2> QED
    BY <2>1, Attributed
<1> QED
  BY <1>1, StoryHolds, Invariance, PTL

(***************************************************************************)
(* What the cache hides.                                                   *)
(***************************************************************************)
\* The records T have, under the order's id, the event that status s stands for.
OnRecord(T, o, s) == \E r \in T : r.order = o /\ r.type = EventType(s)

\* Caching s for an order hides nothing, for records T and taints M.
Honest(T, M, o, s) == s = "none" \/ OnRecord(T, o, s) \/ <<o, "lost">> \in M

CacheHonest == \A o \in OrderSet : Honest(table, tainted, o, cache[o])

LEMMA CacheHonestly == CacheHonest <=> CacheHidesNothing
  BY DEF CacheHonest, CacheHidesNothing, Honest, OnRecord

\* What is on record under an order stays there.
LEMMA HonestStays ==
  ASSUME NEW T, NEW U, NEW M, NEW N, NEW o \in OrderSet, NEW s, Honest(T, M, o, s),
         M \subseteq N, \A r \in T : r.order # NoOrder => r \in U
  PROVE  Honest(U, N, o, s)
<1>1. o # NoOrder
  BY IngestAssumption
<1> QED
  BY <1>1 DEF Honest, OnRecord

\* The cache takes up nothing new.
LEMMA CacheStays ==
  ASSUME CacheHonest, tainted \subseteq tainted', cache' = cache,
         \A r \in table : r.order # NoOrder => r \in table'
  PROVE  CacheHonest'
<1> SUFFICES ASSUME NEW o \in OrderSet PROVE Honest(table', tainted', o, cache'[o])
  BY DEF CacheHonest
<1>1. Honest(table, tainted, o, cache[o])
  BY DEF CacheHonest
<1> QED
  BY <1>1, HonestStays

\* What the poll did about an order before it caches the status it was told.
LEMMA GoHonest ==
  ASSUME Ingested, NEW o \in OrderSet, FindExact(o) \/ Bind(o) \/ Insert(o) \/ InsertFails(o),
         NEW s, s = answer[o]
  PROVE  OnRecord(table', o, s) \/ <<o, "lost">> \in tainted'
<1>1. CASE FindExact(o)
  BY <1>1 DEF FindExact, ExactMatch, OnRecord
<1>2. CASE Bind(o)
  <2>1. PICK r \in Unbound(o) : table' = (table \ {r}) \cup {[r EXCEPT !.order = o]}
    BY <1>2 DEF Bind
  <2>2. PICK b : b = [r EXCEPT !.order = o]
    OBVIOUS
  <2>3. r \in Audit /\ r.type = EventType(s)
    BY <2>1 DEF Unbound, Ingested, TableOK
  <2>4. b.order = o /\ b.type = EventType(s)
    BY <2>2, <2>3 DEF Audit
  <2> QED
    BY <2>1, <2>2, <2>4 DEF OnRecord
<1>3. CASE Insert(o)
  <2>1. PICK e : e = FromPoll(o)
    OBVIOUS
  <2>2. e.order = o /\ e.type = EventType(s)
    BY <2>1 DEF FromPoll
  <2>3. CASE table' = table \cup {e}
    BY <2>2, <2>3 DEF OnRecord
  <2>4. CASE table' # table \cup {e}
    BY <1>3, <2>1, <2>4 DEF Insert, HasLifecycleEvent, OnRecord
  <2> QED
    BY <2>3, <2>4
<1>4. CASE InsertFails(o)
  BY <1>4 DEF InsertFails, Taint
<1> QED
  BY <1>1, <1>2, <1>3, <1>4

LEMMA GoHidesNothing ==
  ASSUME Ingested, CacheHonest, NEW o \in OrderSet,
         FindExact(o) \/ Bind(o) \/ Insert(o) \/ InsertFails(o)
  PROVE  CacheHonest'
<1>1. Go(o) /\ tainted \subseteq tainted'
  BY DEF FindExact, Bind, Insert, InsertFails, Taint
<1>2. PICK s : s = answer[o]
  OBVIOUS
<1>3. cache \in [OrderSet -> Statuses] /\ cache' = [cache EXCEPT ![o] = s]
  BY <1>1, <1>2 DEF Ingested, PollOK, Go
<1>4. \A r \in table : r.order # NoOrder => r \in table'
  BY DEF FindExact, Bind, Insert, InsertFails, Unbound
<1>5. OnRecord(table', o, s) \/ <<o, "lost">> \in tainted'
  BY <1>2, GoHonest
<1> SUFFICES ASSUME NEW p \in OrderSet PROVE Honest(table', tainted', p, cache'[p])
  BY DEF CacheHonest
<1>6. CASE p = o
  BY <1>3, <1>5, <1>6 DEF Honest
<1>7. CASE p # o
  <2>1. Honest(table, tainted, p, cache[p])
    BY DEF CacheHonest
  <2> QED
    BY <1>1, <1>3, <1>4, <1>7, <2>1, HonestStays
<1> QED
  BY <1>6, <1>7

LEMMA StepHidesNothing ==
  ASSUME Ingested, CacheHonest, [Next]_allVars
  PROVE  CacheHonest'
<1>1. CASE UNCHANGED allVars
  BY <1>1, CacheStays DEF allVars, ingestVars, pollVars
<1>2. CASE PollOrders
  <2>1. CASE Fetch \/ Observe
    BY <2>1, CacheStays DEF Fetch, Observe, Taint
  <2>2. ASSUME NEW o \in OrderSet, FindNothing(o) PROVE CacheHonest'
    BY <2>2, CacheStays DEF FindNothing, Taint
  <2> QED
    BY <1>2, <2>1, <2>2, GoHidesNothing DEF PollOrders
<1>3. CASE Exit
  BY <1>3 DEF Exit, CacheHonest, Honest
<1>4. CASE IngestNext /\ ~PollOrders /\ ~Exit
  <2>1. tainted \subseteq tainted' /\ cache' = cache /\ table \subseteq table'
    BY <1>4 DEF IngestNext, Place, Finish, Arrive, Persist, PersistFails, Start, Stop,
                Connection, pollVars
  <2> QED
    BY <2>1, CacheStays
<1>5. CASE Next /\ ~IngestNext
  <2>1. tainted' = tainted /\ cache' = cache /\ table \subseteq table'
    BY <1>5 DEF Next, CheckOrderPipeline, Wake, Signal, Ripen, ingestVars, pollVars
  <2> QED
    BY <2>1, CacheStays
<1> QED
  BY <1>1, <1>2, <1>3, <1>4, <1>5 DEF Next

\* What polling passes over from now on is on record under the order's id, unless
\* that very insert failed.
THEOREM CacheIsHonest == Spec => []CacheHidesNothing
<1>1. Init => CacheHonest
  <2> SUFFICES ASSUME IngestInit, NEW o \in OrderSet PROVE Honest(table, tainted, o, cache[o])
    BY DEF CacheHonest, Init
  <2>1. CASE Fresh
    BY <2>1 DEF Fresh, Honest
  <2>2. CASE EntryRecorded
    <3>1. PICK f : f = [type |-> "ORDER_FILLED", trade |-> Trade, order |-> Orders[1],
                        side |-> Side[Orders[1]], at |-> 3, via |-> "socket", of |-> Orders[1]]
      OBVIOUS
    <3>2. f \in table /\ f.order = Orders[1] /\ f.type = "ORDER_FILLED"
      BY <2>2, <3>1 DEF EntryRecorded
    <3>3. cache[o] = IF o = Orders[1] THEN "closed" ELSE "none"
      BY <2>2 DEF EntryRecorded
    <3>4. EventType("closed") = "ORDER_FILLED"
      BY DEF EventType
    <3> QED
      BY <3>2, <3>3, <3>4 DEF Honest, OnRecord
  <2> QED
    BY <2>1, <2>2 DEF IngestInit
<1>2. IInv /\ CacheHonest /\ [Next]_allVars => CacheHonest'
  BY StepHidesNothing DEF IInv
<1>3. CacheHonest => CacheHidesNothing
  BY CacheHonestly
<1> QED
  BY <1>1, <1>2, <1>3, Invariance, PTL DEF Spec

(***************************************************************************)
(* The feed.                                                               *)
(***************************************************************************)
\* While the process runs and wants the feed, it also wants it back.
Wanted ==
  process = "running" /\ enabled => shouldReconnect /\ (timer \/ \E s \in Sockets : Live(s))

\* A new socket has its close event still to come.
LEMMA EstablishedLives ==
  ASSUME FeedTypeOK, EstablishConnection
  PROVE  \E s \in Sockets : socket'[s] # "free"
<1>1. PICK s : s = ws' /\ s \in Sockets
  BY EstablishTypes
<1>2. socket' = [ClosingHeld EXCEPT ![s] = "connecting"]
  BY <1>1 DEF EstablishConnection
<1>3. socket'[s] = "connecting"
  BY <1>1, <1>2 DEF ClosingHeld
<1> QED
  BY <1>1, <1>3

LEMMA ConnectWants == ASSUME FeedTypeOK, Connect PROVE Wanted'
  BY EstablishedLives DEF Connect, Wanted, Live

LEMMA ConnectionWants ==
  ASSUME FeedTypeOK, Wanted, Connection
  PROVE  Wanted'
<1>0. FeedNext /\ process' = process
  BY DEF Connection
<1>1. ASSUME NEW s \in Sockets, Opened(s) PROVE Wanted'
  <2>1. socket'[s] = "open"
    BY <1>1 DEF Opened, FeedTypeOK
  <2> QED
    BY <1>0, <1>1, <2>1 DEF Opened, Wanted, Live
<1>2. ASSUME NEW s \in Sockets, Closed(s) PROVE Wanted'
  BY <1>0, <1>2 DEF Closed, HandleReconnect, Wanted
<1>3. CASE TimerFires
  BY <1>0, <1>3, EstablishedLives DEF TimerFires, Wanted, Live
<1>4. ASSUME NEW b \in BOOLEAN, ToggleWebSocket(b) PROVE Wanted'
  <2>1. CASE b
    BY <1>4, <2>1, ConnectWants DEF ToggleWebSocket
  <2>2. CASE ~b
    BY <1>4, <2>2 DEF ToggleWebSocket, Wanted
  <2> QED
    BY <2>1, <2>2
<1> QED
  BY <1>0, <1>1, <1>2, <1>3, <1>4 DEF FeedNext

LEMMA StepWants ==
  ASSUME FeedTypeOK, Wanted, [Next]_allVars
  PROVE  Wanted'
<1>1. ASSUME UNCHANGED feedVars, process' = process PROVE Wanted'
  BY <1>1 DEF feedVars, connVars, Wanted, Live
<1>2. CASE UNCHANGED allVars
  BY <1>1, <1>2 DEF allVars, ingestVars
<1>3. CASE Start
  BY <1>3, ConnectWants DEF Start
<1>4. CASE Stop \/ Exit
  BY <1>4 DEF Stop, Exit, Wanted
<1>5. CASE Connection
  BY <1>5, ConnectionWants
<1>6. CASE PollOrders
  <2>1. UNCHANGED feedVars /\ process' = process
    BY <1>6 DEF PollOrders, Fetch, Observe, FindExact, Bind, FindNothing, Insert, InsertFails
  <2> QED
    BY <1>1, <2>1
<1>7. CASE IngestNext /\ ~(Start \/ Stop \/ Exit \/ Connection \/ PollOrders)
  <2>1. UNCHANGED feedVars /\ process' = process
    BY <1>7 DEF IngestNext, Place, Finish, Arrive, Persist, PersistFails
  <2> QED
    BY <1>1, <2>1
<1>8. CASE Next /\ ~IngestNext
  <2>1. UNCHANGED feedVars /\ process' = process
    BY <1>8 DEF Next, CheckOrderPipeline, Wake, Signal, Ripen, ingestVars
  <2> QED
    BY <1>1, <2>1
<1> QED
  BY <1>2, <1>3, <1>4, <1>5, <1>6, <1>7, <1>8 DEF Next

\* While the process runs and wants the feed, something is there to bring it back:
\* what FeedSettles, under fairness, has TLC show the outcome of.
THEOREM FeedIsNeverLost == Spec => []FeedNeverLost
<1>1. Init => Wanted
  <2> SUFFICES ASSUME IngestInit PROVE Wanted
    BY DEF Init
  <2>1. CASE Fresh
    BY <2>1 DEF Fresh, Wanted
  <2>2. CASE EntryRecorded
    <3>1. ws \in Sockets /\ socket[ws] = "open" /\ shouldReconnect = TRUE
      BY <2>2, SocketAssumption DEF EntryRecorded
    <3> QED
      BY <3>1 DEF Wanted, Live
  <2> QED
    BY <2>1, <2>2 DEF IngestInit
<1>2. IInv /\ Wanted /\ [Next]_allVars => Wanted'
  BY StepWants DEF IInv, Ingested
<1>3. Wanted => FeedNeverLost
  BY DEF Wanted, FeedNeverLost
<1> QED
  BY <1>1, <1>2, <1>3, Invariance, PTL DEF Spec

(***************************************************************************)
(* Incidents.                                                              *)
(***************************************************************************)
\* A trade that has an incident has a record of one of its orders' lives.
Grounds == raised # {} => \E a \in table : StateValue[a.type] > 0

\* What a check makes of the incidents, over the records T of the trade.
LEMMA Raises ==
  ASSUME NEW tl, NEW lives, lives = OrderTimelines(tl), NEW u,
         NEW vs, vs = Verdicts(lives, "FREQTRADE", u)
  PROVE  /\ Placed(tl) = {} => Incidents(lives, vs) = raised
         /\ Placed(tl) # {} /\ Invalid(vs) = {} => Incidents(lives, vs) = {}
<1>1. DOMAIN lives = {ResolvedOrder(tl, a) : a \in Placed(tl)}
  BY DEF OrderTimelines
<1>2. Invalid(vs) \subseteq DOMAIN lives
  BY DEF Invalid, Verdicts
<1>3. CASE Placed(tl) = {}
  <2>1. DOMAIN lives = {} /\ Invalid(vs) = {}
    BY <1>1, <1>2, <1>3
  <2> QED
    BY <1>3, <2>1 DEF Incidents
<1>4. CASE Placed(tl) # {}
  <2>1. DOMAIN lives # {}
    BY <1>1, <1>4
  <2> QED
    BY <1>4, <2>1 DEF Incidents
<1> QED
  BY <1>3, <1>4

\* The incidents a check leaves.
LEMMA CheckRaises ==
  ASSUME CheckOrderPipeline
  PROVE  \E tl, lives, u, vs :
           /\ tl = TradeTimeline(table, Trade)
           /\ lives = OrderTimelines(tl)
           /\ u = Unexpected(table, Trade, "FREQTRADE")
           /\ vs = Verdicts(lives, "FREQTRADE", u)
           /\ raised' = Incidents(lives, vs)
  BY DEF CheckOrderPipeline

LEMMA TypesStay ==
  ASSUME Ingested, [Next]_allVars
  PROVE  \A r \in table : \E q \in table' : q.type = r.type
<1>1. CASE \E o \in OrderSet : Bind(o)
  <2>0. PICK o \in OrderSet : Bind(o)
    BY <1>1
  <2>1. PICK r \in Unbound(o) : table' = (table \ {r}) \cup {[r EXCEPT !.order = o]}
    BY <2>0 DEF Bind
  <2>2. PICK b : b = [r EXCEPT !.order = o]
    OBVIOUS
  <2>3. r \in Audit
    BY <2>1 DEF Unbound, Ingested, TableOK
  <2>4. b.type = r.type /\ table' = (table \ {r}) \cup {b}
    BY <2>1, <2>2, <2>3 DEF Audit
  <2> QED
    BY <2>4
<1>2. CASE ~\E o \in OrderSet : Bind(o)
  <2>1. table \subseteq table'
    <3>1. CASE PollOrders
      BY <1>2, <3>1 DEF PollOrders, Fetch, Observe, FindExact, FindNothing, Insert, InsertFails
    <3>2. CASE IngestNext /\ ~PollOrders
      BY <3>2 DEF IngestNext, Place, Finish, Arrive, Persist, PersistFails, Start, Stop, Exit,
                  Connection
    <3>3. CASE Next /\ ~IngestNext
      BY <3>3 DEF Next, CheckOrderPipeline, Wake, Signal, Ripen, ingestVars
    <3>4. CASE UNCHANGED allVars
      BY <3>4 DEF allVars, ingestVars
    <3> QED
      BY <3>1, <3>2, <3>3, <3>4 DEF Next
  <2> QED
    BY <2>1
<1> QED
  BY <1>1, <1>2

LEMMA StepGrounds ==
  ASSUME Ingested, Grounds, [Next]_allVars
  PROVE  Grounds'
<1>1. \A r \in table : \E q \in table' : q.type = r.type
  BY TypesStay
<1>2. CASE CheckOrderPipeline
  <2>1. PICK tl, lives, u, vs :
          /\ tl = TradeTimeline(table, Trade) /\ lives = OrderTimelines(tl)
          /\ vs = Verdicts(lives, "FREQTRADE", u)
          /\ raised' = Incidents(lives, vs)
    BY <1>2, CheckRaises
  <2>2. CASE Placed(tl) = {}
    <3>1. raised' = raised
      BY <2>1, <2>2, Raises
    <3> QED
      BY <1>1, <3>1 DEF Grounds
  <2>3. CASE Placed(tl) # {}
    <3>1. \E a \in table : StateValue[a.type] > 0
      BY <2>1, <2>3 DEF Placed, TradeTimeline
    <3> QED
      BY <1>1, <3>1 DEF Grounds
  <2> QED
    BY <2>2, <2>3
<1>3. CASE ~CheckOrderPipeline
  <2>1. raised' = raised
    BY <1>3 DEF Next, Wake, Signal, Ripen, metricVars, allVars
  <2> QED
    BY <1>1, <2>1 DEF Grounds
<1> QED
  BY <1>2, <1>3

\* A check that finds the records orderly leaves no incident of the trade, as
\* none was raised before there was a record of an order.
LEMMA OrderlyCheck ==
  ASSUME Ingested, Clean => Story, NoFalseAlarm, Grounds, Orderly, CheckOrderPipeline
  PROVE  raised' = {}
<1>1. PICK tl, lives, u, vs :
        /\ tl = TradeTimeline(table, Trade) /\ lives = OrderTimelines(tl)
        /\ u = Unexpected(table, Trade, "FREQTRADE")
        /\ vs = Verdicts(lives, "FREQTRADE", u)
        /\ raised' = Incidents(lives, vs)
  BY CheckRaises
<1>2. Invalid(vs) = {}
  BY <1>1 DEF NoFalseAlarm
<1>3. CASE Placed(tl) # {}
  BY <1>1, <1>2, <1>3, Raises
<1>4. CASE Placed(tl) = {}
  <2>1. raised' = raised
    BY <1>1, <1>4, Raises
  <2>2. \A a \in table : a.of \notin OrderSet
    BY <1>1, <1>4, OrderlyClean, PlacedRecords DEF Story
  <2>3. \A a \in table : a.type = "SIGNAL"
    BY <2>2, OrderlyClean DEF Story, Told, Seen, Truthful
  <2>4. raised = {}
    BY <2>3, Values DEF Grounds
  <2> QED
    BY <2>1, <2>4
<1> QED
  BY <1>3, <1>4

\* A check that finds the records orderly leaves no incident of the trade: each
\* single check that FalseAlarmsClear is about.
THEOREM OrderlyChecksClear == Spec => OrderlyCheckClears
<1>1. Init => Grounds
  BY DEF Init, MetricsInit, Grounds
<1>2. IInv /\ Grounds /\ [Next]_allVars => Grounds'
  BY StepGrounds DEF IInv
<1>3. ASSUME IInv, Clean => Story, NoFalseAlarm, Grounds, [Next]_allVars
      PROVE  [due /\ ~due' /\ Orderly => raised' = {}]_allVars
  <2> SUFFICES ASSUME due, ~due', Orderly PROVE raised' = {}
    OBVIOUS
  <2>1. CheckOrderPipeline
    BY <1>3 DEF Next, Wake, Signal, Ripen, metricVars, allVars
  <2> QED
    BY <1>3, <2>1, OrderlyCheck DEF IInv
<1> QED
  BY <1>1, <1>2, <1>3, Invariance, StoryHolds, NoOrderlyAlarm, PTL DEF Spec, OrderlyCheckClears
=============================================================================
