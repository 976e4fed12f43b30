--------------------------- MODULE OrderTimeline ---------------------------
(***************************************************************************)
(* What checkOrderPipeline concludes from the lifecycle events of the      *)
(* audit table: which order an event belongs to, whether the events of an  *)
(* order form a legal life, and what that says of the trade.               *)
(*                                                                         *)
(* An audit is a record [type, trade, order, side, at]: the order is       *)
(* NoOrder while no order id is known, at is createdAt.  Symbols, prices   *)
(* and amounts are left out: a trade has one symbol.  Two audits with one  *)
(* createdAt are taken in an arbitrary order, as the query has no orderBy. *)
(***************************************************************************)
EXTENDS Integers, FiniteSets

NoOrder == "no_order"          \* metadata without an orderId
DefaultOrder == "default_order"

\* getEventStateValue; a classification outside it is not a lifecycle event.
StateValue ==
  [SIGNAL |-> 0, ORDER_CREATED |-> 1, ORDER_SUBMITTED |-> 2, ORDER_SENT |-> 2,
   ORDER_ACKNOWLEDGED |-> 3, ORDER_ACK |-> 3, ORDER_OPEN |-> 4,
   ORDER_PARTIALLY_FILLED |-> 5, ORDER_FILLED |-> 6, ORDER_CANCELLED |-> 6,
   EXCHANGE_REJECTED |-> 6, ORDER_FAILED |-> 6, ORDER |-> 6]

Terminal == 6
Types == DOMAIN StateValue
TerminalTypes == {t \in Types : StateValue[t] = Terminal}
InitiationTypes == {t \in Types : StateValue[t] < 4}
TerminationTypes == TerminalTypes \cup {"ORDER_PARTIALLY_FILLED"}

\* requiredEvents of a source, as the stages an order cannot pass without.
GuaranteedStages(source) == IF source = "FREQTRADE" THEN {1} ELSE {1, 4}

(***************************************************************************)
(* Attribution.                                                            *)
(***************************************************************************)
Oldest(audits) == CHOOSE a \in audits : \A b \in audits : a.at <= b.at
Newest(audits) == CHOOSE a \in audits : \A b \in audits : b.at <= a.at

\* orderToTradeMap: the trade of the first audit the query returns that names
\* the order.  The query asks for no order, so that may be any of them.
TradeOf(audits, o) ==
  (CHOOSE a \in {b \in audits : b.order = o /\ b.trade # "none"} : TRUE).trade

AssociatedOrders(audits, trade) ==
  {o \in {a.order : a \in {b \in audits : b.order # NoOrder /\ b.trade # "none"}} :
     TradeOf(audits, o) = trade}

TradeTimeline(audits, trade) ==
  {a \in audits : a.trade = trade \/ a.order \in AssociatedOrders(audits, trade)}

Distance(a, b) == IF a.at < b.at THEN b.at - a.at ELSE a.at - b.at

SameSide(a, b) == a.side = "none" \/ b.side = "none" \/ a.side = b.side

\* An event that starts an order looks forward, one that ends it backward.
RightWay(a, b) ==
  /\ a.type \in InitiationTypes => a.at <= b.at
  /\ a.type \in TerminationTypes => b.at <= a.at

\* Mutation of Closest: the first of them, however far.
ClosestFirst(a, S) == Oldest(S)

\* The event closest to a among S, the older one on a tie.
Closest(a, S) ==
  CHOOSE b \in S : \A c \in S :
    \/ Distance(a, b) < Distance(a, c)
    \/ Distance(a, b) = Distance(a, c) /\ b.at <= c.at

\* The events of a trade that are told to an order, SIGNALs left out.
Placed(tl) == {a \in tl : StateValue[a.type] > 0}

\* The events whose order an event without an order id could have.
Candidates(tl, a) ==
  LET named == {b \in Placed(tl) : b.order # NoOrder /\ SameSide(a, b)}
      directed == {b \in named : RightWay(a, b)}
  IN  IF directed # {} THEN directed ELSE named

ResolvedOrder(tl, a) ==
  CASE a.order # NoOrder -> a.order
    [] a.order = NoOrder /\ Candidates(tl, a) # {} -> Closest(a, Candidates(tl, a)).order
    [] OTHER -> DefaultOrder

\* auditsWithOrderId: the events of each order met.
OrderTimelines(tl) ==
  [o \in {ResolvedOrder(tl, a) : a \in Placed(tl)} |->
     {a \in Placed(tl) : ResolvedOrder(tl, a) = o}]

(***************************************************************************)
(* validateOrderTimeline.                                                  *)
(***************************************************************************)
Unseen == [stage |-> -1, type |-> "none", ended |-> {}, violation |-> "none",
           skipped |-> FALSE, duplicates |-> 0]

\* A repeated event is counted and otherwise passed over, but for a fill.
Repeat(v, type) ==
  [v EXCEPT !.duplicates = @ + 1,
            !.violation = IF type = "ORDER_FILLED" THEN "DUPLICATE_FILL" ELSE @]

\* The last check that applies gives the violation its type.  The code's
\* INVALID_TRANSITION is overwritten at once by BACKWARD_TRANSITION.
Violation(v, type, unexpected) ==
  CASE StateValue[type] = Terminal /\ v.ended \ {type} # {} -> "TERMINAL_MUTATION"
    [] StateValue[type] < v.stage -> "BACKWARD_TRANSITION"
    [] v.stage = -1 /\ type = "ORDER_FILLED" /\ unexpected -> "UNEXPECTED_FILL"
    [] OTHER -> v.violation

Passed(v, type) == IF v.stage = -1 THEN 1..(StateValue[type] - 1)
                                   ELSE (v.stage + 1)..(StateValue[type] - 1)

Advance(v, type, unexpected) ==
  [v EXCEPT !.stage = StateValue[type],
            !.type = type,
            !.ended = IF StateValue[type] = Terminal THEN @ \cup {type} ELSE @,
            !.violation = Violation(v, type, unexpected)]

Meet(v, type, guaranteed, unexpected) ==
  LET skips == Passed(v, type) \cap guaranteed # {}
  IN  IF type = v.type
        THEN Repeat(v, type)
        ELSE [Advance(v, type, unexpected /\ skips) EXCEPT !.skipped = @ \/ skips]

\* What is known of an order after the events of each set, the newest met last.
\* unexpected: the source is fully observed and nothing announced the order.
Lives(events, guaranteed, unexpected) ==
  LET life[S \in SUBSET events] ==
        IF S = {} THEN Unseen
        ELSE Meet(life[S \ {Newest(S)}], Newest(S).type, guaranteed, unexpected)
  IN  life

Validate(events, guaranteed, unexpected) == Lives(events, guaranteed, unexpected)[events]

(***************************************************************************)
(* The verdict on a trade.                                                 *)
(***************************************************************************)
\* Evidence of the trade's start, in the window or anywhere in the table.
HasSufficientEvidence(audits, trade) ==
  \E a \in audits : a.trade = trade /\ a.type \in {"SIGNAL", "ORDER_CREATED"}

\* UNEXPECTED_FILL asks for full confidence and for no evidence, but it is the
\* evidence that gives full confidence, unless the source is the simulator.
Unexpected(audits, trade, source) ==
  ~HasSufficientEvidence(audits, trade) /\ source = "SIMULATOR"

Verdicts(lives, source, unexpected) ==
  [o \in DOMAIN lives |-> Validate(lives[o], GuaranteedStages(source), unexpected)]

Invalid(vs) == {o \in DOMAIN vs : vs[o].violation # "none"}

\* The violation reported is that of the order that began last.
TradeViolation(lives, vs) ==
  vs[CHOOSE o \in Invalid(vs) :
       \A p \in Invalid(vs) : Oldest(lives[p]).at <= Oldest(lives[o]).at].violation
=============================================================================
