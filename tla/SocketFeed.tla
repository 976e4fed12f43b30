----------------------------- MODULE SocketFeed -----------------------------
(***************************************************************************)
(* FreqtradeWebSocketAdapter's connection: the socket it holds, the five   *)
(* second timer, and the handlers of every socket it ever made, which stay *)
(* attached after it was replaced.  A socket that close() was called on    *)
(* still delivers what it has received, and its close event comes later.   *)
(***************************************************************************)
EXTENDS Naturals, FiniteSets

CONSTANTS
  Sockets,     \* names for sockets; one is free again when its close event has run
  NoSocket,
  Budgets      \* bound: how many of each fault and event a behaviour may have

ASSUME SocketAssumption ==
  /\ NoSocket \notin Sockets /\ Sockets # {}
  /\ \A b \in Budgets : \A k \in DOMAIN b : b[k] \in Nat

VARIABLES
  ws,              \* this.ws
  socket,          \* socket[s]: free, connecting, open, or closing
  isConnected,
  shouldReconnect,
  timer,           \* reconnectTimeout is set
  enabled,         \* the WEBSOCKET flag
  budget           \* what is left of the bound

connVars == <<ws, socket, isConnected, shouldReconnect, timer>>
feedVars == <<connVars, enabled>>

Spend(k) == budget[k] > 0 /\ budget' = [budget EXCEPT ![k] = @ - 1]

Live(s) == socket[s] # "free"

FeedInit ==
  /\ ws = NoSocket
  /\ socket = [s \in Sockets |-> "free"]
  /\ isConnected = FALSE /\ timer = FALSE
  /\ shouldReconnect = TRUE /\ enabled = TRUE

\* close() on the held socket; one that is closed already has no second event.
ClosingHeld ==
  [s \in Sockets |-> IF s = ws /\ Live(s) THEN "closing" ELSE socket[s]]

\* The names for a new socket; one is taken, it does not matter which.
Unused == {s \in Sockets : socket[s] = "free" /\ s # ws}

\* establishConnection with the flag on.
EstablishConnection ==
  /\ Unused # {}                \* bound: there are only so many names
  /\ ws' = (CHOOSE s \in Unused : TRUE)
  /\ socket' = [ClosingHeld EXCEPT ![ws'] = "connecting"]

\* connect(), at the start of the process or when the flag is turned on.
Connect ==
  /\ shouldReconnect' = TRUE
  /\ EstablishConnection
  /\ UNCHANGED <<isConnected, timer>>

Disconnect ==
  /\ shouldReconnect' = FALSE /\ timer' = FALSE /\ isConnected' = FALSE
  /\ socket' = ClosingHeld
  /\ ws' = NoSocket

\* The open handler, which subscribes on the socket held, not on its own.
Opened(s) ==
  /\ socket[s] = "connecting"
  /\ socket' = [socket EXCEPT ![s] = "open"]
  /\ isConnected' = TRUE
  /\ UNCHANGED <<ws, shouldReconnect, timer, enabled, budget>>

\* Mutation of HandleReconnect: an attempt that never opened is not repeated.
HandleReconnectOpened == timer' = (timer \/ (shouldReconnect /\ enabled /\ isConnected))

\* handleReconnect.
HandleReconnect == timer' = (timer \/ (shouldReconnect /\ enabled))

\* The close handler: it does not ask whether its socket is the one held.
Closed(s) ==
  /\ Live(s)
  /\ \/ socket[s] = "closing" /\ UNCHANGED budget
     \/ socket[s] # "closing" /\ Spend("drops")
  /\ socket' = [socket EXCEPT ![s] = "free"]
  /\ isConnected' = FALSE
  /\ HandleReconnect
  /\ UNCHANGED <<ws, shouldReconnect, enabled>>

TimerFires ==
  /\ timer /\ timer' = FALSE
  /\ IF enabled THEN EstablishConnection
                ELSE UNCHANGED <<ws, socket>>
  /\ UNCHANGED <<isConnected, shouldReconnect, enabled, budget>>

\* setFeatureFlag announces a change, upon which the adapter follows the flag.
ToggleWebSocket(b) ==
  /\ enabled # b
  /\ Spend("toggles")
  /\ enabled' = b
  /\ IF b THEN Connect ELSE Disconnect

FeedNext ==
  \/ \E s \in Sockets : Opened(s) \/ Closed(s)
  \/ TimerFires
  \/ \E b \in BOOLEAN : ToggleWebSocket(b)

FeedTypeOK ==
  /\ ws \in Sockets \cup {NoSocket}
  /\ socket \in [Sockets -> {"free", "connecting", "open", "closing"}]
  /\ isConnected \in BOOLEAN /\ shouldReconnect \in BOOLEAN
  /\ timer \in BOOLEAN /\ enabled \in BOOLEAN
  /\ \A k \in DOMAIN budget : budget[k] \in Nat
=============================================================================
