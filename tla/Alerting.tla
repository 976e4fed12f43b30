------------------------------ MODULE Alerting ------------------------------
(***************************************************************************)
(* AlertingService.sendAlert, called by the loops of the agent process.    *)
(*                                                                         *)
(* A call looks its key up in recentAlerts, inserts the alert_log row, and *)
(* only then records the key; the dispatch to the outbox follows.  The two *)
(* awaits let the calls of different loops overlap, and each can fail: a   *)
(* failed insert is swallowed and leaves no cooldown behind, a failed      *)
(* dispatch is thrown at the caller and leaves one.                        *)
(*                                                                         *)
(* Abstractions.  A key is dedupKey, or level:title:entity where there is  *)
(* none.  Every caller sends CRITICAL or WARNING, so every alert is        *)
(* dispatched.  A cooldown is the fact that it has not run out: CoolsDown  *)
(* may strike at any moment after the key was recorded.                    *)
(***************************************************************************)
EXTENDS Integers, FiniteSets

CONSTANTS
  Callers,     \* the loops; none of them calls twice at once
  AlertKeys,
  NoKey,       \* not a key
  Watched,     \* the keys whose calls the history variables count
  MaxErrors    \* bound: failures of the database, changes of the flag

ASSUME AlertingAssumption ==
  /\ IsFiniteSet(Callers) /\ MaxErrors \in Nat
  /\ NoKey \notin AlertKeys /\ Watched \subseteq AlertKeys

VARIABLES
  recent,      \* the keys of recentAlerts still in their cooldown
  step,        \* step[c]: where c stands in sendAlert: idle, persist, dispatch
  about,       \* about[c]: the key of the call c is in
  alerting,    \* the ALERTING feature flag
  errors,
  admitted,    \* history: calls about k let through since k last cooled down
  unlogged     \* history: failed inserts since then

alertVars == <<recent, step, about, alerting, errors, admitted, unlogged>>

AlertingInit ==
  /\ recent = {}
  /\ step = [c \in Callers |-> "idle"]
  /\ about = [c \in Callers |-> NoKey]
  /\ alerting = TRUE
  /\ errors = 0
  /\ admitted = [k \in Watched |-> 0] /\ unlogged = [k \in Watched |-> 0]

More(f, k) == [x \in Watched |-> IF x = k THEN f[x] + 1 ELSE f[x]]
Zero(f, k) == [x \in Watched |-> IF x = k THEN 0 ELSE f[x]]

Erring == errors < MaxErrors /\ errors' = errors + 1

\* Mutation of Admit: no look-up.
AdmitAll(c, k) ==
  /\ step[c] = "idle"
  /\ step' = [step EXCEPT ![c] = "persist"]
  /\ about' = [about EXCEPT ![c] = k]
  /\ admitted' = More(admitted, k)
  /\ UNCHANGED <<recent, alerting, unlogged, errors>>

\* The look-up, up to the await of the insert: a call is let through ...
Admit(c, k) ==
  /\ step[c] = "idle" /\ k \notin recent
  /\ step' = [step EXCEPT ![c] = "persist"]
  /\ about' = [about EXCEPT ![c] = k]
  /\ admitted' = More(admitted, k)
  /\ UNCHANGED <<recent, alerting, unlogged, errors>>

\* ... or suppressed, and returns at once.
Suppress(c, k) ==
  /\ step[c] = "idle" /\ k \in recent
  /\ UNCHANGED alertVars

\* After the insert the call goes on to the transport unless the flag stops it.
PastInsert(c) ==
  /\ step[c] = "persist"
  /\ step' = [step EXCEPT ![c] = IF alerting THEN "dispatch" ELSE "idle"]
  /\ about' = [about EXCEPT ![c] = IF alerting THEN @ ELSE NoKey]
  /\ UNCHANGED <<alerting, admitted>>

Logged(c) ==
  /\ PastInsert(c)
  /\ recent' = recent \cup {about[c]}
  /\ UNCHANGED <<unlogged, errors>>

\* The insert failed: no cooldown, but the dispatch follows all the same.
NotLogged(c) ==
  /\ PastInsert(c) /\ Erring
  /\ unlogged' = More(unlogged, about[c])
  /\ UNCHANGED recent

Returns(c) ==
  /\ step[c] = "dispatch"
  /\ step' = [step EXCEPT ![c] = "idle"]
  /\ about' = [about EXCEPT ![c] = NoKey]
  /\ UNCHANGED <<recent, alerting, admitted, unlogged>>

Dispatched(c) == Returns(c) /\ UNCHANGED errors

\* The outbox insert failed: sendAlert throws.
DispatchThrows(c) == Returns(c) /\ Erring

CoolsDown(k) ==
  /\ k \in recent
  /\ recent' = recent \ {k}
  /\ admitted' = Zero(admitted, k)
  /\ unlogged' = Zero(unlogged, k)
  /\ UNCHANGED <<step, about, alerting, errors>>

SetAlerting(b) ==
  /\ alerting # b /\ Erring
  /\ alerting' = b
  /\ UNCHANGED <<recent, step, about, admitted, unlogged>>

AlertingNext ==
  \/ \E c \in Callers :
       \/ \E k \in AlertKeys : Admit(c, k) \/ Suppress(c, k)
       \/ Logged(c) \/ NotLogged(c) \/ Dispatched(c) \/ DispatchThrows(c)
  \/ \E k \in AlertKeys : CoolsDown(k)
  \/ \E b \in BOOLEAN : SetAlerting(b)

AlertingSpec == AlertingInit /\ [][AlertingNext]_alertVars

AlertingTypeOK ==
  /\ recent \subseteq AlertKeys
  /\ step \in [Callers -> {"idle", "persist", "dispatch"}]
  /\ about \in [Callers -> AlertKeys \cup {NoKey}]
  /\ alerting \in BOOLEAN
  /\ admitted \in [Watched -> Nat] /\ unlogged \in [Watched -> Nat]
  /\ errors \in 0..MaxErrors

\* The calls about k that have not yet had the answer of their insert.
Inserting(k) == {c \in Callers : step[c] = "persist" /\ about[c] = k}

\* The cooldown is checked before an await and recorded after it, so it does
\* not keep two loops from sending the same alert; what it does keep: within a
\* cooldown at most one copy per loop is let through, and one more for each
\* insert that failed and left no record.
AlertsBounded ==
  \A k \in Watched : admitted[k] <= Cardinality(Callers) + unlogged[k]
=============================================================================
