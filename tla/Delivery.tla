------------------------------ MODULE Delivery ------------------------------
(***************************************************************************)
(* What the outbox promises its users: at-least-once delivery.  A message  *)
(* that was queued may reach the gateway any number of times and in any    *)
(* order; it is confirmed only after it has, and stays confirmed; it may   *)
(* be given up, and only an operator queues it again.                      *)
(***************************************************************************)
EXTENDS Naturals

CONSTANT Ids

VARIABLES
  queued, confirmed, abandoned,   \* sets of messages
  copies                          \* copies[i]: times the gateway has seen i

Init ==
  /\ queued = {} /\ confirmed = {} /\ abandoned = {}
  /\ copies = [i \in Ids |-> 0]

Queue(i) ==
  /\ i \notin queued \cup confirmed \cup abandoned
  /\ queued' = queued \cup {i}
  /\ UNCHANGED <<confirmed, abandoned, copies>>

Deliver(i) ==
  /\ i \in queued \cup confirmed \cup abandoned
  /\ copies' = [copies EXCEPT ![i] = @ + 1]
  /\ UNCHANGED <<queued, confirmed, abandoned>>

Confirm(S) ==
  /\ S \subseteq queued
  /\ \A i \in S : copies[i] > 0
  /\ queued' = queued \ S /\ confirmed' = confirmed \cup S
  /\ UNCHANGED <<abandoned, copies>>

GiveUp(i) ==
  /\ i \in queued
  /\ queued' = queued \ {i} /\ abandoned' = abandoned \cup {i}
  /\ UNCHANGED <<confirmed, copies>>

Requeue(S) ==
  /\ S \subseteq abandoned
  /\ queued' = queued \cup S /\ abandoned' = abandoned \ S
  /\ UNCHANGED <<confirmed, copies>>

Next ==
  \/ \E i \in Ids : Queue(i) \/ Deliver(i) \/ GiveUp(i)
  \/ \E S \in SUBSET Ids : Confirm(S) \/ Requeue(S)

Spec == Init /\ [][Next]_<<queued, confirmed, abandoned, copies>>
=============================================================================
