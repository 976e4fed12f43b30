--------------------------- MODULE IncidentLedger ----------------------------
(***************************************************************************)
(* What the incident tables promise a reader, one key at a time: a history *)
(* of episodes.  An episode opens only when none is open, may change its   *)
(* level while it is open, and closes; a closed one is never reopened, a   *)
(* recurrence is a new episode.                                            *)
(***************************************************************************)
EXTENDS Naturals

CONSTANTS Keys, Levels, None

VARIABLES
  level,      \* level[k]: the level of k's open episode, or None
  episodes    \* episodes[k]: how many episodes k has had

Init ==
  /\ level = [k \in Keys |-> None]
  /\ episodes = [k \in Keys |-> 0]

Open(k, l) ==
  /\ level[k] = None
  /\ level' = [level EXCEPT ![k] = l]
  /\ episodes' = [episodes EXCEPT ![k] = @ + 1]

Relevel(k, l) ==
  /\ level[k] # None
  /\ level' = [level EXCEPT ![k] = l]
  /\ UNCHANGED episodes

\* One call may close the episodes of several keys.
Close(K) ==
  /\ \A k \in K : level[k] # None
  /\ level' = [k \in Keys |-> IF k \in K THEN None ELSE level[k]]
  /\ UNCHANGED episodes

Next ==
  \/ \E k \in Keys, l \in Levels : Open(k, l) \/ Relevel(k, l)
  \/ \E K \in SUBSET Keys : Close(K)

Spec == Init /\ [][Next]_<<level, episodes>>
=============================================================================
