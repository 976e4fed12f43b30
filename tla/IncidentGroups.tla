--------------------------- MODULE IncidentGroups ---------------------------
(***************************************************************************)
(* The incident groups of IncidentManager under transactions that overlap. *)
(*                                                                         *)
(* A transaction picks a group, or plans the update of one, from rows it   *)
(* has read; under READ COMMITTED another may commit to the same group     *)
(* before it does, and the update written last is then the one of rows     *)
(* that have changed.  The history variable overtaken has the groups this  *)
(* happened to.  It restricts no step of IncidentManager and lets the rule *)
(* the groups obey be stated for any pool.                                 *)
(***************************************************************************)
EXTENDS IncidentManager

VARIABLE overtaken   \* groups a commit changed under another transaction

gvars == <<vars, overtaken>>

\* The groups whose state p's next write rests on: the one picked for a row and
\* those it has staged an update of.
Relies(p) == DOMAIN plan[p] \cup ({gsel[p]} \ {0})

Committed(p) == pc[p] = "staged" /\ pc'[p] = "idle" /\ dbVars' # dbVars

Overtakes(p, g) ==
  /\ Committed(p) /\ g \in DOMAIN plan[p]
  /\ \E q \in Procs \ {p} : g \in Relies(q)

GInit == Init /\ overtaken = {}

GNext == Next /\ overtaken' = overtaken \cup
                   {g \in DOMAIN grp : \E p \in Procs : Overtakes(p, g)}

GSpec == GInit /\ [][GNext]_gvars

FairGSpec == GSpec /\ Fairness

-----------------------------------------------------------------------------
\* However many transactions run at once: unless one committed to a group while
\* another relied on what it had read of it, the group is open exactly while a
\* child is active; its severity is the peak of the active children, and once
\* closed the peak of all its children.  A crash, a failed transaction, or an
\* overlap with transactions of other groups is no excuse.
GroupTracksChildren ==
  \A g \in DOMAIN grp \ overtaken :
    LET active == {r \in Children(g) : inc[r].active}
    IN  /\ grp[g].open <=> active # {}
        /\ grp[g].sev = MaxOf({inc[r].level :
                                r \in IF active = {} THEN Children(g) ELSE active})
=============================================================================
