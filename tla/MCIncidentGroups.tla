-------------------------- MODULE MCIncidentGroups --------------------------
(***************************************************************************)
(* An instance of IncidentGroups for TLC: the keys and loops of            *)
(* MCIncidentManager, with two transactions at once.                       *)
(***************************************************************************)
EXTENDS MCIncidentManager, IncidentGroups
=============================================================================
