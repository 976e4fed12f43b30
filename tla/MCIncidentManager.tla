-------------------------- MODULE MCIncidentManager --------------------------
(***************************************************************************)
(* Instances of IncidentManager for TLC: the heartbeat incident of the     *)
(* operations loop (global, exempt from the TTL), a lifecycle violation    *)
(* (symbol, one source prefix) and the global LIFECYCLE_INTEGRITY incident *)
(* of the same loop, a stuck order of the anomaly loop on the same symbol, *)
(* and an infrastructure incident.                                         *)
(***************************************************************************)
EXTENDS IncidentManager

CONSTANTS hb, viol, risk, stuck, vm, btc, gl, ops, anomaly, infra, lab, oper, sweeper

MCSymbol == [k \in Keys |-> IF k \in {hb, risk, vm} THEN gl ELSE btc]
MCOwner  == [k \in Keys |-> IF k = stuck THEN anomaly ELSE IF k = vm THEN infra ELSE ops]
MCInfra    == Keys \cap {vm}
MCExempt   == Keys \cap {hb}
MCSim      == Keys \cap {viol}
MCFamilies == {Keys \cap {viol}}
=============================================================================
