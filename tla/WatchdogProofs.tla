---------------------------- MODULE WatchdogProofs ----------------------------
(***************************************************************************)
(* Proofs about Watchdog, for any plans, any limits and any alert keys     *)
(* that include the keys the code sends.                                   *)
(*                                                                         *)
(* None of the properties is inductive.  A call is judged when it is made, *)
(* cycles after the readings that led to it, so the invariant says of      *)
(* every call still in a list what the history must then be (OpsCall),     *)
(* that the program's counters never run ahead of the history (Margins),   *)
(* and of the infrastructure loop where the incident it owes is (Owing).   *)
(***************************************************************************)
EXTENDS Watchdog, AlertingProofs, SequenceTheorems

Levels == {"WARNING", "HIGH", "CRITICAL"}

(***************************************************************************)
(* The calls a loop may have in its lists: any loop's, and those of the    *)
(* operations loop, which carry an obligation of the history.              *)
(***************************************************************************)
Alerts   == [do : {"alert"}, key : AlertKeys]
Reports  == [do : {"report"}, source : Sources \ DOMAIN LossType, level : Levels]
Resolves == [do : {"resolve"}, sources : SUBSET Sources]

PlainCall == Alerts \cup Reports \cup Resolves

Assessments == [do : {"assess"}, seen : SUBSET Violations, low : BOOLEAN]

Losses ==
  {e \in [do : {"report"}, source : DOMAIN LossType, level : Levels] :
     badReadings[e.source] >= AlarmAfter}

Earned ==
  \/ \E v \in Violations : sustained[v] >= StructuralCritical
  \/ low >= ConfidenceCritical

Halts == {e \in {HaltBot} : Earned}

OpsCall == PlainCall \cup Assessments \cup Losses \cup Halts

CyclesOK ==
  /\ plan \in Plans
  /\ at \in [Loops -> Nat] /\ \A l \in Loops : at[l] \in 0..(Len(plan[l]) + 1)
  /\ incident \in [Sources -> {"none"} \cup Levels]

CallsOK ==
  /\ todo \in [Loops -> Seq(OpsCall)]
  /\ \A l \in Loops \ {"ops"} : todo[l] \in Seq(PlainCall)
  /\ rescue \in [Loops -> Seq(PlainCall)]

Margins ==
  /\ \A c \in Counted : silent[c] <= badReadings[c]
  /\ \A v \in Violations : counts[v] <= sustained[v]
  /\ breaches <= low

\* What is owed is next in the infrastructure loop's list, alone or behind the
\* alert of its check, and while that alert can throw it is in the rescue too.
Owing ==
  owed # NothingOwed =>
    \E s, lv :
      /\ owed.source = s
      /\ \/ todo["infra"] = <<Report(s, lv)>>
         \/ \E k : todo["infra"] = <<Alert(k), Report(s, lv)>>
      /\ \/ rescue["infra"] = <<Report(s, "CRITICAL")>>
         \/ step["infra"] = "idle" /\ todo["infra"] = <<Report(s, lv)>>

WInv ==
  /\ Inv /\ CyclesOK /\ CallsOK /\ InfraTypeOK
  /\ OpsTypeOK /\ Margins /\ Owing

(***************************************************************************)
(* Facts about the calls.                                                  *)
(***************************************************************************)
\* The keys and sources of the calls are keys and sources.
LEMMA PlainCalls ==
  /\ \A k \in AlertKeys : Alert(k) \in PlainCall
  /\ \A s \in Sources \ DOMAIN LossType, lv \in Levels : Report(s, lv) \in PlainCall
  /\ \A S \in SUBSET Sources : Resolve(S) \in PlainCall
  BY DEF PlainCall, Alerts, Reports, Resolves, Alert, Report, Resolve

\* Whatever incident is reported, the alert of it has a key.
LEMMA IncidentKeyKnown ==
  ASSUME NEW s, NEW lv
  PROVE  IncidentKey(s, lv) \in AlertKeys
  BY WatchdogAssumption DEF IncidentKey, KeysSent

\* The short lists the checks conclude with.
LEMMA ShortLists ==
  ASSUME NEW S
  PROVE  /\ <<>> \in Seq(S)
         /\ \A x \in S : <<x>> \in Seq(S)
         /\ \A x, y \in S : <<x, y>> \in Seq(S)
  OBVIOUS

LEMMA ShortConcatenations ==
  ASSUME NEW x, NEW y
  PROVE  /\ <<>> \o <<y>> = <<y>>
         /\ <<x>> \o <<y>> = <<x, y>>
<1>1. PICK s, t : s = <<x>> \o <<y>> /\ t = <<x, y>>
  OBVIOUS
<1>2. s \in Seq({x, y}) /\ t \in Seq({x, y})
  BY <1>1
<1>3. Len(s) = 2 /\ Len(t) = 2 /\ s[1] = t[1] /\ s[2] = t[2]
  BY <1>1
<1>4. \A i \in 1..Len(s) : s[i] = t[i]
  BY <1>3
<1>5. <<x>> \o <<y>> = <<x, y>>
  BY <1>1, <1>2, <1>3, <1>4, SeqEqual
<1>6. <<>> \o <<y>> = <<y>>
  OBVIOUS
<1> QED
  BY <1>5, <1>6

\* A plain list is a list of the operations loop.
LEMMA PlainLists == Seq(PlainCall) \subseteq Seq(OpsCall) /\ Seq(PlainCall) \subseteq Seq(OpsCall')
<1>1. PlainCall \subseteq OpsCall /\ PlainCall \subseteq OpsCall'
  BY DEF OpsCall, PlainCall, Alerts, Reports, Resolves
<1> QED
  BY <1>1

\* What the operations loop may call depends on the history alone.
LEMMA SameHistory ==
  ASSUME UNCHANGED <<badReadings, sustained, low>>
  PROVE  OpsCall' = OpsCall
  BY DEF OpsCall, PlainCall, Alerts, Reports, Resolves, Assessments, Losses, Halts, Earned

\* The first of a loop's calls, and what is left of the list.
LEMMA FirstCall ==
  ASSUME CallsOK, NEW l \in Loops, todo[l] # <<>>
  PROVE  /\ Head(todo[l]) \in OpsCall /\ Tail(todo[l]) \in Seq(OpsCall)
         /\ l # "ops" => Head(todo[l]) \in PlainCall /\ Tail(todo[l]) \in Seq(PlainCall)
  BY DEF CallsOK

\* The kinds of call are told apart by what they do.
LEMMA KindOfCall ==
  ASSUME CallsOK, NEW l \in Loops, todo[l] # <<>>
  PROVE  /\ Head(todo[l]).do = "alert" => Head(todo[l]) \in Alerts
         /\ Head(todo[l]).do = "report" => Head(todo[l]) \in Reports \cup Losses
         /\ Head(todo[l]).do = "resolve" => Head(todo[l]) \in Resolves
         /\ Head(todo[l]).do = "assess" => Head(todo[l]) \in Assessments
<1>1. PICK e : e = Head(todo[l]) /\ e \in OpsCall
  BY FirstCall
<1>2. /\ e \in Alerts => e.do = "alert"
      /\ e \in Reports \cup Losses => e.do = "report"
      /\ e \in Resolves => e.do = "resolve"
      /\ e \in Assessments => e.do = "assess"
      /\ e \in Halts => e.do = "halt"
  BY DEF Alerts, Reports, Losses, Resolves, Assessments, Halts, HaltBot
<1> QED
  BY <1>1, <1>2 DEF OpsCall, PlainCall

\* A loop's list changes and the history does not.
LEMMA NewList ==
  ASSUME CallsOK, UNCHANGED <<badReadings, sustained, low>>,
         NEW l \in Loops, NEW calls \in Seq(OpsCall), l # "ops" => calls \in Seq(PlainCall),
         todo' = [todo EXCEPT ![l] = calls], rescue' \in [Loops -> Seq(PlainCall)]
  PROVE  CallsOK'
<1>1. OpsCall' = OpsCall /\ PlainCall' = PlainCall
  BY SameHistory DEF PlainCall, Alerts, Reports, Resolves
<1> QED
  BY <1>1 DEF CallsOK

\* The list of the operations loop changes, and the history with it.
LEMMA NewOpsList ==
  ASSUME CallsOK, NEW calls \in Seq(OpsCall'),
         todo' = [todo EXCEPT !["ops"] = calls], rescue' \in [Loops -> Seq(PlainCall)]
  PROVE  CallsOK'
<1>1. PlainCall' = PlainCall
  BY DEF PlainCall, Alerts, Reports, Resolves
<1>2. ASSUME NEW m \in Loops \ {"ops"} PROVE todo'[m] \in Seq(PlainCall)
  BY DEF CallsOK
<1>3. ASSUME NEW m \in Loops PROVE todo'[m] \in Seq(OpsCall')
  <2>1. CASE m = "ops"
    BY <2>1 DEF CallsOK
  <2>2. CASE m # "ops"
    BY <1>2, <2>2, PlainLists
  <2> QED
    BY <2>1, <2>2
<1> QED
  BY <1>1, <1>2, <1>3 DEF CallsOK

(***************************************************************************)
(* The calls.  Loop is what they can disturb; Steady says that a step      *)
(* leaves alone what only the checks change.                               *)
(***************************************************************************)
Loop == Inv /\ CyclesOK /\ CallsOK /\ Owing

Steady == UNCHANGED <<badReadings, sustained, low>>

\* What an alert does to the service, it does for a caller.
LEMMA ServiceStep ==
  ASSUME Inv, NEW l \in Loops,
         \/ \E k \in AlertKeys : Admit(l, k)
         \/ \E k : Suppress(l, k)
         \/ Logged(l) \/ NotLogged(l) \/ Dispatched(l) \/ DispatchThrows(l)
  PROVE  Inv'
<1>0. errors \in 0..MaxErrors /\ (Erring => errors' \in 0..MaxErrors) /\ l \in Callers
  BY AlertingAssumption, WatchdogAssumption DEF Inv, Types, Erring
<1>1. CASE \E k \in AlertKeys : Admit(l, k)
  BY <1>0, <1>1, AdmitInv
<1>2. CASE \E k : Suppress(l, k)
  BY <1>2, IdleInv DEF Suppress, alertVars, Inv, Types
<1>3. CASE Logged(l)
  BY <1>0, <1>3, LoggedInv
<1>4. CASE NotLogged(l)
  BY <1>0, <1>4, NotLoggedInv
<1>5. CASE Dispatched(l) \/ DispatchThrows(l)
  BY <1>0, <1>5, ReturnsInv DEF Dispatched, DispatchThrows
<1> QED
  BY <1>1, <1>2, <1>3, <1>4, <1>5

\* The alert service is left alone.
LEMMA ServiceIdle == Inv /\ UNCHANGED alertVars => Inv'
  BY IdleInv DEF alertVars, Inv, Types

\* A cycle begins ...
LEMMA BeginLoop ==
  ASSUME Loop, Steady, NEW l \in Loops, Begin(l)
  PROVE  Loop'
<1> USE DEF Loop, Begin, vitals
<1>1. Inv'
  BY ServiceIdle
<1>2. CyclesOK'
  BY WatchdogAssumption DEF CyclesOK
<1>3. CallsOK'
  BY SameHistory DEF CallsOK, Steady, PlainCall, Alerts, Reports, Resolves
<1>4. Owing'
  BY DEF Owing, alertVars
<1> QED
  BY <1>1, <1>2, <1>3, <1>4

\* ... and ends.
LEMMA EndLoop ==
  ASSUME Loop, Steady, NEW l \in Loops, End(l)
  PROVE  Loop'
<1> USE DEF Loop, End, vitals
<1>1. Inv'
  BY ServiceIdle
<1>2. CyclesOK'
  BY WatchdogAssumption DEF CyclesOK
<1>3. CallsOK'
  BY SameHistory DEF CallsOK, Steady, PlainCall, Alerts, Reports, Resolves
<1>4. Owing'
  BY DEF Owing, alertVars
<1> QED
  BY <1>1, <1>2, <1>3, <1>4

\* The loop calls sendAlert, which lets the call through or suppresses it: the
\* list of the infrastructure loop still owes what follows the alert.
LEMMA CallAlertLoop ==
  ASSUME Loop, Steady, NEW l \in Loops, CallAlert(l)
  PROVE  Loop'
<1> USE DEF Loop, vitals
<1>1. todo[l] # <<>> /\ Head(todo[l]).do = "alert"
  BY DEF CallAlert, Calls
<1>2. Head(todo[l]) \in Alerts
  BY <1>1, KindOfCall
<1>3. Inv'
  BY <1>2, ServiceStep DEF CallAlert, Alerts
<1>4. CyclesOK'
  BY DEF CallAlert, CyclesOK
<1>5. CallsOK'
  <2>1. Tail(todo[l]) \in Seq(OpsCall) /\ (l # "ops" => Tail(todo[l]) \in Seq(PlainCall))
    BY <1>1, FirstCall
  <2>2. todo' = [todo EXCEPT ![l] = Tail(todo[l])] /\ rescue' \in [Loops -> Seq(PlainCall)]
    BY DEF CallAlert, Done, CallsOK
  <2> QED
    BY <2>1, <2>2, NewList DEF Steady
<1>6. Owing'
  <2> SUFFICES ASSUME owed # NothingOwed PROVE Owing'
    BY DEF Owing, CallAlert
  <2> PICK s, lv : /\ owed.source = s
                   /\ \/ todo["infra"] = <<Report(s, lv)>>
                      \/ \E k : todo["infra"] = <<Alert(k), Report(s, lv)>>
                   /\ \/ rescue["infra"] = <<Report(s, "CRITICAL")>>
                      \/ step["infra"] = "idle" /\ todo["infra"] = <<Report(s, lv)>>
    BY DEF Owing
  <2>1. CASE l = "infra"
    <3>1. ~(todo["infra"] = <<Report(s, lv)>>)
      BY <1>1, <2>1 DEF Report
    <3>2. PICK k : todo["infra"] = <<Alert(k), Report(s, lv)>>
      BY <3>1
    <3>3. todo'["infra"] = <<Report(s, lv)>> /\ rescue'["infra"] = <<Report(s, "CRITICAL")>>
      BY <2>1, <3>1, <3>2 DEF CallAlert, Done, CallsOK
    <3> QED
      BY <3>3 DEF Owing, CallAlert
  <2>2. CASE l # "infra"
    <3>1. UNCHANGED <<owed, todo["infra"], rescue["infra"], step["infra"]>>
      BY <2>2, WatchdogAssumption
      DEF CallAlert, Done, Admit, Suppress, alertVars, Loops, CallsOK, Inv, Types
    <3> QED
      BY <3>1 DEF Owing
  <2> QED
    BY <2>1, <2>2
<1> QED
  BY <1>3, <1>4, <1>5, <1>6

\* The insert or the dispatch of the alert is answered.
LEMMA AlertProceedsLoop ==
  ASSUME Loop, Steady, NEW l \in Loops, AlertProceeds(l)
  PROVE  Loop'
<1> USE DEF Loop, loopVars, vitals
<1>1. Inv'
  BY ServiceStep DEF AlertProceeds
<1>2. CyclesOK'
  BY DEF AlertProceeds, CyclesOK
<1>3. CallsOK'
  BY SameHistory DEF AlertProceeds, CallsOK, Steady, PlainCall, Alerts, Reports, Resolves
<1>4. Owing'
  <2>1. UNCHANGED <<owed, todo, rescue>>
    BY DEF AlertProceeds
  <2>2. step["infra"] = "idle" => step'["infra"] = "idle"
    BY WatchdogAssumption
    DEF AlertProceeds, Logged, NotLogged, PastInsert, Dispatched, Returns, Inv, Types, Loops
  <2> QED
    BY <2>1, <2>2 DEF Owing
<1> QED
  BY <1>1, <1>2, <1>3, <1>4

\* The dispatch throws: the catch makes the call of the rescue.
LEMMA AlertFailsLoop ==
  ASSUME Loop, Steady, NEW l \in Loops, AlertFails(l)
  PROVE  Loop'
<1> USE DEF Loop, vitals
<1>1. Inv'
  BY ServiceStep DEF AlertFails
<1>2. CyclesOK'
  BY WatchdogAssumption DEF AlertFails, CyclesOK
<1>3. CallsOK'
  <2>1. rescue[l] \in Seq(PlainCall) /\ rescue[l] \in Seq(OpsCall)
    BY PlainLists DEF CallsOK
  <2>2. todo' = [todo EXCEPT ![l] = rescue[l]] /\ rescue' \in [Loops -> Seq(PlainCall)]
    BY DEF AlertFails, CallsOK
  <2> QED
    BY <2>1, <2>2, NewList DEF Steady
<1>4. Owing'
  <2> SUFFICES ASSUME owed # NothingOwed PROVE Owing'
    BY DEF Owing, AlertFails
  <2> PICK s, lv : /\ owed.source = s
                   /\ \/ todo["infra"] = <<Report(s, lv)>>
                      \/ \E k : todo["infra"] = <<Alert(k), Report(s, lv)>>
                   /\ \/ rescue["infra"] = <<Report(s, "CRITICAL")>>
                      \/ step["infra"] = "idle" /\ todo["infra"] = <<Report(s, lv)>>
    BY DEF Owing
  <2>1. CASE l = "infra"
    <3>1. step["infra"] # "idle" /\ step'["infra"] = "idle"
      BY <2>1, WatchdogAssumption DEF AlertFails, DispatchThrows, Returns, Inv, Types
    <3>2. todo'["infra"] = <<Report(s, "CRITICAL")>>
      BY <2>1, <3>1 DEF AlertFails, CallsOK
    <3> QED
      BY <3>1, <3>2 DEF Owing, AlertFails
  <2>2. CASE l # "infra"
    <3>1. UNCHANGED <<owed, todo["infra"], rescue["infra"], step["infra"]>>
      BY <2>2, WatchdogAssumption
      DEF AlertFails, DispatchThrows, Returns, Loops, CallsOK, Inv, Types
    <3> QED
      BY <3>1 DEF Owing
  <2> QED
    BY <2>1, <2>2
<1> QED
  BY <1>1, <1>2, <1>3, <1>4

\* What stands first in the two lists that owe an incident.
LEMMA OwedHeads ==
  ASSUME NEW s, NEW lv, NEW k
  PROVE  /\ Head(<<Report(s, lv)>>) = Report(s, lv)
         /\ Report(s, lv).do = "report" /\ Report(s, lv).source = s
         /\ Head(<<Alert(k), Report(s, lv)>>) = Alert(k) /\ Alert(k).do = "alert"
  BY DEF Report, Alert

\* A report records the level at once and goes on to the alert of it.  In the
\* infrastructure loop it is the report that was owed.
LEMMA CallReportLoop ==
  ASSUME Loop, Steady, NEW l \in Loops, CallReport(l)
  PROVE  Loop'
<1> USE DEF Loop
<1>1. todo[l] # <<>> /\ Head(todo[l]).do = "report"
  BY DEF CallReport, Calls
<1>2. PICK e : e = Head(todo[l])
  OBVIOUS
<1>3. e \in Reports \cup Losses
  BY <1>1, <1>2, KindOfCall
<1>4. e.source \in Sources /\ e.level \in Levels
  BY <1>3 DEF Reports, Losses, LossType, Sources, GlobalSources
<1>5. Inv'
  BY ServiceIdle DEF CallReport
<1>6. CyclesOK'
  BY <1>2, <1>4 DEF CallReport, CyclesOK
<1>7. CallsOK'
  <2>1. Tail(todo[l]) \in Seq(OpsCall) /\ (l # "ops" => Tail(todo[l]) \in Seq(PlainCall))
    BY <1>1, FirstCall
  <2>2. PICK a : a = Alert(IncidentKey(e.source, e.level)) /\ a \in PlainCall
    BY IncidentKeyKnown, PlainCalls
  <2>3. <<a>> \o Tail(todo[l]) \in Seq(OpsCall)
    BY <2>1, <2>2 DEF OpsCall
  <2>4. l # "ops" => <<a>> \o Tail(todo[l]) \in Seq(PlainCall)
    BY <2>1, <2>2
  <2>5. rescue' \in [Loops -> Seq(PlainCall)]
    BY DEF CallReport, CallsOK
  <2>6. CASE incident[e.source] = e.level
    BY <1>2, <2>1, <2>5, <2>6, NewList DEF CallReport, Done, Steady
  <2>7. CASE incident[e.source] # e.level
    <3>1. todo' = [todo EXCEPT ![l] = <<a>> \o Tail(todo[l])]
      BY <1>2, <2>2, <2>7 DEF CallReport
    <3> QED
      BY <2>3, <2>4, <2>5, <3>1, NewList DEF Steady
  <2> QED
    BY <2>6, <2>7
<1>8. Owing'
  <2> SUFFICES ASSUME owed' # NothingOwed PROVE Owing'
    BY DEF Owing
  <2>0. owed' = owed /\ owed # NothingOwed /\ e.source # owed.source
    BY <1>2 DEF CallReport
  <2>1. CASE l = "infra"
    <3>1. PICK s, lv : /\ owed.source = s
                       /\ \/ todo["infra"] = <<Report(s, lv)>>
                          \/ \E k : todo["infra"] = <<Alert(k), Report(s, lv)>>
      BY <2>0 DEF Owing
    <3>2. Head(todo["infra"]).do = "report" /\ Head(todo["infra"]).source # s
      BY <1>1, <1>2, <2>0, <2>1, <3>1
    <3> QED
      BY <3>1, <3>2, OwedHeads
  <2>2. CASE l # "infra"
    <3>1. UNCHANGED <<todo["infra"], rescue["infra"], step>>
      BY <2>2 DEF CallReport, Done, alertVars, Loops, CallsOK
    <3> QED
      BY <2>0, <3>1 DEF Owing
  <2> QED
    BY <2>1, <2>2
<1> QED
  BY <1>5, <1>6, <1>7, <1>8

\* A resolution takes levels away.
LEMMA CallResolveLoop ==
  ASSUME Loop, Steady, NEW l \in Loops, CallResolve(l)
  PROVE  Loop'
<1> USE DEF Loop
<1>1. todo[l] # <<>> /\ Head(todo[l]).do = "resolve"
  BY DEF CallResolve, Calls
<1>2. Inv'
  BY ServiceIdle DEF CallResolve
<1>3. CyclesOK'
  BY DEF CallResolve, CyclesOK
<1>4. CallsOK'
  <2>1. Tail(todo[l]) \in Seq(OpsCall) /\ (l # "ops" => Tail(todo[l]) \in Seq(PlainCall))
    BY <1>1, FirstCall
  <2>2. todo' = [todo EXCEPT ![l] = Tail(todo[l])] /\ rescue' \in [Loops -> Seq(PlainCall)]
    BY DEF CallResolve, Done, CallsOK
  <2> QED
    BY <2>1, <2>2, NewList DEF Steady
<1>5. Owing'
  <2>1. CASE l = "infra"
    <3>1. owed = NothingOwed
      BY <1>1, <2>1, OwedHeads DEF Owing
    <3> QED
      BY <3>1 DEF Owing, CallResolve
  <2>2. CASE l # "infra"
    <3>1. UNCHANGED <<owed, todo["infra"], rescue["infra"], step>>
      BY <2>2 DEF CallResolve, Done, alertVars, Loops, CallsOK
    <3> QED
      BY <3>1 DEF Owing
  <2> QED
    BY <2>1, <2>2
<1> QED
  BY <1>2, <1>3, <1>4, <1>5

\* Every call of a loop, and the end of its cycle.
LEMMA LoopCallsLoop ==
  ASSUME Loop, Steady, NEW l \in Loops, LoopCalls(l)
  PROVE  Loop'
  BY CallAlertLoop, AlertProceedsLoop, AlertFailsLoop, CallReportLoop, CallResolveLoop, EndLoop
  DEF LoopCalls, AlertCalls

(***************************************************************************)
(* The checks.                                                             *)
(***************************************************************************)
\* A check concludes with calls of its loop: what it may disturb but what is owed.
LEMMA ConcludeLists ==
  ASSUME Loop, NEW l \in Loops, NEW c, Runs(l, c),
         NEW calls \in Seq(OpsCall'), l # "ops" => calls \in Seq(PlainCall),
         NEW otherwise \in Seq(PlainCall), l # "ops" => Steady,
         Conclude(l, calls, otherwise), errors' \in 0..MaxErrors
  PROVE  Inv' /\ CyclesOK' /\ CallsOK'
<1> USE DEF Loop
<1>1. Inv'
  BY IdleInv DEF Conclude, Inv, Types
<1>2. CyclesOK'
  <2>1. UNCHANGED <<plan, incident>> /\ at' = [at EXCEPT ![l] = @ + 1]
    BY DEF Conclude
  <2>2. at \in [Loops -> Nat] /\ \A k \in Loops : at[k] \in 0..Len(plan[k]) + 1
    BY DEF CyclesOK
  <2>3. at[l] + 1 \in Nat /\ at[l] + 1 \in 0..Len(plan[l]) + 1
    BY <2>2 DEF Runs
  <2>4. at' \in [Loops -> Nat] /\ \A k \in Loops : at'[k] \in 0..Len(plan[k]) + 1
    BY <2>1, <2>2, <2>3
  <2> QED
    BY <2>1, <2>4 DEF CyclesOK
<1>3. CallsOK'
  <2>1. rescue' \in [Loops -> Seq(PlainCall)]
    BY DEF Conclude, CallsOK
  <2>2. CASE l # "ops"
    <3>1. OpsCall' = OpsCall /\ calls \in Seq(OpsCall)
      BY <2>2, SameHistory DEF Steady
    <3> QED
      BY <2>1, <2>2, <3>1, NewList DEF Conclude, Steady
  <2>3. CASE l = "ops"
    BY <2>1, <2>3, NewOpsList DEF Conclude
  <2> QED
    BY <2>2, <2>3
<1> QED
  BY <1>1, <1>2, <1>3

\* An error that is counted stays below the bound.
LEMMA ErringBound == Inv => errors \in 0..MaxErrors /\ (Erring => errors' \in 0..MaxErrors)
  BY AlertingAssumption DEF Inv, Types, Erring

\* A bad verdict owes an incident and puts its report into both lists.
LEMMA UnhealthyLoop ==
  ASSUME Loop, Steady, NEW c, Runs("infra", c), errors' \in 0..MaxErrors,
         NEW s \in Sources \ DOMAIN LossType, NEW lv \in Levels,
         \/ Unhealthy(s, lv, <<>>)
         \/ \E k \in AlertKeys : Unhealthy(s, lv, <<Alert(k)>>)
  PROVE  Loop'
<1>1. PICK r, rs : /\ r = Report(s, lv) /\ rs = <<Report(s, "CRITICAL")>>
                   /\ r \in PlainCall /\ rs \in Seq(PlainCall)
  BY PlainCalls, ShortLists DEF Levels
<1>2. /\ owed' = [source |-> s, level |-> lv]
      /\ \/ Conclude("infra", <<r>>, rs)
         \/ \E k \in AlertKeys : Conclude("infra", <<Alert(k), r>>, rs)
  BY <1>1, ShortConcatenations DEF Unhealthy
<1>3. PICK calls : /\ Conclude("infra", calls, rs)
                   /\ \/ calls = <<r>>
                      \/ \E k \in AlertKeys : calls = <<Alert(k), r>>
  BY <1>2
<1>4. calls \in Seq(PlainCall) /\ calls \in Seq(OpsCall')
  BY <1>1, <1>3, PlainCalls, ShortLists, PlainLists
<1>5. Inv' /\ CyclesOK' /\ CallsOK'
  BY <1>1, <1>3, <1>4, ConcludeLists DEF Loops
<1>6. Owing'
  <2>1. /\ todo'["infra"] = calls /\ rescue'["infra"] = <<Report(s, "CRITICAL")>>
        /\ owed'.source = s
    BY <1>1, <1>2, <1>3 DEF Conclude, Loop, CallsOK, Loops
  <2>2. todo'["infra"] = <<Report(s, lv)>> \/ \E k : todo'["infra"] = <<Alert(k), Report(s, lv)>>
    BY <1>1, <1>3, <2>1
  <2> QED
    BY <2>1, <2>2 DEF Owing
<1> QED
  BY <1>5, <1>6 DEF Loop

\* Nothing is owed after a check that found its resource healthy, or one whose
\* probe was replaced by an injected failure.
LEMMA NothingOwedLoop ==
  ASSUME Loop, Steady, NEW c, Runs("infra", c), errors' \in 0..MaxErrors, owed' = NothingOwed,
         NEW calls \in Seq(PlainCall), NEW otherwise \in Seq(PlainCall),
         Conclude("infra", calls, otherwise)
  PROVE  Loop'
  BY ConcludeLists, PlainLists DEF Owing, Loop, Loops

LEMMA HealthyLoop ==
  ASSUME Loop, Steady, NEW c, Runs("infra", c), errors' \in 0..MaxErrors,
         NEW s \in Sources \ DOMAIN LossType,
         \/ Healthy(s, <<>>)
         \/ \E k \in AlertKeys : Healthy(s, <<Alert(k)>>)
  PROVE  Loop'
<1>1. PICK r, rs : /\ r = Resolve({s}) /\ rs = <<Report(s, "CRITICAL")>>
                   /\ r \in PlainCall /\ rs \in Seq(PlainCall)
  BY PlainCalls, ShortLists DEF Levels
<1>2. /\ owed' = NothingOwed
      /\ \/ Conclude("infra", <<r>>, rs)
         \/ \E k \in AlertKeys : Conclude("infra", <<Alert(k), r>>, rs)
  BY <1>1, ShortConcatenations DEF Healthy
<1>3. \E calls \in Seq(PlainCall) : Conclude("infra", calls, rs)
  BY <1>1, <1>2, PlainCalls, ShortLists
<1> QED
  BY <1>1, <1>2, <1>3, NothingOwedLoop

\* The checks of the infrastructure loop.
LEMMA InfraChecksLoop ==
  ASSUME Loop, Steady, InfraChecks
  PROVE  Loop'
<1> DEFINE Checked == {"VM", "DOCKER", "FREQTRADE", "EXCHANGE_REACHABILITY", "NETWORK", "DNS"}
<1>1. /\ Checked \subseteq Sources \ DOMAIN LossType
      /\ "CRITICAL" \in Levels /\ "WARNING" \in Levels
  BY DEF Sources, GlobalSources, LossType, Levels
<1>2. errors \in 0..MaxErrors /\ (Erring => errors' \in 0..MaxErrors)
  BY ErringBound DEF Loop
<1>3. ASSUME NEW s \in Checked, NEW c, Runs("infra", c), AuditLost(s) PROVE Loop'
  BY <1>1, <1>2, <1>3, UnhealthyLoop DEF AuditLost
<1>4. /\ KeysSent \subseteq AlertKeys
      /\ HttpKey["FREQTRADE"] \in KeysSent /\ HttpKey["EXCHANGE_REACHABILITY"] \in KeysSent
  BY WatchdogAssumption DEF HttpKey, KeysSent
<1>5. ASSUME NEW load \in Loads, NEW fell \in BOOLEAN, CheckVM(load, fell) PROVE Loop'
  <2> USE <1>1, <1>2, <1>4 DEF KeysSent
  <2>1. CASE AuditLost("VM")
    BY <1>3, <1>5, <2>1 DEF CheckVM
  <2>2. CASE Unhealthy("VM", "CRITICAL", <<Alert("vm_health_critical")>>) /\ UNCHANGED errors
    BY <1>5, <2>2, UnhealthyLoop DEF CheckVM
  <2>3. CASE Healthy("VM", <<Alert("vm_health_warning")>>) /\ UNCHANGED errors
    BY <1>5, <2>3, HealthyLoop DEF CheckVM
  <2>4. CASE Healthy("VM", <<>>) /\ UNCHANGED errors
    BY <1>5, <2>4, HealthyLoop DEF CheckVM
  <2> QED
    BY <1>5, <2>1, <2>2, <2>3, <2>4 DEF CheckVM
<1>6. ASSUME \/ \E i \in Inspections : CheckContainer(i)
             \/ ContainerMissing
      PROVE  Loop'
  <2> USE <1>1, <1>2, <1>4 DEF KeysSent
  <2>0. Runs("infra", "DOCKER")
    BY <1>6 DEF CheckContainer, ContainerMissing
  <2>1. CASE AuditLost("DOCKER")
    BY <1>3, <2>0, <2>1
  <2>2. CASE /\ UNCHANGED errors
             /\ \E k \in AlertKeys : Unhealthy("DOCKER", "CRITICAL", <<Alert(k)>>)
    BY <2>0, <2>2, UnhealthyLoop
  <2>3. CASE Healthy("DOCKER", <<>>) /\ UNCHANGED errors
    BY <2>0, <2>3, HealthyLoop
  <2> QED
    BY <1>6, <2>1, <2>2, <2>3 DEF CheckContainer, ContainerMissing
<1>7. ASSUME NEW c \in HttpChecks, NEW ok \in BOOLEAN, CheckHttp(c, ok) PROVE Loop'
  <2> USE <1>1, <1>2, <1>4
  <2>0. Runs("infra", c) /\ c \in Checked /\ HttpKey[c] \in AlertKeys
    BY <1>7 DEF CheckHttp, HttpChecks
  <2>1. CASE AuditLost(c)
    BY <1>3, <2>0, <2>1
  <2>2. CASE Unhealthy(c, "CRITICAL", <<Alert(HttpKey[c])>>) /\ UNCHANGED errors
    BY <2>0, <2>2, UnhealthyLoop
  <2>3. CASE Unhealthy(c, "WARNING", <<>>) /\ UNCHANGED errors
    BY <2>0, <2>3, UnhealthyLoop
  <2>4. CASE Healthy(c, <<>>) /\ UNCHANGED errors
    BY <2>0, <2>4, HealthyLoop
  <2> QED
    BY <1>7, <2>1, <2>2, <2>3, <2>4 DEF CheckHttp
<1>8. ASSUME NEW c \in Checked, NEW k \in AlertKeys, Runs("infra", c),
             \/ Conclude("infra", <<Alert(k), Report(c, "CRITICAL")>>, <<>>)
             \/ Conclude("infra", <<>>, <<>>),
             owed' = NothingOwed, UNCHANGED errors
      PROVE  Loop'
  <2>1. <<Alert(k), Report(c, "CRITICAL")>> \in Seq(PlainCall) /\ <<>> \in Seq(PlainCall)
    BY <1>1, PlainCalls, ShortLists
  <2>2. \E calls \in Seq(PlainCall) : Conclude("infra", calls, <<>>)
    BY <1>8, <2>1
  <2> QED
    BY <1>2, <1>8, <2>1, <2>2, NothingOwedLoop
<1>9. ASSUME NEW c \in HttpChecks \cup {"NETWORK"}, SimulateTimeout(c) PROVE Loop'
  <2>1. c \in Checked /\ (IF c = "NETWORK" THEN "host_network_offline" ELSE HttpKey[c]) \in AlertKeys
    BY <1>4 DEF HttpChecks, KeysSent
  <2> QED
    BY <1>8, <1>9, <2>1 DEF SimulateTimeout
<1>10. ASSUME NEW lost \in {"none", "some", "all"}, CheckNetwork(lost) PROVE Loop'
  <2> USE <1>1, <1>2, <1>4 DEF KeysSent
  <2>0. Runs("infra", "NETWORK")
    BY <1>10 DEF CheckNetwork
  <2>1. CASE AuditLost("NETWORK")
    BY <1>3, <2>0, <2>1
  <2>2. CASE /\ UNCHANGED errors
             /\ Unhealthy("NETWORK", "CRITICAL", <<Alert("host_network_offline")>>)
    BY <2>0, <2>2, UnhealthyLoop
  <2>3. CASE Healthy("NETWORK", <<Alert("host_network_degraded")>>) /\ UNCHANGED errors
    BY <2>0, <2>3, HealthyLoop
  <2>4. CASE Healthy("NETWORK", <<>>) /\ UNCHANGED errors
    BY <2>0, <2>4, HealthyLoop
  <2> QED
    BY <1>10, <2>1, <2>2, <2>3, <2>4 DEF CheckNetwork
<1>11. ASSUME NEW ok \in BOOLEAN, CheckDns(ok) PROVE Loop'
  <2> USE <1>1, <1>2, <1>4 DEF KeysSent
  <2>0. Runs("infra", "DNS")
    BY <1>11 DEF CheckDns
  <2>1. CASE AuditLost("DNS")
    BY <1>3, <2>0, <2>1
  <2>2. CASE /\ UNCHANGED errors
             /\ Unhealthy("DNS", "CRITICAL", <<Alert("dns_resolution_failed")>>)
    BY <2>0, <2>2, UnhealthyLoop
  <2>3. CASE Healthy("DNS", <<>>) /\ UNCHANGED errors
    BY <2>0, <2>3, HealthyLoop
  <2> QED
    BY <1>11, <2>1, <2>2, <2>3 DEF CheckDns
<1>12. ASSUME SimulateDnsFailure PROVE Loop'
  BY <1>4, <1>8, <1>12 DEF SimulateDnsFailure, KeysSent
<1> QED
  BY <1>5, <1>6, <1>7, <1>9, <1>10, <1>11, <1>12 DEF InfraChecks

\* A check of another loop leaves alone what the infrastructure loop owes.
LEMMA OtherLoop ==
  ASSUME Loop, NEW l \in Loops \ {"infra"}, NEW c, Runs(l, c),
         NEW calls \in Seq(OpsCall'), l # "ops" => calls \in Seq(PlainCall) /\ Steady,
         Conclude(l, calls, <<>>), errors' \in 0..MaxErrors, owed' = owed
  PROVE  Loop'
<1>1. <<>> \in Seq(PlainCall)
  OBVIOUS
<1>2. Inv' /\ CyclesOK' /\ CallsOK'
  BY <1>1, ConcludeLists
<1>3. UNCHANGED <<todo["infra"], rescue["infra"], step>>
  BY DEF Conclude, Loop, CallsOK, Loops
<1>4. Owing'
  BY <1>3 DEF Loop, Owing
<1> QED
  BY <1>2, <1>4 DEF Loop

\* The runtime checks and the anomaly detector call what any loop may call.
LEMMA RuntimeLoop ==
  ASSUME Loop, Steady, NEW c \in DOMAIN RuntimeKey, NEW bad \in BOOLEAN, CheckRuntime(c, bad)
  PROVE  Loop'
<1>1. RuntimeKey[c] \in AlertKeys
  BY WatchdogAssumption DEF RuntimeKey, KeysSent
<1>2. \E calls \in Seq(PlainCall) : Conclude("runtime", calls, <<>>)
  BY <1>1, PlainCalls, ShortLists DEF CheckRuntime
<1>3. Seq(PlainCall) \subseteq Seq(OpsCall') /\ errors' \in 0..MaxErrors
  BY PlainLists, ErringBound DEF CheckRuntime, Loop
<1> QED
  BY <1>2, <1>3, OtherLoop DEF CheckRuntime, Loops

LEMMA AnomalyLoop ==
  ASSUME Loop, Steady, NEW order \in {"stuck", "resolved", "none"}, CheckAnomalies(order)
  PROVE  Loop'
<1>1. "OP_STUCK" \in Sources \ DOMAIN LossType /\ "HIGH" \in Levels
  BY DEF Sources, SymbolSources, LossType, Levels
<1>2. PICK calls :
        /\ Conclude("anomaly", calls, <<>>)
        /\ calls \in {<<Report("OP_STUCK", "HIGH")>>, <<Resolve({"OP_STUCK"})>>, <<>>}
  BY DEF CheckAnomalies
<1>3. calls \in Seq(PlainCall)
  BY <1>1, <1>2, PlainCalls, ShortLists
<1>4. Seq(PlainCall) \subseteq Seq(OpsCall') /\ errors' \in 0..MaxErrors
  BY PlainLists, ErringBound DEF CheckAnomalies, Loop
<1> QED
  BY <1>2, <1>3, <1>4, OtherLoop DEF CheckAnomalies, Loops

(***************************************************************************)
(* The counters of the operations loop and the history.                    *)
(***************************************************************************)
Counters == OpsTypeOK /\ Margins

LEMMA Limits ==
  /\ AlarmAfter \in Nat /\ StructuralCritical \in Nat /\ ConfidenceCritical \in Nat
  /\ MaxFailures \in Nat /\ MaxRestarts \in Nat
  BY WatchdogAssumption

\* A counter that stops at its limit.
LEMMA Stops ==
  ASSUME NEW limit \in Nat, NEW n \in 0..limit, NEW m \in 0..limit, n <= m
  PROVE  /\ UpTo(n + 1, limit) \in 0..limit /\ UpTo(m + 1, limit) \in 0..limit
         /\ UpTo(n + 1, limit) <= UpTo(m + 1, limit)
  BY DEF UpTo

\* A silent reading outside the grace period raises the check's counter and the
\* history together, a good one clears both; under an injected loss the history
\* is at the limit at once.  Nothing else of the counters changes.
LEMMA ReadingCounters ==
  ASSUME Counters, NEW c \in Counted,
         UNCHANGED <<mode, young, grace, counts, breaches, sustained, low>>,
         \/ /\ silent' = [silent EXCEPT ![c] = 0]
            /\ badReadings' = [badReadings EXCEPT ![c] = 0]
         \/ /\ silent' = [silent EXCEPT ![c] = UpTo(silent[c] + 1, AlarmAfter)]
            /\ badReadings' = [badReadings EXCEPT ![c] = UpTo(badReadings[c] + 1, AlarmAfter)]
         \/ silent' = silent /\ badReadings' = [badReadings EXCEPT ![c] = AlarmAfter]
  PROVE  Counters'
<1> USE Limits DEF Counters
<1>1. silent[c] \in 0..AlarmAfter /\ badReadings[c] \in 0..AlarmAfter /\ silent[c] <= badReadings[c]
  BY DEF OpsTypeOK, Margins
<1>2. /\ UpTo(silent[c] + 1, AlarmAfter) \in 0..AlarmAfter
      /\ UpTo(badReadings[c] + 1, AlarmAfter) \in 0..AlarmAfter
      /\ UpTo(silent[c] + 1, AlarmAfter) <= UpTo(badReadings[c] + 1, AlarmAfter)
  BY <1>1, Stops
<1>3. OpsTypeOK'
  BY <1>2 DEF OpsTypeOK
<1>4. Margins'
  BY <1>1, <1>2 DEF Margins, OpsTypeOK
<1> QED
  BY <1>3, <1>4

\* The report of a lost connection is a call the history vouches for.
LEMMA LossReport ==
  ASSUME NEW c \in DOMAIN LossType, badReadings'[c] >= AlarmAfter
  PROVE  <<Report(c, "CRITICAL")>> \in Seq(OpsCall')
<1>1. Report(c, "CRITICAL") \in Losses'
  BY DEF Losses, Report, Levels
<1> QED
  BY <1>1 DEF OpsCall

\* The heartbeat and the broker connection.
LEMMA LivenessLoop ==
  ASSUME Loop, Counters, NEW c \in DOMAIN LossType, NEW ok \in BOOLEAN,
         CheckLiveness(c, ok, injected)
  PROVE  Loop' /\ Counters'
<1> USE Limits
<1>0. c \in Counted /\ {c} \in SUBSET Sources /\ WarningKey[c] \in AlertKeys /\ "ops" \in Loops \ {"infra"}
  BY WatchdogAssumption DEF LossType, Counted, Sources, GlobalSources, WarningKey, KeysSent, Loops
<1>1. /\ Runs("ops", c) /\ owed' = owed /\ errors' \in 0..MaxErrors
      /\ UNCHANGED <<mode, young, grace, counts, breaches, sustained, low>>
  BY ErringBound DEF CheckLiveness, Loop
<1>2. ASSUME NEW calls \in Seq(OpsCall'), Conclude("ops", calls, <<>>) PROVE Loop'
  BY <1>0, <1>1, <1>2, OtherLoop
<1>3. \A calls \in Seq(PlainCall) : calls \in Seq(OpsCall')
  BY PlainLists
<1>4. CASE grace /\ ~ok
  <2>1. Conclude("ops", <<>>, <<>>) /\ UNCHANGED <<silent, badReadings>>
    BY <1>4 DEF CheckLiveness
  <2>2. Loop'
    BY <1>2, <1>3, <2>1, ShortLists
  <2>3. Counters'
    BY <1>1, <2>1 DEF Counters, OpsTypeOK, Margins
  <2> QED
    BY <2>2, <2>3
<1>5. CASE ok
  <2>1. /\ silent' = [silent EXCEPT ![c] = 0]
        /\ badReadings' = [badReadings EXCEPT ![c] = 0]
        /\ Conclude("ops", <<Resolve({c})>>, <<>>)
    BY <1>5 DEF CheckLiveness
  <2>2. Counters'
    BY <1>0, <1>1, <2>1, ReadingCounters
  <2>3. <<Resolve({c})>> \in Seq(PlainCall)
    BY <1>0, PlainCalls, ShortLists
  <2> QED
    BY <1>2, <1>3, <2>1, <2>2, <2>3
<1>6. CASE ~ok /\ ~grace
  <2> PICK n : n = UpTo(silent[c] + 1, AlarmAfter)
    OBVIOUS
  <2>1. /\ silent' = [silent EXCEPT ![c] = n]
        /\ badReadings' = [badReadings EXCEPT ![c] = UpTo(badReadings[c] + 1, AlarmAfter)]
        /\ n >= AlarmAfter => Conclude("ops", <<Report(c, "CRITICAL")>>, <<>>)
        /\ ~(n >= AlarmAfter) => Conclude("ops", <<Alert(WarningKey[c])>>, <<>>)
    BY <1>6 DEF CheckLiveness
  <2>2. Counters'
    BY <1>0, <1>1, <2>1, ReadingCounters
  <2>3. CASE n >= AlarmAfter
    <3>1. silent'[c] = n /\ badReadings'[c] >= silent'[c] /\ badReadings'[c] \in Nat /\ silent'[c] \in Nat
      BY <1>0, <2>1, <2>2 DEF Counters, OpsTypeOK, Margins
    <3>2. badReadings'[c] >= AlarmAfter
      BY <2>3, <3>1
    <3> QED
      BY <1>2, <2>1, <2>2, <2>3, <3>2, LossReport
  <2>4. CASE ~(n >= AlarmAfter)
    <3>1. <<Alert(WarningKey[c])>> \in Seq(PlainCall)
      BY <1>0, PlainCalls, ShortLists
    <3> QED
      BY <1>2, <1>3, <2>1, <2>2, <2>4, <3>1
  <2> QED
    BY <2>3, <2>4
<1> QED
  BY <1>4, <1>5, <1>6

\* An injected loss.
LEMMA SimulateLossLoop ==
  ASSUME Loop, Counters, NEW c \in DOMAIN LossType, SimulateLoss(c, injected)
  PROVE  Loop' /\ Counters'
<1>0. c \in Counted /\ "ops" \in Loops \ {"infra"}
  BY DEF LossType, Counted, Loops
<1>1. Counters'
  BY <1>0, ReadingCounters DEF SimulateLoss, counters
<1>2. badReadings'[c] >= AlarmAfter
  BY <1>0, Limits DEF SimulateLoss, Counters, OpsTypeOK
<1>3. <<Report(c, "CRITICAL")>> \in Seq(OpsCall')
  BY <1>2, LossReport
<1>4. errors' \in 0..MaxErrors
  BY ErringBound DEF SimulateLoss, Loop
<1>5. Loop'
  BY <1>0, <1>3, <1>4, OtherLoop DEF SimulateLoss
<1> QED
  BY <1>1, <1>5

\* The checks that only alert.
LEMMA AlertOnlyLoop ==
  ASSUME Loop, Counters, NEW c, NEW bad \in BOOLEAN, NEW k, bad => k \in AlertKeys,
         AlertOnly(c, bad, k)
  PROVE  Loop' /\ Counters'
<1>1. PICK calls \in Seq(PlainCall) : Conclude("ops", calls, <<>>)
  BY PlainCalls, ShortLists DEF AlertOnly
<1>2. calls \in Seq(OpsCall')
  BY PlainLists
<1>3. errors' \in 0..MaxErrors
  BY ErringBound DEF AlertOnly, Loop
<1>4. Loop'
  BY <1>1, <1>2, <1>3, OtherLoop DEF AlertOnly, Loops
<1>5. Counters'
  BY DEF AlertOnly, opsVars, counters, history, Counters, OpsTypeOK, Margins
<1> QED
  BY <1>4, <1>5

\* The silence check: three readings without a trade raise an alert.
LEMMA FrequencyLoop ==
  ASSUME Loop, Counters, NEW traded \in BOOLEAN, CheckTradeFrequency(traded)
  PROVE  Loop' /\ Counters'
<1>0. "TRADE_FREQUENCY" \in Counted /\ "silence_warning" \in AlertKeys /\ "ops" \in Loops \ {"infra"}
  BY WatchdogAssumption DEF Counted, KeysSent, Loops
<1>1. Counters'
  BY <1>0, ReadingCounters DEF CheckTradeFrequency
<1>2. PICK calls \in Seq(PlainCall) : Conclude("ops", calls, <<>>)
  BY <1>0, PlainCalls, ShortLists DEF CheckTradeFrequency
<1>3. calls \in Seq(OpsCall')
  BY PlainLists
<1>4. errors' \in 0..MaxErrors
  BY ErringBound DEF CheckTradeFrequency, Loop
<1>5. Loop'
  BY <1>0, <1>2, <1>3, <1>4, OtherLoop DEF CheckTradeFrequency
<1> QED
  BY <1>1, <1>5

\* The calls of a finite set, in any order, are a list of them.
LEMMA Listed ==
  ASSUME NEW S, IsFiniteSet(S)
  PROVE  SetToSeq(S) \in Seq(S)
<1>1. \E f \in [1..Cardinality(S) -> S] : IsInjective(f)
  BY FS_CardinalityType DEF ExistsBijection, Bijection, Injection, IsInjective
<1>2. SetToSeq(S) \in [1..Cardinality(S) -> S]
  BY <1>1 DEF SetToSeq
<1> QED
  BY <1>2, FS_CardinalityType

LEMMA FinitePair ==
  ASSUME NEW x, NEW y
  PROVE  IsFiniteSet({x, y})
<1>1. IsFiniteSet({x} \cup {y})
  BY FS_Singleton, FS_AddElement
<1>2. {x} \cup {y} = {x, y}
  OBVIOUS
<1> QED
  BY <1>1, <1>2

\* The pipeline check reports or resolves the trades and hands the cycle on to
\* be assessed.
LEMMA PipelineLoop ==
  ASSUME Loop, Counters, NEW trades \in [Violations -> TradeStates],
         NEW lowConf \in BOOLEAN, NEW degraded \in BOOLEAN,
         CheckPipeline(trades, lowConf, degraded)
  PROVE  Loop' /\ Counters'
<1> DEFINE seen == {v \in Violations : trades[v] = "violates"}
           kept == {v \in Violations : trades[v] # "gone"}
<1>1. PICK S : S = {TradeCall(v, trades[v]) : v \in kept}
  OBVIOUS
<1>2. S \subseteq PlainCall
  <2>1. ASSUME NEW v \in Violations
        PROVE  TradeSource[v] \in Sources \ DOMAIN LossType
    BY WatchdogAssumption DEF TradeSource, Sources, SymbolSources, TradeSources, LossType
  <2> QED
    BY <1>1, <2>1, PlainCalls DEF TradeCall, Levels
<1>3. IsFiniteSet(S)
  <2>1. S \subseteq {TradeCall("DUPLICATE_FILL", trades["DUPLICATE_FILL"]),
                     TradeCall("BACKWARD_TRANSITION", trades["BACKWARD_TRANSITION"])}
    BY <1>1, WatchdogAssumption DEF TradeSource
  <2> QED
    BY <2>1, FinitePair, FS_Subset
<1>4. SetToSeq(S) \in Seq(OpsCall')
  BY <1>2, <1>3, Listed, PlainLists, SeqMonotonic
<1>5. PICK alerts : /\ alerts = IF degraded THEN <<Alert("observability_warning")>> ELSE <<>>
                    /\ alerts \in Seq(OpsCall')
  <2>1. "observability_warning" \in AlertKeys
    BY WatchdogAssumption DEF KeysSent
  <2> QED
    BY <2>1, PlainCalls, PlainLists, ShortLists
<1>6. PICK assess : assess = <<Assess(seen, lowConf)>> /\ assess \in Seq(OpsCall')
  <2>1. Assess(seen, lowConf) \in Assessments
    BY DEF Assess, Assessments
  <2> QED
    BY <2>1, ShortLists DEF OpsCall, Assessments
<1>7. Conclude("ops", SetToSeq(S) \o alerts \o assess, <<>>)
  BY <1>1, <1>5, <1>6 DEF CheckPipeline
<1>8. SetToSeq(S) \o alerts \o assess \in Seq(OpsCall')
  BY <1>4, <1>5, <1>6, ConcatProperties
<1>9. Runs("ops", "ORDER_PIPELINE") /\ owed' = owed /\ errors' \in 0..MaxErrors
  BY ErringBound DEF CheckPipeline, Loop
<1>10. Loop'
  BY <1>7, <1>8, <1>9, OtherLoop DEF Loops
<1>11. Counters'
  BY DEF CheckPipeline, counters, history, Counters, OpsTypeOK, Margins
<1> QED
  BY <1>10, <1>11

\* A cycle whose query failed calls nothing.
LEMMA UnreadLoop ==
  ASSUME Loop, Counters, PipelineUnread
  PROVE  Loop' /\ Counters'
<1>1. Loop'
  BY ErringBound, OtherLoop, ShortLists DEF PipelineUnread, Loop, Loops
<1>2. Counters'
  BY DEF PipelineUnread, opsVars, counters, history, Counters, OpsTypeOK, Margins
<1> QED
  BY <1>1, <1>2

\* The highest count is some violation's.
LEMMA HighestAttained ==
  ASSUME NEW f \in [Violations -> Nat]
  PROVE  \E v \in Violations : Highest(f) = f[v]
<1>1. Violations \subseteq {"DUPLICATE_FILL", "BACKWARD_TRANSITION"} /\ Violations # {}
  BY WatchdogAssumption DEF TradeSource
<1>2. \E v \in Violations : \A w \in Violations : f[w] <= f[v]
  <2>1. \E a, b : Violations = {a, b}
    <3>1. CASE Violations = {"DUPLICATE_FILL", "BACKWARD_TRANSITION"}
      BY <3>1
    <3>2. CASE Violations = {"DUPLICATE_FILL"}
      BY <3>2
    <3>3. CASE Violations = {"BACKWARD_TRANSITION"}
      BY <3>3
    <3> QED
      BY <1>1, <3>1, <3>2, <3>3
  <2> PICK a, b : Violations = {a, b}
    BY <2>1
  <2>2. f[a] \in Nat /\ f[b] \in Nat
    OBVIOUS
  <2>3. f[a] <= f[b] \/ f[b] <= f[a]
    BY <2>2
  <2> QED
    BY <2>2, <2>3
<1>3. \E n \in {f[v] : v \in Violations} : \A v \in Violations : f[v] <= n
  BY <1>2
<1>4. Highest(f) \in {f[v] : v \in Violations}
  BY <1>3 DEF Highest
<1> QED
  BY <1>4

\* The engine escalates to a halt only at one of the two limits.
LEMMA EscalationCalls ==
  ASSUME NEW structural, NEW confidence
  PROVE  \/ Escalation(structural, confidence) \in Seq(PlainCall)
         \/ /\ structural >= StructuralCritical \/ confidence >= ConfidenceCritical
            /\ Escalation(structural, confidence) \in Seq(PlainCall \cup {HaltBot})
<1>1. /\ "LIFECYCLE_INTEGRITY" \in Sources \ DOMAIN LossType
      /\ "CRITICAL" \in Levels /\ "HIGH" \in Levels
  BY DEF Sources, GlobalSources, LossType, Levels
<1>2. PICK critical, high, none :
        /\ critical = Report("LIFECYCLE_INTEGRITY", "CRITICAL") /\ critical \in PlainCall
        /\ high = <<Report("LIFECYCLE_INTEGRITY", "HIGH")>> /\ high \in Seq(PlainCall)
        /\ none = <<Resolve({"LIFECYCLE_INTEGRITY"})>> /\ none \in Seq(PlainCall)
  BY <1>1, PlainCalls, ShortLists
<1>3. /\ <<critical>> \o <<>> \in Seq(PlainCall \cup {HaltBot})
      /\ <<critical>> \o <<HaltBot>> \in Seq(PlainCall \cup {HaltBot})
  BY <1>2, ShortConcatenations
<1> QED
  BY <1>2, <1>3 DEF Escalation

\* The assessment: the counters of the program and of the history move together,
\* so a halt put on the list is one the history has earned.
LEMMA AssessLoop ==
  ASSUME Loop, Counters, CallAssess
  PROVE  Loop' /\ Counters'
<1> USE Limits
<1>1. todo["ops"] # <<>> /\ Head(todo["ops"]).do = "assess"
  BY DEF CallAssess, Calls
<1>2. Found.low \in BOOLEAN
  BY <1>1, KindOfCall DEF Found, Assessments, Loop, Loops
<1>3. Counters'
  <2>1. ASSUME NEW v \in Violations
        PROVE  /\ counts'[v] \in 0..StructuralCritical
               /\ sustained'[v] \in 0..StructuralCritical
               /\ counts'[v] <= sustained'[v]
    <3>1. /\ counts[v] \in 0..StructuralCritical /\ sustained[v] \in 0..StructuralCritical
          /\ counts[v] <= sustained[v]
      BY DEF Counters, OpsTypeOK, Margins
    <3>2. /\ UpTo(counts[v] + 1, StructuralCritical) \in 0..StructuralCritical
          /\ UpTo(sustained[v] + 1, StructuralCritical) \in 0..StructuralCritical
          /\ UpTo(counts[v] + 1, StructuralCritical) <= UpTo(sustained[v] + 1, StructuralCritical)
      BY <3>1, Stops
    <3> QED
      BY <3>2 DEF CallAssess
  <2>2. /\ counts' \in [Violations -> 0..StructuralCritical]
        /\ sustained' \in [Violations -> 0..StructuralCritical]
    BY <2>1 DEF CallAssess
  <2>3. breaches' \in 0..ConfidenceCritical /\ low' \in 0..ConfidenceCritical /\ breaches' <= low'
    <3>1. /\ breaches \in 0..ConfidenceCritical /\ low \in 0..ConfidenceCritical
          /\ breaches <= low
      BY DEF Counters, OpsTypeOK, Margins
    <3>2. /\ UpTo(breaches + 1, ConfidenceCritical) \in 0..ConfidenceCritical
          /\ UpTo(low + 1, ConfidenceCritical) \in 0..ConfidenceCritical
          /\ UpTo(breaches + 1, ConfidenceCritical) <= UpTo(low + 1, ConfidenceCritical)
      BY <3>1, Stops
    <3> QED
      BY <1>2, <3>2 DEF CallAssess
  <2> QED
    BY <2>1, <2>2, <2>3 DEF CallAssess, Counters, OpsTypeOK, Margins
<1>4. PICK structural, confidence :
        /\ structural = Highest(counts') /\ confidence = breaches'
        /\ todo' = [todo EXCEPT !["ops"] = Escalation(structural, confidence)]
  BY DEF CallAssess
<1>5. structural >= StructuralCritical \/ confidence >= ConfidenceCritical => Earned'
  <2>1. CASE structural >= StructuralCritical
    <3>1. PICK v \in Violations : structural = counts'[v]
      BY <1>3, <1>4, HighestAttained DEF Counters, OpsTypeOK
    <3>2. counts'[v] <= sustained'[v] /\ counts'[v] \in Nat /\ sustained'[v] \in Nat
      BY <1>3 DEF Counters, OpsTypeOK, Margins
    <3> QED
      BY <2>1, <3>1, <3>2 DEF Earned
  <2>2. CASE confidence >= ConfidenceCritical
    BY <1>3, <1>4, <2>2 DEF Earned, Counters, OpsTypeOK, Margins
  <2> QED
    BY <2>1, <2>2
<1>6. PICK calls : calls = Escalation(structural, confidence) /\ calls \in Seq(OpsCall')
  <2>1. CASE Escalation(structural, confidence) \in Seq(PlainCall)
    BY <2>1, PlainLists
  <2>2. CASE /\ structural >= StructuralCritical \/ confidence >= ConfidenceCritical
             /\ Escalation(structural, confidence) \in Seq(PlainCall \cup {HaltBot})
    <3>1. HaltBot \in Halts'
      BY <1>5, <2>2 DEF Halts
    <3>2. PlainCall \cup {HaltBot} \subseteq OpsCall'
      BY <3>1 DEF OpsCall, PlainCall, Alerts, Reports, Resolves
    <3> QED
      BY <2>2, <3>2
  <2> QED
    BY <2>1, <2>2, EscalationCalls
<1>7. CallsOK'
  BY <1>4, <1>6, NewOpsList DEF CallAssess, Loop, CallsOK
<1>8. Inv' /\ CyclesOK'
  BY ServiceIdle DEF CallAssess, Loop, CyclesOK, vitals
<1>9. Owing'
  <2>1. UNCHANGED <<owed, todo["infra"], rescue, step>>
    BY <1>4 DEF CallAssess, vitals, alertVars, Loop, CallsOK, Loops
  <2> QED
    BY <2>1 DEF Loop, Owing
<1> QED
  BY <1>3, <1>7, <1>8, <1>9 DEF Loop

\* The halt: the list goes on, whether the POST failed or not.
LEMMA HaltLoop ==
  ASSUME Loop, Counters, CallHalt
  PROVE  Loop' /\ Counters'
<1>1. todo["ops"] # <<>>
  BY DEF CallHalt, Calls
<1>2. Inv'
  BY ErringBound, IdleInv DEF CallHalt, Loop, Inv, Types
<1>3. CyclesOK'
  BY DEF CallHalt, vitals, Loop, CyclesOK
<1>4. CallsOK'
  <2>1. Tail(todo["ops"]) \in Seq(OpsCall)
    BY <1>1, FirstCall DEF Loop, Loops
  <2> QED
    BY <2>1, NewList DEF CallHalt, Done, history, Loop, CallsOK, Loops
<1>5. Owing'
  <2>1. UNCHANGED <<owed, todo["infra"], rescue, step>>
    BY DEF CallHalt, Done, vitals, Loop, CallsOK, Loops
  <2> QED
    BY <2>1 DEF Loop, Owing
<1>6. Counters'
  BY DEF CallHalt, counters, history, Counters, OpsTypeOK, Margins
<1> QED
  BY <1>2, <1>3, <1>4, <1>5, <1>6 DEF Loop

\* The checks of the operations loop.
LEMMA OpsChecksLoop ==
  ASSUME Loop, Counters, OpsChecks(injected)
  PROVE  Loop' /\ Counters'
<1>1. ASSUME NEW verdict \in {"fresh", "malformed", "stale", "stuck"}, CheckMarketData(verdict)
      PROVE  Loop' /\ Counters'
  <2>1. verdict # "fresh" => MarketKey[verdict] \in AlertKeys
    BY WatchdogAssumption DEF MarketKey, KeysSent
  <2>2. CASE verdict = "fresh"
    BY <1>1, <2>2, AlertOnlyLoop DEF CheckMarketData
  <2>3. CASE verdict # "fresh"
    BY <1>1, <2>1, <2>3, AlertOnlyLoop DEF CheckMarketData
  <2> QED
    BY <2>2, <2>3
<1>2. ASSUME NEW bad \in BOOLEAN, CheckExchangeAck(bad) \/ CheckLatency(bad)
      PROVE  Loop' /\ Counters'
  <2>1. "exchange_ack_failure_critical" \in AlertKeys /\ "latency_spike_warning" \in AlertKeys
    BY WatchdogAssumption DEF KeysSent
  <2> QED
    BY <1>2, <2>1, AlertOnlyLoop DEF CheckExchangeAck, CheckLatency
<1> QED
  BY <1>1, <1>2, LivenessLoop, SimulateLossLoop, FrequencyLoop, PipelineLoop, UnreadLoop
  DEF OpsChecks

(***************************************************************************)
(* The counters of the infrastructure checks.                              *)
(***************************************************************************)
LEMMA InfraCounters ==
  ASSUME InfraTypeOK, InfraChecks
  PROVE  InfraTypeOK'
<1> USE Limits DEF InfraTypeOK
<1>1. ASSUME NEW load, NEW fell, CheckVM(load, fell) PROVE InfraTypeOK'
  BY <1>1 DEF CheckVM
<1>2. ASSUME NEW i \in Inspections, CheckContainer(i) PROVE InfraTypeOK'
  BY <1>2 DEF CheckContainer, Inspections
<1>3. ASSUME NEW c \in HttpChecks, NEW ok, CheckHttp(c, ok) PROVE InfraTypeOK'
  <2>1. httpFailures[c] \in 0..MaxFailures
    OBVIOUS
  <2>2. UpTo(httpFailures[c] + 1, MaxFailures) \in 0..MaxFailures
    BY <2>1, Stops
  <2> QED
    BY <1>3, <2>2 DEF CheckHttp
<1>4. ASSUME \/ ContainerMissing \/ SimulateDnsFailure
             \/ \E c \in HttpChecks \cup {"NETWORK"} : SimulateTimeout(c)
             \/ \E lost \in {"none", "some", "all"} : CheckNetwork(lost)
             \/ \E ok \in BOOLEAN : CheckDns(ok)
      PROVE  InfraTypeOK'
  BY <1>4 DEF ContainerMissing, SimulateDnsFailure, SimulateTimeout, CheckNetwork, CheckDns
<1> QED
  BY <1>1, <1>2, <1>3, <1>4 DEF InfraChecks

(***************************************************************************)
(* The steps beside the loops.                                             *)
(***************************************************************************)
\* A step of the service that no loop takes part in.
LEMMA BesideLoop ==
  ASSUME Loop, Steady, Inv', UNCHANGED <<plan, at, todo, rescue, owed, step>>,
         incident' \in [Sources -> {"none"} \cup Levels]
  PROVE  Loop'
<1>1. CyclesOK'
  BY DEF Loop, CyclesOK
<1>2. CallsOK'
  BY SameHistory DEF Loop, CallsOK, Steady, PlainCall, Alerts, Reports, Resolves
<1>3. Owing'
  BY DEF Loop, Owing
<1> QED
  BY <1>1, <1>2, <1>3 DEF Loop

LEMMA Beside ==
  ASSUME Loop, Counters, InfraTypeOK,
         \/ GracePasses /\ UNCHANGED <<infraVars, injected>>
         \/ \E k \in AlertKeys : CooldownEnds(k)
         \/ /\ \/ \E s \in Sources : AutoResolve(s)
               \/ \E b \in BOOLEAN : ToggleAlerting(b)
            /\ UNCHANGED <<infraVars, injected, opsVars>>
         \/ \E f \in Injectable : Inject(f) \/ ClearFailure(f)
         \/ Reset
  PROVE  Loop' /\ Counters' /\ InfraTypeOK'
<1> USE DEF loopVars, vitals, opsVars, counters, history, infraVars
<1>0. /\ Inv /\ incident \in [Sources -> {"none"} \cup Levels]
      /\ errors \in 0..MaxErrors /\ (Erring => errors' \in 0..MaxErrors)
      /\ alerting \in BOOLEAN
  BY ErringBound DEF Loop, CyclesOK, Inv, Types
<1>1. CASE GracePasses /\ UNCHANGED <<infraVars, injected>>
  <2>1. Loop'
    BY <1>0, <1>1, ServiceIdle, BesideLoop DEF GracePasses, Steady, alertVars
  <2>2. Counters' /\ InfraTypeOK'
    BY <1>1 DEF GracePasses, Counters, OpsTypeOK, Margins, InfraTypeOK
  <2> QED
    BY <2>1, <2>2
<1>2. CASE \E k \in AlertKeys : CooldownEnds(k)
  <2>1. Inv'
    BY <1>0, <1>2, CoolsDownInv DEF CooldownEnds, Cooldown
  <2>2. Loop'
    BY <1>0, <1>2, <2>1, BesideLoop DEF CooldownEnds, Cooldown, CoolsDown, Steady
  <2>3. Counters' /\ InfraTypeOK'
    BY <1>2 DEF CooldownEnds, Counters, OpsTypeOK, Margins, InfraTypeOK
  <2> QED
    BY <2>2, <2>3
<1>3. CASE (\E s \in Sources : AutoResolve(s)) /\ UNCHANGED <<infraVars, injected, opsVars>>
  <2>1. Loop'
    BY <1>0, <1>3, ServiceIdle, BesideLoop DEF AutoResolve, Steady, alertVars
  <2>2. Counters' /\ InfraTypeOK'
    BY <1>3 DEF Counters, OpsTypeOK, Margins, InfraTypeOK
  <2> QED
    BY <2>1, <2>2
<1>4. CASE (\E b \in BOOLEAN : ToggleAlerting(b)) /\ UNCHANGED <<infraVars, injected, opsVars>>
  <2>1. Inv'
    BY <1>0, <1>4, IdleInv DEF ToggleAlerting, SetAlerting
  <2>2. Loop'
    BY <1>0, <1>4, <2>1, BesideLoop DEF ToggleAlerting, SetAlerting, Steady
  <2>3. Counters' /\ InfraTypeOK'
    BY <1>4 DEF Counters, OpsTypeOK, Margins, InfraTypeOK
  <2> QED
    BY <2>2, <2>3
<1>5. CASE \E f \in Injectable : Inject(f)
  <2>1. Inv'
    BY <1>0, <1>5, IdleInv DEF Inject
  <2>2. Loop'
    BY <1>0, <1>5, <2>1, BesideLoop DEF Inject, Steady
  <2>3. Counters' /\ InfraTypeOK'
    BY <1>5 DEF Inject, Injectable, Counters, OpsTypeOK, Margins, InfraTypeOK
  <2> QED
    BY <2>2, <2>3
<1>6. CASE \E f \in Injectable : ClearFailure(f)
  <2>1. Loop'
    BY <1>0, <1>6, ServiceIdle, BesideLoop DEF ClearFailure, Steady, alertVars
  <2>2. Counters' /\ InfraTypeOK'
    BY <1>6 DEF ClearFailure, Counters, OpsTypeOK, Margins, InfraTypeOK
  <2> QED
    BY <2>1, <2>2
<1>7. CASE Reset
  <2>1. Inv'
    BY <1>0, <1>7, IdleInv DEF Reset, LabReset
  <2>2. Loop'
    BY <1>0, <1>7, <2>1, BesideLoop DEF Reset, LabReset, Steady
  <2>3. Counters' /\ InfraTypeOK'
    BY <1>7, Limits DEF Reset, LabReset, Counters, OpsTypeOK, Margins, InfraTypeOK
  <2> QED
    BY <2>2, <2>3
<1> QED
  BY <1>1, <1>2, <1>3, <1>4, <1>5, <1>6, <1>7

(***************************************************************************)
(* The invariant.                                                          *)
(***************************************************************************)
LEMMA InitWInv == Init => WInv
<1> SUFFICES ASSUME Init PROVE WInv
  OBVIOUS
<1>1. Inv
  BY InitInv DEF Init, LoopsInit
<1>2. CyclesOK
  BY WatchdogAssumption DEF Init, LoopsInit, CyclesOK
<1>3. CallsOK
  BY DEF Init, LoopsInit, CallsOK
<1>4. InfraTypeOK
  <2>1. 0 \in 0..MaxFailures /\ -1 \in -1..MaxRestarts
    BY Limits
  <2> QED
    BY <2>1 DEF Init, InfraInit, InfraTypeOK
<1>5. OpsTypeOK /\ Margins
  <2>1. 0 \in 0..AlarmAfter /\ 0 \in 0..StructuralCritical /\ 0 \in 0..ConfidenceCritical
    BY Limits
  <2>2. mode \in Modes /\ young \in BOOLEAN /\ grace \in BOOLEAN
    BY DEF Init, OpsInit
  <2>3. /\ silent = [c \in Counted |-> 0] /\ badReadings = [c \in Counted |-> 0]
        /\ counts = [v \in Violations |-> 0] /\ sustained = [v \in Violations |-> 0]
        /\ breaches = 0 /\ low = 0
    BY DEF Init, OpsInit
  <2> QED
    BY <2>1, <2>2, <2>3 DEF OpsTypeOK, Margins
<1>6. Owing
  BY DEF Init, LoopsInit, Owing
<1> QED
  BY <1>1, <1>2, <1>3, <1>4, <1>5, <1>6 DEF WInv

\* One case for each loop, and one for what goes on beside them.
LEMMA NextWInv == WInv /\ [Next]_vars => WInv'
<1> SUFFICES ASSUME WInv, [Next]_vars PROVE WInv'
  OBVIOUS
<1>0. Loop /\ Counters /\ InfraTypeOK
  BY DEF WInv, Loop, Counters
<1> SUFFICES Loop' /\ Counters' /\ InfraTypeOK'
  BY DEF WInv, Loop, Counters
<1>1. ASSUME UNCHANGED opsVars PROVE Counters' /\ Steady
  BY <1>0, <1>1 DEF opsVars, counters, history, Counters, OpsTypeOK, Margins, Steady
<1>2. ASSUME UNCHANGED <<infraVars, injected>> PROVE InfraTypeOK'
  BY <1>0, <1>2 DEF infraVars, InfraTypeOK
<1>3. CASE Infra
  <2>1. CASE (Begin("infra") \/ LoopCalls("infra")) /\ UNCHANGED <<infraVars, injected, opsVars>>
    BY <1>0, <1>1, <1>2, <2>1, BeginLoop, LoopCallsLoop DEF Loops
  <2>2. CASE InfraChecks /\ UNCHANGED opsVars
    BY <1>0, <1>1, <2>2, InfraChecksLoop, InfraCounters
  <2> QED
    BY <1>3, <2>1, <2>2 DEF Infra
<1>4. CASE Ops
  <2>1. CASE BeginOps /\ UNCHANGED <<infraVars, injected>>
    <3>1. Counters' /\ Steady
      BY <1>0, <2>1 DEF BeginOps, counters, history, Counters, OpsTypeOK, Margins, Steady
    <3> QED
      BY <1>0, <1>2, <2>1, <3>1, BeginLoop DEF BeginOps, Loops
  <2>2. CASE LoopCalls("ops") /\ UNCHANGED <<infraVars, injected, opsVars>>
    BY <1>0, <1>1, <1>2, <2>2, LoopCallsLoop DEF Loops
  <2>3. CASE (OpsChecks(injected) \/ OpsCalls) /\ UNCHANGED <<infraVars, injected>>
    BY <1>0, <1>2, <2>3, OpsChecksLoop, AssessLoop, HaltLoop DEF OpsCalls
  <2> QED
    BY <1>4, <2>1, <2>2, <2>3 DEF Ops
<1>5. CASE (Runtime \/ Anomaly) /\ UNCHANGED <<infraVars, injected, opsVars>>
  <2>1. Counters' /\ Steady /\ InfraTypeOK'
    BY <1>1, <1>2, <1>5
  <2>2. CASE Runtime
    BY <1>0, <2>1, <2>2, BeginLoop, LoopCallsLoop, RuntimeLoop DEF Runtime, LoopCalls, Loops
  <2>3. CASE Anomaly
    BY <1>0, <2>1, <2>3, BeginLoop, LoopCallsLoop, AnomalyLoop DEF Anomaly, Loops
  <2> QED
    BY <1>5, <2>2, <2>3
<1>6. CASE UNCHANGED vars
  <2>1. Counters' /\ Steady /\ InfraTypeOK'
    BY <1>1, <1>2, <1>6 DEF vars
  <2>2. Inv'
    BY <1>0, <1>6, ServiceIdle DEF vars, Loop
  <2> QED
    BY <1>0, <1>6, <2>1, <2>2, BesideLoop DEF vars, loopVars, vitals, alertVars, Loop, CyclesOK
<1> QED
  BY <1>0, <1>3, <1>4, <1>5, <1>6, Beside DEF Next

LEMMA Invariance == Spec => []WInv
  BY InitWInv, NextWInv, PTL DEF Spec

\* Only a report raises the level of an incident that has none.
LEMMA OnlyReportsRaise ==
  ASSUME [Next]_vars, NEW c \in Sources, incident \in [Sources -> {"none"} \cup Levels],
         incident[c] = "none", incident'[c] # "none"
  PROVE  \E l \in Loops : CallReport(l)
<1>1. ASSUME NEW l \in Loops, LoopCalls(l) PROVE CallReport(l)
  <2>1. CASE CallResolve(l)
    BY <2>1 DEF CallResolve
  <2>2. CASE CallAlert(l) \/ AlertProceeds(l) \/ AlertFails(l) \/ End(l)
    BY <2>2 DEF CallAlert, AlertProceeds, AlertFails, End, vitals
  <2> QED
    BY <1>1, <2>1, <2>2 DEF LoopCalls, AlertCalls
<1>2. ~ \E s \in Sources : AutoResolve(s)
  BY DEF AutoResolve
<1>3. ASSUME NEW l, Begin(l) PROVE FALSE
  BY <1>3 DEF Begin, vitals
<1>4. ASSUME NEW l, NEW calls, NEW otherwise, Conclude(l, calls, otherwise) PROVE FALSE
  BY <1>4 DEF Conclude
<1>5. ~InfraChecks
  BY <1>4 DEF InfraChecks, CheckVM, CheckContainer, ContainerMissing, CheckHttp, SimulateTimeout,
    CheckNetwork, CheckDns, SimulateDnsFailure, AuditLost, Healthy, Unhealthy
<1>6. ~OpsChecks(injected)
  BY <1>4 DEF OpsChecks, CheckLiveness, SimulateLoss, CheckMarketData, CheckExchangeAck,
    CheckLatency, AlertOnly, CheckTradeFrequency, CheckPipeline, PipelineUnread
<1>7. ~OpsCalls
  BY DEF OpsCalls, CallAssess, CallHalt, vitals
<1>8. /\ ~ \E b \in DOMAIN RuntimeKey, bad \in BOOLEAN : CheckRuntime(b, bad)
      /\ ~ \E order \in {"stuck", "resolved", "none"} : CheckAnomalies(order)
  BY <1>4 DEF CheckRuntime, CheckAnomalies
<1>9. /\ ~GracePasses /\ ~Reset /\ ~UNCHANGED vars
      /\ \A k : ~CooldownEnds(k)
      /\ \A b : ~ToggleAlerting(b)
      /\ \A f : ~Inject(f) /\ ~ClearFailure(f)
  BY DEF GracePasses, Reset, LabReset, vars, CooldownEnds, Cooldown, ToggleAlerting, Inject,
    ClearFailure, vitals
<1> QED
  BY <1>1, <1>2, <1>3, <1>5, <1>6, <1>7, <1>8, <1>9
  DEF Next, Infra, Ops, BeginOps, Runtime, Anomaly, LoopCalls, Loops

(***************************************************************************)
(* The theorems.                                                           *)
(***************************************************************************)
\* Every variable of the four loops, of the services they share and of the lab
\* keeps its type.
THEOREM WatchdogTyped == Spec => []TypeOK
<1>1. WInv => TypeOK
  BY DEF WInv, Inv, Types, CyclesOK, Levels, TypeOK, LoopsTypeOK, AlertingTypeOK
<1> QED
  BY <1>1, Invariance, PTL

\* The loops call sendAlert in no other way than AlertsBounded allows for, so the
\* bound on the copies of an alert holds of the agent as it runs.
THEOREM AlertsStayBounded == Spec => []AlertsBounded
<1>1. WInv => AlertsBounded
  BY DEF WInv, Inv
<1> QED
  BY <1>1, Invariance, PTL

\* A bad verdict of an infrastructure check always becomes an incident of its
\* source before the loop goes on, whatever failed in between.
THEOREM NoVerdictIsDropped == Spec => []NoVerdictDropped
<1>1. WInv => NoVerdictDropped
  <2> SUFFICES ASSUME Owing, Free("infra"), owed # NothingOwed PROVE FALSE
    BY DEF WInv, NoVerdictDropped
  <2>1. todo["infra"] = <<>>
    BY DEF Free
  <2>2. \E s, lv : \/ todo["infra"] = <<Report(s, lv)>>
                   \/ \E k : todo["infra"] = <<Alert(k), Report(s, lv)>>
    BY DEF Owing
  <2> QED
    BY <2>1, <2>2
<1> QED
  BY <1>1, Invariance, PTL

\* The bot is about to be halted only when the assessments of the history, and
\* not merely the counters of the program, have earned it.
THEOREM HaltsAreEarned == Spec => []HaltIsEarned
<1>1. WInv => HaltIsEarned
  <2> SUFFICES ASSUME WInv, NEW i \in 1..Len(todo["ops"]), todo["ops"][i].do = "halt"
               PROVE  Earned
    BY DEF HaltIsEarned, Earned
  <2>1. PICK e : e = todo["ops"][i] /\ e \in OpsCall
    BY ElementOfSeq DEF WInv, CallsOK, Loops
  <2>2. e.do = "halt"
    BY <2>1
  <2>3. e \in Halts
    BY <2>1, <2>2 DEF OpsCall, PlainCall, Alerts, Reports, Resolves, Assessments, Losses
  <2> QED
    BY <2>3 DEF Halts
<1> QED
  BY <1>1, Invariance, PTL

\* An incident of a lost heartbeat or broker connection appears only after as
\* many bad readings in a row as the check asks for.
THEOREM AlarmsAreEarned == Spec => AlarmIsEarned
<1> DEFINE Early(c) == incident[c] = "none" /\ incident'[c] # "none"
<1>1. ASSUME WInv, [Next]_vars, NEW c \in DOMAIN LossType, Early(c)
      PROVE  badReadings[c] >= AlarmAfter
  <2>0. c \in Sources /\ incident \in [Sources -> {"none"} \cup Levels] /\ CallsOK
    BY <1>1 DEF LossType, Sources, GlobalSources, WInv, CyclesOK
  <2>1. PICK l \in Loops : CallReport(l)
    BY <1>1, <2>0, OnlyReportsRaise
  <2>2. PICK e : e = Head(todo[l]) /\ e \in Reports \cup Losses
    BY <2>0, <2>1, KindOfCall DEF CallReport, Calls
  <2>3. e.source = c
    BY <1>1, <2>0, <2>1, <2>2 DEF CallReport
  <2>4. e \in Losses
    BY <2>2, <2>3 DEF Reports
  <2> QED
    BY <2>3, <2>4 DEF Losses
<1>2. WInv /\ [Next]_vars =>
        [\A c \in DOMAIN LossType : Early(c) => badReadings[c] >= AlarmAfter]_vars
  BY <1>1
<1> QED
  BY <1>2, Invariance, PTL DEF Spec, AlarmIsEarned
=============================================================================
