------------------------- MODULE AgentIdentityProofs -------------------------
(***************************************************************************)
(* Proofs about AgentIdentity, for any limit of the token and any number   *)
(* of faults.                                                              *)
(*                                                                         *)
(* The properties are not inductive.  That one registration is under way   *)
(* at a time rests on the phases of the service (Phases, Pending); that    *)
(* the gateway holds few rows for it rests on the machine ids of what is   *)
(* still to be handled (Table) and on what each of them was generated for  *)
(* (Paid).                                                                 *)
(***************************************************************************)
EXTENDS AgentIdentity, FiniteSetTheorems, TLAPS

ServiceTypes ==
  /\ process \in {"up", "stopping", "down"}
  /\ identity \in Nat /\ machine \in Nat /\ granted \in Nat /\ machines \in Nat
  /\ reg \in {"idle", "load", "register", "save", "clear"}

FlagTypes ==
  /\ registering \in BOOLEAN /\ timer \in BOOLEAN
  /\ running \in BOOLEAN /\ interval \in BOOLEAN /\ active \in BOOLEAN
  /\ beat \in {"idle", "send", "caps"}

GatewayTypes ==
  /\ file \in Nat \cup {Torn}
  /\ owner \in Seq(Nat) /\ rows \subseteq DOMAIN owner
  /\ requests \subseteq Request

CountTypes ==
  /\ deaths \in Nat /\ resets \in Nat /\ purges \in Nat
  /\ netFaults \in Nat /\ diskFaults \in Nat

Types == ServiceTypes /\ FlagTypes /\ GatewayTypes /\ CountTypes

\* What the service awaits decides what else can be under way.
Phases ==
  /\ reg # "idle" => ~timer /\ identity = None
  /\ timer => identity = None
  /\ registering => timer \/ reg = "register"
  /\ beat # "idle" => identity # None
  /\ reg = "save" => granted # None
  /\ process = "down" =>
       reg = "idle" /\ identity = None /\ ~timer /\ ~registering /\ beat = "idle"

Pending ==
  /\ Waited # {} => reg = "register"
  /\ \A r, s \in Waited : r = s

\* One row per machine id, and no request for a machine id not yet generated.
Table ==
  /\ \A a, b \in rows : owner[a] = owner[b] => a = b
  /\ \A a \in rows : owner[a] \in 1..machines
  /\ \A r \in requests : r.machine \in 1..machines
  /\ machine <= machines
  /\ timer \/ reg \in {"register", "save"} => machine # None

\* Each machine id was generated by a start or a reset; one that is under way has
\* its machine id to come.
Paid ==
  machines + (IF process = "down" \/ reg = "load" THEN 1 ELSE 0)
           + (IF reg = "clear" THEN 1 ELSE 0)
    <= 1 + deaths + resets

Inv == Types /\ Phases /\ Pending /\ Table /\ Paid /\ InUseIsOnDisk /\ NeverStranded

\* What is sent before a death is still a request, for the same machine id.
LEMMA AbandonedFacts ==
  ASSUME Types
  PROVE  /\ Abandoned \subseteq Request
         /\ \A r \in Abandoned : r.abandoned # 0
         /\ \A r \in Abandoned : \E q \in requests : r.machine = q.machine
<1>1. deaths + netFaults + 1 \in Nat /\ deaths + netFaults + 1 # 0
  BY DEF Types, CountTypes
<1>2. requests \subseteq Request
  BY DEF Types, GatewayTypes
<1> QED
  BY <1>1, <1>2 DEF Request, Abandoned, Waited

\* The gateway's handler goes on with the request it has.
LEMMA ProceedFacts ==
  ASSUME Types, NEW r \in requests, NEW s \in {"lookup", "count", "create"}
  PROVE  LET q == [r EXCEPT !.step = s] IN
         q \in Request /\ q.machine = r.machine /\ q.abandoned = r.abandoned
BY DEF Types, GatewayTypes, Request

\* A created row is a new one and leaves the others as they are.
LEMMA NewRow ==
  ASSUME Types, NEW r \in requests
  PROVE  LET o == Append(owner, r.machine) IN
         /\ o \in Seq(Nat)
         /\ \A a \in rows : a \in DOMAIN o /\ o[a] = owner[a] /\ a # Len(o)
         /\ Len(o) \in DOMAIN o /\ o[Len(o)] = r.machine
BY SMT DEF Types, GatewayTypes, Request

\* Every step preserves the invariant: one case per action.
LEMMA Step == Inv /\ [Next]_vars => Inv'
<1> SUFFICES ASSUME Inv, [Next]_vars PROVE Inv'
  OBVIOUS
<1> USE DEF None, Torn, counts, gateway, scheduler, service
<1>1. CASE Start
  <2>1. ServiceTypes' /\ CountTypes'
    BY <1>1, SMT DEF Inv, Types, ServiceTypes, CountTypes, Start
  <2>2. FlagTypes'
    BY <1>1, Zenon DEF Inv, Types, FlagTypes, Start
  <2>3. GatewayTypes'
    BY <1>1, SMT DEF Inv, Types, GatewayTypes, Start
  <2>4. Phases'
    BY <1>1, SMT DEF Inv, Phases, Start
  <2>5. Pending'
    BY <1>1, SMT DEF Inv, Phases, Pending, Waited, Start
  <2>6. Table'
    BY <1>1, SMT DEF Inv, Table, Start
  <2>7. Paid'
    BY <1>1, SMT DEF Inv, Phases, Paid, Start
  <2>8. InUseIsOnDisk' /\ NeverStranded'
    BY <1>1, SMT DEF Inv, InUseIsOnDisk, NeverStranded, Start
  <2> QED
    BY <2>1, <2>2, <2>3, <2>4, <2>5, <2>6, <2>7, <2>8 DEF Inv, Types
<1>2. CASE Stop
  <2>1. ServiceTypes' /\ CountTypes'
    BY <1>2, SMT DEF Inv, Types, ServiceTypes, CountTypes, Stop
  <2>2. FlagTypes'
    BY <1>2, Zenon DEF Inv, Types, FlagTypes, Stop
  <2>3. GatewayTypes'
    BY <1>2, SMT DEF Inv, Types, GatewayTypes, Stop
  <2>4. Phases'
    BY <1>2, SMT DEF Inv, Phases, Stop
  <2>5. Pending'
    BY <1>2, SMT DEF Inv, Pending, Waited, Stop
  <2>6. Table'
    BY <1>2, SMT DEF Inv, Table, Stop
  <2>7. Paid'
    BY <1>2, SMT DEF Inv, Types, ServiceTypes, CountTypes, Paid, Stop
  <2>8. InUseIsOnDisk' /\ NeverStranded'
    BY <1>2, SMT DEF Inv, InUseIsOnDisk, NeverStranded, Stop
  <2> QED
    BY <2>1, <2>2, <2>3, <2>4, <2>5, <2>6, <2>7, <2>8 DEF Inv, Types
<1>3. CASE Exit
  <2>1. ServiceTypes' /\ CountTypes'
    BY <1>3, SMT DEF Inv, Types, ServiceTypes, CountTypes, Exit
  <2>2. FlagTypes'
    BY <1>3, Zenon DEF Inv, Types, FlagTypes, Exit
  <2>3. GatewayTypes'
    BY <1>3, AbandonedFacts, SMT
    DEF Inv, Types, ServiceTypes, GatewayTypes, Exit, Left, Written
  <2>4. Phases'
    BY <1>3, SMT DEF Phases, Exit
  <2>5. Pending'
    BY <1>3, AbandonedFacts, SMT DEF Inv, Pending, Waited, Exit
  <2>6. Table'
    BY <1>3, AbandonedFacts, SMT DEF Inv, Types, ServiceTypes, Table, Exit
  <2>7. Paid'
    BY <1>3, SMT DEF Inv, Types, ServiceTypes, CountTypes, Paid, Exit
  <2>8. InUseIsOnDisk' /\ NeverStranded'
    BY <1>3, SMT DEF InUseIsOnDisk, NeverStranded, Exit
  <2> QED
    BY <2>1, <2>2, <2>3, <2>4, <2>5, <2>6, <2>7, <2>8 DEF Inv, Types
<1>4. CASE Load
  <2>1. ServiceTypes' /\ CountTypes'
    BY <1>4, SMT DEF Inv, Types, ServiceTypes, CountTypes, GatewayTypes, Load, Generate
  <2>2. FlagTypes'
    BY <1>4, Zenon DEF Inv, Types, FlagTypes, Load, Trigger, OnRegistered
  <2>3. GatewayTypes'
    BY <1>4, SMT DEF Inv, Types, GatewayTypes, Load
  <2>4. Phases'
    BY <1>4, SMT DEF Inv, Phases, Load, Trigger
  <2>5. Pending'
    BY <1>4, SMT DEF Inv, Pending, Waited, Load
  <2>6. Table'
    BY <1>4, SMT DEF Inv, Types, ServiceTypes, Table, Load, Generate
  <2>7. Paid'
    BY <1>4, SMT DEF Inv, Types, ServiceTypes, CountTypes, Phases, Paid, Load, Generate
  <2>8. InUseIsOnDisk' /\ NeverStranded'
    BY <1>4, SMT DEF Inv, Phases, InUseIsOnDisk, NeverStranded, Load, Trigger
  <2> QED
    BY <2>1, <2>2, <2>3, <2>4, <2>5, <2>6, <2>7, <2>8 DEF Inv, Types
<1>5. CASE Attempt
  <2>1. ServiceTypes' /\ CountTypes'
    BY <1>5, SMT DEF Inv, Types, ServiceTypes, CountTypes, Attempt
  <2>2. FlagTypes'
    BY <1>5, Zenon DEF Inv, Types, FlagTypes, Attempt
  <2>3. GatewayTypes'
    BY <1>5, SMT DEF Inv, Types, ServiceTypes, GatewayTypes, Request, Attempt
  <2>4. Phases'
    BY <1>5, SMT DEF Inv, Phases, Attempt
  <2>5. Pending'
    BY <1>5, SMT DEF Inv, Phases, Pending, Waited, Attempt
  <2>6. Table'
    BY <1>5, SMT DEF Inv, Types, ServiceTypes, Table, Attempt
  <2>7. Paid'
    BY <1>5, SMT DEF Inv, Phases, Paid, Attempt
  <2>8. InUseIsOnDisk' /\ NeverStranded'
    BY <1>5, SMT DEF Inv, InUseIsOnDisk, NeverStranded, Attempt
  <2> QED
    BY <2>1, <2>2, <2>3, <2>4, <2>5, <2>6, <2>7, <2>8 DEF Inv, Types
<1>6. CASE Saved
  <2>1. ServiceTypes' /\ CountTypes'
    BY <1>6, SMT DEF Inv, Types, ServiceTypes, CountTypes, Saved
  <2>2. FlagTypes'
    BY <1>6, Zenon DEF Inv, Types, FlagTypes, Saved, OnRegistered
  <2>3. GatewayTypes'
    BY <1>6, SMT DEF Inv, Types, ServiceTypes, GatewayTypes, Saved
  <2>4. Phases'
    BY <1>6, SMT DEF Inv, Phases, Saved
  <2>5. Pending'
    BY <1>6, SMT DEF Inv, Pending, Waited, Saved
  <2>6. Table'
    BY <1>6, SMT DEF Inv, Table, Saved
  <2>7. Paid'
    BY <1>6, SMT DEF Inv, Paid, Saved
  <2>8. InUseIsOnDisk' /\ NeverStranded'
    BY <1>6, SMT DEF Inv, Phases, InUseIsOnDisk, NeverStranded, Saved
  <2> QED
    BY <2>1, <2>2, <2>3, <2>4, <2>5, <2>6, <2>7, <2>8 DEF Inv, Types
<1>7. CASE Cleared
  <2>1. ServiceTypes' /\ CountTypes'
    BY <1>7, SMT DEF Inv, Types, ServiceTypes, CountTypes, Cleared, Generate
  <2>2. FlagTypes'
    BY <1>7, Zenon DEF Inv, Types, FlagTypes, Cleared, Trigger
  <2>3. GatewayTypes'
    BY <1>7, SMT DEF Inv, Types, GatewayTypes, Cleared
  <2>4. Phases'
    BY <1>7, SMT DEF Inv, Phases, Cleared, Trigger
  <2>5. Pending'
    BY <1>7, SMT DEF Inv, Pending, Waited, Cleared
  <2>6. Table'
    BY <1>7, SMT DEF Inv, Types, ServiceTypes, Table, Cleared, Generate
  <2>7. Paid'
    BY <1>7, SMT DEF Inv, Types, ServiceTypes, Paid, Cleared, Generate
  <2>8. InUseIsOnDisk' /\ NeverStranded'
    BY <1>7, SMT DEF Inv, Phases, InUseIsOnDisk, NeverStranded, Cleared, Trigger
  <2> QED
    BY <2>1, <2>2, <2>3, <2>4, <2>5, <2>6, <2>7, <2>8 DEF Inv, Types
<1>8. CASE AttemptFails
  <2>1. ServiceTypes' /\ CountTypes'
    BY <1>8, SMT DEF Inv, Types, ServiceTypes, CountTypes, AttemptFails, Retry
  <2>2. FlagTypes'
    BY <1>8, Zenon DEF Inv, Types, FlagTypes, AttemptFails, Retry, Trigger
  <2>3. GatewayTypes'
    BY <1>8, AbandonedFacts, SMT DEF Inv, Types, GatewayTypes, AttemptFails
  <2>4. Phases'
    BY <1>8, SMT DEF Inv, Phases, AttemptFails, Retry, Trigger
  <2>5. Pending'
    BY <1>8, AbandonedFacts, SMT DEF Inv, Pending, Waited, AttemptFails
  <2>6. Table'
    BY <1>8, AbandonedFacts, SMT DEF Inv, Table, AttemptFails
  <2>7. Paid'
    BY <1>8, SMT DEF Inv, Paid, AttemptFails, Retry
  <2>8. InUseIsOnDisk' /\ NeverStranded'
    BY <1>8, SMT DEF Inv, InUseIsOnDisk, NeverStranded, AttemptFails, Retry, Trigger
  <2> QED
    BY <2>1, <2>2, <2>3, <2>4, <2>5, <2>6, <2>7, <2>8 DEF Inv, Types
<1>9. CASE SaveFails
  <2>1. ServiceTypes' /\ CountTypes'
    BY <1>9, SMT DEF Inv, Types, ServiceTypes, CountTypes, SaveFails, Retry
  <2>2. FlagTypes'
    BY <1>9, Zenon DEF Inv, Types, FlagTypes, SaveFails, Retry, Trigger
  <2>3. GatewayTypes'
    BY <1>9, SMT DEF Inv, Types, GatewayTypes, SaveFails, Written
  <2>4. Phases'
    BY <1>9, SMT DEF Inv, Phases, SaveFails, Retry, Trigger
  <2>5. Pending'
    BY <1>9, SMT DEF Inv, Pending, Waited, SaveFails
  <2>6. Table'
    BY <1>9, SMT DEF Inv, Table, SaveFails
  <2>7. Paid'
    BY <1>9, SMT DEF Inv, Paid, SaveFails, Retry
  <2>8. InUseIsOnDisk' /\ NeverStranded'
    BY <1>9, SMT DEF Inv, Phases, InUseIsOnDisk, NeverStranded, SaveFails, Retry, Trigger
  <2> QED
    BY <2>1, <2>2, <2>3, <2>4, <2>5, <2>6, <2>7, <2>8 DEF Inv, Types
<1>10. CASE ClearFails
  <2>1. ServiceTypes' /\ CountTypes'
    BY <1>10, SMT DEF Inv, Types, ServiceTypes, CountTypes, ClearFails
  <2>2. FlagTypes'
    BY <1>10, Zenon DEF Inv, Types, FlagTypes, ClearFails
  <2>3. GatewayTypes'
    BY <1>10, SMT DEF Inv, Types, GatewayTypes, ClearFails
  <2>4. Phases'
    BY <1>10, SMT DEF Inv, Phases, ClearFails
  <2>5. Pending'
    BY <1>10, SMT DEF Inv, Pending, Waited, ClearFails
  <2>6. Table'
    BY <1>10, SMT DEF Inv, Table, ClearFails
  <2>7. Paid'
    BY <1>10, SMT DEF Inv, Types, ServiceTypes, CountTypes, Paid, ClearFails
  <2>8. InUseIsOnDisk' /\ NeverStranded'
    BY <1>10, SMT DEF Inv, Types, CountTypes, InUseIsOnDisk, NeverStranded, ClearFails
  <2> QED
    BY <2>1, <2>2, <2>3, <2>4, <2>5, <2>6, <2>7, <2>8 DEF Inv, Types
<1>11. ASSUME NEW r \in requests, TokenRefused(r) PROVE Inv'
  <2>1. ServiceTypes' /\ CountTypes'
    BY <1>11, SMT DEF Inv, Types, ServiceTypes, CountTypes, TokenRefused, GatewayFrame
  <2>2. FlagTypes'
    BY <1>11, Zenon DEF Inv, Types, FlagTypes, TokenRefused, GatewayFrame
  <2>3. GatewayTypes'
    BY <1>11, SMT DEF Inv, Types, GatewayTypes, TokenRefused, GatewayFrame
  <2>4. Phases'
    BY <1>11, SMT DEF Inv, Phases, TokenRefused, GatewayFrame
  <2>5. Pending'
    BY <1>11, SMT DEF Inv, Pending, Waited, TokenRefused
  <2>6. Table'
    BY <1>11, SMT DEF Inv, Table, TokenRefused, GatewayFrame
  <2>7. Paid'
    BY <1>11, SMT DEF Inv, Types, ServiceTypes, CountTypes, Paid, TokenRefused, GatewayFrame
  <2>8. InUseIsOnDisk' /\ NeverStranded'
    BY <1>11, SMT DEF Inv, InUseIsOnDisk, NeverStranded, TokenRefused, GatewayFrame
  <2> QED
    BY <2>1, <2>2, <2>3, <2>4, <2>5, <2>6, <2>7, <2>8 DEF Inv, Types
<1>12. ASSUME NEW r \in requests, LookUp(r) PROVE Inv'
  <2>1. ServiceTypes' /\ CountTypes'
    BY <1>12, SMT
    DEF Inv, Types, ServiceTypes, CountTypes, GatewayTypes, LookUp, GatewayFrame, Answer,
        Proceed, RowsOf
  <2>2. FlagTypes'
    BY <1>12, Zenon
    DEF Inv, Types, FlagTypes, LookUp, GatewayFrame, Answer, Proceed, Retry, Trigger
  <2>3. GatewayTypes'
    BY <1>12, SMT
    DEF Inv, Types, GatewayTypes, Request, LookUp, GatewayFrame, Answer, Proceed
  <2>4. Phases'
    BY <1>12, SMT
    DEF Inv, Phases, Pending, LookUp, GatewayFrame, Answer, Proceed, Retry, Trigger
  <2>5. Pending'
    <3>1. CASE RowsOf(r.machine) = {} /\ Proceed(r, "count")
      BY <3>1, ProceedFacts, SMT
      DEF Inv, Types, GatewayTypes, Request, Pending, Waited, Proceed
    <3>2. CASE \E g \in Nat : Answer(r, g)
      <4>1. /\ Waited' = Waited \ {r}
            /\ r \notin Waited => reg' = reg
        BY <3>2 DEF Answer, Waited
      <4> QED
        BY <4>1 DEF Inv, Pending
    <3> QED
      BY <1>12, <3>1, <3>2 DEF LookUp, RowsOf, Inv, Types, GatewayTypes
  <2>6. Table'
    <3>1. UNCHANGED <<rows, owner, machine, machines>>
      BY <1>12 DEF LookUp, GatewayFrame, Proceed
    <3>2. \A q \in requests' : \E s \in requests : q.machine = s.machine
      <4>1. CASE Proceed(r, "count")
        BY <4>1, ProceedFacts DEF Inv, Proceed
      <4>2. CASE requests' = requests \ {r}
        BY <4>2
      <4> QED
        BY <1>12, <4>1, <4>2 DEF LookUp, Answer
    <3>3. timer' \/ reg' \in {"register", "save"}
             => reg = "register" \/ timer \/ reg = "save"
      BY <1>12 DEF Inv, Pending, LookUp, Answer, Proceed
    <3> QED
      BY <3>1, <3>2, <3>3 DEF Inv, Table
  <2>7. Paid'
    BY <1>12, SMT
    DEF Inv, Types, ServiceTypes, CountTypes, Paid, LookUp, GatewayFrame, Answer,
        Proceed, Retry, Trigger
  <2>8. InUseIsOnDisk' /\ NeverStranded'
    BY <1>12, SMT
    DEF Inv, InUseIsOnDisk, NeverStranded, LookUp, GatewayFrame, Answer, Proceed, Retry,
        Trigger
  <2> QED
    BY <2>1, <2>2, <2>3, <2>4, <2>5, <2>6, <2>7, <2>8 DEF Inv, Types
<1>13. ASSUME NEW r \in requests, Count(r) PROVE Inv'
  <2>1. ServiceTypes' /\ CountTypes'
    BY <1>13, SMT
    DEF Inv, Types, ServiceTypes, CountTypes, Count, GatewayFrame, Answer, Proceed,
        Retry, Trigger
  <2>2. FlagTypes'
    BY <1>13, Zenon
    DEF Inv, Types, FlagTypes, Count, GatewayFrame, Answer, Proceed, Retry, Trigger
  <2>3. GatewayTypes'
    <3>1. requests' \subseteq Request
      <4>1. CASE Answer(r, None)
        BY <4>1 DEF Inv, Types, GatewayTypes, Answer
      <4>2. CASE Proceed(r, "create")
        BY <4>2, ProceedFacts DEF Inv, Types, GatewayTypes, Proceed
      <4> QED
        BY <1>13, <4>1, <4>2 DEF Count
    <3> QED
      BY <1>13, <3>1 DEF Inv, Types, GatewayTypes, Count, GatewayFrame, Proceed
  <2>4. Phases'
    BY <1>13, SMT
    DEF Inv, Phases, Pending, Count, GatewayFrame, Answer, Proceed, Retry, Trigger
  <2>5. Pending'
    BY <1>13, SMT
    DEF Inv, Types, GatewayTypes, Request, Pending, Waited, Count, Answer, Proceed
  <2>6. Table'
    BY <1>13, SMT
    DEF Inv, Types, GatewayTypes, Request, Table, Pending, Count, GatewayFrame, Answer,
        Proceed
  <2>7. Paid'
    BY <1>13, SMT
    DEF Inv, Types, ServiceTypes, CountTypes, Paid, Count, GatewayFrame, Answer, Proceed,
        Retry, Trigger
  <2>8. InUseIsOnDisk' /\ NeverStranded'
    BY <1>13, SMT
    DEF Inv, InUseIsOnDisk, NeverStranded, Count, GatewayFrame, Answer, Proceed, Retry,
        Trigger
  <2> QED
    BY <2>1, <2>2, <2>3, <2>4, <2>5, <2>6, <2>7, <2>8 DEF Inv, Types
<1>14. ASSUME NEW r \in requests, Create(r) PROVE Inv'
  <2>1. ServiceTypes' /\ CountTypes'
    BY <1>14, SMT
    DEF Inv, Types, ServiceTypes, CountTypes, Create, GatewayFrame, Answer, Retry, Trigger
  <2>2. FlagTypes'
    BY <1>14, Zenon DEF Inv, Types, FlagTypes, Create, GatewayFrame, Answer, Retry, Trigger
  <2>3. GatewayTypes'
    <3>1. requests' \subseteq Request
      BY <1>14 DEF Inv, Types, GatewayTypes, Create, Answer
    <3>2. owner' \in Seq(Nat) /\ rows' \subseteq DOMAIN owner'
      BY <1>14, NewRow DEF Inv, Create
    <3> QED
      BY <1>14, <3>1, <3>2 DEF Inv, Types, GatewayTypes, Create, GatewayFrame
  <2>4. Phases'
    BY <1>14, SMT DEF Inv, Phases, Pending, Create, GatewayFrame, Answer, Retry, Trigger
  <2>5. Pending'
    BY <1>14, SMT DEF Inv, Pending, Waited, Create, Answer
  <2>6. Table'
    <3>1. /\ \A a, b \in rows' : owner'[a] = owner'[b] => a = b
          /\ \A a \in rows' : owner'[a] \in 1..machines
      <4>1. CASE UNCHANGED <<rows, owner>>
        BY <4>1 DEF Inv, Table
      <4>2. CASE RowsOf(r.machine) = {} /\ owner' = Append(owner, r.machine)
                 /\ rows' = rows \cup {Len(owner')}
        BY <4>2, NewRow DEF Inv, Table, RowsOf
      <4> QED
        BY <1>14, <4>1, <4>2 DEF Create
    <3>2. /\ \A q \in requests' : q.machine \in 1..machines
          /\ machine <= machines
      BY <1>14 DEF Inv, Table, Create, Answer
    <3>3. (timer \/ reg \in {"register", "save"} => machine # None)'
      BY <1>14, SMT DEF Inv, Table, Pending, Create, GatewayFrame, Answer
    <3> QED
      BY <1>14, <3>1, <3>2, <3>3 DEF Table, Create, GatewayFrame
  <2>7. Paid'
    BY <1>14, SMT
    DEF Inv, Types, ServiceTypes, CountTypes, Paid, Create, GatewayFrame, Answer, Retry,
        Trigger
  <2>8. InUseIsOnDisk' /\ NeverStranded'
    BY <1>14, SMT
    DEF Inv, InUseIsOnDisk, NeverStranded, Create, GatewayFrame, Answer, Retry, Trigger
  <2> QED
    BY <2>1, <2>2, <2>3, <2>4, <2>5, <2>6, <2>7, <2>8 DEF Inv, Types
<1>15. ASSUME NEW a \in rows, Purge(a) PROVE Inv'
  <2>1. ServiceTypes' /\ CountTypes'
    BY <1>15, SMT DEF Inv, Types, ServiceTypes, CountTypes, Purge
  <2>2. FlagTypes'
    BY <1>15, Zenon DEF Inv, Types, FlagTypes, Purge
  <2>3. GatewayTypes'
    BY <1>15, SMT DEF Inv, Types, GatewayTypes, Purge
  <2>4. Phases'
    BY <1>15, SMT DEF Inv, Phases, Purge
  <2>5. Pending'
    BY <1>15, SMT DEF Inv, Pending, Waited, Purge
  <2>6. Table'
    BY <1>15, SMT DEF Inv, Table, Purge
  <2>7. Paid'
    BY <1>15, SMT DEF Inv, Paid, Purge
  <2>8. InUseIsOnDisk' /\ NeverStranded'
    BY <1>15, SMT DEF Inv, InUseIsOnDisk, NeverStranded, Purge
  <2> QED
    BY <2>1, <2>2, <2>3, <2>4, <2>5, <2>6, <2>7, <2>8 DEF Inv, Types
<1>16. CASE RevokeToken
  <2>1. ServiceTypes' /\ CountTypes'
    BY <1>16, SMT DEF Inv, Types, ServiceTypes, CountTypes, RevokeToken
  <2>2. FlagTypes'
    BY <1>16, Zenon DEF Inv, Types, FlagTypes, RevokeToken
  <2>3. GatewayTypes'
    BY <1>16, SMT DEF Inv, Types, GatewayTypes, RevokeToken
  <2>4. Phases'
    BY <1>16, SMT DEF Inv, Phases, RevokeToken
  <2>5. Pending'
    BY <1>16, SMT DEF Inv, Pending, Waited, RevokeToken
  <2>6. Table'
    BY <1>16, SMT DEF Inv, Table, RevokeToken
  <2>7. Paid'
    BY <1>16, SMT DEF Inv, Paid, RevokeToken
  <2>8. InUseIsOnDisk' /\ NeverStranded'
    BY <1>16, SMT DEF Inv, InUseIsOnDisk, NeverStranded, RevokeToken
  <2> QED
    BY <2>1, <2>2, <2>3, <2>4, <2>5, <2>6, <2>7, <2>8 DEF Inv, Types
<1>17. CASE Beat
  <2>1. ServiceTypes' /\ CountTypes'
    BY <1>17, SMT DEF Inv, Types, ServiceTypes, CountTypes, Beat, BeatFrame
  <2>2. FlagTypes'
    BY <1>17, Zenon DEF Inv, Types, FlagTypes, Beat, BeatFrame
  <2>3. GatewayTypes'
    BY <1>17, SMT DEF Inv, Types, GatewayTypes, Beat, BeatFrame
  <2>4. Phases'
    BY <1>17, SMT DEF Inv, Phases, Beat, BeatFrame
  <2>5. Pending'
    BY <1>17, SMT DEF Inv, Pending, Waited, Beat, BeatFrame
  <2>6. Table'
    BY <1>17, SMT DEF Inv, Table, Beat, BeatFrame
  <2>7. Paid'
    BY <1>17, SMT DEF Inv, Paid, Beat, BeatFrame
  <2>8. InUseIsOnDisk' /\ NeverStranded'
    BY <1>17, SMT DEF Inv, InUseIsOnDisk, NeverStranded, Beat
  <2> QED
    BY <2>1, <2>2, <2>3, <2>4, <2>5, <2>6, <2>7, <2>8 DEF Inv, Types
<1>18. CASE BeatEnds
  <2>1. ServiceTypes' /\ CountTypes'
    BY <1>18, SMT DEF Inv, Types, ServiceTypes, CountTypes, BeatEnds, BeatFrame
  <2>2. FlagTypes'
    BY <1>18, Zenon DEF Inv, Types, FlagTypes, BeatEnds, BeatFrame
  <2>3. GatewayTypes'
    BY <1>18, SMT DEF Inv, Types, GatewayTypes, BeatEnds, BeatFrame
  <2>4. Phases'
    BY <1>18, SMT DEF Inv, Phases, BeatEnds, BeatFrame
  <2>5. Pending'
    BY <1>18, SMT DEF Inv, Pending, Waited, BeatEnds, BeatFrame
  <2>6. Table'
    BY <1>18, SMT DEF Inv, Table, BeatEnds, BeatFrame
  <2>7. Paid'
    BY <1>18, SMT DEF Inv, Paid, BeatEnds, BeatFrame
  <2>8. InUseIsOnDisk' /\ NeverStranded'
    BY <1>18, SMT DEF Inv, InUseIsOnDisk, NeverStranded, BeatEnds, BeatFrame
  <2> QED
    BY <2>1, <2>2, <2>3, <2>4, <2>5, <2>6, <2>7, <2>8 DEF Inv, Types
<1>19. CASE CapabilitiesSaved
  <2>1. ServiceTypes' /\ CountTypes'
    BY <1>19, SMT DEF Inv, Types, ServiceTypes, CountTypes, CapabilitiesSaved, BeatFrame
  <2>2. FlagTypes'
    BY <1>19, Zenon DEF Inv, Types, FlagTypes, CapabilitiesSaved, BeatFrame
  <2>3. GatewayTypes'
    BY <1>19, SMT
    DEF Inv, Types, ServiceTypes, GatewayTypes, CapabilitiesSaved, BeatFrame, Written
  <2>4. Phases'
    BY <1>19, SMT DEF Inv, Phases, CapabilitiesSaved, BeatFrame
  <2>5. Pending'
    BY <1>19, SMT DEF Inv, Pending, Waited, CapabilitiesSaved, BeatFrame
  <2>6. Table'
    BY <1>19, SMT DEF Inv, Table, CapabilitiesSaved, BeatFrame
  <2>7. Paid'
    BY <1>19, SMT DEF Inv, Paid, CapabilitiesSaved, BeatFrame
  <2>8. InUseIsOnDisk' /\ NeverStranded'
    BY <1>19, SMT
    DEF Inv, Types, CountTypes, InUseIsOnDisk, NeverStranded, CapabilitiesSaved, BeatFrame
  <2> QED
    BY <2>1, <2>2, <2>3, <2>4, <2>5, <2>6, <2>7, <2>8 DEF Inv, Types
<1>20. CASE BeatRejected
  <2>1. ServiceTypes' /\ CountTypes'
    BY <1>20, SMT DEF Inv, Types, ServiceTypes, CountTypes, BeatRejected, BeatFrame
  <2>2. FlagTypes'
    BY <1>20, Zenon DEF Inv, Types, FlagTypes, BeatRejected, BeatFrame
  <2>3. GatewayTypes'
    BY <1>20, SMT DEF Inv, Types, GatewayTypes, BeatRejected, BeatFrame
  <2>4. Phases'
    BY <1>20, SMT DEF Inv, Phases, BeatRejected, BeatFrame
  <2>5. Pending'
    BY <1>20, SMT DEF Inv, Phases, Pending, Waited, BeatRejected, BeatFrame
  <2>6. Table'
    BY <1>20, SMT DEF Inv, Table, BeatRejected, BeatFrame
  <2>7. Paid'
    BY <1>20, SMT DEF Inv, Types, ServiceTypes, CountTypes, Paid, BeatRejected, BeatFrame
  <2>8. InUseIsOnDisk' /\ NeverStranded'
    BY <1>20, SMT DEF InUseIsOnDisk, NeverStranded, BeatRejected
  <2> QED
    BY <2>1, <2>2, <2>3, <2>4, <2>5, <2>6, <2>7, <2>8 DEF Inv, Types
<1>21. CASE UNCHANGED vars
  <2>1. ServiceTypes' /\ CountTypes'
    BY <1>21, SMT DEF Inv, Types, ServiceTypes, CountTypes, vars
  <2>2. FlagTypes'
    BY <1>21, Zenon DEF Inv, Types, FlagTypes, vars
  <2>3. GatewayTypes'
    BY <1>21, SMT DEF Inv, Types, GatewayTypes, vars
  <2>4. Phases'
    BY <1>21, SMT DEF Inv, Phases, vars
  <2>5. Pending'
    BY <1>21, SMT DEF Inv, Pending, Waited, vars
  <2>6. Table'
    BY <1>21, SMT DEF Inv, Table, vars
  <2>7. Paid'
    BY <1>21, SMT DEF Inv, Paid, vars
  <2>8. InUseIsOnDisk' /\ NeverStranded'
    BY <1>21, SMT DEF Inv, InUseIsOnDisk, NeverStranded, vars
  <2> QED
    BY <2>1, <2>2, <2>3, <2>4, <2>5, <2>6, <2>7, <2>8 DEF Inv, Types
<1>22. CASE LoadFails
  <2>1. ServiceTypes' /\ CountTypes'
    BY <1>22, SMT
       DEF Inv, Types, ServiceTypes, CountTypes, GatewayTypes, LoadFails, Generate
  <2>2. FlagTypes'
    BY <1>22, Zenon DEF Inv, Types, FlagTypes, LoadFails, Generate, Trigger, OnRegistered
  <2>3. GatewayTypes'
    BY <1>22, SMT DEF Inv, Types, GatewayTypes, LoadFails
  <2>4. Phases'
    BY <1>22, SMT DEF Inv, Phases, LoadFails, Generate, Trigger
  <2>5. Pending'
    BY <1>22, SMT DEF Inv, Pending, Waited, LoadFails
  <2>6. Table'
    BY <1>22, SMT DEF Inv, Types, ServiceTypes, Table, LoadFails, Generate
  <2>7. Paid'
    BY <1>22, SMT
       DEF Inv, Types, ServiceTypes, CountTypes, Phases, Paid, LoadFails, Generate
  <2>8. InUseIsOnDisk' /\ NeverStranded'
    BY <1>22, SMT
       DEF Inv, Types, CountTypes, Phases, InUseIsOnDisk, NeverStranded, LoadFails, Trigger
  <2> QED
    BY <2>1, <2>2, <2>3, <2>4, <2>5, <2>6, <2>7, <2>8 DEF Inv, Types
<1> QED
  BY <1>1, <1>2, <1>3, <1>4, <1>5, <1>6, <1>7, <1>8, <1>9, <1>10, <1>11, <1>12,
     <1>13, <1>14, <1>15, <1>16, <1>17, <1>18, <1>19, <1>20, <1>21, <1>22
  DEF Next, Service, Handling, Handle, Scheduler

\* The start satisfies the invariant.
LEMMA InitInv == Init => Inv
<1> SUFFICES ASSUME Init PROVE Inv
  OBVIOUS
<1> USE DEF Init, None, Torn
<1>1. ServiceTypes /\ GatewayTypes /\ CountTypes
  BY DEF ServiceTypes, GatewayTypes, CountTypes
<1>2. FlagTypes /\ Phases
  BY DEF FlagTypes, Phases
<1>3. Pending /\ Table /\ Paid
  BY DEF Pending, Table, Paid, Waited
<1>4. InUseIsOnDisk /\ NeverStranded
  BY DEF InUseIsOnDisk, NeverStranded
<1> QED
  BY <1>1, <1>2, <1>3, <1>4 DEF Inv, Types

\* Every reachable state satisfies it.
LEMMA Invariance == Spec => []Inv
BY InitInv, Step, PTL DEF Spec

-----------------------------------------------------------------------------
\* The variables keep their types: no torn file is ever taken for an identity.
THEOREM TypeCorrect == Spec => []TypeOK
<1>1. Inv => TypeOK
  BY DEF Inv, Types, ServiceTypes, FlagTypes, GatewayTypes, CountTypes, TypeOK
<1> QED
  BY <1>1, Invariance, PTL

\* isRegistering and the retry timer keep the registrations of one process apart:
\* at most one is awaited, and none while a timeout is set.
THEOREM OneRegistration == Spec => []OneAttempt
<1>1. ASSUME Inv PROVE OneAttempt
  <2>1. Cardinality(Waited) <= 1
    <3>1. CASE Waited = {}
      BY <3>1, FS_EmptySet
    <3>2. CASE \E r \in Waited : TRUE
      <4>1. PICK r \in Waited : Waited = {r}
        BY <1>1, <3>2 DEF Inv, Pending
      <4> QED
        BY <4>1, FS_Singleton
    <3> QED
      BY <3>1, <3>2
  <2>2. timer => reg = "idle" /\ identity = None /\ Waited = {}
    BY <1>1 DEF Inv, Phases, Pending
  <2> QED
    BY <2>1, <2>2 DEF OneAttempt
<1> QED
  BY <1>1, Invariance, PTL

\* Unless the disk failed, the identity in use is the one a restart will load.
THEOREM IdentitySurvivesRestart == Spec => []InUseIsOnDisk
<1>1. Inv => InUseIsOnDisk
  BY DEF Inv
<1> QED
  BY <1>1, Invariance, PTL

\* The registration loop ends only with an identity, a revoked token, a file that
\* could not be deleted, or a stop.
THEOREM LoopNeverLost == Spec => []NeverStranded
<1>1. Inv => NeverStranded
  BY DEF Inv
<1> QED
  BY <1>1, Invariance, PTL

\* Retries and late requests are idempotent: the gateway's rows are paid for by
\* starts and resets.  The rows inject into the machine ids, and those are Paid.
THEOREM RowsAccountedFor == Spec => []RowsPaidFor
<1>1. ASSUME Inv PROVE RowsPaidFor
  <2> DEFINE f == [a \in rows |-> owner[a]]
  <2>1. machines \in Nat /\ machines <= 1 + deaths + resets
        /\ deaths \in Nat /\ resets \in Nat
    BY <1>1 DEF Inv, Types, ServiceTypes, CountTypes, Paid
  <2>2. f \in Injection(rows, 1..machines)
    BY <1>1 DEF Inv, Table, Injection, IsInjective
  <2>3. IsFiniteSet(1..machines) /\ Cardinality(1..machines) = machines
    BY <2>1, FS_Interval
  <2>4. IsFiniteSet(rows) /\ Cardinality(rows) <= machines
    <3> HIDE DEF f
    <3> QED
      BY <2>2, <2>3, FS_Injection
  <2>5. Cardinality(rows) \in Nat
    BY <2>4, FS_CardinalityType
  <2> QED
    BY <2>1, <2>4, <2>5 DEF RowsPaidFor
<1> QED
  BY <1>1, Invariance, PTL
=============================================================================
