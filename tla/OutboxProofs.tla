---------------------------- MODULE OutboxProofs ----------------------------
(***************************************************************************)
(* Proofs about Outbox, for any number of rows, attempts, batch size and   *)
(* faults.                                                                 *)
(*                                                                         *)
(* SentWasReceived and CopiesPaidFor are not inductive: they rest on what  *)
(* the worker holds in memory during a cycle.  CycleInv says what that is. *)
(***************************************************************************)
EXTENDS Outbox, TLAPS

\* A cycle works on rows that are PENDING and nobody else's: the console only
\* touches FAILED rows.  A row is either still to be sent or acknowledged.
CycleInv ==
  /\ batch \cap acked = {}
  /\ \A i \in batch \cup acked : status[i] = "PENDING"
  /\ \A i \in acked : copies[i] > 0
  /\ pc \in {"idle", "read"} => batch = {} /\ acked = {}
  /\ \A i \in late : status[i] # "absent"
  /\ \A i \in Ids : status[i] = "absent" => attempts[i] = 0

One(b) == IF b THEN 1 ELSE 0

\* What the gateway has seen of a row, or may still see, is covered by the faults
\* so far, its acknowledgement and, while the process is stopping, the fault that
\* its exit will be.
Budget ==
  \A i \in Ids :
    copies[i] + One(i \in late) + One(process = "stopping")
      <= faults + One(i \in acked \/ status[i] = "SENT")

Inv == TypeOK /\ SentWasReceived /\ NoLimbo /\ CycleInv /\ Budget

LEMMA ConstantFacts ==
  /\ Ids \subseteq Nat
  /\ MaxAttempts \in Nat /\ 0 \in 0..MaxAttempts /\ 0 \in 0..(MaxAttempts - 1)
BY OutboxAssumption DEF Ids

\* TypeOK by columns, worker and counters: the pieces a step is checked against.
RowTypes ==
  /\ status \in [Ids -> {"absent", "PENDING", "SENT", "FAILED"}]
  /\ attempts \in [Ids -> 0..MaxAttempts]
  /\ due \subseteq Ids

CycleTypes ==
  /\ pc \in {"idle", "read", "post", "record", "mark"}
  /\ batch \subseteq Ids /\ acked \subseteq Ids
  /\ snap \in [Ids -> 0..(MaxAttempts - 1)]

ProcessTypes == process \in {"up", "stopping", "down"} /\ timer \in BOOLEAN

NetTypes == /\ late \subseteq Ids /\ copies \in [Ids -> Nat]
            /\ faults \in Nat /\ retries \in Nat

LEMMA TypeParts == TypeOK <=> RowTypes /\ CycleTypes /\ ProcessTypes /\ NetTypes
BY DEF TypeOK, RowTypes, CycleTypes, ProcessTypes, NetTypes

LEMMA TypeInit == Init => TypeOK
<1> SUFFICES ASSUME Init PROVE TypeOK
  OBVIOUS
<1>1. RowTypes
  BY ConstantFacts DEF Init, RowTypes
<1>2. CycleTypes
  BY ConstantFacts DEF Init, CycleTypes
<1>3. ProcessTypes
  BY DEF Init, ProcessTypes
<1>4. NetTypes
  BY DEF Init, NetTypes
<1>5. QED
  BY <1>1, <1>2, <1>3, <1>4, TypeParts

LEMMA ForgetTypes == ASSUME Forget PROVE CycleTypes'
BY ConstantFacts DEF Forget, CycleTypes

LEMMA TypeStep == TypeOK /\ [Next]_vars => TypeOK'
<1> SUFFICES ASSUME RowTypes, CycleTypes, ProcessTypes, NetTypes, [Next]_vars
             PROVE RowTypes' /\ CycleTypes' /\ ProcessTypes' /\ NetTypes'
  BY TypeParts DEF TypeOK, RowTypes, CycleTypes, ProcessTypes, NetTypes
<1> USE ConstantFacts DEF rowVars, cycleVars, netVars, CycleFrame, EndCycle
<1> DEFINE Types == RowTypes /\ CycleTypes /\ ProcessTypes /\ NetTypes
<1>1. ASSUME NEW i \in Ids, Enqueue(i) PROVE Types'
  BY <1>1 DEF Enqueue, RowTypes, CycleTypes, ProcessTypes,
     NetTypes
<1>2. ASSUME NEW i \in Ids, BackoffPasses(i) PROVE Types'
  BY <1>2 DEF BackoffPasses, RowTypes, CycleTypes, ProcessTypes,
     NetTypes
<1>3. ASSUME NEW S \in SUBSET Ids, RetryFailed(S) PROVE Types'
  <2> USE <1>3 DEF RetryFailed
  <2>1. RowTypes'
    BY DEF RowTypes
  <2>2. CycleTypes'
    BY DEF CycleTypes
  <2>3. ProcessTypes'
    BY DEF ProcessTypes
  <2>4. NetTypes'
    BY DEF NetTypes
  <2>5. QED
    BY <2>1, <2>2, <2>3, <2>4
<1>4. CASE Start
  BY <1>4 DEF Start, RowTypes, CycleTypes, ProcessTypes,
     NetTypes
<1>5. CASE Stop
  <2> USE <1>5 DEF Stop, Faulty
  <2>1. RowTypes'
    BY DEF RowTypes
  <2>2. CycleTypes'
    BY DEF CycleTypes
  <2>3. ProcessTypes'
    BY DEF ProcessTypes
  <2>4. NetTypes'
    BY DEF NetTypes
  <2>5. QED
    BY <2>1, <2>2, <2>3, <2>4
<1>6. CASE Exit
  <2> USE <1>6 DEF Exit, Faulty
  <2>1. RowTypes'
    BY DEF RowTypes
  <2>2. CycleTypes'
    BY ForgetTypes DEF CycleTypes
  <2>3. ProcessTypes'
    BY DEF ProcessTypes
  <2>4. NetTypes'
    BY DEF NetTypes
  <2>5. QED
    BY <2>1, <2>2, <2>3, <2>4
<1>7. CASE TimerFires
  BY <1>7 DEF TimerFires, RowTypes, CycleTypes, ProcessTypes,
     NetTypes
<1>8. CASE Fetch
  <2> USE <1>8 DEF Fetch
  <2>1. RowTypes'
    BY DEF RowTypes
  <2>2. CycleTypes'
    <3>1. CASE Eligible = {}
      BY <3>1, ForgetTypes
    <3>2. CASE Eligible # {}
      <4>1. batch' \subseteq Eligible
        BY <3>2
      <4>2. \A i \in Eligible : i \in Ids /\ attempts[i] \in 0..(MaxAttempts - 1)
        BY DEF RowTypes, Eligible
      <4>3. snap' \in [Ids -> 0..(MaxAttempts - 1)]
        BY <3>2, <4>1, <4>2
      <4>4. QED
        BY <3>2, <4>1, <4>2, <4>3 DEF CycleTypes
    <3>3. QED
      BY <3>1, <3>2
  <2>3. ProcessTypes'
    BY DEF ProcessTypes
  <2>4. NetTypes'
    BY DEF NetTypes
  <2>5. QED
    BY <2>1, <2>2, <2>3, <2>4
<1>9. CASE BatchDone
  <2> USE <1>9 DEF BatchDone
  <2>1. RowTypes'
    BY DEF RowTypes
  <2>2. CycleTypes'
    BY ForgetTypes DEF CycleTypes
  <2>3. ProcessTypes'
    BY DEF ProcessTypes
  <2>4. NetTypes'
    BY DEF NetTypes
  <2>5. QED
    BY <2>1, <2>2, <2>3, <2>4
<1>10. CASE MarkSent
  <2> USE <1>10 DEF MarkSent
  <2>1. RowTypes'
    BY DEF RowTypes
  <2>2. CycleTypes'
    BY ForgetTypes DEF CycleTypes
  <2>3. ProcessTypes'
    BY DEF ProcessTypes
  <2>4. NetTypes'
    BY DEF NetTypes
  <2>5. QED
    BY <2>1, <2>2, <2>3, <2>4
<1>11. ASSUME NEW i \in Ids, PostAcked(i) PROVE Types'
  BY <1>11 DEF PostAcked, Received, RowTypes, CycleTypes, ProcessTypes,
     NetTypes
<1>12. ASSUME NEW i \in Ids, PostRefused(i) PROVE Types'
  BY <1>12 DEF PostRefused, RowTypes, CycleTypes, ProcessTypes,
     NetTypes
<1>13. ASSUME NEW i \in Ids, RecordFailure(i) PROVE Types'
  BY <1>13 DEF RecordFailure, RowTypes, CycleTypes, ProcessTypes,
     NetTypes
<1>14. ASSUME NEW i \in Ids, PostTimesOut(i) PROVE Types'
  BY <1>14 DEF PostTimesOut, Faulty, RowTypes, CycleTypes, ProcessTypes,
     NetTypes
<1>15. ASSUME NEW i \in Ids, LateArrival(i) PROVE Types'
  BY <1>15 DEF LateArrival, Received, RowTypes, CycleTypes, ProcessTypes,
     NetTypes
<1>16. CASE DatabaseFails
  <2> USE <1>16 DEF DatabaseFails, Faulty
  <2>1. RowTypes'
    BY DEF RowTypes
  <2>2. CycleTypes'
    BY ForgetTypes DEF CycleTypes
  <2>3. ProcessTypes'
    BY DEF ProcessTypes
  <2>4. NetTypes'
    BY DEF NetTypes
  <2>5. QED
    BY <2>1, <2>2, <2>3, <2>4
<1>17. CASE UNCHANGED vars
  BY <1>17 DEF vars, RowTypes, CycleTypes, ProcessTypes,
     NetTypes
<1>18. QED
  BY <1>1, <1>2, <1>3, <1>4, <1>5, <1>6, <1>7, <1>8, <1>9,
     <1>10, <1>11, <1>12, <1>13, <1>14, <1>15, <1>16, <1>17 DEF Next, Worker

\* What a cycle knows stays true until it ends: no other actor moves its rows.
LEMMA CycleStep ==
  ASSUME TypeOK, CycleInv, [Next]_vars PROVE CycleInv'
<1> USE ConstantFacts DEF CycleInv, TypeOK, rowVars, cycleVars, netVars, CycleFrame
<1>1. ASSUME NEW i \in Ids, Enqueue(i) PROVE CycleInv'
  BY <1>1 DEF Enqueue
<1>2. ASSUME NEW i \in Ids, BackoffPasses(i) PROVE CycleInv'
  BY <1>2 DEF BackoffPasses
<1>3. ASSUME NEW S \in SUBSET Ids, RetryFailed(S) PROVE CycleInv'
  BY <1>3 DEF RetryFailed
<1>4. CASE Start
  BY <1>4 DEF Start
<1>5. CASE Stop
  BY <1>5 DEF Stop, Faulty
<1>6. CASE Exit
  BY <1>6 DEF Exit, Forget, Faulty
<1>7. CASE TimerFires
  BY <1>7 DEF TimerFires
<1>8. CASE Fetch
  BY <1>8 DEF Fetch, EndCycle, Forget, Eligible
<1>9. CASE BatchDone
  BY <1>9 DEF BatchDone, EndCycle, Forget
<1>10. CASE MarkSent
  BY <1>10 DEF MarkSent, EndCycle, Forget
<1>11. ASSUME NEW i \in Ids, PostAcked(i) PROVE CycleInv'
  BY <1>11 DEF PostAcked, Received, Current
<1>12. ASSUME NEW i \in Ids, PostRefused(i) PROVE CycleInv'
  BY <1>12 DEF PostRefused, Current
<1>13. ASSUME NEW i \in Ids, RecordFailure(i) PROVE CycleInv'
  BY <1>13 DEF RecordFailure
<1>14. ASSUME NEW i \in Ids, PostTimesOut(i) PROVE CycleInv'
  BY <1>14 DEF PostTimesOut, Current, Faulty
<1>15. ASSUME NEW i \in Ids, LateArrival(i) PROVE CycleInv'
  BY <1>15 DEF LateArrival, Received
<1>16. CASE DatabaseFails
  BY <1>16 DEF DatabaseFails, EndCycle, Forget, Faulty
<1>17. CASE UNCHANGED vars
  BY <1>17 DEF vars
<1>18. QED
  BY <1>1, <1>2, <1>3, <1>4, <1>5, <1>6, <1>7, <1>8, <1>9,
     <1>10, <1>11, <1>12, <1>13, <1>14, <1>15, <1>16, <1>17 DEF Next, Worker

\* MarkSent is the only step to SENT, and it marks what was acknowledged.
LEMMA SentStep ==
  ASSUME TypeOK, CycleInv, SentWasReceived, [Next]_vars PROVE SentWasReceived'
<1> USE ConstantFacts
    DEF SentWasReceived, CycleInv, TypeOK, rowVars, cycleVars, netVars, CycleFrame
<1>1. ASSUME NEW i \in Ids, Enqueue(i) PROVE SentWasReceived'
  BY <1>1 DEF Enqueue
<1>2. ASSUME NEW i \in Ids, BackoffPasses(i) PROVE SentWasReceived'
  BY <1>2 DEF BackoffPasses
<1>3. ASSUME NEW S \in SUBSET Ids, RetryFailed(S) PROVE SentWasReceived'
  BY <1>3 DEF RetryFailed
<1>4. CASE Start
  BY <1>4 DEF Start
<1>5. CASE Stop
  BY <1>5 DEF Stop, Faulty
<1>6. CASE Exit
  BY <1>6 DEF Exit, Forget, Faulty
<1>7. CASE TimerFires
  BY <1>7 DEF TimerFires
<1>8. CASE Fetch
  BY <1>8 DEF Fetch, EndCycle, Forget, Eligible
<1>9. CASE BatchDone
  BY <1>9 DEF BatchDone, EndCycle, Forget
<1>10. CASE MarkSent
  BY <1>10 DEF MarkSent, EndCycle, Forget
<1>11. ASSUME NEW i \in Ids, PostAcked(i) PROVE SentWasReceived'
  BY <1>11 DEF PostAcked, Received, Current
<1>12. ASSUME NEW i \in Ids, PostRefused(i) PROVE SentWasReceived'
  BY <1>12 DEF PostRefused, Current
<1>13. ASSUME NEW i \in Ids, RecordFailure(i) PROVE SentWasReceived'
  BY <1>13 DEF RecordFailure
<1>14. ASSUME NEW i \in Ids, PostTimesOut(i) PROVE SentWasReceived'
  BY <1>14 DEF PostTimesOut, Current, Faulty
<1>15. ASSUME NEW i \in Ids, LateArrival(i) PROVE SentWasReceived'
  BY <1>15 DEF LateArrival, Received
<1>16. CASE DatabaseFails
  BY <1>16 DEF DatabaseFails, EndCycle, Forget, Faulty
<1>17. CASE UNCHANGED vars
  BY <1>17 DEF vars
<1>18. QED
  BY <1>1, <1>2, <1>3, <1>4, <1>5, <1>6, <1>7, <1>8, <1>9,
     <1>10, <1>11, <1>12, <1>13, <1>14, <1>15, <1>16, <1>17 DEF Next, Worker

\* The attempt recorded is at most MaxAttempts, and FAILED exactly when it is.
LEMMA LimboStep ==
  ASSUME TypeOK, CycleInv, NoLimbo, [Next]_vars PROVE NoLimbo'
<1> USE ConstantFacts DEF NoLimbo, CycleInv, TypeOK, rowVars, cycleVars, netVars, CycleFrame
<1>1. ASSUME NEW i \in Ids, Enqueue(i) PROVE NoLimbo'
  BY <1>1 DEF Enqueue
<1>2. ASSUME NEW i \in Ids, BackoffPasses(i) PROVE NoLimbo'
  BY <1>2 DEF BackoffPasses
<1>3. ASSUME NEW S \in SUBSET Ids, RetryFailed(S) PROVE NoLimbo'
  BY <1>3 DEF RetryFailed
<1>4. CASE Start
  BY <1>4 DEF Start
<1>5. CASE Stop
  BY <1>5 DEF Stop, Faulty
<1>6. CASE Exit
  BY <1>6 DEF Exit, Forget, Faulty
<1>7. CASE TimerFires
  BY <1>7 DEF TimerFires
<1>8. CASE Fetch
  BY <1>8 DEF Fetch, EndCycle, Forget, Eligible
<1>9. CASE BatchDone
  BY <1>9 DEF BatchDone, EndCycle, Forget
<1>10. CASE MarkSent
  BY <1>10 DEF MarkSent, EndCycle, Forget
<1>11. ASSUME NEW i \in Ids, PostAcked(i) PROVE NoLimbo'
  BY <1>11 DEF PostAcked, Received, Current
<1>12. ASSUME NEW i \in Ids, PostRefused(i) PROVE NoLimbo'
  BY <1>12 DEF PostRefused, Current
<1>13. ASSUME NEW i \in Ids, RecordFailure(i) PROVE NoLimbo'
  BY <1>13 DEF RecordFailure
<1>14. ASSUME NEW i \in Ids, PostTimesOut(i) PROVE NoLimbo'
  BY <1>14 DEF PostTimesOut, Current, Faulty
<1>15. ASSUME NEW i \in Ids, LateArrival(i) PROVE NoLimbo'
  BY <1>15 DEF LateArrival, Received
<1>16. CASE DatabaseFails
  BY <1>16 DEF DatabaseFails, EndCycle, Forget, Faulty
<1>17. CASE UNCHANGED vars
  BY <1>17 DEF vars
<1>18. QED
  BY <1>1, <1>2, <1>3, <1>4, <1>5, <1>6, <1>7, <1>8, <1>9,
     <1>10, <1>11, <1>12, <1>13, <1>14, <1>15, <1>16, <1>17 DEF Next, Worker

\* A copy is added for an acknowledgement or a request paid for when it timed out.
LEMMA BudgetStep ==
  ASSUME TypeOK, CycleInv, Budget, [Next]_vars PROVE Budget'
<1> USE ConstantFacts
    DEF Budget, One, CycleInv, TypeOK, rowVars, cycleVars, netVars, CycleFrame
<1>1. ASSUME NEW i \in Ids, Enqueue(i) PROVE Budget'
  BY <1>1 DEF Enqueue
<1>2. ASSUME NEW i \in Ids, BackoffPasses(i) PROVE Budget'
  BY <1>2 DEF BackoffPasses
<1>3. ASSUME NEW S \in SUBSET Ids, RetryFailed(S) PROVE Budget'
  BY <1>3 DEF RetryFailed
<1>4. CASE Start
  BY <1>4 DEF Start
<1>5. CASE Stop
  BY <1>5 DEF Stop, Faulty
<1>6. CASE Exit
  BY <1>6 DEF Exit, Forget, Faulty
<1>7. CASE TimerFires
  BY <1>7 DEF TimerFires
<1>8. CASE Fetch
  BY <1>8 DEF Fetch, EndCycle, Forget, Eligible
<1>9. CASE BatchDone
  BY <1>9 DEF BatchDone, EndCycle, Forget
<1>10. CASE MarkSent
  BY <1>10 DEF MarkSent, EndCycle, Forget
<1>11. ASSUME NEW i \in Ids, PostAcked(i) PROVE Budget'
  BY <1>11 DEF PostAcked, Received, Current
<1>12. ASSUME NEW i \in Ids, PostRefused(i) PROVE Budget'
  BY <1>12 DEF PostRefused, Current
<1>13. ASSUME NEW i \in Ids, RecordFailure(i) PROVE Budget'
  BY <1>13 DEF RecordFailure
<1>14. ASSUME NEW i \in Ids, PostTimesOut(i) PROVE Budget'
  BY <1>14 DEF PostTimesOut, Current, Faulty
<1>15. ASSUME NEW i \in Ids, LateArrival(i) PROVE Budget'
  BY <1>15 DEF LateArrival, Received
<1>16. CASE DatabaseFails
  BY <1>16 DEF DatabaseFails, EndCycle, Forget, Faulty
<1>17. CASE UNCHANGED vars
  BY <1>17 DEF vars
<1>18. QED
  BY <1>1, <1>2, <1>3, <1>4, <1>5, <1>6, <1>7, <1>8, <1>9,
     <1>10, <1>11, <1>12, <1>13, <1>14, <1>15, <1>16, <1>17 DEF Next, Worker

LEMMA Inductive == Spec => []Inv
<1>1. Init => Inv
  BY TypeInit, ConstantFacts DEF Init, Inv, SentWasReceived, NoLimbo, CycleInv, Budget, One
<1>2. Inv /\ [Next]_vars => Inv'
  BY TypeStep, CycleStep, SentStep, LimboStep, BudgetStep DEF Inv
<1>3. QED
  BY <1>1, <1>2, PTL DEF Spec

\* Every column keeps its type, whatever fails.
THEOREM TypeCorrect == Spec => []TypeOK
BY TypeInit, TypeStep, PTL DEF Spec

\* Every row that is marked SENT was accepted by the gateway.
THEOREM NothingSentUnreceived == Spec => []SentWasReceived
BY Inductive, PTL DEF Inv

\* A row not sent is in reach of the worker's query or of the console's retry.
THEOREM NothingInLimbo == Spec => []NoLimbo
BY Inductive, PTL DEF Inv

\* There are at most as many superfluous copies of an event as there were faults.
THEOREM DuplicatesPaidFor == Spec => []CopiesPaidFor
<1>1. Inv => CopiesPaidFor
  <2> SUFFICES ASSUME Inv, NEW i \in Ids PROVE copies[i] <= 1 + faults
    BY DEF CopiesPaidFor
  <2>1. copies[i] \in Nat /\ faults \in Nat
    BY DEF Inv, TypeOK
  <2>2. copies[i] + One(i \in late) + One(process = "stopping")
          <= faults + One(i \in acked \/ status[i] = "SENT")
    BY DEF Inv, Budget
  <2>3. QED
    BY <2>1, <2>2 DEF One
<1>2. QED
  BY Inductive, <1>1, PTL

(***************************************************************************)
(* The outbox implements at-least-once delivery.                           *)
(***************************************************************************)
LEMMA InitMaps == Init => Channel!Init
BY DEF Init, Channel!Init, WithStatus

LEMMA RowSteps ==
  ASSUME NEW i \in Ids, Channel!Queue(i) \/ Channel!Deliver(i) \/ Channel!GiveUp(i)
  PROVE  Channel!Next
BY DEF Channel!Next

LEMMA SetSteps ==
  ASSUME NEW S \in SUBSET Ids, Channel!Confirm(S) \/ Channel!Requeue(S)
  PROVE  Channel!Next
BY DEF Channel!Next

LEMMA StepMaps ==
  ASSUME Inv, [Next]_vars
  PROVE  [Channel!Next]_(<<WithStatus("PENDING"), WithStatus("SENT"),
                           WithStatus("FAILED"), copies>>)
<1> DEFINE Same == UNCHANGED <<WithStatus("PENDING"), WithStatus("SENT"),
                               WithStatus("FAILED"), copies>>
<1> USE DEF Inv, TypeOK, CycleInv, rowVars, cycleVars, netVars, CycleFrame
<1>1. ASSUME NEW i \in Ids, Enqueue(i) PROVE Channel!Next
  <2>1. Channel!Queue(i)
    BY <1>1 DEF Enqueue, Channel!Queue, WithStatus
  <2>2. QED
    BY <2>1, RowSteps
<1>2. ASSUME NEW i \in Ids, BackoffPasses(i) PROVE Same
  BY <1>2 DEF BackoffPasses, WithStatus
<1>3. ASSUME NEW S \in SUBSET Ids, RetryFailed(S) PROVE Channel!Next
  <2> DEFINE hit == {i \in S : status[i] = "FAILED"}
  <2>1. Channel!Requeue(hit)
    BY <1>3 DEF RetryFailed, Channel!Requeue, WithStatus
  <2>2. hit \in SUBSET Ids
    OBVIOUS
  <2> HIDE DEF hit
  <2>3. QED
    BY <2>1, <2>2, SetSteps
<1>4. CASE Start \/ Stop \/ Exit
  <2>1. Same
    BY <1>4 DEF Start, Stop, Exit, WithStatus
  <2>2. QED
    BY <2>1
<1>5. CASE TimerFires \/ Fetch \/ BatchDone \/ DatabaseFails
  <2>1. Same
    BY <1>5 DEF TimerFires, Fetch, BatchDone, DatabaseFails, WithStatus
  <2>2. QED
    BY <2>1
<1>6. ASSUME MarkSent PROVE Channel!Next
  <2>1. Channel!Confirm(acked)
    BY <1>6 DEF MarkSent, Channel!Confirm, WithStatus
  <2>2. QED
    BY <2>1, SetSteps
<1>7. ASSUME NEW i \in Ids, PostAcked(i) \/ LateArrival(i) PROVE Channel!Next
  <2>1. Channel!Deliver(i)
    BY <1>7 DEF PostAcked, LateArrival, Current, Received, Channel!Deliver, WithStatus
  <2>2. QED
    BY <2>1, RowSteps
<1>8. ASSUME NEW i \in Ids, PostRefused(i) \/ PostTimesOut(i) PROVE Same
  BY <1>8 DEF PostRefused, PostTimesOut, WithStatus
<1>9. ASSUME NEW i \in Ids, RecordFailure(i) PROVE Channel!Next \/ Same
  <2>1. status[i] = "PENDING" /\ UNCHANGED copies
    BY <1>9 DEF RecordFailure
  <2>2. CASE snap[i] + 1 >= MaxAttempts
    <3>1. status' = [status EXCEPT ![i] = "FAILED"]
      BY <1>9, <2>2 DEF RecordFailure
    <3>2. Channel!GiveUp(i)
      BY <2>1, <3>1 DEF Channel!GiveUp, WithStatus
    <3>3. QED
      BY <3>2, RowSteps
  <2>3. CASE ~(snap[i] + 1 >= MaxAttempts)
    <3>1. status' = [status EXCEPT ![i] = "PENDING"]
      BY <1>9, <2>3 DEF RecordFailure
    <3>2. QED
      BY <2>1, <3>1 DEF WithStatus
  <2>4. QED
    BY <2>2, <2>3
<1>10. CASE UNCHANGED vars
  <2>1. Same
    BY <1>10 DEF vars, WithStatus
  <2>2. QED
    BY <2>1
<1>11. QED
  <2> HIDE DEF Inv, TypeOK, CycleInv
  <2>1. QED
    BY <1>1, <1>2, <1>3, <1>4, <1>5, <1>6, <1>7, <1>8, <1>9, <1>10 DEF Next, Worker

\* The detailed outbox, with its cycles, faults and restarts, behaves as the
\* abstract channel: what is confirmed has been delivered and stays confirmed.
THEOREM ImplementsDelivery == Spec => DeliverySpec
BY InitMaps, StepMaps, Inductive, PTL DEF Spec, DeliverySpec, Channel!Spec
=============================================================================
