---------------------- MODULE WebhookDeliveryProofs ----------------------
(***************************************************************************)
(* Proofs about the webhook outbox, for any number of rows, endpoints,     *)
(* sweepers and retries.  SentWasAccepted and QueuedIsScheduled hold of    *)
(* every deployment; ExclusiveClaim, AttemptsBounded and OutcomeIsFinal    *)
(* hold of those in which sweeps end within the lease (SweepsFit).         *)
(***************************************************************************)
EXTENDS WebhookDelivery, TLAPS

\* A sweeper past its claim has a row, and so have a test ping past its insert
\* and a redelivery past its checks.
HasRow ==
    /\ \A s \in Sweepers :
         pc[s] \notin {"idle", "rows"} =>
           row[s] \in Deliveries /\ status[row[s]] # "absent"
    /\ \A s \in Sweepers : pc[s] \in {"posting", "settling"} => tries[s] >= 1
    /\ testPc # "idle" => testRow \in Deliveries /\ status[testRow] # "absent"
    /\ \A o \in Operators :
         redeliver[o] # NoRow => status[redeliver[o]] # "absent"

\* A successful answer not yet written was given by a receiver.
OkWasAccepted ==
    /\ \A s \in Sweepers : pc[s] = "settling" /\ answer[s] = "success" => row[s] \in accepted
    /\ testPc = "settling" /\ testOutcome = "success" => testRow \in accepted

\* A running sweep is no older than SweepSpan.
SweepAge ==
    \A s \in Sweepers :
      pc[s] # "idle" => now[s] <= clock /\ clock <= now[s] + SweepSpan

\* The row a sweeper holds still carries that sweeper's lease.
LeaseHeld ==
    \A s \in Sweepers :
      pc[s] \in Holding /\ status[row[s]] # "deleted" =>
        status[row[s]] \in Queued /\ retryAt[row[s]] = now[s] + Lease

\* The row of a test ping in flight is unscheduled.
TestUnscheduled ==
    testPc \in {"posting", "settling"} /\ status[testRow] # "deleted" =>
      status[testRow] = "pending" /\ retryAt[testRow] = Never /\ attempts[testRow] = 1

\* What redeliver() checked is still so when it writes.
RedeliverFresh ==
    \A o \in Operators :
      redeliver[o] # NoRow => status[redeliver[o]] \in Settled \cup {"deleted"}

\* A scheduled row has attempts left; a POST in flight is the next attempt.
AttemptsLeft ==
    /\ \A r \in Deliveries :
         status[r] \in Queued /\ retryAt[r] # Never => attempts[r] <= MaxRetries
    /\ \A s \in Sweepers :
         pc[s] \in {"posting", "settling"} => tries[s] <= MaxRetries + 1

Shape == TypeOK /\ HasRow

\* What holds of every deployment.
AcceptInv == Shape /\ OkWasAccepted /\ SentWasAccepted

\* What holds if sweeps fit the lease.
FitInv ==
    /\ Shape
    /\ SweepAge /\ LeaseHeld /\ TestUnscheduled /\ RedeliverFresh
    /\ AttemptsLeft /\ AttemptsBounded /\ ExclusiveClaim

-----------------------------------------------------------------------------
(* Types, and the rows that local variables point to *)

\* An update of one delivery row keeps the table typed.
LEMMA UpdateRowType ==
  ASSUME RowType, NEW r \in Deliveries, NEW st \in Status, NEW n \in Nat,
         NEW at \in Nat \cup {Never}, UpdateRow(r, st, n, at)
  PROVE  RowType'
BY DEF RowType, UpdateRow, rowVars

\* An update never brings an absent row into being, nor does it lose one.
LEMMA UpdateRowKeeps ==
  ASSUME RowType, NEW r \in Deliveries, NEW st \in Status \ {"absent"}, NEW n, NEW at,
         UpdateRow(r, st, n, at)
  PROVE  \A q \in Deliveries : status[q] # "absent" => status'[q] # "absent"
BY DEF RowType, UpdateRow, rowVars

\* Moving a sweep to its next statement keeps its label typed.
LEMMA GotoType ==
  ASSUME SweepType, NEW s \in Sweepers, NEW label \in SweepPc, Goto(s, label)
  PROVE  SweepType'
BY DEF SweepType, Goto

\* So does going on to the next row of the batch.
LEMMA RowDoneType ==
  ASSUME SweepType, NEW s \in Sweepers, RowDone(s)
  PROVE  SweepType'
BY DEF SweepType, RowDone, SweepPc, Outcome

\* A sweep that has returned holds nothing.
LEMMA SweepOverType ==
  ASSUME SweepType, NEW s \in Sweepers, SweepOver(s)
  PROVE  SweepType'
BY DEF SweepType, SweepOver, SweepPc, Outcome

\* An empty table has the shape.
LEMMA ShapeInit == Init => Shape
<1> SUFFICES ASSUME Init PROVE Shape
    OBVIOUS
<1>1. RowType /\ EndpointType /\ TestType
  BY DEF Init, RowType, EndpointType, TestType, Status, Outcome, Never
<1>2. SweepType
  BY DEF Init, SweepType, SweepPc, Outcome
<1>3. HasRow
  BY DEF Init, HasRow
<1> QED BY <1>1, <1>2, <1>3 DEF Init, Shape, TypeOK

\* The shape is inductive.
LEMMA ShapeStep == Shape /\ [Next]_vars => Shape'
<1> SUFFICES ASSUME Shape, [Next]_vars PROVE Shape'
    OBVIOUS
<1> USE ConstantsAssumption
    DEF Shape, TypeOK, HasRow
<1>1. CASE Tick
  BY <1>1 DEF Tick, RowType, EndpointType, SweepType, TestType, rowVars,
              endpointVars, sweepVars, testVars
<1>2. CASE Prune
  BY <1>2 DEF Prune, Prunable, DeleteRows, RowType, EndpointType, SweepType,
              TestType, Status, endpointVars, sweepVars, testVars
<1>3. CASE Enqueue
  <2> USE DEF RowType, EndpointType, SweepType, TestType, endpointVars, sweepVars, testVars
  <2>1. CASE ReadListeners
    BY <2>1 DEF ReadListeners, rowVars
  <2>2. CASE QueueCrash
    BY <2>2 DEF QueueCrash, rowVars
  <2>3. ASSUME NEW e \in Endpoints, QueueRefused(e) PROVE Shape'
    BY <2>3 DEF QueueRefused, rowVars
  <2>4. ASSUME NEW e \in Endpoints, NEW r \in Deliveries, QueueDelivery(e, r)
        PROVE Shape'
    BY <2>4 DEF QueueDelivery, CreateRow, Status, Queued
  <2> QED BY <1>3, <2>1, <2>2, <2>3, <2>4 DEF Enqueue
<1>4. CASE TestPing
  <2>1. ASSUME NEW r \in Deliveries, TestCreate(r) PROVE Shape'
    BY <2>1 DEF TestCreate, CreateRow, RowType, EndpointType, SweepType, TestType,
                Status, Queued, endpointVars, sweepVars
  <2>2. ASSUME NEW outcome \in {"success", "failure"}, TestAnswer(outcome)
        PROVE  Shape'
    BY <2>2 DEF TestAnswer, RowType, EndpointType, SweepType, TestType, Outcome,
                rowVars, endpointVars, sweepVars
  <2>3. CASE TestSettle
    <3> DEFINE st == IF testOutcome = "success" THEN "sent" ELSE "abandoned"
    <3>1. /\ testRow \in Deliveries /\ st \in Status \ {"absent"}
          /\ attempts[testRow] \in Nat
          /\ UpdateRow(testRow, st, attempts[testRow], Never)
      BY <2>3 DEF TestSettle, Status, Settled, RowType
    <3> HIDE DEF st
    <3>2. RowType'
      BY <3>1, UpdateRowType
    <3>3. EndpointType' /\ SweepType' /\ TestType'
      BY <2>3 DEF TestSettle, TestOver, TestType, EndpointType, SweepType, Outcome,
                  endpointVars, sweepVars
    <3>4. HasRow'
      BY <2>3, <3>1, UpdateRowKeeps, UpdateRowType DEF TestSettle, TestOver, sweepVars, SweepType
    <3> QED BY <2>3, <3>2, <3>3, <3>4 DEF TestSettle
  <2>4. CASE TestReset
    BY <2>4 DEF TestReset, TestOver, RowType, EndpointType, SweepType, TestType,
                Outcome, rowVars, sweepVars
  <2>5. CASE TestCrash
    BY <2>5 DEF TestCrash, TestOver, RowType, EndpointType, SweepType, TestType,
                Outcome, rowVars, endpointVars, sweepVars
  <2> QED BY <1>4, <2>1, <2>2, <2>3, <2>4, <2>5 DEF TestPing
<1>5. CASE Console
  <2>1. ASSUME NEW e \in Endpoints, Enable(e) \/ Disable(e) PROVE Shape'
    <3>1. EndpointType'
      BY <2>1 DEF Enable, Disable, EndpointType
    <3> QED BY <2>1, <3>1 DEF Enable, Disable, RowType, SweepType, TestType,
                              rowVars, sweepVars, testVars
  <2>2. ASSUME NEW e \in Endpoints, Remove(e) PROVE Shape'
    BY <2>2 DEF Remove, DeleteRows, RowType, EndpointType, SweepType, TestType,
                Status, sweepVars, testVars
  <2>3. ASSUME NEW o \in Operators, RedeliverWrite(o) PROVE Shape'
    <3>1. /\ redeliver[o] \in Deliveries /\ clock \in Nat
          /\ UpdateRow(redeliver[o], "pending", 0, clock)
      BY <2>3 DEF RedeliverWrite
    <3>2. RowType'
      BY <3>1, UpdateRowType DEF Status, Queued
    <3>3. EndpointType' /\ SweepType' /\ TestType'
      BY <2>3 DEF RedeliverWrite, EndpointType, SweepType, TestType,
                  endpointVars, sweepVars, testVars
    <3>4. HasRow'
      BY <2>3, <3>1, UpdateRowKeeps DEF RedeliverWrite, sweepVars, testVars,
                  SweepType, TestType, Status, Queued
    <3> QED BY <2>3, <3>2, <3>3, <3>4 DEF RedeliverWrite
  <2>4. ASSUME NEW o \in Operators, NEW r \in Deliveries, RedeliverCheck(o, r)
        PROVE Shape'
    BY <2>4 DEF RedeliverCheck, MayRedeliver, Settled, RowType, EndpointType,
                SweepType, TestType, rowVars, endpointVars, sweepVars, testVars
  <2> QED BY <1>5, <2>1, <2>2, <2>3, <2>4 DEF Console
<1>6. ASSUME NEW s \in Sweepers, StartSweep(s) \/ SweepCrash(s) \/ SweepStep(s)
      PROVE Shape'
  <2>a. /\ UNCHANGED rowVars => RowType'
        /\ UNCHANGED endpointVars => EndpointType'
        /\ UNCHANGED testVars => TestType'
    BY DEF RowType, EndpointType, TestType, rowVars, endpointVars, testVars
  <2>1. CASE StartSweep(s)
    <3>1. PICK batch \in SUBSET Deliveries :
            /\ IsBatch(batch)
            /\ todo' = [todo EXCEPT ![s] =
                 {[id |-> r, status |-> status[r], at |-> retryAt[r]] : r \in batch}]
      BY <2>1 DEF StartSweep
    <3>2. \A r \in batch : status[r] \in Queued /\ retryAt[r] \in Nat
      BY <3>1 DEF IsBatch, DueBy, RowType
    <3>3. {[id |-> r, status |-> status[r], at |-> retryAt[r]] : r \in batch}
            \in SUBSET Snapshot
      BY <3>2 DEF Snapshot
    <3>4. SweepType'
      BY <2>1, <3>1, <3>3 DEF StartSweep, SweepType, SweepPc
    <3>5. HasRow'
      BY <2>1 DEF StartSweep, SweepType, rowVars, testVars
    <3> QED BY <2>1, <2>a, <3>4, <3>5 DEF StartSweep
  <2>2. CASE SweepCrash(s) \/ FinishSweep(s)
    <3>1. SweepType'
      BY <2>2, SweepOverType DEF SweepCrash, FinishSweep
    <3>2. HasRow'
      BY <2>2 DEF SweepCrash, FinishSweep, SweepOver, SweepType, rowVars, testVars
    <3> QED BY <2>2, <2>a, <3>1, <3>2 DEF SweepCrash, FinishSweep
  <2>3. CASE Claim(s)
    <3>1. PICK q \in todo[s] :
            /\ CanClaim(s, q)
            /\ retryAt' = [retryAt EXCEPT ![q.id] = LeaseUntil(s)]
            /\ row' = [row EXCEPT ![s] = q.id]
            /\ todo' = [todo EXCEPT ![s] = @ \ {q}]
      BY <2>3 DEF Claim
    <3>2. q.id \in Deliveries /\ LeaseUntil(s) \in Nat
      BY DEF SweepType, Snapshot, LeaseUntil
    <3>3. RowType' /\ SweepType'
      BY <2>3, <3>1, <3>2 DEF Claim, RowType, SweepType, SweepPc
    <3>4. status[q.id] # "absent"
      BY <3>1 DEF CanClaim, DueBy, Queued
    <3>5. HasRow'
      BY <2>3, <3>1, <3>2, <3>4 DEF Claim, SweepType, testVars
    <3> QED BY <2>3, <2>a, <3>3, <3>5 DEF Claim
  <2>4. CASE ClaimMissed(s)
    BY <2>4, <2>a DEF ClaimMissed, SweepType, rowVars, testVars
  <2>5. CASE ReadClaimed(s)
    <3>1. row[s] \in Deliveries
      BY <2>5 DEF ReadClaimed
    <3>2. CASE RowDone(s)
      BY <2>5, <2>a, <3>2, RowDoneType DEF ReadClaimed, RowDone, SweepType, rowVars, testVars
    <3>3. CASE Goto(s, "dropping")
      BY <2>5, <2>a, <3>3, GotoType DEF ReadClaimed, Goto, SweepType, SweepPc, rowVars, testVars
    <3>4. CASE /\ pc' = [pc EXCEPT ![s] = "posting"]
               /\ tries' = [tries EXCEPT ![s] = attempts[row[s]] + 1]
               /\ UNCHANGED <<now, todo, row, answer>>
      <4>1. SweepType'
        BY <3>1, <3>4 DEF SweepType, SweepPc, RowType
      <4>2. HasRow'
        BY <2>5, <3>1, <3>4 DEF ReadClaimed, SweepType, RowType, rowVars, testVars
      <4> QED BY <2>5, <2>a, <4>1, <4>2 DEF ReadClaimed
    <3> QED BY <2>5, <3>2, <3>3, <3>4 DEF ReadClaimed
  <2>6. CASE Drop(s)
    <3>1. /\ row[s] \in Deliveries /\ attempts[row[s]] \in Nat
          /\ UpdateRow(row[s], "abandoned", attempts[row[s]], Never)
      BY <2>6 DEF Drop, RowType
    <3>2. RowType' /\ SweepType'
      BY <2>6, <3>1, UpdateRowType, RowDoneType DEF Drop, Status, Settled
    <3>3. HasRow'
      BY <2>6, <3>1, UpdateRowKeeps DEF Drop, RowDone, SweepType, Status, Settled, testVars
    <3> QED BY <2>6, <2>a, <3>2, <3>3 DEF Drop
  <2>7. ASSUME NEW outcome \in {"success", "failure"}, Answer(s, outcome)
        PROVE  Shape'
    <3>1. SweepType'
      BY <2>7 DEF Answer, SweepType, SweepPc, Outcome
    <3>2. HasRow'
      BY <2>7 DEF Answer, SweepType, rowVars, testVars
    <3> QED BY <2>7, <2>a, <3>1, <3>2 DEF Answer
  <2>8. CASE Settle(s)
    <3>1. row[s] \in Deliveries /\ tries[s] \in Nat /\ tries[s] >= 1
      BY <2>8 DEF Settle, SweepType
    <3>2. PICK st \in {"sent", "abandoned", "failed"}, at \in Nat \cup {Never} :
            UpdateRow(row[s], st, tries[s], at)
      <4>1. CASE answer[s] = "success"
        BY <2>8, <4>1 DEF Settle
      <4>2. CASE answer[s] = "failure" /\ GivesUp(tries[s])
        BY <2>8, <4>2 DEF Settle
      <4>3. CASE answer[s] = "failure" /\ ~GivesUp(tries[s])
        <5>1. now[s] + Backoff[tries[s]] \in Nat
          BY <3>1, <4>3 DEF GivesUp, SweepType
        <5> QED BY <2>8, <4>3, <5>1 DEF Settle
      <4> QED BY <2>8, <4>1, <4>2, <4>3 DEF Settle
    <3>3. RowType'
      BY <3>1, <3>2, UpdateRowType DEF Status, Queued, Settled
    <3>4. CASE RowDone(s)
      <4>1. HasRow'
        BY <2>8, <3>1, <3>2, <3>4, UpdateRowKeeps
           DEF Settle, RowDone, SweepType, Status, Queued, Settled, testVars
      <4> QED BY <2>8, <2>a, <3>3, <3>4, <4>1, RowDoneType DEF Settle
    <3>5. CASE \E label \in {"resetting", "counting"} : Goto(s, label)
      <4>1. SweepType'
        BY <3>5, GotoType DEF SweepPc
      <4>2. HasRow'
        BY <2>8, <3>1, <3>2, <3>5, UpdateRowKeeps
           DEF Settle, Goto, SweepType, Status, Queued, Settled, testVars
      <4> QED BY <2>8, <2>a, <3>3, <4>1, <4>2 DEF Settle
    <3> QED BY <2>8, <3>4, <3>5 DEF Settle
  <2>9. CASE ResetFailures(s) \/ DisableEndpoint(s)
    <3>1. SweepType' /\ EndpointType'
      BY <2>9, RowDoneType DEF ResetFailures, DisableEndpoint, EndpointType
    <3>2. HasRow'
      BY <2>9 DEF ResetFailures, DisableEndpoint, RowDone, SweepType, rowVars, testVars
    <3> QED BY <2>9, <2>a, <3>1, <3>2 DEF ResetFailures, DisableEndpoint
  <2>10. CASE CountFailure(s)
    <3>1. EndpointType'
      BY <2>10 DEF CountFailure, EndpointType
    <3>2. SweepType'
      BY <2>10, RowDoneType, GotoType DEF CountFailure, SweepPc
    <3>3. HasRow'
      BY <2>10 DEF CountFailure, RowDone, Goto, SweepType, rowVars, testVars
    <3> QED BY <2>10, <2>a, <3>1, <3>2, <3>3 DEF CountFailure
  <2> QED BY <1>6, <2>1, <2>2, <2>3, <2>4, <2>5, <2>6, <2>7, <2>8, <2>9, <2>10
          DEF SweepStep
<1>7. CASE UNCHANGED vars
  BY <1>7 DEF vars, RowType, EndpointType, SweepType, TestType, rowVars,
              endpointVars, sweepVars, testVars
<1> QED BY <1>1, <1>2, <1>3, <1>4, <1>5, <1>6, <1>7 DEF Next

\* Every reachable state of the outbox has the tables and local states of the
\* code: statuses, counters and timestamps stay in their ranges, and whatever a
\* sweep, a test or a redelivery works on is a row that was created.
THEOREM TypeCorrect == Spec => []TypeOK
<1>1. Shape => TypeOK
  BY DEF Shape
<1> QED BY <1>1, ShapeInit, ShapeStep, PTL DEF Spec

-----------------------------------------------------------------------------
(* A delivery reported as sent was accepted *)

\* Nothing is sent at first.
LEMMA AcceptInit == Init => AcceptInv
<1> SUFFICES ASSUME Init PROVE AcceptInv
    OBVIOUS
<1>1. OkWasAccepted /\ SentWasAccepted
  BY DEF Init, OkWasAccepted, SentWasAccepted
<1> QED BY <1>1, ShapeInit DEF AcceptInv

\* That successes about to be recorded were accepted is inductive.
LEMMA AcceptStep == AcceptInv /\ [Next]_vars => AcceptInv'
<1> SUFFICES ASSUME AcceptInv, [Next]_vars PROVE OkWasAccepted' /\ SentWasAccepted'
    BY ShapeStep DEF AcceptInv
<1> USE DEF AcceptInv, Shape, TypeOK, HasRow, OkWasAccepted, SentWasAccepted
<1>1. CASE Tick \/ Prune
  BY <1>1 DEF Tick, Prune, DeleteRows, rowVars, sweepVars, testVars
<1>2. CASE Enqueue
  BY <1>2 DEF Enqueue, ReadListeners, QueueCrash, QueueRefused, QueueDelivery,
              CreateRow, RowType, rowVars, sweepVars, testVars
<1>3. CASE TestPing
  <2>1. ASSUME NEW r \in Deliveries, TestCreate(r)
        PROVE  OkWasAccepted' /\ SentWasAccepted'
    BY <2>1 DEF TestCreate, CreateRow, RowType, sweepVars
  <2>2. ASSUME NEW outcome \in {"success", "failure"}, TestAnswer(outcome)
        PROVE  OkWasAccepted' /\ SentWasAccepted'
    BY <2>2 DEF TestAnswer, rowVars, sweepVars
  <2>3. CASE TestSettle
    BY <2>3 DEF TestSettle, TestOver, UpdateRow, RowType, rowVars, sweepVars
  <2>4. CASE TestReset \/ TestCrash
    BY <2>4 DEF TestReset, TestCrash, TestOver, rowVars, sweepVars
  <2> QED BY <1>3, <2>1, <2>2, <2>3, <2>4 DEF TestPing
<1>4. CASE Console
  <2>1. ASSUME NEW e \in Endpoints, Enable(e) \/ Disable(e) \/ Remove(e)
        PROVE  OkWasAccepted' /\ SentWasAccepted'
    BY <2>1 DEF Enable, Disable, Remove, DeleteRows, rowVars, sweepVars, testVars
  <2>2. ASSUME NEW o \in Operators, RedeliverWrite(o)
        PROVE  OkWasAccepted' /\ SentWasAccepted'
    BY <2>2 DEF RedeliverWrite, UpdateRow, RowType, rowVars, sweepVars, testVars
  <2>3. ASSUME NEW o \in Operators, NEW r \in Deliveries, RedeliverCheck(o, r)
        PROVE  OkWasAccepted' /\ SentWasAccepted'
    BY <2>3 DEF RedeliverCheck, rowVars, sweepVars, testVars
  <2> QED BY <1>4, <2>1, <2>2, <2>3 DEF Console
<1>5. ASSUME NEW s \in Sweepers, StartSweep(s) \/ SweepCrash(s) \/ SweepStep(s)
      PROVE  OkWasAccepted' /\ SentWasAccepted'
  <2>1. CASE StartSweep(s) \/ SweepCrash(s) \/ FinishSweep(s) \/ ClaimMissed(s)
    BY <2>1 DEF StartSweep, SweepCrash, FinishSweep, ClaimMissed, SweepOver,
                SweepType, rowVars, testVars
  <2>2. CASE Claim(s)
    BY <2>2 DEF Claim, SweepType, RowType, testVars
  <2>3. CASE ReadClaimed(s)
    BY <2>3 DEF ReadClaimed, RowDone, Goto, SweepType, rowVars, testVars
  <2>4. CASE Drop(s)
    BY <2>4 DEF Drop, RowDone, UpdateRow, SweepType, RowType, rowVars, testVars
  <2>5. ASSUME NEW outcome \in {"success", "failure"}, Answer(s, outcome)
        PROVE  OkWasAccepted' /\ SentWasAccepted'
    BY <2>5 DEF Answer, SweepType, rowVars, testVars
  <2>6. CASE Settle(s)
    BY <2>6 DEF Settle, RowDone, Goto, UpdateRow, SweepType, RowType, rowVars, testVars
  <2>7. CASE ResetFailures(s) \/ CountFailure(s) \/ DisableEndpoint(s)
    BY <2>7 DEF ResetFailures, CountFailure, DisableEndpoint, RowDone, Goto,
                SweepType, rowVars, testVars
  <2> QED BY <1>5, <2>1, <2>2, <2>3, <2>4, <2>5, <2>6, <2>7 DEF SweepStep
<1>6. CASE UNCHANGED vars
  BY <1>6 DEF vars, rowVars, sweepVars, testVars
<1> QED BY <1>1, <1>2, <1>3, <1>4, <1>5, <1>6 DEF Next

\* The delivery log never reports as sent what no receiver accepted: not after
\* crashes, overlapping sweeps, redeliveries or late answers, in any deployment.
THEOREM SentIsTrue == Spec => []SentWasAccepted
<1>1. AcceptInv => SentWasAccepted
  BY DEF AcceptInv
<1> QED BY <1>1, AcceptInit, AcceptStep, PTL DEF Spec

-----------------------------------------------------------------------------
(* Sweeps that fit the lease *)

\* Two rows that are in one of these stages are told apart by their schedule: a
\* held row carries a lease, a test in flight has none, a redelivered one is
\* settled.  This is what makes an update by id alone safe.
LEMMA HeldIsNotElsewhere ==
  ASSUME FitInv, NEW s \in Sweepers, pc[s] \in Holding, status[row[s]] # "deleted"
  PROVE  /\ row[s] \in Deliveries
         /\ \A o \in Operators : redeliver[o] # row[s]
         /\ testPc \in {"posting", "settling"} => testRow # row[s]
         /\ \A q \in Sweepers : q # s /\ pc[q] \in Holding => row[q] # row[s]
<1>1. row[s] \in Deliveries
  BY DEF FitInv, Shape, HasRow, Holding
<1>2. status[row[s]] \in Queued /\ retryAt[row[s]] = now[s] + Lease
  BY DEF FitInv, LeaseHeld
<1>3. now[s] + Lease # Never
  BY ConstantsAssumption DEF FitInv, Shape, TypeOK, SweepType, Never
<1>4. \A o \in Operators : redeliver[o] # row[s]
  BY <1>1, <1>2, ConstantsAssumption DEF FitInv, RedeliverFresh, Queued, Settled
<1>5. testPc \in {"posting", "settling"} => testRow # row[s]
  BY <1>1, <1>2, <1>3 DEF FitInv, TestUnscheduled
<1>6. \A q \in Sweepers : q # s /\ pc[q] \in Holding => row[q] # row[s]
  BY DEF FitInv, ExclusiveClaim
<1> QED BY <1>1, <1>4, <1>5, <1>6

\* No sweep runs at first.
LEMMA FitInit == Init => FitInv
<1> SUFFICES ASSUME Init PROVE FitInv
    OBVIOUS
<1>1. SweepAge /\ LeaseHeld /\ ExclusiveClaim
  BY DEF Init, SweepAge, LeaseHeld, ExclusiveClaim, Holding
<1>2. TestUnscheduled /\ RedeliverFresh
  BY DEF Init, TestUnscheduled, RedeliverFresh
<1>3. AttemptsLeft /\ AttemptsBounded
  BY ConstantsAssumption DEF Init, AttemptsLeft, AttemptsBounded, Never
<1> QED BY <1>1, <1>2, <1>3, ShapeInit DEF FitInv

\* While sweeps fit in the lease, exclusion with its strengthening is inductive.
LEMMA FitStep ==
  ASSUME SweepsFit
  PROVE  FitInv /\ [Next]_vars => FitInv'
<1> DEFINE Rest == /\ SweepAge /\ LeaseHeld /\ TestUnscheduled /\ RedeliverFresh
                   /\ AttemptsLeft /\ AttemptsBounded /\ ExclusiveClaim
<1> SUFFICES ASSUME FitInv, [Next]_vars PROVE Rest'
    BY ShapeStep DEF FitInv
<1>t. TypeOK /\ HasRow /\ Rest
  BY DEF FitInv, Shape
<1> USE ConstantsAssumption
<1>1. CASE Tick
  BY <1>1, <1>t DEF Tick, SweepAge, LeaseHeld, TestUnscheduled, RedeliverFresh,
     AttemptsLeft, AttemptsBounded, ExclusiveClaim, TypeOK, SweepType,
     rowVars, sweepVars, testVars
<1>2. ASSUME NEW rows \in SUBSET Deliveries, DeleteRows(rows),
             UNCHANGED <<clock, sweepVars, testVars, redeliver>>
      PROVE  Rest'
  BY <1>2, <1>t DEF DeleteRows, SweepAge, LeaseHeld, TestUnscheduled, RedeliverFresh,
     AttemptsLeft, AttemptsBounded, ExclusiveClaim, TypeOK, HasRow, RowType, SweepType,
     Holding, Queued, sweepVars, testVars
<1>3. ASSUME NEW r \in Deliveries, NEW n \in Nat, NEW at \in {clock, Never},
             CreateRow(r, n, at), UNCHANGED <<clock, sweepVars, redeliver>>,
             n <= MaxRetries + 1, at # Never => n <= MaxRetries,
             \/ UNCHANGED testVars
             \/ testPc = "idle" /\ testRow' = r /\ at = Never /\ n = 1
      PROVE  Rest'
  <2> USE DEF TypeOK, RowType
  <2>1. \A q \in Deliveries : q # r => /\ status'[q] = status[q]
                                       /\ retryAt'[q] = retryAt[q]
                                       /\ attempts'[q] = attempts[q]
    BY <1>3, <1>t DEF CreateRow
  <2>2. status[r] = "absent" /\ status'[r] = "pending" /\ attempts'[r] = n /\ retryAt'[r] = at
    BY <1>3, <1>t DEF CreateRow
  <2>3. SweepAge' /\ ExclusiveClaim'
    BY <1>3, <1>t DEF SweepAge, ExclusiveClaim, sweepVars
  <2>4. LeaseHeld'
    BY <1>3, <1>t, <2>1, <2>2 DEF LeaseHeld, HasRow, Holding, sweepVars
  <2>5. TestUnscheduled' /\ RedeliverFresh'
    BY <1>3, <1>t, <2>1, <2>2 DEF TestUnscheduled, RedeliverFresh, HasRow, testVars
  <2>6. AttemptsLeft' /\ AttemptsBounded'
    BY <1>3, <1>t, <2>1, <2>2 DEF AttemptsLeft, AttemptsBounded, sweepVars
  <2> QED BY <2>3, <2>4, <2>5, <2>6
\* A row nobody holds, in particular one being redelivered or tested, moves.
<1>4. ASSUME NEW r \in Deliveries, NEW st \in Status, NEW n \in Nat,
             NEW at \in Nat \cup {Never}, UpdateRow(r, st, n, at),
             UNCHANGED clock, SweepAge',
             n <= MaxRetries + 1,
             st \in Queued /\ at # Never => n <= MaxRetries,
             \A q \in Sweepers : pc'[q] \in Holding =>
               /\ pc[q] \in Holding /\ now'[q] = now[q] /\ row'[q] = row[q]
               /\ tries'[q] = tries[q]
               /\ pc'[q] \in {"posting", "settling"} => pc[q] \in {"posting", "settling"}
               /\ status[r] # "deleted" => row[q] # r,
             testPc' \in {"posting", "settling"} =>
               /\ UNCHANGED testVars
               /\ status[r] # "deleted" => testRow # r,
             \A o \in Operators : redeliver'[o] # NoRow =>
               /\ redeliver'[o] = redeliver[o]
               /\ status[r] # "deleted" => redeliver[o] # r
      PROVE  Rest'
  <2> USE DEF TypeOK, RowType
  <2>0. \/ status[r] = "deleted" /\ UNCHANGED rowVars
        \/ /\ status[r] # "deleted"
           /\ \A q \in Deliveries : q # r => /\ status'[q] = status[q]
                                             /\ retryAt'[q] = retryAt[q]
                                             /\ attempts'[q] = attempts[q]
           /\ status'[r] = st /\ attempts'[r] = n /\ retryAt'[r] = at
    BY <1>4, <1>t DEF UpdateRow
  <2>1. ExclusiveClaim'
    BY <1>4, <1>t DEF ExclusiveClaim
  <2>2. LeaseHeld'
    <3> SUFFICES ASSUME NEW q \in Sweepers, pc'[q] \in Holding,
                        status'[row'[q]] # "deleted"
                 PROVE  /\ status'[row'[q]] \in Queued
                        /\ retryAt'[row'[q]] = now'[q] + Lease
      BY DEF LeaseHeld
    <3>1. /\ pc[q] \in Holding /\ row'[q] = row[q] /\ now'[q] = now[q]
          /\ row[q] \in Deliveries
      BY <1>4, <1>t DEF HasRow, Holding
    <3>2. status'[row[q]] = status[row[q]] /\ retryAt'[row[q]] = retryAt[row[q]]
      BY <1>4, <2>0, <3>1 DEF rowVars
    <3> QED BY <1>t, <3>1, <3>2 DEF LeaseHeld
  <2>3. TestUnscheduled'
    BY <1>4, <1>t, <2>0 DEF TestUnscheduled, HasRow, testVars, rowVars
  <2>4. RedeliverFresh'
    BY <1>4, <1>t, <2>0 DEF RedeliverFresh, rowVars
  <2>5. AttemptsLeft' /\ AttemptsBounded'
    <3>1. \A q \in Deliveries :
            /\ status'[q] \in Queued /\ retryAt'[q] # Never => attempts'[q] <= MaxRetries
            /\ attempts'[q] <= MaxRetries + 1
      <4> SUFFICES ASSUME NEW q \in Deliveries
                   PROVE  /\ status'[q] \in Queued /\ retryAt'[q] # Never
                             => attempts'[q] <= MaxRetries
                          /\ attempts'[q] <= MaxRetries + 1
        OBVIOUS
      <4>1. CASE q = r /\ status[r] # "deleted"
        BY <1>4, <2>0, <4>1
      <4>2. CASE q # r \/ status[r] = "deleted"
        BY <1>t, <2>0, <4>2 DEF AttemptsLeft, AttemptsBounded, rowVars
      <4> QED BY <4>1, <4>2
    <3>2. \A q \in Sweepers :
            pc'[q] \in {"posting", "settling"} => tries'[q] <= MaxRetries + 1
      BY <1>4, <1>t DEF AttemptsLeft, Holding
    <3> QED BY <3>1, <3>2 DEF AttemptsLeft, AttemptsBounded
  <2> QED BY <1>4, <2>1, <2>2, <2>3, <2>4, <2>5
<1>5. CASE Prune
  <2>1. Prunable \in SUBSET Deliveries
    BY DEF Prunable
  <2> QED BY <1>2, <1>5, <2>1 DEF Prune
<1>6. CASE Enqueue
  <2>1. CASE ReadListeners \/ QueueCrash \/ \E e \in Endpoints : QueueRefused(e)
    BY <2>1, <1>t DEF ReadListeners, QueueCrash, QueueRefused, SweepAge, LeaseHeld,
       TestUnscheduled, RedeliverFresh, AttemptsLeft, AttemptsBounded, ExclusiveClaim,
       rowVars, sweepVars, testVars
  <2>2. ASSUME NEW e \in Endpoints, NEW r \in Deliveries, QueueDelivery(e, r)
        PROVE  Rest'
    BY <2>2, <1>3, <1>t DEF QueueDelivery
  <2> QED BY <1>6, <2>1, <2>2 DEF Enqueue
<1>7. CASE TestPing
  <2>0. SweepAge' /\ (UNCHANGED rowVars => Rest')
    BY <1>7, <1>t DEF TestPing, TestCreate, TestAnswer, TestSettle, TestReset,
       TestCrash, TestOver, SweepAge, LeaseHeld, TestUnscheduled, RedeliverFresh,
       AttemptsLeft, AttemptsBounded, ExclusiveClaim, CreateRow, RowType, TypeOK,
       rowVars, sweepVars
  <2>1. ASSUME NEW r \in Deliveries, TestCreate(r) PROVE Rest'
    BY <2>1, <1>3, <1>t DEF TestCreate, Never, TypeOK
  <2>2. CASE TestSettle
    <3> DEFINE st == IF testOutcome = "success" THEN "sent" ELSE "abandoned"
    <3>1. /\ testRow \in Deliveries /\ st \in Status /\ st \notin Queued
          /\ attempts[testRow] \in Nat /\ attempts[testRow] <= MaxRetries + 1
          /\ UpdateRow(testRow, st, attempts[testRow], Never)
          /\ testPc' \notin {"posting", "settling"}
          /\ UNCHANGED <<clock, sweepVars, redeliver>>
      BY <2>2, <1>t DEF TestSettle, TestOver, Status, Queued, Settled, RowType,
                        TypeOK, HasRow, AttemptsBounded
    <3>2. status[testRow] # "deleted" =>
            /\ status[testRow] = "pending" /\ retryAt[testRow] = Never
            /\ \A q \in Sweepers : pc[q] \in Holding => row[q] # testRow
            /\ \A o \in Operators : redeliver[o] # testRow
      <4> SUFFICES ASSUME status[testRow] # "deleted"
                   PROVE  /\ status[testRow] = "pending" /\ retryAt[testRow] = Never
                          /\ \A q \in Sweepers : pc[q] \in Holding => row[q] # testRow
                          /\ \A o \in Operators : redeliver[o] # testRow
        OBVIOUS
      <4>1. testPc = "settling"
        BY <2>2 DEF TestSettle
      <4> QED BY <4>1, HeldIsNotElsewhere, <1>t, <3>1
                 DEF TestUnscheduled, RedeliverFresh, Settled
    <3> HIDE DEF st
    <3> QED BY <1>4, <2>0, <3>1, <3>2 DEF sweepVars
  <2>3. CASE \/ \E outcome \in {"success", "failure"} : TestAnswer(outcome)
             \/ TestReset \/ TestCrash
    BY <2>0, <2>3 DEF TestAnswer, TestReset, TestCrash
  <2> QED BY <1>7, <2>1, <2>2, <2>3 DEF TestPing
<1>8. CASE Console
  <2>1. ASSUME NEW e \in Endpoints, Enable(e) \/ Disable(e) PROVE Rest'
    BY <2>1, <1>t DEF Enable, Disable, SweepAge, LeaseHeld,
       TestUnscheduled, RedeliverFresh, AttemptsLeft, AttemptsBounded, ExclusiveClaim,
       rowVars, sweepVars, testVars
  <2>2. ASSUME NEW e \in Endpoints, Remove(e) PROVE Rest'
    <3>1. {r \in Deliveries : EndpointOf[r] = e /\ status[r] # "absent"}
            \in SUBSET Deliveries
      OBVIOUS
    <3> QED BY <1>2, <2>2, <3>1 DEF Remove
  <2>3. ASSUME NEW o \in Operators, NEW r \in Deliveries, RedeliverCheck(o, r)
        PROVE  Rest'
    BY <2>3, <1>t DEF RedeliverCheck, MayRedeliver, SweepAge, LeaseHeld,
       TestUnscheduled, RedeliverFresh, AttemptsLeft, AttemptsBounded, ExclusiveClaim,
       TypeOK, rowVars, sweepVars, testVars
  <2>4. ASSUME NEW o \in Operators, RedeliverWrite(o) PROVE Rest'
    <3> DEFINE r == redeliver[o]
    <3>1. /\ r \in Deliveries /\ UpdateRow(r, "pending", 0, clock)
          /\ UNCHANGED <<clock, sweepVars, testVars>>
          /\ \A p \in Operators : redeliver'[p] = NoRow
      BY <2>4, <1>t DEF RedeliverWrite, TypeOK, SweepsFit
    <3>2. status[r] # "deleted" =>
            /\ \A q \in Sweepers : pc[q] \in Holding => row[q] # r
            /\ testPc \in {"posting", "settling"} => testRow # r
      BY <1>t, <3>1, HeldIsNotElsewhere
         DEF RedeliverFresh, TestUnscheduled, Settled
    <3>3. SweepAge'
      BY <1>t, <3>1 DEF SweepAge, sweepVars
    <3> HIDE DEF r
    <3>4. 0 <= MaxRetries /\ 0 <= MaxRetries + 1 /\ clock \in Nat /\ "pending" \in Status
      BY <1>t DEF TypeOK, Status, Queued
    <3>5. \A q \in Sweepers : pc'[q] \in Holding =>
               /\ pc[q] \in Holding /\ now'[q] = now[q] /\ row'[q] = row[q]
               /\ tries'[q] = tries[q]
               /\ pc'[q] \in {"posting", "settling"} => pc[q] \in {"posting", "settling"}
               /\ status[r] # "deleted" => row[q] # r
      BY <3>1, <3>2 DEF sweepVars
    <3>6. testPc' \in {"posting", "settling"} =>
            UNCHANGED testVars /\ (status[r] # "deleted" => testRow # r)
      BY <3>1, <3>2 DEF testVars
    <3>7. \A p \in Operators : redeliver'[p] # NoRow =>
               /\ redeliver'[p] = redeliver[p]
               /\ status[r] # "deleted" => redeliver[p] # r
      BY <3>1
    <3> QED BY <1>4, <3>1, <3>3, <3>4, <3>5, <3>6, <3>7
  <2> QED BY <1>8, <2>1, <2>2, <2>3, <2>4 DEF Console
<1>9. ASSUME NEW s \in Sweepers, StartSweep(s) \/ SweepCrash(s) \/ SweepStep(s)
      PROVE  Rest'
  <2>1. CASE \/ StartSweep(s) \/ SweepCrash(s) \/ FinishSweep(s) \/ ClaimMissed(s)
             \/ ResetFailures(s) \/ CountFailure(s) \/ DisableEndpoint(s)
    <3>1. UNCHANGED <<clock, rowVars, testVars, redeliver>>
      BY <2>1 DEF StartSweep, SweepCrash, FinishSweep, ClaimMissed, ResetFailures,
                  CountFailure, DisableEndpoint
    <3>2. \A q \in Sweepers :
            /\ pc'[q] \in Holding => pc[q] \in Holding /\ pc'[q] = pc[q]
                                     /\ row'[q] = row[q] /\ tries'[q] = tries[q]
            /\ pc'[q] # "idle" => \/ pc[q] # "idle" /\ now'[q] = now[q]
                                  \/ pc'[q] \notin Holding /\ now'[q] = clock
      BY <2>1, <1>t DEF StartSweep, SweepCrash, FinishSweep, ClaimMissed, ResetFailures,
                  CountFailure, DisableEndpoint, SweepOver, RowDone, Goto, TypeOK,
                  SweepType, Holding
    <3>3. SweepAge'
      BY <3>1, <3>2, <1>t DEF SweepAge, TypeOK
    <3>4. LeaseHeld' /\ ExclusiveClaim'
      BY <3>1, <3>2, <1>t DEF LeaseHeld, ExclusiveClaim, Holding, rowVars
    <3>5. TestUnscheduled' /\ RedeliverFresh' /\ AttemptsBounded'
      BY <3>1, <1>t DEF TestUnscheduled, RedeliverFresh, AttemptsBounded, rowVars, testVars
    <3>6. AttemptsLeft'
      BY <3>1, <3>2, <1>t DEF AttemptsLeft, Holding, rowVars
    <3> QED BY <3>3, <3>4, <3>5, <3>6
  <2>2. CASE Claim(s)
    <3>1. PICK c \in todo[s] :
            /\ CanClaim(s, c)
            /\ retryAt' = [retryAt EXCEPT ![c.id] = LeaseUntil(s)]
            /\ row' = [row EXCEPT ![s] = c.id]
            /\ todo' = [todo EXCEPT ![s] = @ \ {c}]
      BY <2>2 DEF Claim
    <3> DEFINE r == c.id
    <3>2. /\ r \in Deliveries /\ status[r] \in Queued
          /\ retryAt[r] # Never /\ retryAt[r] <= now[s]
      BY <1>t, <3>1 DEF TypeOK, SweepType, Snapshot, CanClaim, DueBy
    <3>3. /\ UNCHANGED <<clock, status, attempts, now, tries, testVars, redeliver>>
          /\ pc' = [pc EXCEPT ![s] = "claimed"] /\ pc[s] = "rows"
      BY <2>2 DEF Claim
    <3> HIDE DEF r
    \* The row is due by the start of this sweep, so no running sweep has it.
    <3>4. \A q \in Sweepers : pc[q] \in Holding => row[q] # r
      <4> SUFFICES ASSUME NEW q \in Sweepers, pc[q] \in Holding, row[q] = r PROVE FALSE
        OBVIOUS
      <4>1. retryAt[r] = now[q] + Lease
        BY <1>t, <3>2 DEF LeaseHeld, Queued
      <4>2. now[s] <= clock /\ clock <= now[q] + SweepSpan
        BY <1>t, <3>3 DEF SweepAge, Holding
      <4>3. now[s] \in Nat /\ now[q] \in Nat /\ clock \in Nat
        BY <1>t DEF TypeOK, SweepType
      <4> QED BY <3>2, <4>1, <4>2, <4>3 DEF SweepsFit
    <3>5. /\ retryAt'[r] = now[s] + Lease
          /\ \A p \in Deliveries : p # r => retryAt'[p] = retryAt[p]
          /\ row'[s] = r /\ pc'[s] = "claimed"
          /\ \A q \in Sweepers : q # s => row'[q] = row[q] /\ pc'[q] = pc[q]
      BY <1>t, <3>1, <3>2, <3>3 DEF TypeOK, RowType, SweepType, LeaseUntil, r
    <3>6. SweepAge' /\ RedeliverFresh' /\ AttemptsBounded'
      BY <1>t, <3>3, <3>5 DEF SweepAge, RedeliverFresh, AttemptsBounded
    <3>7. ExclusiveClaim'
      BY <1>t, <3>4, <3>5 DEF ExclusiveClaim
    <3>8. LeaseHeld'
      BY <1>t, <3>2, <3>3, <3>4, <3>5 DEF LeaseHeld, HasRow, Holding
    <3>9. TestUnscheduled'
      BY <1>t, <3>2, <3>3, <3>5 DEF TestUnscheduled, HasRow, testVars
    <3>10. AttemptsLeft'
      BY <1>t, <3>2, <3>3, <3>5 DEF AttemptsLeft
    <3> QED BY <3>6, <3>7, <3>8, <3>9, <3>10
  <2>3. CASE ReadClaimed(s) \/ \E outcome \in {"success", "failure"} : Answer(s, outcome)
    <3>1. /\ UNCHANGED <<clock, rowVars, testVars, redeliver, now>>
          /\ pc[s] \in {"claimed", "posting"}
      BY <2>3 DEF ReadClaimed, Answer, RowDone, Goto
    <3>2. \A q \in Sweepers :
            /\ pc'[q] \in Holding => pc[q] \in Holding /\ row'[q] = row[q]
            /\ pc'[q] # "idle" => pc[q] # "idle"
            /\ pc'[q] \in {"posting", "settling"} =>
                 \/ pc[q] \in {"posting", "settling"} /\ tries'[q] = tries[q]
                 \/ /\ q = s /\ status[row[s]] # "deleted" /\ pc[s] = "claimed"
                    /\ tries'[q] = attempts[row[s]] + 1
      BY <2>3, <1>t DEF ReadClaimed, Answer, RowDone, Goto, TypeOK, SweepType, Holding
    <3>3. SweepAge' /\ LeaseHeld' /\ ExclusiveClaim'
      BY <1>t, <3>1, <3>2 DEF SweepAge, LeaseHeld, ExclusiveClaim, rowVars
    <3>4. TestUnscheduled' /\ RedeliverFresh' /\ AttemptsBounded'
      BY <3>1, <1>t DEF TestUnscheduled, RedeliverFresh, AttemptsBounded, rowVars, testVars
    <3>5. pc[s] = "claimed" /\ status[row[s]] # "deleted" =>
            attempts[row[s]] \in Nat /\ attempts[row[s]] <= MaxRetries
      <4> SUFFICES ASSUME pc[s] = "claimed", status[row[s]] # "deleted"
                   PROVE  attempts[row[s]] \in Nat /\ attempts[row[s]] <= MaxRetries
        OBVIOUS
      <4>1. row[s] \in Deliveries
        BY <1>t DEF HasRow
      <4>2. status[row[s]] \in Queued /\ retryAt[row[s]] = now[s] + Lease
        BY <1>t DEF LeaseHeld, Holding
      <4>3. now[s] + Lease # Never
        BY <1>t DEF TypeOK, SweepType, Never
      <4> QED BY <1>t, <4>1, <4>2, <4>3 DEF AttemptsLeft, TypeOK, RowType
    <3>6. AttemptsLeft'
      BY <1>t, <3>1, <3>2, <3>5 DEF AttemptsLeft, rowVars
    <3> QED BY <3>3, <3>4, <3>6
  <2>4. CASE Drop(s) \/ Settle(s)
    <3>1. pc[s] \in {"dropping", "settling"} /\ row[s] \in Deliveries
      BY <2>4, <1>t DEF Drop, Settle, HasRow
    <3>2. /\ UNCHANGED <<clock, testVars, redeliver, now>>
          /\ \A q \in Sweepers : /\ q # s => /\ pc'[q] = pc[q] /\ row'[q] = row[q]
                                             /\ tries'[q] = tries[q]
                                 /\ pc'[s] \notin Holding \cup {"idle"}
      BY <2>4, <1>t DEF Drop, Settle, RowDone, Goto, TypeOK, SweepType, Holding
    <3>3. SweepAge'
      BY <1>t, <3>1, <3>2 DEF SweepAge
    <3>4. status[row[s]] # "deleted" =>
            /\ \A o \in Operators : redeliver[o] # row[s]
            /\ testPc \in {"posting", "settling"} => testRow # row[s]
            /\ \A q \in Sweepers : q # s /\ pc[q] \in Holding => row[q] # row[s]
      BY <3>1, HeldIsNotElsewhere DEF Holding
    <3>5. PICK st \in Status, n \in Nat, at \in Nat \cup {Never} :
            /\ UpdateRow(row[s], st, n, at)
            /\ n <= MaxRetries + 1
            /\ st \in Queued /\ at # Never => n <= MaxRetries
      <4>1. CASE Drop(s)
        BY <4>1, <1>t, <3>1 DEF Drop, Status, Settled, Queued, TypeOK, RowType, AttemptsBounded
      <4>2. CASE Settle(s) /\ answer[s] = "success"
        BY <4>2, <1>t, <3>1 DEF Settle, Status, Settled, Queued, TypeOK, SweepType, AttemptsLeft
      <4>3. CASE Settle(s) /\ answer[s] = "failure" /\ GivesUp(tries[s])
        BY <4>3, <1>t, <3>1 DEF Settle, Status, Settled, Queued, TypeOK, SweepType, AttemptsLeft
      <4>4. CASE Settle(s) /\ answer[s] = "failure" /\ ~GivesUp(tries[s])
        <5>1. tries[s] \in Nat /\ tries[s] >= 1 /\ tries[s] <= MaxRetries
          BY <4>4, <1>t DEF Settle, GivesUp, HasRow, TypeOK, SweepType
        <5>2. now[s] + Backoff[tries[s]] \in Nat
          BY <1>t, <5>1 DEF TypeOK, SweepType
        <5>3. UpdateRow(row[s], "failed", tries[s], now[s] + Backoff[tries[s]])
          BY <4>4 DEF Settle
        <5>4. "failed" \in Status /\ tries[s] <= MaxRetries + 1
          BY <5>1 DEF Status, Queued
        <5> QED BY <5>1, <5>2, <5>3, <5>4
      <4> QED BY <2>4, <4>1, <4>2, <4>3, <4>4 DEF Settle
    <3>6. \A q \in Sweepers : pc'[q] \in Holding =>
               /\ pc[q] \in Holding /\ now'[q] = now[q] /\ row'[q] = row[q]
               /\ tries'[q] = tries[q]
               /\ pc'[q] \in {"posting", "settling"} => pc[q] \in {"posting", "settling"}
               /\ status[row[s]] # "deleted" => row[q] # row[s]
      BY <3>2, <3>4
    <3> QED BY <1>4, <3>1, <3>2, <3>3, <3>4, <3>5, <3>6 DEF testVars
  <2> QED BY <1>9, <2>1, <2>2, <2>3, <2>4 DEF SweepStep
<1>10. CASE UNCHANGED vars
  BY <1>10, <1>t DEF vars, SweepAge, LeaseHeld, TestUnscheduled, RedeliverFresh,
     AttemptsLeft, AttemptsBounded, ExclusiveClaim, rowVars, sweepVars, testVars
<1> QED BY <1>1, <1>5, <1>6, <1>7, <1>8, <1>9, <1>10 DEF Next

\* If every sweep ends within the lease and redeliveries come one at a time, two
\* sweeps never work on the same delivery, with any number of replicas, rows,
\* crashes and retries.
THEOREM ClaimsAreExclusive ==
  ASSUME SweepsFit
  PROVE  Spec => []ExclusiveClaim
<1>1. FitInv => ExclusiveClaim
  BY DEF FitInv
<1> QED BY <1>1, FitInit, FitStep, PTL DEF Spec

\* Under the same condition no delivery is attempted more often than
\* MAX_DELIVERY_RETRIES allows.
THEOREM AttemptsAreBounded ==
  ASSUME SweepsFit
  PROVE  Spec => []AttemptsBounded
<1>1. FitInv => AttemptsBounded
  BY DEF FitInv
<1> QED BY <1>1, FitInit, FitStep, PTL DEF Spec

\* Under the same condition the outcome in the delivery log is final: no late
\* answer of a slow sweep turns a sent or abandoned delivery into another.
THEOREM OutcomesAreFinal ==
  ASSUME SweepsFit
  PROVE  Spec => OutcomeIsFinal
<1> DEFINE Final == \A r \in Deliveries :
              status[r] \in Settled /\ status'[r] # status[r]
              => \/ status'[r] = "deleted"
                 \/ \E o \in Operators : redeliver[o] = r /\ redeliver'[o] = NoRow
<1>1. FitInv /\ [Next]_vars => [Final]_vars
  <2> SUFFICES ASSUME FitInv, Next, NEW r \in Deliveries,
                      status[r] \in Settled, status'[r] # status[r]
               PROVE  \/ status'[r] = "deleted"
                      \/ \E o \in Operators : redeliver[o] = r /\ redeliver'[o] = NoRow
    BY DEF vars
  <2>t. TypeOK /\ HasRow
    BY DEF FitInv, Shape
  <2> USE DEF TypeOK, RowType
  <2>1. CASE Prune \/ \E e \in Endpoints : Remove(e)
    BY <2>1, <2>t DEF Prune, Remove, DeleteRows
  <2>2. ASSUME NEW q \in Deliveries, NEW n, NEW at, CreateRow(q, n, at) PROVE FALSE
    BY <2>2, <2>t DEF CreateRow, Settled
  <2>3. CASE TestSettle
    <3>1. CASE status[testRow] = "deleted"
      BY <2>3, <2>t, <3>1 DEF TestSettle, UpdateRow, rowVars
    <3>2. CASE status[testRow] # "deleted"
      <4>1. status[testRow] = "pending" /\ testRow \in Deliveries
        BY <2>3, <2>t, <3>2 DEF FitInv, TestUnscheduled, TestSettle, HasRow
      <4> QED BY <2>3, <2>t, <4>1 DEF TestSettle, UpdateRow, rowVars, Settled
    <3> QED BY <3>1, <3>2
  <2>4. ASSUME NEW s \in Sweepers, Drop(s) \/ Settle(s) PROVE FALSE
    <3>1. pc[s] \in Holding /\ row[s] \in Deliveries
      BY <2>4, <2>t DEF Drop, Settle, Holding, HasRow
    <3>2. status[row[s]] = "deleted" \/ status[row[s]] \in Queued
      BY <3>1 DEF FitInv, LeaseHeld
    <3>3. row[s] # r
      BY <3>2 DEF Queued, Settled
    <3> QED BY <2>4, <2>t, <3>1, <3>3 DEF Drop, Settle, UpdateRow, rowVars
  <2>5. ASSUME NEW o \in Operators, RedeliverWrite(o)
        PROVE  redeliver[o] = r /\ redeliver'[o] = NoRow
    BY <2>5, <2>t DEF RedeliverWrite, UpdateRow, rowVars
  <2>6. status' # status
    OBVIOUS
  <2>7. CASE Enqueue
    BY <2>7, <2>2, <2>6 DEF Enqueue, ReadListeners, QueueCrash, QueueRefused,
                            QueueDelivery, rowVars
  <2>8. CASE TestPing
    BY <2>8, <2>2, <2>3, <2>6 DEF TestPing, TestCreate, TestAnswer, TestReset, TestCrash, rowVars
  <2>9. CASE Console
    BY <2>9, <2>1, <2>5, <2>6 DEF Console, Enable, Disable, RedeliverCheck, rowVars
  <2>10. ASSUME NEW s \in Sweepers, StartSweep(s) \/ SweepCrash(s) \/ SweepStep(s)
         PROVE  FALSE
    BY <2>10, <2>4, <2>6 DEF SweepStep, StartSweep, SweepCrash, Claim, ClaimMissed,
       ReadClaimed, Answer, ResetFailures, CountFailure, DisableEndpoint, FinishSweep, rowVars
  <2>11. ~Tick
    BY <2>6 DEF Tick, rowVars
  <2> QED BY <2>1, <2>7, <2>8, <2>9, <2>10, <2>11 DEF Next
<1> QED BY <1>1, FitInit, FitStep, PTL DEF Spec, OutcomeIsFinal

-----------------------------------------------------------------------------
(* Nothing falls out of the queue *)

\* Every statement that leaves a row waiting gives it a time, except the insert
\* of a test ping.
LEMMA ScheduledStep == Shape /\ QueuedIsScheduled /\ [Next]_vars => QueuedIsScheduled'
<1> SUFFICES ASSUME Shape, QueuedIsScheduled, [Next]_vars PROVE QueuedIsScheduled'
    OBVIOUS
<1>t. TypeOK /\ HasRow /\ TypeOK'
  BY ShapeStep DEF Shape
<1> USE DEF QueuedIsScheduled
<1>1. CASE UNCHANGED rowVars
  BY <1>1 DEF rowVars
<1>2. ASSUME NEW rows \in SUBSET Deliveries, DeleteRows(rows) PROVE QueuedIsScheduled'
  BY <1>2, <1>t DEF DeleteRows, Queued, TypeOK, RowType
<1>3. ASSUME NEW r \in Deliveries, NEW n \in Nat, NEW at \in Nat \cup {Never},
             CreateRow(r, n, at), at = Never => n = 1
      PROVE  QueuedIsScheduled'
  BY <1>3, <1>t DEF CreateRow, TypeOK, RowType
<1>4. ASSUME NEW r \in Deliveries, NEW st \in Status, NEW n \in Nat, NEW at,
             UpdateRow(r, st, n, at), st \in Queued => at \in Nat
      PROVE  QueuedIsScheduled'
  BY <1>4, <1>1, <1>t DEF UpdateRow, TypeOK, RowType, Never
<1>5. CASE Prune \/ \E e \in Endpoints : Remove(e)
  BY <1>5, <1>2 DEF Prune, Prunable, Remove
<1>6. ASSUME NEW e \in Endpoints, NEW r \in Deliveries, QueueDelivery(e, r)
      PROVE  QueuedIsScheduled'
  BY <1>6, <1>t, <1>3 DEF QueueDelivery, TypeOK, Never
<1>7. ASSUME NEW r \in Deliveries, TestCreate(r) PROVE QueuedIsScheduled'
  BY <1>7, <1>3 DEF TestCreate
<1>8. CASE TestSettle
  <2>1. testRow \in Deliveries /\ attempts[testRow] \in Nat
    BY <1>8, <1>t DEF TestSettle, HasRow, TypeOK, RowType
  <2> QED BY <1>8, <2>1, <1>4 DEF TestSettle, Status, Settled, Queued
<1>9. ASSUME NEW o \in Operators, RedeliverWrite(o) PROVE QueuedIsScheduled'
  BY <1>9, <1>t, <1>4 DEF RedeliverWrite, TypeOK, Status, Queued
<1>10. ASSUME NEW s \in Sweepers, Claim(s) PROVE QueuedIsScheduled'
  <2>1. PICK q \in todo[s] : retryAt' = [retryAt EXCEPT ![q.id] = LeaseUntil(s)]
    BY <1>10 DEF Claim
  <2>2. LeaseUntil(s) # Never
    BY <1>t, ConstantsAssumption DEF LeaseUntil, TypeOK, SweepType, Never
  <2> QED BY <1>10, <1>t, <2>1, <2>2 DEF Claim, TypeOK, RowType
<1>11. ASSUME NEW s \in Sweepers, Drop(s) PROVE QueuedIsScheduled'
  <2>1. row[s] \in Deliveries /\ attempts[row[s]] \in Nat
    BY <1>11, <1>t DEF Drop, HasRow, TypeOK, RowType
  <2> QED BY <1>11, <2>1, <1>4 DEF Drop, Status, Settled, Queued
<1>12. ASSUME NEW s \in Sweepers, Settle(s) PROVE QueuedIsScheduled'
  <2>1. row[s] \in Deliveries /\ tries[s] \in Nat /\ tries[s] >= 1 /\ now[s] \in Nat
    BY <1>12, <1>t DEF Settle, HasRow, TypeOK, SweepType
  <2>2. CASE answer[s] = "failure" /\ ~GivesUp(tries[s])
    <3>1. now[s] + Backoff[tries[s]] \in Nat
      BY <2>1, <2>2, ConstantsAssumption DEF GivesUp
    <3>2. UpdateRow(row[s], "failed", tries[s], now[s] + Backoff[tries[s]])
      BY <1>12, <2>2 DEF Settle
    <3> QED BY <1>4, <2>1, <3>1, <3>2 DEF Status, Queued
  <2>3. CASE UpdateRow(row[s], "sent", tries[s], Never)
             \/ UpdateRow(row[s], "abandoned", tries[s], Never)
    BY <1>4, <2>1, <2>3 DEF Status, Settled, Queued
  <2> QED BY <1>12, <2>2, <2>3 DEF Settle
<1>13. CASE Tick \/ UNCHANGED vars
  BY <1>13, <1>1 DEF Tick, vars
<1>14. CASE Enqueue
  BY <1>14, <1>1, <1>6 DEF Enqueue, ReadListeners, QueueCrash, QueueRefused
<1>15. CASE TestPing
  BY <1>15, <1>1, <1>7, <1>8 DEF TestPing, TestAnswer, TestReset, TestCrash
<1>16. CASE Console
  BY <1>16, <1>1, <1>5, <1>9 DEF Console, Enable, Disable, RedeliverCheck
<1>17. ASSUME NEW s \in Sweepers, StartSweep(s) \/ SweepCrash(s) \/ SweepStep(s)
       PROVE  QueuedIsScheduled'
  BY <1>17, <1>1, <1>10, <1>11, <1>12
     DEF SweepStep, StartSweep, SweepCrash, ClaimMissed, ReadClaimed, Answer,
         ResetFailures, CountFailure, DisableEndpoint, FinishSweep
<1> QED BY <1>5, <1>13, <1>14, <1>15, <1>16, <1>17 DEF Next

\* No crash, lost claim or race between sweeps takes a delivery off the queue:
\* every row still waiting has a retryAt, whatever the lease and however many
\* operators redeliver at once; only a test ping has none.
THEOREM QueueIsScheduled == Spec => []QueuedIsScheduled
<1>1. Init => QueuedIsScheduled
  BY DEF Init, QueuedIsScheduled, Queued
<1> QED BY <1>1, ShapeInit, ShapeStep, ScheduledStep, PTL DEF Spec

=============================================================================
