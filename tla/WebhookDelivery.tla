-------------------------- MODULE WebhookDelivery --------------------------
(***************************************************************************)
(* The webhook outbox: WebhookDispatcherService (enqueue, sweep, sendTest) *)
(* with the console's operations on endpoints and deliveries               *)
(* (WebhookEndpointsService) and the nightly pruning of settled rows.      *)
(*                                                                         *)
(* A sweeper is one running invocation of sweep(): a replica's cron fires  *)
(* every minute whether or not the previous invocation has returned, so    *)
(* two sweepers may be two replicas or two ticks of one.  Every database   *)
(* statement is one step, as is the answer to a POST; between two of them  *)
(* any other process may run.                                              *)
(***************************************************************************)
EXTENDS Integers, FiniteSets

CONSTANTS
    Deliveries,     \* row ids of WebhookDelivery (the sequence never reuses one)
    Endpoints,      \* webhook endpoints of one WABA
    EndpointOf,     \* the endpoint each row id will belong to once it exists
    Sweepers,       \* concurrent invocations of sweep()
    Operators,      \* console users calling redeliver
    NoRow,          \* no delivery
    MaxRetries,     \* MAX_DELIVERY_RETRIES
    Backoff,        \* BACKOFF_MINUTES, indexed by the attempt that failed
    Lease,          \* LEASE_MINUTES
    SweepBatch,     \* SWEEP_BATCH
    MaxFailures,    \* MAX_CONSECUTIVE_FAILURES
    SweepSpan,      \* the longest a sweep may run, in the clock's units
    Retention,      \* age from which a settled row is pruned
    CronGap,        \* the longest a due row waits for an idle sweeper to start
    Horizon,        \* bound: last time at which an event or a request is served
    CrashesEnd,     \* bound: processes die only before this time (0: none does)
    MaxClock        \* bound: last value of the clock

ASSUME ConstantsAssumption ==
    /\ NoRow \notin Deliveries
    /\ EndpointOf \in [Deliveries -> Endpoints]
    /\ MaxRetries \in Nat
    /\ Backoff \in [1..MaxRetries -> Nat]
    /\ Lease \in Nat /\ SweepSpan \in Nat /\ SweepBatch \in Nat \ {0}
    /\ MaxFailures \in Nat \ {0} /\ Retention \in Nat
    /\ CronGap \in Nat /\ Horizon \in Nat /\ CrashesEnd \in Nat /\ MaxClock \in Nat

VARIABLES
    clock,                                      \* minutes
    status, attempts, retryAt, createdAt,       \* columns of WebhookDelivery
    live, enabled, failureCount,    \* WebhookEndpoint: rows, status, failureCount
    fanout,     \* endpoints enqueue() has read and not yet written a row for
    pc, now, todo, row, tries, answer,          \* locals of each sweeper
    testPc, testRow, testOutcome,                    \* locals of the one sendTest()
    redeliver,  \* per operator: the row whose checks passed, or NoRow
    accepted    \* history: rows some receiver answered 2xx for

rowVars == <<status, attempts, retryAt, createdAt>>
endpointVars == <<live, enabled, failureCount>>
sweepVars == <<pc, now, todo, row, tries, answer>>
testVars == <<testPc, testRow, testOutcome>>

vars == <<clock, rowVars, endpointVars, fanout, sweepVars, testVars,
          redeliver, accepted>>

-----------------------------------------------------------------------------

\* A null timestamp. It is due at no time, as in SQL.
Never == -1

Queued == {"pending", "failed"}
Settled == {"sent", "abandoned"}
Status == {"absent", "deleted"} \cup Queued \cup Settled

\* DeliveryOutcome.success, once the POST has returned.
Outcome == {"none", "success", "failure"}

\* A row as sweep()'s findMany returned it; `at` is the column it orders by.
Snapshot == [id: Deliveries, status: Queued, at: Nat]

SweepPc == {"idle", "rows", "claimed", "dropping", "posting", "settling",
            "resetting", "counting", "disabling"}

\* The part of attemptRow() in which a sweeper works on a row it has claimed.
Holding == {"claimed", "dropping", "posting", "settling"}

RowType ==
    /\ status \in [Deliveries -> Status]
    /\ attempts \in [Deliveries -> Nat]
    /\ retryAt \in [Deliveries -> Nat \cup {Never}]
    /\ createdAt \in [Deliveries -> Nat]

EndpointType ==
    /\ live \in SUBSET Endpoints
    /\ enabled \in SUBSET Endpoints
    /\ failureCount \in [Endpoints -> Nat]

SweepType ==
    /\ pc \in [Sweepers -> SweepPc]
    /\ now \in [Sweepers -> Nat]
    /\ todo \in [Sweepers -> SUBSET Snapshot]
    /\ row \in [Sweepers -> Deliveries \cup {NoRow}]
    /\ tries \in [Sweepers -> Nat]
    /\ answer \in [Sweepers -> Outcome]

TestType ==
    /\ testPc \in {"idle", "posting", "settling", "resetting"}
    /\ testRow \in Deliveries \cup {NoRow}
    /\ testOutcome \in Outcome

TypeOK ==
    /\ clock \in Nat
    /\ RowType /\ EndpointType /\ SweepType /\ TestType
    /\ fanout \in SUBSET Endpoints
    /\ redeliver \in [Operators -> Deliveries \cup {NoRow}]
    /\ accepted \in SUBSET Deliveries

Init ==
    /\ clock = 0
    /\ status = [r \in Deliveries |-> "absent"]
    /\ attempts = [r \in Deliveries |-> 0]
    /\ retryAt = [r \in Deliveries |-> Never]
    /\ createdAt = [r \in Deliveries |-> 0]
    /\ live = Endpoints
    /\ enabled = Endpoints
    /\ failureCount = [e \in Endpoints |-> 0]
    /\ fanout = {}
    /\ pc = [s \in Sweepers |-> "idle"]
    /\ now = [s \in Sweepers |-> 0]
    /\ todo = [s \in Sweepers |-> {}]
    /\ row = [s \in Sweepers |-> NoRow]
    /\ tries = [s \in Sweepers |-> 0]
    /\ answer = [s \in Sweepers |-> "none"]
    /\ testPc = "idle" /\ testRow = NoRow /\ testOutcome = "none"
    /\ redeliver = [o \in Operators |-> NoRow]
    /\ accepted = {}

-----------------------------------------------------------------------------
(* Statements on the table *)

\* An insert: the row takes an id that was never used.
CreateRow(r, n, at) ==
    /\ status[r] = "absent"
    /\ status' = [status EXCEPT ![r] = "pending"]
    /\ attempts' = [attempts EXCEPT ![r] = n]
    /\ retryAt' = [retryAt EXCEPT ![r] = at]
    /\ createdAt' = [createdAt EXCEPT ![r] = clock]

\* An update by id. Of a row that is gone it throws, and changes nothing.
UpdateRow(r, st, n, at) ==
    \/ /\ status[r] # "deleted"
       /\ status' = [status EXCEPT ![r] = st]
       /\ attempts' = [attempts EXCEPT ![r] = n]
       /\ retryAt' = [retryAt EXCEPT ![r] = at]
       /\ UNCHANGED createdAt
    \/ /\ status[r] = "deleted"
       /\ UNCHANGED rowVars

DeleteRows(rows) ==
    /\ status' = [r \in Deliveries |-> IF r \in rows THEN "deleted" ELSE status[r]]
    /\ UNCHANGED <<attempts, retryAt, createdAt>>

-----------------------------------------------------------------------------
(* Queueing *)

\* enqueue(): read the endpoints listening to the account.
ReadListeners ==
    /\ clock <= Horizon
    /\ fanout = {}
    /\ fanout' = live \cap enabled
    /\ fanout' # {}
    /\ UNCHANGED <<clock, rowVars, endpointVars, sweepVars, testVars, redeliver, accepted>>

\* enqueue(): write the row of one endpoint.
QueueDelivery(e, r) ==
    /\ clock <= Horizon
    /\ e \in fanout
    /\ EndpointOf[r] = e
    /\ e \in live
    /\ CreateRow(r, 0, clock)
    /\ fanout' = fanout \ {e}
    /\ UNCHANGED <<clock, endpointVars, sweepVars, testVars, redeliver, accepted>>

\* enqueue(): the endpoint was removed since it was read. The foreign key
\* refuses the row, and the catch around the loop gives up on the others too.
QueueRefused(e) ==
    /\ e \in fanout
    /\ e \notin live
    /\ fanout' = {}
    /\ UNCHANGED <<clock, rowVars, endpointVars, sweepVars, testVars, redeliver, accepted>>

\* The process dies between two rows of the fan-out.
QueueCrash ==
    /\ clock < CrashesEnd
    /\ fanout # {}
    /\ fanout' = {}
    /\ UNCHANGED <<clock, rowVars, endpointVars, sweepVars, testVars, redeliver, accepted>>

-----------------------------------------------------------------------------
(* The sweep *)

DueBy(r, t) == status[r] \in Queued /\ retryAt[r] # Never /\ retryAt[r] <= t

\* A batch of findMany: the oldest due rows, at most SweepBatch of them.
IsBatch(batch) ==
    LET due == {r \in Deliveries : DueBy(r, clock)}
    IN  /\ batch \subseteq due
        /\ Cardinality(batch) <= SweepBatch
        /\ batch # due => Cardinality(batch) = SweepBatch
        /\ \A r \in batch, q \in due \ batch : retryAt[r] <= retryAt[q]

\* sweep(): `now` is read once, here, and every later step uses this value. A
\* sweep that finds nothing due changes nothing and is left out.
StartSweep(s) ==
    /\ pc[s] = "idle"
    /\ pc' = [pc EXCEPT ![s] = "rows"]
    /\ now' = [now EXCEPT ![s] = clock]
    /\ \E batch \in SUBSET Deliveries :
         /\ batch # {}
         /\ IsBatch(batch)
         /\ todo' = [todo EXCEPT ![s] =
              {[id |-> r, status |-> status[r], at |-> retryAt[r]] : r \in batch}]
    /\ UNCHANGED <<row, tries, answer>>
    /\ UNCHANGED <<clock, rowVars, endpointVars, fanout, testVars, redeliver, accepted>>

\* attemptRow() goes on to its next statement.
Goto(s, label) ==
    /\ pc' = [pc EXCEPT ![s] = label]
    /\ UNCHANGED <<now, todo, row, tries, answer>>

\* attemptRow() returns, or throws into the catch of sweep()'s loop.
RowDone(s) ==
    /\ pc' = [pc EXCEPT ![s] = "rows"]
    /\ row' = [row EXCEPT ![s] = NoRow]
    /\ tries' = [tries EXCEPT ![s] = 0]
    /\ answer' = [answer EXCEPT ![s] = "none"]
    /\ UNCHANGED <<now, todo>>

\* The sweep returns, or its pod is gone.
SweepOver(s) ==
    /\ pc' = [pc EXCEPT ![s] = "idle"]
    /\ now' = [now EXCEPT ![s] = 0]
    /\ todo' = [todo EXCEPT ![s] = {}]
    /\ row' = [row EXCEPT ![s] = NoRow]
    /\ tries' = [tries EXCEPT ![s] = 0]
    /\ answer' = [answer EXCEPT ![s] = "none"]

\* The next row of the batch: oldest first.
IsNext(s, q) == q \in todo[s] /\ \A p \in todo[s] : q.at <= p.at

\* Mutant: the claim matches on the status alone.
CanClaim_StatusOnly(s, q) == status[q.id] = q.status

\* attemptRow(): the claim, a compare-and-set on the status the batch was read
\* with and on the row still being due by the sweep's own `now`.
CanClaim(s, q) == status[q.id] = q.status /\ DueBy(q.id, now[s])

\* Mutants: the lease is subtracted; the claim clears retryAt.
LeaseUntil_Backdated(s) == now[s] - Lease
LeaseUntil_None(s) == Never

\* How long a claimed row is held: counted from the start of the sweep.
LeaseUntil(s) == now[s] + Lease

Claim(s) ==
    /\ pc[s] = "rows"
    /\ \E q \in todo[s] :
         /\ IsNext(s, q)
         /\ CanClaim(s, q)
         /\ retryAt' = [retryAt EXCEPT ![q.id] = LeaseUntil(s)]
         /\ row' = [row EXCEPT ![s] = q.id]
         /\ todo' = [todo EXCEPT ![s] = @ \ {q}]
    /\ pc' = [pc EXCEPT ![s] = "claimed"]
    /\ UNCHANGED <<status, attempts, createdAt, now, tries, answer>>
    /\ UNCHANGED <<clock, endpointVars, fanout, testVars, redeliver, accepted>>

\* attemptRow(): the update matched no row, so someone else has it.
ClaimMissed(s) ==
    /\ pc[s] = "rows"
    /\ \E q \in todo[s] :
         /\ IsNext(s, q)
         /\ ~CanClaim(s, q)
         /\ todo' = [todo EXCEPT ![s] = @ \ {q}]
    /\ UNCHANGED <<pc, now, row, tries, answer>>
    /\ UNCHANGED <<clock, rowVars, endpointVars, fanout, testVars, redeliver, accepted>>

\* attemptRow(): re-read the row with its endpoint and start the POST, settle a
\* row whose endpoint is switched off, or stop at a row deleted meanwhile.
ReadClaimed(s) ==
    /\ pc[s] = "claimed"
    /\ \/ /\ status[row[s]] = "deleted"
          /\ RowDone(s)
       \/ /\ status[row[s]] # "deleted"
          /\ EndpointOf[row[s]] \notin enabled
          /\ Goto(s, "dropping")
       \/ /\ status[row[s]] # "deleted"
          /\ EndpointOf[row[s]] \in enabled
          /\ pc' = [pc EXCEPT ![s] = "posting"]
          /\ tries' = [tries EXCEPT ![s] = attempts[row[s]] + 1]
          /\ UNCHANGED <<now, todo, row, answer>>
    /\ UNCHANGED <<clock, rowVars, endpointVars, fanout, testVars, redeliver, accepted>>

\* attemptRow(): the endpoint was switched off between queueing and sending.
Drop(s) ==
    /\ pc[s] = "dropping"
    /\ UpdateRow(row[s], "abandoned", attempts[row[s]], Never)
    /\ RowDone(s)
    /\ UNCHANGED <<clock, endpointVars, fanout, testVars, redeliver, accepted>>

\* Mutant: an answer of any status counts as delivered.
Answer_AnyStatus(s, outcome) ==
    /\ pc[s] = "posting"
    /\ pc' = [pc EXCEPT ![s] = "settling"]
    /\ answer' = [answer EXCEPT ![s] = "success"]
    /\ accepted' = IF outcome = "success" THEN accepted \cup {row[s]} ELSE accepted
    /\ UNCHANGED <<now, todo, row, tries>>
    /\ UNCHANGED <<clock, rowVars, endpointVars, fanout, testVars, redeliver>>

\* post(): the receiver answers, or the call fails or times out.
Answer(s, outcome) ==
    /\ pc[s] = "posting"
    /\ pc' = [pc EXCEPT ![s] = "settling"]
    /\ answer' = [answer EXCEPT ![s] = outcome]
    /\ accepted' = IF outcome = "success" THEN accepted \cup {row[s]} ELSE accepted
    /\ UNCHANGED <<now, todo, row, tries>>
    /\ UNCHANGED <<clock, rowVars, endpointVars, fanout, testVars, redeliver>>

GivesUp(n) == n > MaxRetries

\* settleSent() and the two failure updates of attemptRow(). None of them asks
\* whether the row is still the one that was claimed. The updates of the
\* endpoint that come next are not reached when the row is gone.
Settle(s) ==
    /\ pc[s] = "settling"
    /\ \/ /\ answer[s] = "success"
          /\ UpdateRow(row[s], "sent", tries[s], Never)
          /\ IF status[row[s]] = "deleted" THEN RowDone(s) ELSE Goto(s, "resetting")
       \/ /\ answer[s] = "failure" /\ GivesUp(tries[s])
          /\ UpdateRow(row[s], "abandoned", tries[s], Never)
          /\ IF status[row[s]] = "deleted" THEN RowDone(s) ELSE Goto(s, "counting")
       \/ /\ answer[s] = "failure" /\ ~GivesUp(tries[s])
          /\ UpdateRow(row[s], "failed", tries[s], now[s] + Backoff[tries[s]])
          /\ RowDone(s)
    /\ UNCHANGED <<clock, endpointVars, fanout, testVars, redeliver, accepted>>

\* The three updates of an endpoint that follow throw if it was removed in the
\* meantime; nothing reads the columns of a removed endpoint.

\* settleSent(): a success clears the endpoint's run of failures.
ResetFailures(s) ==
    /\ pc[s] = "resetting"
    /\ failureCount' = [failureCount EXCEPT ![EndpointOf[row[s]]] = 0]
    /\ RowDone(s)
    /\ UNCHANGED <<clock, rowVars, live, enabled, fanout, testVars, redeliver, accepted>>

\* recordEndpointFailure(): the atomic increment, and the decision taken on the
\* values that statement returned.
CountFailure(s) ==
    LET e == EndpointOf[row[s]]
    IN  /\ pc[s] = "counting"
        /\ failureCount' = [failureCount EXCEPT ![e] = @ + 1]
        /\ IF e \in enabled /\ failureCount[e] + 1 >= MaxFailures
           THEN Goto(s, "disabling") ELSE RowDone(s)
        /\ UNCHANGED <<clock, rowVars, live, enabled, fanout, testVars, redeliver, accepted>>

\* recordEndpointFailure(): switch the endpoint off and tell its owner.
DisableEndpoint(s) ==
    /\ pc[s] = "disabling"
    /\ enabled' = enabled \ {EndpointOf[row[s]]}
    /\ RowDone(s)
    /\ UNCHANGED <<clock, rowVars, live, failureCount, fanout, testVars, redeliver, accepted>>

FinishSweep(s) ==
    /\ pc[s] = "rows"
    /\ todo[s] = {}
    /\ SweepOver(s)
    /\ UNCHANGED <<clock, rowVars, endpointVars, fanout, testVars, redeliver, accepted>>

\* The pod is killed in the middle of a sweep.
SweepCrash(s) ==
    /\ clock < CrashesEnd
    /\ pc[s] # "idle"
    /\ SweepOver(s)
    /\ UNCHANGED <<clock, rowVars, endpointVars, fanout, testVars, redeliver, accepted>>

-----------------------------------------------------------------------------
(* The test ping *)

TestOver == testPc' = "idle" /\ testRow' = NoRow /\ testOutcome' = "none"

\* Mutant: the test row is given a retryAt, so sweeps see it.
TestCreate_Scheduled(r) ==
    /\ clock <= Horizon
    /\ testPc = "idle"
    /\ EndpointOf[r] \in live \cap enabled
    /\ CreateRow(r, 1, clock)
    /\ testPc' = "posting" /\ testRow' = r /\ UNCHANGED testOutcome
    /\ UNCHANGED <<clock, endpointVars, fanout, sweepVars, redeliver, accepted>>

\* test() and sendTest(): refuse a disabled endpoint, else log the row. The row
\* has no retryAt, so no sweep ever sees it.
TestCreate(r) ==
    /\ clock <= Horizon
    /\ testPc = "idle"
    /\ EndpointOf[r] \in live \cap enabled
    /\ CreateRow(r, 1, Never)
    /\ testPc' = "posting" /\ testRow' = r /\ UNCHANGED testOutcome
    /\ UNCHANGED <<clock, endpointVars, fanout, sweepVars, redeliver, accepted>>

TestAnswer(outcome) ==
    /\ testPc = "posting"
    /\ testPc' = "settling" /\ testOutcome' = outcome /\ UNCHANGED testRow
    /\ accepted' = IF outcome = "success" THEN accepted \cup {testRow} ELSE accepted
    /\ UNCHANGED <<clock, rowVars, endpointVars, fanout, sweepVars, redeliver>>

TestSettle ==
    /\ testPc = "settling"
    /\ UpdateRow(testRow, IF testOutcome = "success" THEN "sent" ELSE "abandoned",
                 attempts[testRow], Never)
    /\ IF testOutcome = "success" /\ status[testRow] # "deleted"
       THEN testPc' = "resetting" /\ UNCHANGED <<testRow, testOutcome>>
       ELSE TestOver
    /\ UNCHANGED <<clock, endpointVars, fanout, sweepVars, redeliver, accepted>>

TestReset ==
    /\ testPc = "resetting"
    /\ failureCount' = [failureCount EXCEPT ![EndpointOf[testRow]] = 0]
    /\ TestOver
    /\ UNCHANGED <<clock, rowVars, live, enabled, fanout, sweepVars, redeliver, accepted>>

TestCrash ==
    /\ clock < CrashesEnd
    /\ testPc # "idle"
    /\ TestOver
    /\ UNCHANGED <<clock, rowVars, endpointVars, fanout, sweepVars, redeliver, accepted>>

-----------------------------------------------------------------------------
(* The console *)

\* update({status: true}): a clean run of failures.
Enable(e) ==
    /\ clock <= Horizon
    /\ e \in live
    /\ enabled' = enabled \cup {e}
    /\ failureCount' = [failureCount EXCEPT ![e] = 0]
    /\ UNCHANGED <<clock, rowVars, live, fanout, sweepVars, testVars, redeliver, accepted>>

\* update({status: false}).
Disable(e) ==
    /\ clock <= Horizon
    /\ e \in live
    /\ enabled' = enabled \ {e}
    /\ UNCHANGED <<clock, rowVars, live, failureCount, fanout, sweepVars, testVars,
                   redeliver, accepted>>

\* remove(): the deliveries go with the endpoint (cascade).
Remove(e) ==
    /\ clock <= Horizon
    /\ e \in live
    /\ live' = live \ {e}
    /\ DeleteRows({r \in Deliveries : EndpointOf[r] = e /\ status[r] # "absent"})
    /\ UNCHANGED <<clock, enabled, failureCount, fanout, sweepVars, testVars,
                   redeliver, accepted>>

\* redeliver(): what the checks let through.
MayRedeliver(r) == status[r] \in Settled /\ EndpointOf[r] \in enabled

\* redeliver(): the checks, on a row read before the update.
RedeliverCheck(o, r) ==
    /\ clock <= Horizon
    /\ redeliver[o] = NoRow
    /\ MayRedeliver(r)
    /\ redeliver' = [redeliver EXCEPT ![o] = r]
    /\ UNCHANGED <<clock, rowVars, endpointVars, fanout, sweepVars, testVars, accepted>>

\* Mutant: a redelivered row keeps its count of attempts.
RedeliverWrite_KeepsAttempts(o) ==
    /\ clock <= Horizon
    /\ redeliver[o] # NoRow
    /\ UpdateRow(redeliver[o], "pending", attempts[redeliver[o]], clock)
    /\ redeliver' = [redeliver EXCEPT ![o] = NoRow]
    /\ UNCHANGED <<clock, endpointVars, fanout, sweepVars, testVars, accepted>>

\* redeliver(): the update, by id alone.
RedeliverWrite(o) ==
    /\ clock <= Horizon
    /\ redeliver[o] # NoRow
    /\ UpdateRow(redeliver[o], "pending", 0, clock)
    /\ redeliver' = [redeliver EXCEPT ![o] = NoRow]
    /\ UNCHANGED <<clock, endpointVars, fanout, sweepVars, testVars, accepted>>

\* RetentionService.sweep(): settled rows past the window are deleted.
Prunable == {r \in Deliveries : status[r] \in Settled /\ createdAt[r] + Retention < clock}

Prune ==
    /\ Prunable # {}
    /\ DeleteRows(Prunable)
    /\ UNCHANGED <<clock, endpointVars, fanout, sweepVars, testVars, redeliver, accepted>>

-----------------------------------------------------------------------------

\* Time passes. No sweep runs for longer than SweepSpan, and no due row waits
\* for longer than CronGap while a sweeper is idle.
Tick ==
    /\ clock < MaxClock
    /\ \A s \in Sweepers : pc[s] # "idle" => clock < now[s] + SweepSpan
    /\ (\E s \in Sweepers : pc[s] = "idle") => \A r \in Deliveries : ~DueBy(r, clock - CronGap)
    /\ clock' = clock + 1
    /\ UNCHANGED <<rowVars, endpointVars, fanout, sweepVars, testVars, redeliver, accepted>>

\* What a running sweep does next.
SweepStep(s) ==
    \/ Claim(s) \/ ClaimMissed(s) \/ ReadClaimed(s) \/ Drop(s)
    \/ \E outcome \in {"success", "failure"} : Answer(s, outcome)
    \/ Settle(s) \/ ResetFailures(s) \/ CountFailure(s) \/ DisableEndpoint(s)
    \/ FinishSweep(s)

Enqueue ==
    \/ ReadListeners \/ QueueCrash
    \/ \E e \in Endpoints : QueueRefused(e) \/ \E r \in Deliveries : QueueDelivery(e, r)

TestPing ==
    \/ \E r \in Deliveries : TestCreate(r)
    \/ \E outcome \in {"success", "failure"} : TestAnswer(outcome)
    \/ TestSettle \/ TestReset \/ TestCrash

Console ==
    \/ \E e \in Endpoints : Enable(e) \/ Disable(e) \/ Remove(e)
    \/ \E o \in Operators : RedeliverWrite(o) \/ \E r \in Deliveries : RedeliverCheck(o, r)

Next ==
    \/ Tick \/ Prune \/ Enqueue \/ TestPing \/ Console
    \/ \E s \in Sweepers : StartSweep(s) \/ SweepCrash(s) \/ SweepStep(s)

Spec == Init /\ [][Next]_vars

-----------------------------------------------------------------------------
(* Properties *)

\* Whether two sweeps can meet on a row turns on one inequality of the
\* deployment: the lease is counted from the start of a sweep, so a sweep that
\* runs to its end within the lease is never overtaken.  The redelivery checks
\* are not part of the update either, so at most one operator is at work.
SweepsFit ==
    /\ SweepSpan < Lease
    /\ \A o, p \in Operators : o = p

\* "Only the replica whose update matches gets to post": no two sweeps are
\* between their claim of a row and the update that settles it.
ExclusiveClaim ==
    \A s, q \in Sweepers :
      /\ s # q
      /\ pc[s] \in Holding
      /\ pc[q] \in Holding
      => row[s] # row[q]

\* A row is reported delivered only if a receiver accepted it, whatever was
\* claimed, redelivered or crashed on the way.
SentWasAccepted ==
    \A r \in Deliveries : status[r] = "sent" => r \in accepted

\* MAX_DELIVERY_RETRIES counts the attempts after the first: no row is posted
\* more often than that between two redeliveries.
AttemptsBounded ==
    \A r \in Deliveries : attempts[r] <= MaxRetries + 1

\* The outcome of a delivery is final: a settled row leaves its status only
\* because somebody redelivers or deletes it, never through a late answer.
OutcomeIsFinal ==
    [][\A r \in Deliveries :
         status[r] \in Settled /\ status'[r] # status[r]
         => \/ status'[r] = "deleted"
            \/ \E o \in Operators : redeliver[o] = r /\ redeliver'[o] = NoRow]_vars

\* Nothing falls out of the queue: a row waiting for an attempt has a time at
\* which a sweep will find it, except the test ping, which is not queued.
QueuedIsScheduled ==
    \A r \in Deliveries :
      status[r] \in Queued /\ retryAt[r] = Never
      => attempts[r] = 1 /\ status[r] = "pending"

\* The cron keeps starting sweeps, a started sweep keeps running until it ends
\* or its pod dies (only before CrashesEnd), and time passes however much
\* happens within a minute.
Fairness ==
    /\ SF_vars(Tick)
    /\ \A s \in Sweepers : WF_vars(StartSweep(s)) /\ WF_vars(SweepStep(s))

FairSpec == Spec /\ Fairness

\* Every delivery with a scheduled attempt is settled or deleted in the end: a
\* crash in mid-attempt, a lost claim or a disabled endpoint never strands it.
EventuallySettled ==
    \A r \in Deliveries :
      (status[r] \in Queued /\ retryAt[r] # Never)
      ~> (status[r] \in Settled \cup {"deleted"})

=============================================================================
