------------------------ MODULE SubscriptionBilling ------------------------
(***************************************************************************)
(* The subscription of one organisation: BillingService's row, the         *)
(* mandates it creates at Razorpay, and the requests, webhooks and         *)
(* reconciliation passes that read the row, call Razorpay and write the    *)
(* row back, each of them a separate statement.                            *)
(*                                                                         *)
(* A handler is one of those running anywhere in the deployment; none of   *)
(* them locks the row.  One unit of time is a billing month, and an        *)
(* instant lies after the month boundary it is numbered by.                *)
(***************************************************************************)
EXTENDS Integers, FiniteSets

CONSTANTS
    Mandates,   \* Razorpay subscription ids, in the order they will be used
    Plans,      \* sellable tiers
    Price,      \* the monthly price of each tier
    Handlers,   \* requests, webhooks and sweeps that may run at once
    None,       \* a null column
    Failures,   \* whether calls may fail and processes die: "no" or "yes"
    Spans,      \* bound: whether a handler may run across a month boundary
    MaxEvents,  \* bound: webhook events that are delivered; the others are lost
    MaxClock    \* bound: last month

ASSUME ConstantsAssumption ==
    /\ None \notin Mandates /\ None \notin Plans
    /\ Price \in [Plans -> Nat]
    /\ Failures \in {"no", "yes"} /\ Spans \in {"no", "yes"}
    /\ MaxEvents \in Nat /\ MaxClock \in Nat

VARIABLES
    clock,
    rStatus, rPlan, rNext, rStart, rEnd,    \* subscriptions at Razorpay
    stopping,   \* those Razorpay will cancel at the end of their cycle
    sent,       \* webhook events Razorpay has raised
    seen,       \* rows of SubscriptionEvent
    sub,        \* the organisation's row of Subscription
    pc, snap, made, want, until, remote     \* locals of each handler

razorpayVars == <<rStatus, rPlan, rNext, rStart, rEnd, stopping, sent>>
localVars == <<pc, snap, made, want, until, remote>>
vars == <<clock, razorpayVars, seen, sub, localVars>>

-----------------------------------------------------------------------------

\* SubscriptionStatus, as Razorpay reports it; "absent" is no subscription.
Status == {"absent", "created", "authenticated", "active", "pending", "halted",
           "cancelled", "completed", "expired", "superseded"}

\* isFinished().
Finished == {"cancelled", "completed", "expired", "superseded"}

\* What Razorpay can still cancel or charge.
Live == {"created", "authenticated", "active", "pending", "halted"}

Flag == {"no", "yes"}

Sub == [status: Status, mandate: Mandates \cup {None},
        planId: Plans \cup {None}, planRef: Plans \cup {None},
        currentEnd: Nat, cancelAtCycleEnd: Flag,
        pending: Mandates \cup {None}, pendingPlan: Plans \cup {None}]

NoSub == [status |-> "absent", mandate |-> None, planId |-> None, planRef |-> None,
          currentEnd |-> 0, cancelAtCycleEnd |-> "no",
          pending |-> None, pendingPlan |-> None]

\* A RazorpaySubscription: the body of an event, or the answer to a fetch.
Entity == [id: Mandates \cup {None}, status: Status, plan: Plans \cup {None}, end: Nat]

NoEntity == [id |-> None, status |-> "absent", plan |-> None, end |-> 0]

EntityOf(m) == [id |-> m, status |-> rStatus[m], plan |-> rPlan[m], end |-> rEnd[m]]

Pc == {"idle", "creating", "registering", "replacing", "authorising", "offering",
       "promoting", "promoted", "fetching", "applying", "finding", "downgrading",
       "booking", "cancelling", "abandoning", "closing"}

RazorpayType ==
    /\ rStatus \in [Mandates -> Status]
    /\ rPlan \in [Mandates -> Plans \cup {None}]
    /\ rNext \in [Mandates -> Plans \cup {None}]
    /\ rStart \in [Mandates -> Nat]
    /\ rEnd \in [Mandates -> Nat]
    /\ stopping \in SUBSET Mandates
    /\ sent \in SUBSET Entity

LocalType ==
    /\ pc \in [Handlers -> Pc]
    /\ snap \in [Handlers -> Sub]
    /\ made \in [Handlers -> Mandates \cup {None}]
    /\ want \in [Handlers -> Plans \cup {None}]
    /\ until \in [Handlers -> Nat]
    /\ remote \in [Handlers -> Entity]

TypeOK ==
    /\ clock \in Nat
    /\ RazorpayType /\ LocalType
    /\ seen \in SUBSET Entity
    /\ sub \in Sub

Init ==
    /\ clock = 0
    /\ rStatus = [m \in Mandates |-> "absent"]
    /\ rPlan = [m \in Mandates |-> None]
    /\ rNext = [m \in Mandates |-> None]
    /\ rStart = [m \in Mandates |-> 0]
    /\ rEnd = [m \in Mandates |-> 0]
    /\ stopping = {} /\ sent = {} /\ seen = {}
    /\ sub = NoSub
    /\ pc = [h \in Handlers |-> "idle"]
    /\ snap = [h \in Handlers |-> NoSub]
    /\ made = [h \in Handlers |-> None]
    /\ want = [h \in Handlers |-> None]
    /\ until = [h \in Handlers |-> 0]
    /\ remote = [h \in Handlers |-> NoEntity]

-----------------------------------------------------------------------------
(* Razorpay, as the code uses it *)

\* createSubscription(): nothing is charged until the customer authorises it,
\* nor before startAt (0: no startAt was given). A new id tells nothing but that
\* it is new, so which of those left comes next is settled.
CreateMandate(m, plan, startAt) ==
    /\ rStatus[m] = "absent"
    /\ m = CHOOSE n \in Mandates : rStatus[n] = "absent"
    /\ rStatus' = [rStatus EXCEPT ![m] = "created"]
    /\ rPlan' = [rPlan EXCEPT ![m] = plan]
    /\ rStart' = [rStart EXCEPT ![m] = startAt]
    /\ UNCHANGED <<rNext, rEnd, stopping, sent>>

\* A subscription takes a new status, and a webhook says so.
MoveTo(m, st) ==
    /\ rStatus' = [rStatus EXCEPT ![m] = st]
    /\ sent' = sent \cup {[EntityOf(m) EXCEPT !.status = st]}

\* cancelSubscription(m, false).
StopNow(m) ==
    /\ rStatus[m] \in Live
    /\ MoveTo(m, "cancelled")
    /\ UNCHANGED <<rPlan, rNext, rStart, rEnd, stopping>>

\* cancelSubscription(m, true).
StopAtCycleEnd(m) ==
    /\ rStatus[m] \in Live
    /\ stopping' = stopping \cup {m}
    /\ UNCHANGED <<rStatus, rPlan, rNext, rStart, rEnd, sent>>

\* A call that throws: the subscription is past cancelling, or the network is.
CallFails(m) ==
    /\ Failures = "yes" \/ m = None \/ rStatus[m] \notin Live
    /\ UNCHANGED razorpayVars

\* The customer completes Checkout, once the request that asked for it is over.
\* Razorpay notifies them itself, so the page stays open to them for as long as
\* the subscription does, whatever the organisation's row says by then.
Authorise(m) ==
    /\ rStatus[m] = "created"
    /\ \A h \in Handlers : made[h] # m
    /\ MoveTo(m, "authenticated")
    /\ UNCHANGED <<rPlan, rNext, rStart, rEnd, stopping>>
    /\ UNCHANGED <<clock, seen, sub, localVars>>

\* A cycle is charged, on the tier booked for it.
Charge(m) ==
    LET plan == IF rNext[m] = None THEN rPlan[m] ELSE rNext[m]
    IN  /\ rStatus[m] \in {"authenticated", "active", "pending"}
        /\ m \notin stopping
        /\ rStart[m] <= clock /\ rEnd[m] <= clock
        /\ rStatus' = [rStatus EXCEPT ![m] = "active"]
        /\ rPlan' = [rPlan EXCEPT ![m] = plan]
        /\ rNext' = [rNext EXCEPT ![m] = None]
        /\ rEnd' = [rEnd EXCEPT ![m] = clock + 1]
        /\ sent' = sent \cup {[id |-> m, status |-> "active", plan |-> plan,
                               end |-> clock + 1]}
        /\ UNCHANGED <<rStart, stopping>>
        /\ UNCHANGED <<clock, seen, sub, localVars>>

\* A debit is refused: retried while pending, given up on once halted.
DebitRefused(m) ==
    /\ m \notin stopping
    /\ rEnd[m] <= clock
    /\ \/ rStatus[m] = "active" /\ MoveTo(m, "pending")
       \/ rStatus[m] = "pending" /\ MoveTo(m, "halted")
    /\ UNCHANGED <<rPlan, rNext, rStart, rEnd, stopping>>
    /\ UNCHANGED <<clock, seen, sub, localVars>>

\* The cycle ends of a subscription that was to stop with it.
CycleEnds(m) ==
    /\ m \in stopping
    /\ rStatus[m] \in Live
    /\ rEnd[m] <= clock
    /\ MoveTo(m, "cancelled")
    /\ UNCHANGED <<rPlan, rNext, rStart, rEnd, stopping>>
    /\ UNCHANGED <<clock, seen, sub, localVars>>

-----------------------------------------------------------------------------
(* What every handler does with its locals *)

Begin(h, label, plan, startAt) ==
    /\ pc[h] = "idle"
    /\ pc' = [pc EXCEPT ![h] = label]
    /\ snap' = [snap EXCEPT ![h] = sub]
    /\ want' = [want EXCEPT ![h] = plan]
    /\ until' = [until EXCEPT ![h] = startAt]
    /\ UNCHANGED <<made, remote>>

Goto(h, label) ==
    /\ pc' = [pc EXCEPT ![h] = label]
    /\ UNCHANGED <<snap, made, want, until, remote>>

\* The handler returns, throws, or its process is gone.
Done(h) ==
    /\ pc' = [pc EXCEPT ![h] = "idle"]
    /\ snap' = [snap EXCEPT ![h] = NoSub]
    /\ made' = [made EXCEPT ![h] = None]
    /\ want' = [want EXCEPT ![h] = None]
    /\ until' = [until EXCEPT ![h] = 0]
    /\ remote' = [remote EXCEPT ![h] = NoEntity]

\* The paid month a row has left, or 0.
PaidMonthLeft(s) == IF s.currentEnd > clock THEN s.currentEnd ELSE 0

IsRunning(s) == s.status \notin Finished \cup {"absent"}

-----------------------------------------------------------------------------
(* register() and startResubscribe() *)

RegisterRead(h, plan) ==
    /\ \/ /\ ~IsRunning(sub)
          /\ Begin(h, "creating", plan, 0)
       \/ /\ IsRunning(sub) /\ sub.cancelAtCycleEnd = "yes"
          /\ Begin(h, IF sub.pending = None THEN "authorising" ELSE "replacing",
                   plan, PaidMonthLeft(sub))
    /\ UNCHANGED <<clock, razorpayVars, seen, sub>>

RegisterCreate(h, m) ==
    /\ pc[h] = "creating"
    /\ CreateMandate(m, want[h], 0)
    /\ made' = [made EXCEPT ![h] = m]
    /\ pc' = [pc EXCEPT ![h] = "registering"]
    /\ UNCHANGED <<snap, want, until, remote, clock, seen, sub>>

\* The row is updated, or created; a second one for the organisation is
\* refused by the partial unique index. The pending columns are not touched.
RegisterWrite(h) ==
    /\ pc[h] = "registering"
    /\ IF snap[h].status = "absent" /\ sub.status # "absent"
       THEN UNCHANGED sub
       ELSE sub' = [sub EXCEPT !.status = "created", !.mandate = made[h],
                               !.planId = want[h], !.planRef = want[h],
                               !.currentEnd = 0, !.cancelAtCycleEnd = "no"]
    /\ Done(h)
    /\ UNCHANGED <<clock, razorpayVars, seen>>

\* startResubscribe(): a resubscription in flight is replaced.
ReplacePending(h) ==
    /\ pc[h] = "replacing"
    /\ StopNow(snap[h].pending) \/ CallFails(snap[h].pending)
    /\ Goto(h, "authorising")
    /\ UNCHANGED <<clock, seen, sub>>

\* startResubscribe() and startUpgrade(): a second mandate, from where the paid
\* month ends.
PendingCreate(h, m) ==
    /\ pc[h] = "authorising"
    /\ CreateMandate(m, want[h], until[h])
    /\ made' = [made EXCEPT ![h] = m]
    /\ pc' = [pc EXCEPT ![h] = "offering"]
    /\ UNCHANGED <<snap, want, until, remote, clock, seen, sub>>

\* Mutant: the tier moves when it is chosen, before it is authorised.
PendingWrite_MovesTier(h) ==
    /\ pc[h] = "offering"
    /\ sub' = [sub EXCEPT !.pending = made[h], !.pendingPlan = want[h], !.planRef = want[h]]
    /\ Done(h)
    /\ UNCHANGED <<clock, razorpayVars, seen>>

PendingWrite(h) ==
    /\ pc[h] = "offering"
    /\ sub' = [sub EXCEPT !.pending = made[h], !.pendingPlan = want[h]]
    /\ Done(h)
    /\ UNCHANGED <<clock, razorpayVars, seen>>

-----------------------------------------------------------------------------
(* confirm() and promoteUpgrade() *)

\* Checkout has signed for this subscription.
Authorised(m) == \E e \in sent : e.id = m /\ e.status = "authenticated"

ConfirmRead(h, m) ==
    /\ sub.status # "absent"
    /\ Authorised(m)
    /\ \/ m = sub.pending /\ Begin(h, "promoting", None, 0)
       \/ m # sub.pending /\ m = sub.mandate /\ Begin(h, "fetching", None, 0)
    /\ UNCHANGED <<clock, razorpayVars, seen, sub>>

\* A failure to stop the old mandate is logged, not thrown.
StopOld(h) ==
    /\ pc[h] = "promoting"
    /\ StopAtCycleEnd(snap[h].mandate) \/ CallFails(snap[h].mandate)
    /\ Goto(h, "promoted")
    /\ UNCHANGED <<clock, seen, sub>>

Promote(h) ==
    /\ pc[h] = "promoted"
    /\ sub' = [sub EXCEPT !.mandate = snap[h].pending, !.planRef = snap[h].pendingPlan,
                          !.pending = None, !.pendingPlan = None,
                          !.cancelAtCycleEnd = "no"]
    /\ snap' = [snap EXCEPT ![h] = sub']
    /\ pc' = [pc EXCEPT ![h] = "fetching"]
    /\ UNCHANGED <<made, want, until, remote, clock, razorpayVars, seen>>

\* fetchSubscription(): in confirm() and in reconcile().
Fetch(h) ==
    /\ pc[h] = "fetching"
    /\ remote' = [remote EXCEPT ![h] = EntityOf(snap[h].mandate)]
    /\ pc' = [pc EXCEPT ![h] = "applying"]
    /\ UNCHANGED <<snap, made, want, until, clock, razorpayVars, seen, sub>>

-----------------------------------------------------------------------------
(* applyRemote(): the one writer of Razorpay's state *)

\* Mutants: the end reported last; a month from now where Razorpay reports none.
LaterEnd_Latest(s, r) == r.end

LaterEnd_Default(s, r) ==
    IF r.end = 0 THEN clock + 1 ELSE IF r.end > s.currentEnd THEN r.end ELSE s.currentEnd

\* The later of the end the row was read with and the one Razorpay reports.
LaterEnd(s, r) == IF r.end > s.currentEnd THEN r.end ELSE s.currentEnd

\* tierFor(): the tier follows the plan Razorpay charges, when it has moved.
\* Everything is decided on the row as it was read; the columns not named keep
\* what they hold now.
Applied(s, r) ==
    IF r.plan = s.planId
    THEN [sub EXCEPT !.status = r.status, !.currentEnd = LaterEnd(s, r)]
    ELSE [sub EXCEPT !.status = r.status, !.currentEnd = LaterEnd(s, r),
                     !.planId = r.plan, !.planRef = r.plan, !.pendingPlan = None]

Apply(h) ==
    /\ pc[h] = "applying"
    /\ sub' = Applied(snap[h], remote[h])
    /\ Done(h)
    /\ UNCHANGED <<clock, razorpayVars, seen>>

-----------------------------------------------------------------------------
(* handleWebhook() and reconcile() *)

\* The event row is written first; a repeat delivery stops there. Any event may
\* be delivered late, out of order, again, or never.
WebhookRecord(h, e) ==
    /\ pc[h] = "idle"
    /\ e \in sent \ seen
    /\ Cardinality(seen) < MaxEvents
    /\ seen' = seen \cup {e}
    /\ remote' = [remote EXCEPT ![h] = e]
    /\ pc' = [pc EXCEPT ![h] = "finding"]
    /\ UNCHANGED <<snap, made, want, until, clock, razorpayVars, sub>>

\* The row is looked for by its mandate. A mandate that is only pending is
\* unknown, and its event is left alone.
WebhookFind(h) ==
    /\ pc[h] = "finding"
    /\ IF sub.status # "absent" /\ sub.mandate = remote[h].id
       THEN /\ snap' = [snap EXCEPT ![h] = sub]
            /\ pc' = [pc EXCEPT ![h] = "applying"]
            /\ UNCHANGED <<made, want, until, remote>>
       ELSE Done(h)
    /\ UNCHANGED <<clock, razorpayVars, seen, sub>>

\* Mutant: a row that has no period yet is passed over.
ReconcileRead_NonNull(h) ==
    /\ IsRunning(sub)
    /\ sub.currentEnd > 0 /\ sub.currentEnd <= clock
    /\ Begin(h, "fetching", None, 0)
    /\ UNCHANGED <<clock, razorpayVars, seen, sub>>

\* The hourly pass reads the rows whose paid month has run out.
ReconcileRead(h) ==
    /\ IsRunning(sub)
    /\ sub.currentEnd <= clock
    /\ Begin(h, "fetching", None, 0)
    /\ UNCHANGED <<clock, razorpayVars, seen, sub>>

-----------------------------------------------------------------------------
(* changePlan() *)

\* currentPrice(): of the tier held or, where there is none, of the plan charged.
CurrentPrice(s) == Price[IF s.planRef = None THEN s.planId ELSE s.planRef]

ChangeRead(h, plan) ==
    /\ IsRunning(sub)
    /\ sub.status \notin {"created", "authenticated"}
    /\ sub.cancelAtCycleEnd = "no"
    /\ sub.planRef # plan
    /\ IF Price[plan] > CurrentPrice(sub)
       THEN Begin(h, "authorising", plan, sub.currentEnd)
       ELSE Begin(h, "downgrading", plan, 0)
    /\ UNCHANGED <<clock, razorpayVars, seen, sub>>

\* scheduleDowngrade(): Razorpay applies the cheaper tier at the renewal.
Downgrade(h) ==
    /\ pc[h] = "downgrading"
    /\ rStatus[snap[h].mandate] \in Live
    /\ rNext' = [rNext EXCEPT ![snap[h].mandate] = want[h]]
    /\ Goto(h, "booking")
    /\ UNCHANGED <<rStatus, rPlan, rStart, rEnd, stopping, sent, clock, seen, sub>>

\* An upgrade nobody authorised is dropped from the row, not at Razorpay.
BookDowngrade(h) ==
    /\ pc[h] = "booking"
    /\ sub' = [sub EXCEPT !.pendingPlan = want[h], !.pending = None]
    /\ Done(h)
    /\ UNCHANGED <<clock, razorpayVars, seen>>

-----------------------------------------------------------------------------
(* cancel() *)

CancelRead(h) ==
    /\ IsRunning(sub)
    /\ sub.cancelAtCycleEnd = "no"
    /\ Begin(h, "cancelling", None, PaidMonthLeft(sub))
    /\ UNCHANGED <<clock, razorpayVars, seen, sub>>

\* At the end of the cycle if the row has a paid month left, else now.
CancelCall(h) ==
    /\ pc[h] = "cancelling"
    /\ IF until[h] > 0 THEN StopAtCycleEnd(snap[h].mandate) ELSE StopNow(snap[h].mandate)
    /\ remote' = [remote EXCEPT ![h] =
                    [EntityOf(snap[h].mandate) EXCEPT !.status = rStatus'[snap[h].mandate]]]
    /\ pc' = [pc EXCEPT ![h] = IF snap[h].pending = None THEN "closing" ELSE "abandoning"]
    /\ UNCHANGED <<snap, made, want, until, clock, seen, sub>>

\* A mandate offered and never authorised is cancelled with the rest.
CancelPending(h) ==
    /\ pc[h] = "abandoning"
    /\ StopNow(snap[h].pending) \/ CallFails(snap[h].pending)
    /\ Goto(h, "closing")
    /\ UNCHANGED <<clock, seen, sub>>

CancelWrite(h) ==
    /\ pc[h] = "closing"
    /\ sub' = [sub EXCEPT !.status = remote[h].status, !.pending = None,
                          !.cancelAtCycleEnd = IF until[h] > 0 THEN "yes" ELSE "no"]
    /\ Done(h)
    /\ UNCHANGED <<clock, razorpayVars, seen>>

-----------------------------------------------------------------------------

\* A call to Razorpay that is not caught throws out of the handler. Bound:
\* Razorpay gives out no more subscriptions than there are Mandates.
Throws(h) ==
    /\ \/ pc[h] \in {"creating", "authorising"} /\ \A m \in Mandates : rStatus[m] # "absent"
       \/ pc[h] \in {"downgrading", "cancelling"} /\ rStatus[snap[h].mandate] \notin Live
       \/ Failures = "yes" /\ pc[h] \in {"creating", "authorising", "fetching",
                                         "downgrading", "cancelling"}
    /\ Done(h)
    /\ UNCHANGED <<clock, razorpayVars, seen, sub>>

\* The process dies between two statements.
Crash(h) ==
    /\ Failures = "yes"
    /\ pc[h] # "idle"
    /\ Done(h)
    /\ UNCHANGED <<clock, razorpayVars, seen, sub>>

Tick ==
    /\ clock < MaxClock
    /\ Spans = "yes" \/ \A h \in Handlers : pc[h] = "idle"
    /\ clock' = clock + 1
    /\ UNCHANGED <<razorpayVars, seen, sub, localVars>>

Razorpay ==
    \E m \in Mandates : Authorise(m) \/ Charge(m) \/ DebitRefused(m) \/ CycleEnds(m)

\* What starts a handler.
Arrive(h) ==
    \/ \E plan \in Plans : RegisterRead(h, plan) \/ ChangeRead(h, plan)
    \/ \E m \in Mandates : ConfirmRead(h, m)
    \/ \E e \in sent : WebhookRecord(h, e)
    \/ CancelRead(h)

\* What a running handler does next.
Step(h) ==
    \/ \E m \in Mandates : RegisterCreate(h, m) \/ PendingCreate(h, m)
    \/ RegisterWrite(h) \/ ReplacePending(h) \/ PendingWrite(h)
    \/ StopOld(h) \/ Promote(h) \/ Fetch(h) \/ Apply(h) \/ WebhookFind(h)
    \/ Downgrade(h) \/ BookDowngrade(h)
    \/ CancelCall(h) \/ CancelPending(h) \/ CancelWrite(h)
    \/ Throws(h)

Next ==
    \/ Tick \/ Razorpay
    \/ \E h \in Handlers : Arrive(h) \/ ReconcileRead(h) \/ Step(h) \/ Crash(h)

Spec == Init /\ [][Next]_vars

\* Cron runs the reconciliation every hour whatever else is going on, and a
\* handler that has started keeps running.
Fairness == \A h \in Handlers : SF_vars(ReconcileRead(h)) /\ WF_vars(Step(h))

-----------------------------------------------------------------------------
(* Properties *)

\* SubscriptionAccessService.grants().
Grants(s) ==
    /\ s.status \notin {"absent", "superseded"}
    /\ s.currentEnd > clock \/ s.status \in {"active", "authenticated"}

\* The condition under which handlers do not overlap.
OneAtATime == \A h, g \in Handlers : h = g

\* Nobody is given a month that was not paid for: the row's paid-up date is
\* never past what some mandate has been charged to, however stale the reads
\* and however late the events it was put together from.
NoFreeMonth ==
    sub.currentEnd > 0 => \E m \in Mandates : rEnd[m] >= sub.currentEnd

\* The tier whose limits an organisation enjoys is one it has authorised a
\* mandate on: an upgrade abandoned at Checkout leaves no trace.
TierIsAgreed ==
    Grants(sub) /\ sub.planRef # None
    => \E e \in sent : e.plan = sub.planRef /\ e.status \in {"authenticated", "active"}

\* "currentEnd never moves backwards": no event, poll or confirmation shortens
\* the month a running subscription is recorded as paid up to. Only registering
\* anew after the old one has ended starts over.
PeriodNeverShrinks ==
    [][IsRunning(sub) => sub'.currentEnd >= sub.currentEnd]_vars

\* A missed webhook is made good by the reconciliation: a cycle charged on the
\* organisation's mandate reaches its row, unless the mandate is replaced or
\* ended first.
ChargeIsSeen ==
    \A m \in Mandates, end \in 1..(MaxClock + 1) :
      (sub.mandate = m /\ rEnd[m] = end)
      ~> (sub.currentEnd >= end \/ sub.mandate # m \/ rStatus[m] \in Finished)

=============================================================================
