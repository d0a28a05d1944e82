--------------------------- MODULE BillingProofs ---------------------------
(***************************************************************************)
(* Proofs about what an organisation, and an agency, is charged for.       *)
(*                                                                         *)
(* The organisation's subscription, for any number of mandates, tiers and  *)
(* handlers: NoFreeMonth holds however the handlers interleave, fail and   *)
(* die; PeriodNeverShrinks and TierIsAgreed if they do not overlap.        *)
(*                                                                         *)
(* Agencies, for any number of agencies, clients and mandates:             *)
(* DetachedIsReleased and EntitledIsPaidFor if requests do not overlap,    *)
(* with events, refusals and deaths anywhere.                              *)
(***************************************************************************)
EXTENDS SubscriptionBilling, AgencyBilling, FiniteSetTheorems, SequenceTheorems, TLAPS

\* A handler that has found the organisation's row.
WithRow == {"replacing", "authorising", "offering", "promoting", "promoted", "fetching",
            "applying", "downgrading", "booking", "cancelling", "abandoning", "closing"}

\* A row has a mandate, and so has the copy a handler works on; what a handler
\* is about to write or to cancel is a mandate.
RowHasMandate == sub.status # "absent" => sub.mandate \in Mandates

LocalsHaveMandate ==
    \A h \in Handlers :
      /\ pc[h] \in WithRow => sub.mandate \in Mandates /\ snap[h].mandate \in Mandates
      /\ pc[h] \in {"registering", "offering"} => made[h] \in Mandates
      /\ pc[h] \in {"replacing", "promoting", "promoted", "abandoning"}
         => snap[h].pending \in Mandates

Shape == TypeOK /\ RowHasMandate /\ LocalsHaveMandate

\* Some mandate has been charged up to k.
Covered(k) == k > 0 => \E m \in Mandates : rEnd[m] >= k

\* Every paid-up date in the row, in the copies of it, and in what Razorpay has
\* reported is covered.
PaidInv ==
    /\ Shape
    /\ Covered(sub.currentEnd)
    /\ \A h \in Handlers : Covered(snap[h].currentEnd) /\ Covered(remote[h].end)
    /\ \A e \in sent : Covered(e.end)

\* One handler at a time works on a copy that is the row itself, and registers
\* only over a subscription that has ended.
SerialInv ==
    /\ Shape
    /\ \A h \in Handlers :
         /\ pc[h] \notin {"idle", "finding"} => snap[h] = sub
         /\ pc[h] \in {"creating", "registering"} => ~IsRunning(snap[h])

-----------------------------------------------------------------------------
(* Types *)

\* The absent row and the absent entity are records too.
LEMMA NullTypes == NoSub \in Sub /\ NoEntity \in Entity
BY DEF NoSub, Sub, NoEntity, Entity, Status, Flag

\* What Razorpay answers is an entity.
LEMMA EntityOfType ==
  ASSUME RazorpayType, NEW m \in Mandates
  PROVE  EntityOf(m) \in Entity
BY DEF RazorpayType, EntityOf, Entity

\* A mandate's change of status keeps the mandates and events typed.
LEMMA MoveToType ==
  ASSUME RazorpayType, NEW m \in Mandates, NEW st \in Status, MoveTo(m, st)
  PROVE  rStatus' \in [Mandates -> Status] /\ sent' \in SUBSET Entity
BY EntityOfType DEF RazorpayType, MoveTo, Entity

\* So does createSubscription().
LEMMA CreateMandateType ==
  ASSUME RazorpayType, NEW m \in Mandates, NEW plan \in Plans \cup {None},
         NEW startAt \in Nat, CreateMandate(m, plan, startAt)
  PROVE  RazorpayType'
BY DEF RazorpayType, CreateMandate, Status

\* So does cancelSubscription() at once.
LEMMA StopNowType ==
  ASSUME RazorpayType, NEW m \in Mandates, StopNow(m)
  PROVE  RazorpayType'
<1>1. "cancelled" \in Status
  BY DEF Status
<1> QED BY <1>1, MoveToType DEF RazorpayType, StopNow

\* So does cancelSubscription() at the cycle's end.
LEMMA StopAtCycleEndType ==
  ASSUME RazorpayType, NEW m \in Mandates, StopAtCycleEnd(m)
  PROVE  RazorpayType'
BY DEF RazorpayType, StopAtCycleEnd

\* A call that throws ends its handler.
LEMMA CallFailsType ==
  ASSUME RazorpayType, NEW m, CallFails(m)
  PROVE  RazorpayType'
BY DEF RazorpayType, CallFails, razorpayVars

\* A handler starts with the row it has read.
LEMMA BeginType ==
  ASSUME LocalType, sub \in Sub, NEW h \in Handlers, NEW label \in Pc,
         NEW plan \in Plans \cup {None}, NEW startAt \in Nat,
         Begin(h, label, plan, startAt)
  PROVE  LocalType'
BY DEF LocalType, Begin

\* Moving to the next statement leaves the copies alone.
LEMMA GotoType ==
  ASSUME LocalType, NEW h \in Handlers, NEW label \in Pc, Goto(h, label)
  PROVE  LocalType'
BY DEF LocalType, Goto

\* A handler that has returned holds nothing.
LEMMA DoneType ==
  ASSUME LocalType, NEW h \in Handlers, Done(h)
  PROVE  LocalType'
BY NullTypes DEF LocalType, Done, Pc

\* A handler that is done holds nothing, and the others hold what they held.
LEMMA DoneKeeps ==
  ASSUME LocalType, LocalsHaveMandate, NEW h \in Handlers, Done(h),
         sub.mandate \in Mandates => sub'.mandate \in Mandates
  PROVE  LocalsHaveMandate'
BY DEF LocalType, LocalsHaveMandate, Done, WithRow

\* The later of two ends is an end.
LEMMA LaterEndType ==
  ASSUME NEW s \in Sub, NEW r \in Entity
  PROVE  LaterEnd(s, r) \in Nat /\ LaterEnd(s, r) >= s.currentEnd
BY DEF LaterEnd, Sub, Entity

\* applyRemote() turns a row and an entity into a row of the same mandate.
LEMMA AppliedType ==
  ASSUME sub \in Sub, NEW s \in Sub, NEW r \in Entity
  PROVE  /\ Applied(s, r) \in Sub
         /\ Applied(s, r).mandate = sub.mandate
         /\ Applied(s, r).currentEnd = LaterEnd(s, r)
<1> HIDE DEF LaterEnd
<1>1. LaterEnd(s, r) \in Nat
  BY LaterEndType
<1> QED BY <1>1 DEF Applied, Sub, Entity

\* A month left over is a date.
LEMMA PaidMonthLeftType ==
  ASSUME NEW s \in Sub PROVE PaidMonthLeft(s) \in Nat
BY DEF PaidMonthLeft, Sub

-----------------------------------------------------------------------------

\* No row and no handler: the shape holds.
LEMMA ShapeInit == Init => Shape
<1> SUFFICES ASSUME Init PROVE Shape
    OBVIOUS
<1>1. RazorpayType
  BY DEF Init, RazorpayType, Status
<1>2. LocalType
  BY NullTypes DEF Init, LocalType, Pc
<1>3. RowHasMandate /\ LocalsHaveMandate
  BY DEF Init, RowHasMandate, LocalsHaveMandate, NoSub, WithRow
<1> QED BY <1>1, <1>2, <1>3, NullTypes DEF Init, Shape, TypeOK

\* Razorpay's own steps touch neither the row nor a handler.
LEMMA ShapeRazorpay == Shape /\ Razorpay => Shape'
<1> SUFFICES ASSUME Shape, NEW m \in Mandates,
                    Authorise(m) \/ Charge(m) \/ DebitRefused(m) \/ CycleEnds(m)
             PROVE  Shape'
    BY DEF Razorpay
<1> USE DEF Shape, TypeOK
<1>1. UNCHANGED <<clock, seen, sub, localVars>>
  BY DEF Authorise, Charge, DebitRefused, CycleEnds
<1>2. RazorpayType'
  <2>1. CASE Authorise(m)
    <3>1. "authenticated" \in Status
      BY DEF Status
    <3> QED BY <2>1, <3>1, MoveToType DEF Authorise, RazorpayType
  <2>2. CASE Charge(m)
    <3> DEFINE plan == IF rNext[m] = None THEN rPlan[m] ELSE rNext[m]
               raised == [id |-> m, status |-> "active", plan |-> plan, end |-> clock + 1]
    <3>1. plan \in Plans \cup {None} /\ clock + 1 \in Nat /\ "active" \in Status
      BY DEF RazorpayType, Status
    <3>2. raised \in Entity
      BY <3>1 DEF Entity
    <3>3. /\ rStatus' = [rStatus EXCEPT ![m] = "active"]
          /\ rPlan' = [rPlan EXCEPT ![m] = plan]
          /\ rNext' = [rNext EXCEPT ![m] = None]
          /\ rEnd' = [rEnd EXCEPT ![m] = clock + 1]
          /\ sent' = sent \cup {raised}
          /\ UNCHANGED <<rStart, stopping>>
      BY <2>2 DEF Charge
    <3> HIDE DEF plan, raised
    <3> QED BY <3>1, <3>2, <3>3 DEF RazorpayType
  <2>3. CASE DebitRefused(m)
    <3>1. "pending" \in Status /\ "halted" \in Status
      BY DEF Status
    <3> QED BY <2>3, <3>1, MoveToType DEF DebitRefused, RazorpayType
  <2>4. CASE CycleEnds(m)
    <3>1. "cancelled" \in Status
      BY DEF Status
    <3> QED BY <2>4, <3>1, MoveToType DEF CycleEnds, RazorpayType
  <2> QED BY <2>1, <2>2, <2>3, <2>4
<1>3. LocalType' /\ RowHasMandate' /\ LocalsHaveMandate'
  BY <1>1 DEF LocalType, RowHasMandate, LocalsHaveMandate, localVars
<1> QED BY <1>1, <1>2, <1>3

\* A handler that starts: it takes a copy of a row that has what it needs.
LEMMA ShapeBegin ==
  ASSUME Shape, NEW h \in Handlers, NEW label \in Pc, NEW plan \in Plans \cup {None},
         NEW startAt \in Nat, Begin(h, label, plan, startAt),
         label \notin {"registering", "offering"},
         label \in WithRow => sub.mandate \in Mandates,
         label \in {"replacing", "promoting", "promoted", "abandoning"}
           => sub.pending \in Mandates,
         UNCHANGED <<clock, razorpayVars, seen, sub>>
  PROVE  Shape'
<1> USE DEF Shape, TypeOK
<1>1. LocalType'
  BY BeginType
<1>2. RazorpayType' /\ RowHasMandate'
  BY DEF RazorpayType, RowHasMandate, razorpayVars
<1>3. LocalsHaveMandate'
  BY DEF LocalsHaveMandate, LocalType, Begin, WithRow
<1> QED BY <1>1, <1>2, <1>3

\* A request or webhook that starts keeps the shape.
LEMMA ShapeArrive ==
  ASSUME Shape, NEW h \in Handlers, Arrive(h) \/ ReconcileRead(h)
  PROVE  Shape'
<1> USE DEF Shape, TypeOK
<1>0. IsRunning(sub) => sub.mandate \in Mandates
  BY DEF IsRunning, RowHasMandate
<1>1. ASSUME NEW plan \in Plans, RegisterRead(h, plan) PROVE Shape'
  <2>1. PaidMonthLeft(sub) \in Nat
    BY PaidMonthLeftType
  <2>2. {"creating", "authorising", "replacing"} \subseteq Pc
    BY DEF Pc
  <2>3. CASE ~IsRunning(sub) /\ Begin(h, "creating", plan, 0)
    BY <1>1, <2>2, <2>3, ShapeBegin DEF RegisterRead, WithRow
  <2>4. CASE IsRunning(sub) /\ sub.pending = None
             /\ Begin(h, "authorising", plan, PaidMonthLeft(sub))
    BY <1>0, <1>1, <2>1, <2>2, <2>4, ShapeBegin DEF RegisterRead
  <2>5. CASE IsRunning(sub) /\ sub.pending # None
             /\ Begin(h, "replacing", plan, PaidMonthLeft(sub))
    <3>1. sub.pending \in Mandates
      BY <2>5 DEF Sub
    <3> QED BY <1>0, <1>1, <2>1, <2>2, <2>5, <3>1, ShapeBegin DEF RegisterRead
  <2> QED BY <1>1, <2>3, <2>4, <2>5 DEF RegisterRead
<1>2. ASSUME NEW plan \in Plans, ChangeRead(h, plan) PROVE Shape'
  <2>1. {"authorising", "downgrading"} \subseteq Pc /\ sub.currentEnd \in Nat
    BY DEF Pc, Sub
  <2>2. CASE Begin(h, "authorising", plan, sub.currentEnd)
    BY <1>0, <1>2, <2>1, <2>2, ShapeBegin DEF ChangeRead
  <2>3. CASE Begin(h, "downgrading", plan, 0)
    BY <1>0, <1>2, <2>1, <2>3, ShapeBegin DEF ChangeRead
  <2> QED BY <1>2, <2>2, <2>3 DEF ChangeRead
<1>3. ASSUME NEW m \in Mandates, ConfirmRead(h, m) PROVE Shape'
  <2>1. {"promoting", "fetching"} \subseteq Pc /\ sub.mandate \in Mandates
    BY <1>3 DEF Pc, ConfirmRead, RowHasMandate
  <2>2. CASE m = sub.pending /\ Begin(h, "promoting", None, 0)
    BY <1>3, <2>1, <2>2, ShapeBegin DEF ConfirmRead
  <2>3. CASE m = sub.mandate /\ Begin(h, "fetching", None, 0)
    BY <1>3, <2>1, <2>3, ShapeBegin DEF ConfirmRead
  <2> QED BY <1>3, <2>2, <2>3 DEF ConfirmRead
<1>4. ASSUME NEW e \in sent, WebhookRecord(h, e) PROVE Shape'
  <2>1. e \in Entity
    BY DEF RazorpayType
  <2>2. LocalType' /\ seen' \in SUBSET Entity
    BY <1>4, <2>1 DEF WebhookRecord, LocalType, Pc
  <2>3. LocalsHaveMandate'
    BY <1>4 DEF WebhookRecord, LocalType, LocalsHaveMandate, WithRow
  <2> QED BY <1>4, <2>2, <2>3 DEF WebhookRecord, RazorpayType, RowHasMandate, razorpayVars
<1>5. ASSUME CancelRead(h) PROVE Shape'
  <2>1. PaidMonthLeft(sub) \in Nat /\ "cancelling" \in Pc
    BY PaidMonthLeftType DEF Pc
  <2> QED BY <1>0, <1>5, <2>1, ShapeBegin DEF CancelRead
<1>6. ASSUME ReconcileRead(h) PROVE Shape'
  <2>1. "fetching" \in Pc
    BY DEF Pc
  <2> QED BY <1>0, <1>6, <2>1, ShapeBegin DEF ReconcileRead
<1> QED BY <1>1, <1>2, <1>3, <1>4, <1>5, <1>6 DEF Arrive

\* A handler that ends, having written at most a row that keeps a mandate.
LEMMA ShapeDone ==
  ASSUME Shape, NEW h \in Handlers, Done(h), UNCHANGED <<clock, razorpayVars, seen>>,
         sub' \in Sub,
         sub' = sub \/ sub'.mandate \in Mandates
  PROVE  Shape'
<1> USE DEF Shape, TypeOK
<1>1. LocalType'
  BY DoneType
<1>2. RazorpayType' /\ RowHasMandate'
  BY DEF RazorpayType, RowHasMandate, razorpayVars
<1>3. LocalsHaveMandate'
  BY DoneKeeps
<1> QED BY <1>1, <1>2, <1>3

\* A handler that goes on, the row and Razorpay's answer apart.
LEMMA ShapeGoto ==
  ASSUME Shape, NEW h \in Handlers, NEW label \in Pc, Goto(h, label), RazorpayType',
         UNCHANGED <<clock, seen, sub>>,
         pc[h] \in WithRow,
         label \notin {"registering", "offering", "replacing", "promoting", "abandoning"},
         label = "promoted" => pc[h] = "promoting"
  PROVE  Shape'
<1> USE DEF Shape, TypeOK
<1>1. LocalType'
  BY GotoType
<1>2. RowHasMandate'
  BY DEF RowHasMandate
<1>3. LocalsHaveMandate'
  BY DEF LocalsHaveMandate, LocalType, Goto, WithRow
<1> QED BY <1>1, <1>2, <1>3

\* So does every later statement of a handler.
LEMMA ShapeStepOf ==
  ASSUME Shape, NEW h \in Handlers, Step(h) \/ Crash(h)
  PROVE  Shape'
<1> USE DEF Shape, TypeOK
<1>0. sub \in Sub /\ snap[h] \in Sub /\ remote[h] \in Entity /\ want[h] \in Plans \cup {None}
      /\ until[h] \in Nat
  BY DEF LocalType
<1>1. ASSUME NEW m \in Mandates, RegisterCreate(h, m) PROVE Shape'
  <2>1. RazorpayType'
    BY <1>0, <1>1, CreateMandateType DEF RegisterCreate
  <2>2. LocalType'
    BY <1>1 DEF RegisterCreate, LocalType, Pc
  <2>3. LocalsHaveMandate'
    BY <1>1 DEF RegisterCreate, LocalType, LocalsHaveMandate, WithRow
  <2> QED BY <1>1, <2>1, <2>2, <2>3 DEF RegisterCreate, RowHasMandate
<1>2. ASSUME NEW m \in Mandates, PendingCreate(h, m) PROVE Shape'
  <2>1. RazorpayType'
    BY <1>0, <1>2, CreateMandateType DEF PendingCreate
  <2>2. LocalType'
    BY <1>2 DEF PendingCreate, LocalType, Pc
  <2>3. LocalsHaveMandate'
    BY <1>2 DEF PendingCreate, LocalType, LocalsHaveMandate, WithRow
  <2> QED BY <1>2, <2>1, <2>2, <2>3 DEF PendingCreate, RowHasMandate
<1>3. ASSUME RegisterWrite(h) PROVE Shape'
  <2>1. made[h] \in Mandates
    BY <1>3 DEF RegisterWrite, LocalsHaveMandate
  <2> DEFINE new == [sub EXCEPT !.status = "created", !.mandate = made[h],
                                !.planId = want[h], !.planRef = want[h],
                                !.currentEnd = 0, !.cancelAtCycleEnd = "no"]
  <2>2. new \in Sub /\ new.mandate \in Mandates
    BY <1>0, <2>1 DEF Sub, Status, Flag
  <2>3. sub' = sub \/ sub' = new
    BY <1>3 DEF RegisterWrite
  <2>4. sub' \in Sub /\ (sub' = sub \/ sub'.mandate \in Mandates)
    <3> HIDE DEF new
    <3> QED BY <1>0, <2>2, <2>3
  <2> QED BY <1>3, <2>4, ShapeDone DEF RegisterWrite
<1>4. ASSUME ReplacePending(h) PROVE Shape'
  <2>1. snap[h].pending \in Mandates /\ "authorising" \in Pc /\ "replacing" \in WithRow
    BY <1>4 DEF ReplacePending, LocalsHaveMandate, Pc, WithRow
  <2>2. RazorpayType'
    BY <1>4, <2>1, StopNowType, CallFailsType DEF ReplacePending
  <2> QED BY <1>4, <2>1, <2>2, ShapeGoto DEF ReplacePending
<1>5. ASSUME PendingWrite(h) PROVE Shape'
  <2>1. made[h] \in Mandates /\ sub.mandate \in Mandates
    BY <1>5 DEF PendingWrite, LocalsHaveMandate, WithRow
  <2>2. sub' \in Sub /\ sub'.mandate \in Mandates
    BY <1>0, <1>5, <2>1 DEF PendingWrite, Sub
  <2> QED BY <1>5, <2>2, ShapeDone DEF PendingWrite
<1>6. ASSUME StopOld(h) PROVE Shape'
  <2>1. snap[h].mandate \in Mandates /\ "promoted" \in Pc /\ "promoting" \in WithRow
    BY <1>6 DEF StopOld, LocalsHaveMandate, Pc, WithRow
  <2>2. RazorpayType'
    BY <1>6, <2>1, StopAtCycleEndType, CallFailsType DEF StopOld
  <2> QED BY <1>6, <2>1, <2>2, ShapeGoto DEF StopOld
<1>7. ASSUME Promote(h) PROVE Shape'
  <2>1. snap[h].pending \in Mandates
    BY <1>7 DEF Promote, LocalsHaveMandate
  <2>2. sub' \in Sub /\ sub'.mandate \in Mandates
    BY <1>0, <1>7, <2>1 DEF Promote, Sub, Flag
  <2>3. LocalType'
    BY <1>7, <2>2 DEF Promote, LocalType, Pc
  <2>4. LocalsHaveMandate'
    BY <1>7, <2>2 DEF Promote, LocalType, LocalsHaveMandate, WithRow
  <2> QED BY <1>7, <2>2, <2>3, <2>4 DEF Promote, RazorpayType, RowHasMandate, razorpayVars
<1>8. ASSUME Fetch(h) PROVE Shape'
  <2>1. snap[h].mandate \in Mandates
    BY <1>8 DEF Fetch, LocalsHaveMandate, WithRow
  <2>2. EntityOf(snap[h].mandate) \in Entity
    BY <2>1, EntityOfType
  <2>3. LocalType'
    BY <1>8, <2>2 DEF Fetch, LocalType, Pc
  <2>4. LocalsHaveMandate'
    BY <1>8 DEF Fetch, LocalType, LocalsHaveMandate, WithRow
  <2> QED BY <1>8, <2>3, <2>4 DEF Fetch, RazorpayType, RowHasMandate, razorpayVars
<1>9. ASSUME Apply(h) PROVE Shape'
  <2>1. sub.mandate \in Mandates
    BY <1>9 DEF Apply, LocalsHaveMandate, WithRow
  <2>2. sub' \in Sub /\ sub'.mandate \in Mandates
    BY <1>0, <1>9, <2>1, AppliedType DEF Apply
  <2> QED BY <1>9, <2>2, ShapeDone DEF Apply
<1>10. ASSUME WebhookFind(h) PROVE Shape'
  <2>1. CASE sub.status # "absent" /\ ~Done(h)
    <3>1. sub.mandate \in Mandates
      BY <2>1 DEF RowHasMandate
    <3>2. LocalType'
      BY <1>0, <1>10, <2>1 DEF WebhookFind, LocalType, Pc
    <3>3. LocalsHaveMandate'
      BY <1>0, <1>10, <2>1, <3>1 DEF WebhookFind, LocalType, LocalsHaveMandate, WithRow
    <3> QED BY <1>10, <3>2, <3>3 DEF WebhookFind, RazorpayType, RowHasMandate, razorpayVars
  <2>2. CASE Done(h)
    BY <1>0, <1>10, <2>2, ShapeDone DEF WebhookFind
  <2> QED BY <1>10, <2>1, <2>2 DEF WebhookFind
<1>11. ASSUME Downgrade(h) PROVE Shape'
  <2>1. "booking" \in Pc /\ "downgrading" \in WithRow
    BY DEF Pc, WithRow
  <2>2. RazorpayType'
    BY <1>0, <1>11 DEF Downgrade, RazorpayType
  <2> QED BY <1>11, <2>1, <2>2, ShapeGoto DEF Downgrade
<1>12. ASSUME BookDowngrade(h) PROVE Shape'
  <2>1. sub.mandate \in Mandates
    BY <1>12 DEF BookDowngrade, LocalsHaveMandate, WithRow
  <2>2. sub' \in Sub /\ sub'.mandate \in Mandates
    BY <1>0, <1>12, <2>1 DEF BookDowngrade, Sub
  <2> QED BY <1>12, <2>2, ShapeDone DEF BookDowngrade
<1>13. ASSUME CancelCall(h) PROVE Shape'
  <2>1. snap[h].mandate \in Mandates
    BY <1>13 DEF CancelCall, LocalsHaveMandate, WithRow
  <2>2. RazorpayType'
    BY <1>13, <2>1, StopNowType, StopAtCycleEndType DEF CancelCall
  <2>3. rStatus'[snap[h].mandate] \in Status
    BY <2>1, <2>2 DEF RazorpayType
  <2>4. [EntityOf(snap[h].mandate) EXCEPT !.status = rStatus'[snap[h].mandate]] \in Entity
    BY <2>1, <2>3, EntityOfType DEF Entity
  <2>5. LocalType'
    BY <1>13, <2>4 DEF CancelCall, LocalType, Pc
  <2>6. snap[h].pending # None => snap[h].pending \in Mandates
    BY <1>0 DEF Sub
  <2>7. LocalsHaveMandate'
    BY <1>13, <2>6 DEF CancelCall, LocalType, LocalsHaveMandate, WithRow
  <2> QED BY <1>13, <2>2, <2>5, <2>7 DEF CancelCall, RowHasMandate
<1>14. ASSUME CancelPending(h) PROVE Shape'
  <2>1. snap[h].pending \in Mandates /\ "closing" \in Pc /\ "abandoning" \in WithRow
    BY <1>14 DEF CancelPending, LocalsHaveMandate, Pc, WithRow
  <2>2. RazorpayType'
    BY <1>14, <2>1, StopNowType, CallFailsType DEF CancelPending
  <2> QED BY <1>14, <2>1, <2>2, ShapeGoto DEF CancelPending
<1>15. ASSUME CancelWrite(h) PROVE Shape'
  <2>1. sub.mandate \in Mandates
    BY <1>15 DEF CancelWrite, LocalsHaveMandate, WithRow
  <2>2. remote[h].status \in Status
    BY <1>0 DEF Entity
  <2>3. sub' \in Sub /\ sub'.mandate \in Mandates
    BY <1>0, <1>15, <2>1, <2>2 DEF CancelWrite, Sub, Flag
  <2> QED BY <1>15, <2>3, ShapeDone DEF CancelWrite
<1>16. ASSUME Throws(h) \/ Crash(h) PROVE Shape'
  BY <1>0, <1>16, ShapeDone DEF Throws, Crash
<1> QED BY <1>1, <1>2, <1>3, <1>4, <1>5, <1>6, <1>7, <1>8, <1>9, <1>10, <1>11,
           <1>12, <1>13, <1>14, <1>15, <1>16 DEF Step

\* The shape is inductive.
LEMMA ShapeStep == Shape /\ [Next]_vars => Shape'
<1> SUFFICES ASSUME Shape, [Next]_vars PROVE Shape'
    OBVIOUS
<1>1. CASE Tick \/ UNCHANGED vars
  BY <1>1 DEF Tick, vars, Shape, TypeOK, RazorpayType, LocalType, RowHasMandate,
              LocalsHaveMandate, razorpayVars, localVars
<1> QED BY <1>1, ShapeRazorpay, ShapeArrive, ShapeStepOf DEF Next

\* Every column, every answer of Razorpay and every local keeps its type.
THEOREM TypeCorrect == Spec => []TypeOK
<1>1. Shape => TypeOK
  BY DEF Shape
<1> QED BY <1>1, ShapeInit, ShapeStep, PTL DEF Spec

-----------------------------------------------------------------------------
(* No month that was not paid for *)

\* What Razorpay has charged up to never goes back.
LEMMA EndsGrow ==
  ASSUME Shape, [Next]_vars, NEW m \in Mandates
  PROVE  rEnd'[m] \in Nat /\ rEnd'[m] >= rEnd[m]
<1> USE DEF Shape, TypeOK, RazorpayType
<1>1. CASE Razorpay
  BY <1>1 DEF Razorpay, Authorise, Charge, DebitRefused, CycleEnds
<1>2. CASE Tick \/ UNCHANGED vars
  BY <1>2 DEF Tick, vars, razorpayVars
<1>3. ASSUME NEW h \in Handlers, Arrive(h) \/ ReconcileRead(h) \/ Step(h) \/ Crash(h)
      PROVE  UNCHANGED rEnd
  <2>1. CASE Arrive(h) \/ ReconcileRead(h) \/ Crash(h)
    BY <2>1 DEF Arrive, RegisterRead, ChangeRead, ConfirmRead, WebhookRecord, CancelRead,
                ReconcileRead, Crash, razorpayVars
  <2>2. CASE Step(h)
    BY <2>2 DEF Step, RegisterCreate, PendingCreate, RegisterWrite, ReplacePending,
                PendingWrite, StopOld, Promote, Fetch, Apply, WebhookFind, Downgrade,
                BookDowngrade, CancelCall, CancelPending, CancelWrite, Throws,
                CreateMandate, StopNow, StopAtCycleEnd, CallFails, razorpayVars
  <2> QED BY <1>3, <2>1, <2>2
<1> QED BY <1>1, <1>2, <1>3 DEF Next

\* What a charge has covered stays covered: charges only grow.
LEMMA CoveredGrows ==
  ASSUME Shape, [Next]_vars, NEW k \in Nat, Covered(k)
  PROVE  Covered(k)'
<1> SUFFICES ASSUME k > 0 PROVE \E m \in Mandates : rEnd'[m] >= k
    BY DEF Covered
<1>1. PICK m \in Mandates : rEnd[m] >= k
  BY DEF Covered
<1>2. rEnd[m] \in Nat
  BY DEF Shape, TypeOK, RazorpayType
<1> QED BY <1>1, <1>2, EndsGrow

\* An event reports the end its subscription has at Razorpay.
LEMMA SentEnds ==
  ASSUME Shape, [Next]_vars, NEW e \in sent'
  PROVE  e \in sent \/ \E m \in Mandates : e.end = rEnd'[m]
<1> USE DEF Shape, TypeOK
<1>1. ASSUME NEW m \in Mandates, NEW st, MoveTo(m, st), UNCHANGED rEnd
      PROVE  e \in sent \/ \E n \in Mandates : e.end = rEnd'[n]
  BY <1>1 DEF MoveTo, EntityOf
<1>2. CASE Razorpay
  <2>1. PICK m \in Mandates : Authorise(m) \/ Charge(m) \/ DebitRefused(m) \/ CycleEnds(m)
    BY <1>2 DEF Razorpay
  <2>2. CASE Charge(m)
    BY <2>2 DEF Charge, RazorpayType
  <2> QED BY <1>1, <2>1, <2>2 DEF Authorise, DebitRefused, CycleEnds
<1>3. CASE Tick \/ UNCHANGED vars
  BY <1>3 DEF Tick, vars, razorpayVars
<1>4. ASSUME NEW h \in Handlers, Arrive(h) \/ ReconcileRead(h) \/ Step(h) \/ Crash(h)
      PROVE  e \in sent \/ \E n \in Mandates : e.end = rEnd'[n]
  <2>1. CASE Arrive(h) \/ ReconcileRead(h) \/ Crash(h)
    BY <2>1 DEF Arrive, RegisterRead, ChangeRead, ConfirmRead, WebhookRecord, CancelRead,
                ReconcileRead, Crash, razorpayVars
  <2>2. CASE ReplacePending(h) \/ CancelPending(h)
    <3>1. snap[h].pending \in Mandates
      BY <2>2 DEF ReplacePending, CancelPending, LocalsHaveMandate
    <3> QED BY <1>1, <2>2, <3>1 DEF ReplacePending, CancelPending, StopNow, CallFails, razorpayVars
  <2>3. CASE CancelCall(h)
    <3>1. snap[h].mandate \in Mandates
      BY <2>3 DEF CancelCall, LocalsHaveMandate, WithRow
    <3> QED BY <1>1, <2>3, <3>1 DEF CancelCall, StopNow, StopAtCycleEnd
  <2>4. CASE Step(h) /\ UNCHANGED sent
    BY <2>4
  <2>5. Step(h) => ReplacePending(h) \/ CancelPending(h) \/ CancelCall(h) \/ UNCHANGED sent
    BY DEF Step, RegisterCreate, PendingCreate, RegisterWrite, PendingWrite, StopOld, Promote,
           Fetch, Apply, WebhookFind, Downgrade, BookDowngrade, CancelWrite, Throws,
           CreateMandate, StopAtCycleEnd, CallFails, razorpayVars
  <2> QED BY <1>4, <2>1, <2>2, <2>3, <2>4, <2>5
<1> QED BY <1>2, <1>3, <1>4 DEF Next

\* The row's paid-up date is kept, cleared, or taken over by applyRemote().
LEMMA RowEnd ==
  ASSUME Shape, [Next]_vars
  PROVE  \/ sub'.currentEnd = sub.currentEnd
         \/ \E h \in Handlers : RegisterWrite(h) /\ sub'.currentEnd \in {sub.currentEnd, 0}
         \/ \E h \in Handlers : Apply(h) /\ sub'.currentEnd = LaterEnd(snap[h], remote[h])
<1> USE DEF Shape, TypeOK
<1>1. CASE Razorpay \/ Tick \/ UNCHANGED vars
  BY <1>1 DEF Razorpay, Authorise, Charge, DebitRefused, CycleEnds, Tick, vars
<1>2. ASSUME NEW h \in Handlers, Arrive(h) \/ ReconcileRead(h) \/ Crash(h)
      PROVE  UNCHANGED sub
  BY <1>2 DEF Arrive, RegisterRead, ChangeRead, ConfirmRead, WebhookRecord, CancelRead,
              ReconcileRead, Crash
<1>3. ASSUME NEW h \in Handlers, Step(h)
      PROVE  \/ sub'.currentEnd = sub.currentEnd
             \/ RegisterWrite(h) /\ sub'.currentEnd \in {sub.currentEnd, 0}
             \/ Apply(h)
  BY <1>3 DEF Step, RegisterCreate, PendingCreate, RegisterWrite, ReplacePending,
              PendingWrite, StopOld, Promote, Fetch, WebhookFind, Downgrade,
              BookDowngrade, CancelCall, CancelPending, CancelWrite, Throws, Sub
<1>4. ASSUME NEW h \in Handlers, Apply(h)
      PROVE  sub'.currentEnd = LaterEnd(snap[h], remote[h])
  BY <1>4, AppliedType DEF Apply, LocalType
<1> QED BY <1>1, <1>2, <1>3, <1>4 DEF Next

\* A copy is of the row; an answer is an event or what Razorpay holds.
LEMMA LocalEnds ==
  ASSUME Shape, [Next]_vars, NEW g \in Handlers
  PROVE  /\ snap'[g] \in {snap[g], NoSub, sub, sub'}
         /\ \/ remote'[g] \in sent \cup {remote[g], NoEntity}
            \/ \E m \in Mandates : remote'[g].end = rEnd[m]
<1> USE DEF Shape, TypeOK, LocalType
<1>1. CASE Razorpay \/ Tick \/ UNCHANGED vars
  BY <1>1 DEF Razorpay, Authorise, Charge, DebitRefused, CycleEnds, Tick, vars, localVars
<1>2. ASSUME NEW h \in Handlers, Arrive(h) \/ ReconcileRead(h) \/ Crash(h)
      PROVE  snap'[g] \in {snap[g], NoSub, sub} /\ remote'[g] \in sent \cup {remote[g], NoEntity}
  BY <1>2 DEF Arrive, RegisterRead, ChangeRead, ConfirmRead, WebhookRecord, CancelRead,
              ReconcileRead, Crash, Begin, Done
<1>3. ASSUME NEW h \in Handlers, Step(h), ~Fetch(h), ~CancelCall(h)
      PROVE  snap'[g] \in {snap[g], NoSub, sub, sub'} /\ remote'[g] \in {remote[g], NoEntity}
  BY <1>3 DEF Step, RegisterCreate, PendingCreate, RegisterWrite, ReplacePending,
              PendingWrite, StopOld, Promote, Apply, WebhookFind, Downgrade,
              BookDowngrade, CancelPending, CancelWrite, Throws, Done, Goto
<1>4. ASSUME NEW h \in Handlers, Fetch(h) \/ CancelCall(h)
      PROVE  /\ snap'[g] = snap[g]
             /\ remote'[g] = remote[g] \/ \E m \in Mandates : remote'[g].end = rEnd[m]
  <2>1. snap[h].mandate \in Mandates
    BY <1>4 DEF Fetch, CancelCall, LocalsHaveMandate, WithRow
  <2> QED BY <1>4, <2>1 DEF Fetch, CancelCall, EntityOf
<1> QED BY <1>1, <1>2, <1>3, <1>4 DEF Next

\* That every known end is covered by a charge is inductive.
LEMMA PaidStep == PaidInv /\ [Next]_vars => PaidInv'
<1> SUFFICES ASSUME PaidInv, [Next]_vars PROVE PaidInv'
    OBVIOUS
<1>0. Shape /\ Shape'
  BY ShapeStep DEF PaidInv
<1>1. ASSUME NEW m \in Mandates PROVE Covered(rEnd[m])' /\ rEnd[m] \in Nat
  BY <1>0, EndsGrow DEF Covered, Shape, TypeOK, RazorpayType
<1>2. Covered(0)'
  BY DEF Covered
<1>3. Covered(sub.currentEnd)'
  <2>1. sub.currentEnd \in Nat
    BY <1>0 DEF Shape, TypeOK, Sub
  <2>2. CASE sub'.currentEnd = sub.currentEnd
    <3>1. Covered(sub.currentEnd)
      BY DEF PaidInv
    <3> QED BY <1>0, <2>1, <2>2, <3>1, CoveredGrows DEF Covered
  <2>3. CASE sub'.currentEnd = 0
    BY <2>3 DEF Covered
  <2>4. ASSUME NEW h \in Handlers, sub'.currentEnd = LaterEnd(snap[h], remote[h])
        PROVE  Covered(sub.currentEnd)'
    <3>1. snap[h].currentEnd \in Nat /\ remote[h].end \in Nat
      BY <1>0 DEF Shape, TypeOK, LocalType, Sub, Entity
    <3>2. Covered(snap[h].currentEnd) /\ Covered(remote[h].end)
      BY DEF PaidInv
    <3>3. sub'.currentEnd \in {snap[h].currentEnd, remote[h].end}
      BY <2>4 DEF LaterEnd
    <3> QED BY <1>0, <3>1, <3>2, <3>3, CoveredGrows DEF Covered
  <2> QED BY <1>0, <2>2, <2>3, <2>4, RowEnd
<1>4. ASSUME NEW g \in Handlers PROVE Covered(snap[g].currentEnd)'
  <2>1. /\ sub.currentEnd \in Nat /\ snap[g].currentEnd \in Nat
        /\ Covered(sub.currentEnd) /\ Covered(snap[g].currentEnd)
    BY <1>0 DEF PaidInv, Shape, TypeOK, LocalType, Sub
  <2>2. snap'[g] \in {snap[g], NoSub, sub, sub'}
    BY <1>0, LocalEnds
  <2>3. CASE snap'[g] = NoSub
    BY <2>3 DEF NoSub, Covered
  <2>4. CASE snap'[g] = sub'
    BY <1>3, <2>4 DEF Covered
  <2>5. CASE snap'[g] \in {snap[g], sub}
    BY <1>0, <2>1, <2>5, CoveredGrows DEF Covered
  <2> QED BY <2>2, <2>3, <2>4, <2>5
<1>5. ASSUME NEW g \in Handlers PROVE Covered(remote[g].end)'
  <2>1. CASE remote'[g] \in sent \cup {remote[g]}
    <3>1. remote'[g].end \in Nat /\ Covered(remote'[g].end)
      BY <1>0, <2>1 DEF PaidInv, Shape, TypeOK, LocalType, RazorpayType, Entity, Covered
    <3>2. \A j \in Nat : Covered(j) => (j > 0 => \E m \in Mandates : rEnd'[m] >= j)
      BY <1>0, CoveredGrows DEF Covered
    <3> QED BY <3>1, <3>2 DEF Covered
  <2>2. CASE remote'[g] = NoEntity
    BY <2>2 DEF NoEntity, Covered
  <2>3. ASSUME NEW m \in Mandates, remote'[g].end = rEnd[m]
        PROVE  Covered(remote[g].end)'
    <3>1. rEnd'[m] >= rEnd[m] /\ rEnd[m] \in Nat
      BY <1>0, EndsGrow DEF Shape, TypeOK, RazorpayType
    <3> QED BY <2>3, <3>1 DEF Covered
  <2> QED BY <1>0, <2>1, <2>2, <2>3, LocalEnds
<1>6. ASSUME NEW e \in sent' PROVE Covered(e.end)'
  <2>1. CASE e \in sent
    BY <1>0, <2>1, CoveredGrows DEF PaidInv, Shape, TypeOK, RazorpayType, Entity
  <2>2. ASSUME NEW m \in Mandates, e.end = rEnd'[m]
        PROVE  Covered(e.end)'
    BY <1>0, <2>2, EndsGrow DEF Covered
  <2> QED BY <1>0, <2>1, <2>2, SentEnds
<1> QED BY <1>0, <1>3, <1>4, <1>5, <1>6 DEF PaidInv

\* However handlers interleave, fail and die, and whatever the order in which
\* events arrive, the row is never paid up past what a mandate was charged to.
THEOREM MonthsArePaid == Spec => []NoFreeMonth
<1>1. Init => PaidInv
  BY ShapeInit DEF Init, PaidInv, NoSub, NoEntity, Covered
<1>2. PaidInv => NoFreeMonth
  BY DEF PaidInv, Covered, NoFreeMonth
<1> QED BY <1>1, <1>2, PaidStep, PTL DEF Spec

-----------------------------------------------------------------------------
(* The paid-up date, if handlers do not overlap *)

\* That a lone handler's copy is the row is inductive.
LEMMA SerialStep == OneAtATime /\ SerialInv /\ [Next]_vars => SerialInv'
<1> SUFFICES ASSUME OneAtATime, SerialInv, [Next]_vars PROVE SerialInv'
    OBVIOUS
<1>0. Shape'
  BY ShapeStep DEF SerialInv
<1> USE DEF Shape, TypeOK, LocalType
<1>1. CASE Razorpay \/ Tick \/ UNCHANGED vars
  BY <1>0, <1>1 DEF SerialInv, IsRunning, Razorpay, Authorise, Charge, DebitRefused,
                    CycleEnds, Tick, vars, localVars
<1>2. ASSUME NEW h \in Handlers PROVE Handlers = {h}
  BY DEF OneAtATime
<1>3. ASSUME NEW h \in Handlers, Arrive(h) \/ ReconcileRead(h)
      PROVE  SerialInv'
  BY <1>0, <1>2, <1>3
     DEF SerialInv, IsRunning, Arrive, RegisterRead, ChangeRead, ConfirmRead,
         WebhookRecord, CancelRead, ReconcileRead, Begin
<1>4. ASSUME NEW h \in Handlers, Done(h)
      PROVE  SerialInv'
  BY <1>0, <1>2, <1>4 DEF SerialInv, Done
<1>5. ASSUME NEW h \in Handlers, Step(h), ~Done(h)
      PROVE  SerialInv'
  BY <1>0, <1>2, <1>5
     DEF SerialInv, IsRunning, Step, RegisterCreate, PendingCreate, RegisterWrite,
         ReplacePending, PendingWrite, StopOld, Promote, Fetch, Apply, WebhookFind,
         Downgrade, BookDowngrade, CancelCall, CancelPending, CancelWrite, Throws, Goto
<1> QED BY <1>1, <1>3, <1>4, <1>5 DEF Next, Crash

\* If one request, webhook or sweep runs at a time, whatever order the events
\* come in, no step shortens the month a running subscription is paid up to.
THEOREM PeriodsGrow == ASSUME OneAtATime PROVE Spec => PeriodNeverShrinks
<1>1. Init => SerialInv
  BY ShapeInit DEF Init, SerialInv
<1>2. SerialInv /\ [Next]_vars => SerialInv'
  BY SerialStep
<1>3. SerialInv /\ [Next]_vars => [IsRunning(sub) => sub'.currentEnd >= sub.currentEnd]_vars
  <2> SUFFICES ASSUME SerialInv, [Next]_vars, IsRunning(sub)
               PROVE  sub'.currentEnd >= sub.currentEnd
      OBVIOUS
  <2>1. Shape /\ sub.currentEnd \in Nat
    BY DEF SerialInv, Shape, TypeOK, Sub
  <2>2. ASSUME NEW h \in Handlers, RegisterWrite(h) PROVE FALSE
    BY <2>2 DEF RegisterWrite, SerialInv
  <2>3. ASSUME NEW h \in Handlers, Apply(h),
               sub'.currentEnd = LaterEnd(snap[h], remote[h])
        PROVE  sub'.currentEnd >= sub.currentEnd
    <3>1. snap[h] = sub /\ snap[h] \in Sub /\ remote[h] \in Entity
      BY <2>1, <2>3 DEF Apply, SerialInv, Shape, TypeOK, LocalType
    <3> QED BY <2>3, <3>1, LaterEndType
  <2> QED BY <2>1, <2>2, <2>3, RowEnd
<1> QED BY <1>1, <1>2, <1>3, PTL DEF Spec, PeriodNeverShrinks

-----------------------------------------------------------------------------
(* The tier, if handlers do not overlap *)

\* Somebody has authorised a mandate on the tier, or was charged for it.
Agreed(plan) == \E e \in sent : e.plan = plan /\ e.status \in {"authenticated", "active"}

\* A mandate that was authorised is on a tier agreed to; one that was not has
\* been charged nothing, and no event has reported it but its end.
MandatesHonest ==
    \A m \in Mandates :
      /\ rStatus[m] \in {"absent", "created"} => \A e \in sent : e.id # m
      /\ Authorised(m) => Agreed(rPlan[m])
      /\ ~Authorised(m) => rStatus[m] \in {"absent", "created", "cancelled"} /\ rEnd[m] = 0

\* What has been reported of a mandate is true to it.
Honest(r) ==
    /\ r.id \in Mandates /\ rStatus[r.id] # "absent"
    /\ Authorised(r.id) => Agreed(r.plan)
    /\ ~Authorised(r.id) => /\ r.status \in {"created", "cancelled"}
                            /\ r.end = 0 /\ r.plan = rPlan[r.id]

\* The mandate was created for that tier, and no other was authorised with it.
OfferedFor(m, plan) ==
    /\ rStatus[m] # "absent"
    /\ rStatus[m] = "created" => rPlan[m] = plan
    /\ \A e \in sent : e.id = m /\ e.status = "authenticated" => e.plan = plan

\* The mandate was created for that tier and nobody has authorised it.
Unsigned(m, plan) == rStatus[m] # "absent" /\ rPlan[m] = plan /\ ~Authorised(m)

\* The row's tier is agreed to, or that of a mandate nobody has authorised yet,
\* and then the row grants nothing.
RowAgreed ==
    /\ sub.mandate # None => rStatus[sub.mandate] # "absent"
    /\ \/ sub.planRef = None \/ Agreed(sub.planRef)
       \/ sub.mandate # None /\ Unsigned(sub.mandate, sub.planRef)
    /\ sub.currentEnd > 0 \/ sub.status \in {"active", "authenticated"}
       => sub.mandate # None /\ Authorised(sub.mandate)
    /\ sub.pending # None /\ sub.pendingPlan # None => OfferedFor(sub.pending, sub.pendingPlan)

\* What a handler is about to write leaves it so.
LocalsAgreed ==
    \A h \in Handlers :
      /\ pc[h] \in {"promoting", "promoted"} => Authorised(snap[h].pending)
      /\ pc[h] = "offering" => OfferedFor(made[h], want[h])
      /\ pc[h] = "registering" => Unsigned(made[h], want[h])
      /\ pc[h] \in {"finding", "applying", "abandoning", "closing"} => Honest(remote[h])
      /\ pc[h] \in {"applying", "abandoning", "closing"} => remote[h].id = snap[h].mandate

TierInv ==
    /\ SerialInv /\ MandatesHonest /\ (\A e \in sent : Honest(e))
    /\ RowAgreed /\ LocalsAgreed

\* What a step may do to the mandates at Razorpay: create one, report a new
\* status of one, or charge one.
Opened(m, plan) ==
    /\ rStatus[m] = "absent"
    /\ rStatus' = [rStatus EXCEPT ![m] = "created"]
    /\ rPlan' = [rPlan EXCEPT ![m] = plan]
    /\ UNCHANGED <<rEnd, sent>>

Reported(m, st) ==
    /\ rStatus[m] \in Live
    /\ st = "authenticated" => rStatus[m] = "created" /\ \A h \in Handlers : made[h] # m
    /\ st \in {"pending", "halted"} => rStatus[m] \in {"active", "pending"}
    /\ MoveTo(m, st)
    /\ UNCHANGED <<rPlan, rEnd>>

ChargedOn(m, plan, end) ==
    /\ rStatus[m] \in {"authenticated", "active", "pending"}
    /\ rStatus' = [rStatus EXCEPT ![m] = "active"]
    /\ rPlan' = [rPlan EXCEPT ![m] = plan]
    /\ rEnd' = [rEnd EXCEPT ![m] = end]
    /\ sent' = sent \cup {[id |-> m, status |-> "active", plan |-> plan, end |-> end]}

\* No step does anything else to them.
LEMMA Moves ==
  ASSUME Shape, [Next]_vars
  PROVE  \/ UNCHANGED <<rStatus, rPlan, rEnd, sent>>
         \/ \E m \in Mandates :
              \/ \E plan : Opened(m, plan)
              \/ \E st \in {"authenticated", "pending", "halted", "cancelled"} : Reported(m, st)
              \/ \E plan, end : ChargedOn(m, plan, end)
<1> USE DEF Shape
<1>1. CASE Tick \/ UNCHANGED vars
  BY <1>1 DEF Tick, vars, razorpayVars
<1>2. CASE Razorpay
  <2>1. PICK m \in Mandates : Authorise(m) \/ Charge(m) \/ DebitRefused(m) \/ CycleEnds(m)
    BY <1>2 DEF Razorpay
  <2>2. CASE Authorise(m)
    BY <2>2 DEF Authorise, Reported, Live
  <2>3. CASE Charge(m)
    <3> DEFINE plan == IF rNext[m] = None THEN rPlan[m] ELSE rNext[m]
    <3>1. ChargedOn(m, plan, clock + 1)
      BY <2>3 DEF Charge, ChargedOn
    <3> QED BY <3>1
  <2>4. CASE DebitRefused(m)
    BY <2>4 DEF DebitRefused, Reported, Live
  <2>5. CASE CycleEnds(m)
    BY <2>5 DEF CycleEnds, Reported
  <2> QED BY <2>1, <2>2, <2>3, <2>4, <2>5
<1>3. ASSUME NEW m \in Mandates, StopNow(m) PROVE Reported(m, "cancelled")
  BY <1>3 DEF StopNow, Reported
<1>4. ASSUME NEW h \in Handlers, Arrive(h) \/ ReconcileRead(h) \/ Crash(h)
      PROVE  UNCHANGED <<rStatus, rPlan, rEnd, sent>>
  BY <1>4 DEF Arrive, RegisterRead, ChangeRead, ConfirmRead, WebhookRecord, CancelRead,
              ReconcileRead, Crash, razorpayVars
<1>5. ASSUME NEW h \in Handlers, NEW m \in Mandates, RegisterCreate(h, m) \/ PendingCreate(h, m)
      PROVE  \E plan : Opened(m, plan)
  BY <1>5 DEF RegisterCreate, PendingCreate, CreateMandate, Opened
<1>6. ASSUME NEW h \in Handlers, ReplacePending(h) \/ CancelPending(h)
      PROVE  UNCHANGED <<rStatus, rPlan, rEnd, sent>>
             \/ \E m \in Mandates : Reported(m, "cancelled")
  <2>1. snap[h].pending \in Mandates
    BY <1>6 DEF ReplacePending, CancelPending, LocalsHaveMandate
  <2> QED BY <1>3, <1>6, <2>1 DEF ReplacePending, CancelPending, CallFails, razorpayVars
<1>7. ASSUME NEW h \in Handlers, CancelCall(h)
      PROVE  UNCHANGED <<rStatus, rPlan, rEnd, sent>>
             \/ \E m \in Mandates : Reported(m, "cancelled")
  <2>1. snap[h].mandate \in Mandates
    BY <1>7 DEF CancelCall, LocalsHaveMandate, WithRow
  <2> QED BY <1>3, <1>7, <2>1 DEF CancelCall, StopAtCycleEnd
<1>8. ASSUME NEW h \in Handlers, Step(h)
      PROVE  \/ UNCHANGED <<rStatus, rPlan, rEnd, sent>>
             \/ \E m \in Mandates : RegisterCreate(h, m) \/ PendingCreate(h, m)
             \/ ReplacePending(h) \/ CancelPending(h) \/ CancelCall(h)
  BY <1>8 DEF Step, RegisterWrite, PendingWrite, StopOld, Promote, Fetch, Apply, WebhookFind,
              Downgrade, BookDowngrade, CancelWrite, Throws, StopAtCycleEnd, CallFails,
              razorpayVars
<1> QED BY <1>1, <1>2, <1>4, <1>5, <1>6, <1>7, <1>8 DEF Next

\* What is agreed to stays agreed to, and a mandate once created exists.
LEMMA AgreementsStay ==
  ASSUME Shape, [Next]_vars
  PROVE  /\ sent \subseteq sent'
         /\ \A m \in Mandates : rStatus[m] # "absent" => rStatus'[m] # "absent"
<1> USE DEF Shape, TypeOK, RazorpayType
<1>1. ASSUME NEW m \in Mandates, NEW plan, Opened(m, plan)
      PROVE  /\ sent \subseteq sent'
             /\ \A n \in Mandates : rStatus[n] # "absent" => rStatus'[n] # "absent"
  BY <1>1 DEF Opened
<1>2. ASSUME NEW m \in Mandates, NEW st \in {"authenticated", "pending", "halted", "cancelled"},
             Reported(m, st)
      PROVE  /\ sent \subseteq sent'
             /\ \A n \in Mandates : rStatus[n] # "absent" => rStatus'[n] # "absent"
  BY <1>2 DEF Reported, MoveTo
<1>3. ASSUME NEW m \in Mandates, NEW plan, NEW end, ChargedOn(m, plan, end)
      PROVE  /\ sent \subseteq sent'
             /\ \A n \in Mandates : rStatus[n] # "absent" => rStatus'[n] # "absent"
  BY <1>3 DEF ChargedOn
<1> QED BY <1>1, <1>2, <1>3, Moves

\* A mandate nobody has authorised keeps its tier once it is created; when it
\* is authorised, that tier is agreed to, and no request is still at work on it.
LEMMA UnsignedStays ==
  ASSUME Shape, MandatesHonest, [Next]_vars, NEW m \in Mandates, ~Authorised(m)
  PROVE  /\ rStatus[m] # "absent" => rPlan'[m] = rPlan[m]
         /\ rEnd'[m] = rEnd[m]
         /\ \A e \in sent' \ sent : e.id = m =>
              /\ rStatus[m] # "absent" /\ e.plan = rPlan[m] /\ e.end = rEnd[m]
              /\ \/ e.status = "cancelled" /\ rStatus'[m] = "cancelled"
                 \/ /\ e.status = "authenticated" /\ rStatus[m] = "created"
                    /\ \A h \in Handlers : made[h] # m
         /\ rStatus'[m] # rStatus[m] =>
              rStatus'[m] \in {"created", "cancelled"} \/ Authorised(m)'
<1> USE DEF Shape, TypeOK, RazorpayType
<1>1. rStatus[m] \in {"absent", "created", "cancelled"}
  BY DEF MandatesHonest
<1>2. CASE UNCHANGED <<rStatus, rPlan, rEnd, sent>>
  BY <1>2
<1>3. ASSUME NEW n \in Mandates, NEW plan, Opened(n, plan)
      PROVE  /\ rStatus[m] # "absent" => rPlan'[m] = rPlan[m]
             /\ rEnd'[m] = rEnd[m] /\ sent' = sent
             /\ rStatus'[m] \in {rStatus[m], "created"}
  BY <1>3 DEF Opened
<1>4. ASSUME NEW n \in Mandates, NEW plan, NEW end, ChargedOn(n, plan, end)
      PROVE  /\ rPlan'[m] = rPlan[m] /\ rEnd'[m] = rEnd[m] /\ rStatus'[m] = rStatus[m]
             /\ \A e \in sent' \ sent : e.id # m
  <2>1. n # m
    BY <1>1, <1>4 DEF ChargedOn
  <2> QED BY <1>4, <2>1 DEF ChargedOn
<1>5. ASSUME NEW n \in Mandates, NEW st \in {"authenticated", "pending", "halted", "cancelled"},
             Reported(n, st)
      PROVE  /\ rPlan'[m] = rPlan[m] /\ rEnd'[m] = rEnd[m]
             /\ \A e \in sent' \ sent : e.id = m =>
                  /\ rStatus[m] # "absent" /\ e.plan = rPlan[m] /\ e.end = rEnd[m]
                  /\ \/ e.status = "cancelled" /\ rStatus'[m] = "cancelled"
                     \/ /\ e.status = "authenticated" /\ rStatus[m] = "created"
                        /\ \A h \in Handlers : made[h] # m
             /\ rStatus'[m] # rStatus[m] => rStatus'[m] = "cancelled" \/ Authorised(m)'
  <2> DEFINE e == [EntityOf(n) EXCEPT !.status = st]
  <2>1. /\ e.id = n /\ e.plan = rPlan[n] /\ e.end = rEnd[n] /\ e.status = st
        /\ sent' = sent \cup {e} /\ rStatus' = [rStatus EXCEPT ![n] = st]
    BY <1>5 DEF Reported, MoveTo, EntityOf
  <2> HIDE DEF e
  <2>2. CASE n # m
    BY <1>5, <2>1, <2>2 DEF Reported
  <2>3. CASE n = m
    <3>1. st \in {"authenticated", "cancelled"} /\ rStatus[m] = "created"
      BY <1>1, <1>5, <2>3 DEF Reported, Live
    <3>2. st = "authenticated" => Authorised(m)'
      BY <2>1, <2>3 DEF Authorised
    <3> QED BY <1>5, <2>1, <2>3, <3>1, <3>2 DEF Reported
  <2> QED BY <2>2, <2>3
<1> QED BY <1>2, <1>3, <1>4, <1>5, Moves

\* The same, said of the predicates.
LEMMA Signing ==
  ASSUME Shape, MandatesHonest, [Next]_vars, NEW m \in Mandates
  PROVE  /\ Authorised(m) => Authorised(m)'
         /\ \A plan : Agreed(plan) => Agreed(plan)'
         /\ ~Authorised(m) /\ Authorised(m)' =>
              /\ rStatus[m] = "created"
              /\ \E e \in sent' : e.plan = rPlan[m] /\ e.status \in {"authenticated", "active"}
              /\ \A h \in Handlers : made[h] # m
<1>1. sent \subseteq sent'
  BY AgreementsStay
<1>2. ASSUME ~Authorised(m), Authorised(m)'
      PROVE  /\ rStatus[m] = "created"
             /\ \E e \in sent' : e.plan = rPlan[m] /\ e.status \in {"authenticated", "active"}
             /\ \A h \in Handlers : made[h] # m
  <2>1. PICK e \in sent' : e.id = m /\ e.status = "authenticated"
    BY <1>2 DEF Authorised
  <2>2. e \notin sent
    BY <1>2, <2>1 DEF Authorised
  <2> QED BY <1>2, <2>1, <2>2, UnsignedStays
<1> QED BY <1>1, <1>2 DEF Authorised, Agreed

\* What was true of a mandate stays true: of a report, of an offer, and of a
\* mandate some request is still at work on.
LEMMA HonestStays ==
  ASSUME Shape, MandatesHonest, [Next]_vars, NEW r, Honest(r)
  PROVE  /\ rStatus'[r.id] # "absent"
         /\ Authorised(r.id)' => Agreed(r.plan)'
         /\ ~Authorised(r.id)' => /\ r.status \in {"created", "cancelled"}
                                  /\ r.end = 0 /\ r.plan = rPlan'[r.id]
<1> DEFINE m == r.id
<1>1. m \in Mandates /\ rStatus[m] # "absent" /\ rStatus'[m] # "absent"
  BY AgreementsStay DEF Honest
<1>2. CASE Authorised(m)
  BY <1>1, <1>2, Signing DEF Honest
<1>3. CASE ~Authorised(m)
  <2>1. r.status \in {"created", "cancelled"} /\ r.end = 0 /\ r.plan = rPlan[m]
    BY <1>3 DEF Honest
  <2>2. rPlan'[m] = rPlan[m]
    BY <1>1, <1>3, UnsignedStays
  <2>3. Authorised(m)' => Agreed(r.plan)'
    BY <1>1, <1>3, <2>1, Signing DEF Agreed
  <2> QED BY <1>1, <2>1, <2>2, <2>3
<1> QED BY <1>1, <1>2, <1>3

\* An offer stands: a mandate is authorised on the tier it was created for.
LEMMA OfferStays ==
  ASSUME Shape, MandatesHonest, [Next]_vars, NEW m \in Mandates, NEW plan, OfferedFor(m, plan)
  PROVE  OfferedFor(m, plan)'
<1> USE DEF Shape, TypeOK, RazorpayType
<1>1. rStatus[m] # "absent" /\ rStatus'[m] # "absent"
  BY AgreementsStay DEF OfferedFor
<1>2. CASE UNCHANGED <<rStatus, rPlan, rEnd, sent>>
  BY <1>2 DEF OfferedFor
<1>3. ASSUME NEW n \in Mandates, NEW p, Opened(n, p) PROVE OfferedFor(m, plan)'
  <2>1. n # m
    BY <1>1, <1>3 DEF Opened
  <2> QED BY <1>1, <1>3, <2>1 DEF Opened, OfferedFor
<1>4. ASSUME NEW n \in Mandates, NEW p, NEW end, ChargedOn(n, p, end) PROVE OfferedFor(m, plan)'
  BY <1>1, <1>4 DEF ChargedOn, OfferedFor
<1>5. ASSUME NEW n \in Mandates, NEW st \in {"authenticated", "pending", "halted", "cancelled"},
             Reported(n, st)
      PROVE  OfferedFor(m, plan)'
  <2> DEFINE e == [EntityOf(n) EXCEPT !.status = st]
  <2>1. /\ e.id = n /\ e.plan = rPlan[n] /\ e.status = st
        /\ sent' = sent \cup {e} /\ rStatus' = [rStatus EXCEPT ![n] = st] /\ rPlan' = rPlan
    BY <1>5 DEF Reported, MoveTo, EntityOf
  <2> HIDE DEF e
  <2>2. st = "authenticated" => rStatus[n] = "created"
    BY <1>5 DEF Reported
  <2> QED BY <1>1, <2>1, <2>2 DEF OfferedFor
<1> QED BY <1>2, <1>3, <1>4, <1>5, Moves

\* What is known of the mandates at Razorpay is inductive.
LEMMA MandatesHonestStep ==
  ASSUME Shape, MandatesHonest, \A e \in sent : Honest(e), [Next]_vars
  PROVE  MandatesHonest' /\ \A e \in sent' : Honest(e)'
<1> USE DEF Shape, TypeOK, RazorpayType
\* It is enough to look at the one mandate that moves, and at what is said of it.
<1>1. ASSUME NEW n \in Mandates, NEW new,
             sent' \in {sent, sent \cup {new}}, new.id = n,
             \A m \in Mandates \ {n} :
               rPlan'[m] = rPlan[m] /\ rStatus'[m] = rStatus[m] /\ rEnd'[m] = rEnd[m],
             rStatus'[n] \in {"absent", "created"} => \A e \in sent' : e.id # n,
             Authorised(n)' => Agreed(rPlan[n])',
             ~Authorised(n)' => /\ rStatus'[n] \in {"absent", "created", "cancelled"}
                                /\ rEnd'[n] = 0,
             new \in sent' => Honest(new)'
      PROVE  MandatesHonest' /\ \A e \in sent' : Honest(e)'
  <2>1. ASSUME NEW m \in Mandates, m # n
        PROVE  /\ rStatus'[m] \in {"absent", "created"} => \A e \in sent' : e.id # m
               /\ Authorised(m)' => Agreed(rPlan[m])'
               /\ ~Authorised(m)' => /\ rStatus'[m] \in {"absent", "created", "cancelled"}
                                     /\ rEnd'[m] = 0
    <3>1. Authorised(m)' <=> Authorised(m)
      BY <1>1, <2>1 DEF Authorised
    <3>2. \A e \in sent' : e.id = m => e \in sent
      BY <1>1, <2>1
    <3>3. rPlan'[m] = rPlan[m] /\ rStatus'[m] = rStatus[m] /\ rEnd'[m] = rEnd[m]
      BY <1>1, <2>1
    <3>4. Agreed(rPlan[m]) => Agreed(rPlan[m])'
      BY <3>3, Signing DEF Agreed
    <3> QED BY <3>1, <3>2, <3>3, <3>4 DEF MandatesHonest
  <2>2. MandatesHonest'
    BY <1>1, <2>1 DEF MandatesHonest
  <2>3. ASSUME NEW e \in sent' PROVE Honest(e)'
    <3>1. CASE e \in sent
      BY <3>1, HonestStays DEF Honest
    <3>2. CASE e = new
      BY <1>1, <3>2
    <3> QED BY <1>1, <3>1, <3>2
  <2> QED BY <2>2, <2>3
<1>2. CASE UNCHANGED <<rStatus, rPlan, rEnd, sent>>
  BY <1>2 DEF MandatesHonest, Honest, Authorised, Agreed
<1>3. ASSUME NEW n \in Mandates, NEW plan, Opened(n, plan)
      PROVE  MandatesHonest' /\ \A e \in sent' : Honest(e)'
  <2>1. (\A e \in sent : e.id # n) /\ ~Authorised(n) /\ rEnd[n] = 0
    BY <1>3 DEF Opened, MandatesHonest, Authorised
  <2>2. /\ sent' = sent /\ rStatus'[n] = "created" /\ rEnd'[n] = 0 /\ ~Authorised(n)'
        /\ \A m \in Mandates \ {n} :
             rPlan'[m] = rPlan[m] /\ rStatus'[m] = rStatus[m] /\ rEnd'[m] = rEnd[m]
    BY <1>3, <2>1 DEF Opened, Authorised
  <2>3. MandatesHonest'
    <3>1. \A m : Authorised(m)' <=> Authorised(m)
      BY <2>2 DEF Authorised
    <3>2. \A m \in Mandates \ {n} : Agreed(rPlan[m])' <=> Agreed(rPlan[m])
      BY <2>2 DEF Agreed
    <3> QED BY <2>1, <2>2, <3>1, <3>2 DEF MandatesHonest
  <2>4. ASSUME NEW e \in sent' PROVE Honest(e)'
    BY <2>2, HonestStays DEF Honest
  <2> QED BY <2>3, <2>4
<1>4. ASSUME NEW n \in Mandates, NEW st \in {"authenticated", "pending", "halted", "cancelled"},
             Reported(n, st)
      PROVE  MandatesHonest' /\ \A e \in sent' : Honest(e)'
  <2>1. PICK new :
          /\ new.id = n /\ new.plan = rPlan[n] /\ new.end = rEnd[n] /\ new.status = st
          /\ sent' = sent \cup {new} /\ rStatus' = [rStatus EXCEPT ![n] = st]
          /\ rPlan' = rPlan /\ rEnd' = rEnd
    BY <1>4 DEF Reported, MoveTo, EntityOf
  <2>2. Authorised(n)' => Agreed(rPlan[n])'
    <3>1. Authorised(n) => Agreed(rPlan[n])
      BY DEF MandatesHonest
    <3> QED BY <2>1, <3>1, Signing DEF Agreed
  <2>3. ~Authorised(n)' => st = "cancelled" /\ rEnd[n] = 0
    <3>1. st # "authenticated" \/ Authorised(n)'
      BY <2>1 DEF Authorised
    <3>2. ~Authorised(n) => rStatus[n] \in {"absent", "created", "cancelled"} /\ rEnd[n] = 0
      BY DEF MandatesHonest
    <3>3. ~Authorised(n)' => ~Authorised(n)
      BY Signing
    <3> QED BY <1>4, <3>1, <3>2, <3>3 DEF Reported
  <2>4. Honest(new)'
    BY <2>1, <2>2, <2>3 DEF Honest, Agreed
  <2> QED BY <1>1, <2>1, <2>2, <2>3, <2>4
<1>5. ASSUME NEW n \in Mandates, NEW plan, NEW end, ChargedOn(n, plan, end)
      PROVE  MandatesHonest' /\ \A e \in sent' : Honest(e)'
  <2> DEFINE new == [id |-> n, status |-> "active", plan |-> plan, end |-> end]
  <2>1. /\ new.id = n /\ new.plan = plan /\ new.status = "active" /\ sent' = sent \cup {new}
        /\ rStatus'[n] = "active" /\ rPlan'[n] = plan
        /\ \A m \in Mandates \ {n} :
             rPlan'[m] = rPlan[m] /\ rStatus'[m] = rStatus[m] /\ rEnd'[m] = rEnd[m]
    BY <1>5 DEF ChargedOn
  <2> HIDE DEF new
  <2>2. Authorised(n)'
    <3>1. Authorised(n)
      BY <1>5 DEF ChargedOn, MandatesHonest
    <3> QED BY <3>1, Signing
  <2>3. Agreed(rPlan[n])'
    BY <2>1 DEF Agreed
  <2>4. Honest(new)'
    BY <2>1, <2>2, <2>3 DEF Honest, Agreed
  <2> QED BY <1>1, <2>1, <2>2, <2>3, <2>4
<1> QED BY <1>2, <1>3, <1>4, <1>5, Moves

-----------------------------------------------------------------------------
(* The row and the handlers *)

\* A step that leaves the row alone leaves its tier agreed to.
LEMMA RowStays ==
  ASSUME Shape, MandatesHonest, RowAgreed, [Next]_vars, UNCHANGED sub
  PROVE  RowAgreed'
<1>t. sub.mandate \in Mandates \cup {None} /\ sub.pending \in Mandates \cup {None}
  BY DEF Shape, TypeOK, Sub
<1>1. sub.mandate # None => rStatus'[sub.mandate] # "absent"
  BY <1>t, AgreementsStay DEF RowAgreed
<1>2. \/ sub.planRef = None \/ Agreed(sub.planRef)'
      \/ sub.mandate # None /\ Unsigned(sub.mandate, sub.planRef)'
  <2>1. CASE Agreed(sub.planRef)
    <3>1. sent \subseteq sent'
      BY AgreementsStay
    <3> QED BY <2>1, <3>1 DEF Agreed
  <2>2. CASE sub.mandate # None /\ Unsigned(sub.mandate, sub.planRef)
    <3>1. sub.mandate \in Mandates /\ ~Authorised(sub.mandate) /\ rStatus[sub.mandate] # "absent"
          /\ rPlan[sub.mandate] = sub.planRef
      BY <1>t, <2>2 DEF Unsigned
    <3>2. rPlan'[sub.mandate] = sub.planRef
      BY <3>1, UnsignedStays
    <3>3. CASE Authorised(sub.mandate)'
      <4>1. \E e \in sent' : e.plan = sub.planRef /\ e.status \in {"authenticated", "active"}
        <5>1. \A m \in Mandates : m = sub.mandate /\ Authorised(m)' =>
                \E e \in sent' : e.plan = rPlan[m] /\ e.status \in {"authenticated", "active"}
          BY <3>1, Signing
        <5> QED BY <3>1, <3>3, <5>1 DEF Authorised
      <4> QED BY <4>1 DEF Agreed
    <3>4. CASE ~Authorised(sub.mandate)'
      BY <1>1, <2>2, <3>1, <3>2, <3>4 DEF Unsigned
    <3> QED BY <3>3, <3>4
  <2> QED BY <2>1, <2>2 DEF RowAgreed
<1>3. sub.currentEnd > 0 \/ sub.status \in {"active", "authenticated"}
      => sub.mandate # None /\ Authorised(sub.mandate)'
  <2>1. sent \subseteq sent'
    BY AgreementsStay
  <2> QED BY <2>1 DEF RowAgreed, Authorised
<1>4. sub.pending # None /\ sub.pendingPlan # None => OfferedFor(sub.pending, sub.pendingPlan)'
  <2>1. \A m \in Mandates : \A plan : OfferedFor(m, plan) => OfferedFor(m, plan)'
    BY OfferStays
  <2> QED BY <1>t, <2>1 DEF RowAgreed, OfferedFor
<1> QED BY <1>1, <1>2, <1>3, <1>4 DEF RowAgreed, Agreed, Unsigned, Authorised, OfferedFor

\* A handler's locals stay good while it waits.
LEMMA LocalsStay ==
  ASSUME Shape, MandatesHonest, LocalsAgreed, [Next]_vars, NEW h \in Handlers
  PROVE  /\ pc[h] \in {"promoting", "promoted"}
            => \E e \in sent' : e.id = snap[h].pending /\ e.status = "authenticated"
         /\ pc[h] = "offering" => OfferedFor(made[h], want[h])'
            \/ made'[h] # made[h] \/ want'[h] # want[h]
         /\ pc[h] = "registering" => Unsigned(made[h], want[h])'
            \/ made'[h] # made[h] \/ want'[h] # want[h]
         /\ pc[h] \in {"finding", "applying", "abandoning", "closing"}
            => Honest(remote[h])' \/ remote'[h] # remote[h]
<1>1. sent \subseteq sent'
  BY AgreementsStay
<1>2. pc[h] \in {"promoting", "promoted"}
      => \E e \in sent' : e.id = snap[h].pending /\ e.status = "authenticated"
  BY <1>1 DEF LocalsAgreed, Authorised
<1>3. pc[h] \in {"offering", "registering"} => made[h] \in Mandates
  BY DEF Shape, LocalsHaveMandate
<1>4. ASSUME pc[h] = "offering", made'[h] = made[h], want'[h] = want[h]
      PROVE  OfferedFor(made[h], want[h])'
  <2>1. OfferedFor(made[h], want[h])
    BY <1>4 DEF LocalsAgreed
  <2>2. \A m \in Mandates : \A plan : OfferedFor(m, plan) => OfferedFor(m, plan)'
    BY OfferStays
  <2> QED BY <1>3, <1>4, <2>1, <2>2 DEF OfferedFor
<1>5. ASSUME pc[h] = "registering", made'[h] = made[h], want'[h] = want[h]
      PROVE  Unsigned(made[h], want[h])'
  <2>1. Unsigned(made[h], want[h])
    BY <1>5 DEF LocalsAgreed
  <2>2. PICK m \in Mandates : m = made[h]
    BY <1>3, <1>5
  <2>3. ~Authorised(m) /\ rStatus[m] # "absent"
    BY <2>1, <2>2 DEF Unsigned
  <2>4. ~Authorised(m)' /\ rPlan'[m] = rPlan[m] /\ rStatus'[m] # "absent"
    BY <2>2, <2>3, Signing, UnsignedStays, AgreementsStay
  <2> QED BY <1>5, <2>1, <2>2, <2>4 DEF Unsigned, Authorised
<1>6. ASSUME pc[h] \in {"finding", "applying", "abandoning", "closing"}, remote'[h] = remote[h]
      PROVE  Honest(remote[h])'
  <2>1. PICK r : r = remote[h]
    OBVIOUS
  <2>2. Honest(r)
    BY <1>6, <2>1 DEF LocalsAgreed
  <2>3. Honest(r)'
    BY <2>2, HonestStays DEF Honest
  <2> QED BY <1>6, <2>1, <2>3 DEF Honest, Authorised, Agreed
<1> QED BY <1>2, <1>4, <1>5, <1>6

\* The tier stays agreed to when a handler writes the row.
LEMMA RowWritten ==
  ASSUME OneAtATime, TierInv, NEW h \in Handlers, UNCHANGED razorpayVars,
         \/ RegisterWrite(h) \/ PendingWrite(h) \/ Promote(h) \/ Apply(h)
         \/ BookDowngrade(h) \/ CancelWrite(h)
  PROVE  RowAgreed'
<1>t. /\ Shape /\ SerialInv /\ MandatesHonest /\ RowAgreed /\ LocalsAgreed
      /\ sub \in Sub /\ remote[h] \in Entity /\ TypeOK
  BY DEF TierInv, SerialInv, Shape, TypeOK, LocalType
<1>u. sent' = sent /\ rStatus' = rStatus /\ rPlan' = rPlan
  BY DEF razorpayVars
<1>n. \A m \in Mandates : m # None
  BY ConstantsAssumption
<1> USE DEF RowAgreed, Agreed, Unsigned, Authorised, OfferedFor
<1>1. CASE RegisterWrite(h)
  <2>1. made[h] \in Mandates /\ Unsigned(made[h], want[h])
    BY <1>1, <1>t DEF RegisterWrite, Shape, LocalsHaveMandate, LocalsAgreed
  <2>2. CASE UNCHANGED sub
    BY <1>t, <1>u, <2>2
  <2>3. CASE sub' = [sub EXCEPT !.status = "created", !.mandate = made[h],
                                !.planId = want[h], !.planRef = want[h],
                                !.currentEnd = 0, !.cancelAtCycleEnd = "no"]
    <3>1. /\ sub'.status = "created" /\ sub'.mandate = made[h] /\ sub'.planRef = want[h]
          /\ sub'.currentEnd = 0
          /\ sub'.pending = sub.pending /\ sub'.pendingPlan = sub.pendingPlan
      BY <1>t, <2>3 DEF Sub
    <3> QED BY <1>t, <1>u, <1>n, <2>1, <3>1
  <2> QED BY <1>1, <2>2, <2>3 DEF RegisterWrite
<1>2. CASE PendingWrite(h)
  <2>1. OfferedFor(made[h], want[h])
    BY <1>2, <1>t DEF PendingWrite, LocalsAgreed
  <2>2. /\ sub'.status = sub.status /\ sub'.mandate = sub.mandate /\ sub'.planRef = sub.planRef
        /\ sub'.currentEnd = sub.currentEnd
        /\ sub'.pending = made[h] /\ sub'.pendingPlan = want[h]
    BY <1>2, <1>t DEF PendingWrite, Sub
  <2> QED BY <1>t, <1>u, <2>1, <2>2
<1>3. CASE Promote(h)
  <2>1. snap[h] = sub /\ Authorised(sub.pending) /\ sub.pending \in Mandates
    BY <1>3, <1>t DEF Promote, SerialInv, LocalsAgreed, Shape, LocalsHaveMandate
  <2>2. /\ sub'.mandate = sub.pending /\ sub'.planRef = sub.pendingPlan
        /\ sub'.pending = None
    BY <1>3, <1>t, <2>1 DEF Promote, Sub
  <2>3. rStatus[sub.pending] # "absent"
    BY <1>t, <2>1 DEF MandatesHonest
  <2>4. sub.pendingPlan # None => Agreed(sub.pendingPlan)
    BY <1>t, <1>n, <2>1
  <2> QED BY <1>u, <1>n, <2>1, <2>2, <2>3, <2>4
<1>4. CASE Apply(h)
  <2> DEFINE r == remote[h]
  <2>1. snap[h] = sub /\ Honest(r) /\ r.id = sub.mandate /\ sub.mandate \in Mandates
    BY <1>4, <1>t DEF Apply, SerialInv, LocalsAgreed, Shape, LocalsHaveMandate, WithRow
  <2>2. /\ sub'.status = r.status /\ sub'.currentEnd = LaterEnd(sub, r)
        /\ sub'.mandate = sub.mandate /\ sub'.pending = sub.pending
        /\ sub'.planRef = IF r.plan = sub.planId THEN sub.planRef ELSE r.plan
        /\ sub'.pendingPlan = IF r.plan = sub.planId THEN sub.pendingPlan ELSE None
    BY <1>4, <1>t, <2>1 DEF Apply, Applied, Sub
  <2>3. sub'.currentEnd > 0 => sub.currentEnd > 0 \/ r.end # 0
    BY <1>t, <2>2 DEF LaterEnd, Sub, Entity
  <2>4. CASE Authorised(sub.mandate)
    <3>1. Agreed(r.plan)
      BY <2>1, <2>4 DEF Honest
    <3>2. sub.planRef = None \/ Agreed(sub.planRef)
      BY <1>t, <2>4
    <3> QED BY <1>t, <1>u, <1>n, <2>1, <2>2, <2>4, <3>1, <3>2
  <2>5. CASE ~Authorised(sub.mandate)
    <3>1. r.status \in {"created", "cancelled"} /\ r.end = 0 /\ r.plan = rPlan[sub.mandate]
      BY <2>1, <2>5 DEF Honest
    <3>2. ~(sub.currentEnd > 0)
      BY <1>t, <2>5
    <3> QED BY <1>t, <1>u, <1>n, <2>1, <2>2, <2>3, <2>5, <3>1, <3>2
  <2> QED BY <2>4, <2>5
<1>5. CASE BookDowngrade(h)
  <2>1. /\ sub'.status = sub.status /\ sub'.mandate = sub.mandate /\ sub'.planRef = sub.planRef
        /\ sub'.currentEnd = sub.currentEnd /\ sub'.pending = None
    BY <1>5, <1>t DEF BookDowngrade, Sub
  <2> QED BY <1>t, <1>u, <2>1
<1>6. CASE CancelWrite(h)
  <2>1. snap[h] = sub /\ Honest(remote[h]) /\ remote[h].id = sub.mandate /\ sub.mandate \in Mandates
    BY <1>6, <1>t DEF CancelWrite, SerialInv, LocalsAgreed, Shape, LocalsHaveMandate, WithRow
  <2>2. /\ sub'.status = remote[h].status /\ sub'.mandate = sub.mandate
        /\ sub'.planRef = sub.planRef /\ sub'.currentEnd = sub.currentEnd /\ sub'.pending = None
    BY <1>6, <1>t DEF CancelWrite, Sub
  <2>3. remote[h].status \in {"active", "authenticated"} => Authorised(sub.mandate)
    BY <2>1 DEF Honest
  <2> QED BY <1>t, <1>u, <1>n, <2>1, <2>2, <2>3
<1> QED BY <1>1, <1>2, <1>3, <1>4, <1>5, <1>6

\* What a lone handler sets out to do is good when it does.
LEMMA LocalsWritten ==
  ASSUME OneAtATime, TierInv, [Next]_vars
  PROVE  LocalsAgreed'
<1>t. /\ Shape /\ SerialInv /\ MandatesHonest /\ RowAgreed /\ LocalsAgreed /\ TypeOK /\ LocalType
      /\ \A e \in sent : Honest(e)
  BY DEF TierInv, SerialInv, Shape, TypeOK
<1>one. ASSUME NEW h \in Handlers PROVE Handlers = {h}
  BY DEF OneAtATime
<1>stay. ASSUME NEW h \in Handlers
         PROVE  /\ pc[h] \in {"promoting", "promoted"}
                   => \E e \in sent' : e.id = snap[h].pending /\ e.status = "authenticated"
                /\ pc[h] = "offering" => OfferedFor(made[h], want[h])'
                   \/ made'[h] # made[h] \/ want'[h] # want[h]
                /\ pc[h] = "registering" => Unsigned(made[h], want[h])'
                   \/ made'[h] # made[h] \/ want'[h] # want[h]
                /\ pc[h] \in {"finding", "applying", "abandoning", "closing"}
                   => Honest(remote[h])' \/ remote'[h] # remote[h]
  BY <1>t, LocalsStay
<1> USE DEF LocalType
<1>1. CASE UNCHANGED localVars
  BY <1>1, <1>t, <1>stay DEF localVars, LocalsAgreed, Authorised
<1>2. ASSUME NEW h \in Handlers, pc'[h] \notin {"promoting", "promoted", "offering", "registering",
                                              "finding", "applying", "abandoning", "closing"}
      PROVE  LocalsAgreed'
  BY <1>2, <1>one DEF LocalsAgreed
<1>3. ASSUME NEW h \in Handlers, Done(h) PROVE LocalsAgreed'
  BY <1>2, <1>3, <1>t DEF Done
<1>4. ASSUME NEW h \in Handlers, Arrive(h) \/ ReconcileRead(h) PROVE LocalsAgreed'
  <2>1. ASSUME NEW m \in Mandates, ConfirmRead(h, m), pc'[h] = "promoting" PROVE LocalsAgreed'
    <3>1. Authorised(m) /\ snap'[h] = sub /\ sub.pending = m /\ sent' = sent
      BY <2>1, <1>t DEF ConfirmRead, Begin, razorpayVars
    <3> QED BY <2>1, <3>1, <1>one DEF LocalsAgreed, Authorised
  <2>2. ASSUME NEW m \in Mandates, ConfirmRead(h, m), pc'[h] # "promoting" PROVE LocalsAgreed'
    BY <2>2, <1>2, <1>t DEF ConfirmRead, Begin
  <2>3. ASSUME NEW e \in sent, WebhookRecord(h, e) PROVE LocalsAgreed'
    <3>1. remote'[h] = e /\ pc'[h] = "finding" /\ Honest(e) /\ UNCHANGED razorpayVars
      BY <2>3, <1>t DEF WebhookRecord
    <3> QED BY <3>1, <1>one DEF LocalsAgreed, Honest, Authorised, Agreed, razorpayVars
  <2>4. CASE (\E plan \in Plans : RegisterRead(h, plan) \/ ChangeRead(h, plan))
             \/ CancelRead(h) \/ ReconcileRead(h)
    BY <2>4, <1>2, <1>t DEF RegisterRead, ChangeRead, CancelRead, ReconcileRead, Begin
  <2> QED BY <1>4, <2>1, <2>2, <2>3, <2>4 DEF Arrive
<1>5. ASSUME NEW h \in Handlers, NEW m \in Mandates, RegisterCreate(h, m) \/ PendingCreate(h, m)
      PROVE  LocalsAgreed'
  <2>1. /\ rStatus[m] = "absent" /\ rStatus'[m] = "created" /\ rPlan'[m] = want[h]
        /\ sent' = sent /\ made'[h] = m /\ want'[h] = want[h]
        /\ pc'[h] \in {"registering", "offering"}
    BY <1>5, <1>t DEF RegisterCreate, PendingCreate, CreateMandate, TypeOK, RazorpayType
  <2>2. \A e \in sent : e.id # m
    BY <2>1, <1>t DEF MandatesHonest
  <2> QED BY <2>1, <2>2, <1>one DEF LocalsAgreed, Unsigned, OfferedFor, Authorised
<1>6. ASSUME NEW h \in Handlers, Goto(h, "authorising") \/ Goto(h, "booking") \/ Promote(h)
      PROVE  LocalsAgreed'
  BY <1>2, <1>6, <1>t DEF Goto, Promote
<1>7. ASSUME NEW h \in Handlers, StopOld(h) PROVE LocalsAgreed'
  <2>1. pc[h] = "promoting" /\ pc'[h] = "promoted" /\ snap'[h] = snap[h]
    BY <1>7, <1>t DEF StopOld, Goto
  <2> QED BY <2>1, <1>stay, <1>one DEF LocalsAgreed, Authorised
<1>8. ASSUME NEW h \in Handlers, Fetch(h) \/ CancelCall(h) PROVE LocalsAgreed'
  <2> DEFINE m == sub.mandate
  <2>1. snap[h] = sub /\ m \in Mandates /\ rStatus[m] # "absent"
    BY <1>8, <1>t, ConstantsAssumption
       DEF Fetch, CancelCall, SerialInv, Shape, LocalsHaveMandate, WithRow, RowAgreed
  <2>2. /\ sub' = sub /\ snap'[h] = sub
        /\ remote'[h].id = m /\ remote'[h].plan = rPlan[m] /\ remote'[h].end = rEnd[m]
        /\ remote'[h].status \in {rStatus[m], "cancelled"}
        /\ pc'[h] \in {"applying", "abandoning", "closing"}
    BY <1>8, <1>t, <2>1 DEF Fetch, CancelCall, EntityOf, StopNow, StopAtCycleEnd, MoveTo,
                            TypeOK, RazorpayType
  <2>3. /\ rPlan' = rPlan /\ rStatus'[m] # "absent"
        /\ \A e \in sent' \ sent : e.status = "cancelled"
        /\ sent \subseteq sent'
    BY <1>8, <1>t, <2>1 DEF Fetch, CancelCall, EntityOf, StopNow, StopAtCycleEnd, MoveTo,
                            razorpayVars, TypeOK, RazorpayType
  <2>4. Authorised(m)' <=> Authorised(m)
    BY <2>2, <2>3 DEF Authorised
  <2>5. /\ Authorised(m) => Agreed(rPlan[m])
        /\ ~Authorised(m) => rStatus[m] \in {"created", "cancelled"} /\ rEnd[m] = 0
    BY <1>t, <2>1 DEF MandatesHonest
  <2>6. Honest(remote[h])'
    BY <2>1, <2>2, <2>3, <2>4, <2>5 DEF Honest, Agreed, Authorised
  <2> QED BY <2>2, <2>6, <1>one DEF LocalsAgreed
<1>9. ASSUME NEW h \in Handlers, WebhookFind(h), ~Done(h) PROVE LocalsAgreed'
  <2>1. /\ pc[h] = "finding" /\ pc'[h] = "applying" /\ remote'[h] = remote[h]
        /\ snap'[h] = sub /\ sub.mandate = remote[h].id
    BY <1>9, <1>t DEF WebhookFind
  <2> QED BY <2>1, <1>stay, <1>one DEF LocalsAgreed
<1>10. ASSUME NEW h \in Handlers, CancelPending(h) PROVE LocalsAgreed'
  <2>1. /\ pc[h] = "abandoning" /\ pc'[h] = "closing" /\ remote'[h] = remote[h]
        /\ snap'[h] = snap[h]
    BY <1>10, <1>t DEF CancelPending, Goto
  <2> QED BY <2>1, <1>t, <1>stay, <1>one DEF LocalsAgreed
<1>11. ASSUME NEW h \in Handlers, Step(h) PROVE LocalsAgreed'
  BY <1>3, <1>5, <1>6, <1>7, <1>8, <1>9, <1>10, <1>11
     DEF Step, RegisterWrite, ReplacePending, PendingWrite, Apply, Downgrade, BookDowngrade,
         CancelWrite, Throws
<1> QED BY <1>1, <1>3, <1>4, <1>11 DEF Next, Razorpay, Authorise, Charge, DebitRefused, CycleEnds,
           Tick, Crash, vars

\* The invariant is inductive for a lone handler.
LEMMA TierStep == OneAtATime /\ TierInv /\ [Next]_vars => TierInv'
<1> SUFFICES ASSUME OneAtATime, TierInv, [Next]_vars PROVE TierInv'
    OBVIOUS
<1>1. Shape /\ MandatesHonest /\ RowAgreed /\ \A e \in sent : Honest(e)
  BY DEF TierInv, SerialInv
<1>2. SerialInv' /\ MandatesHonest' /\ LocalsAgreed' /\ \A e \in sent' : Honest(e)'
  BY <1>1, SerialStep, MandatesHonestStep, LocalsWritten DEF TierInv
<1>3. RowAgreed'
  <2>1. CASE UNCHANGED sub
    BY <1>1, <2>1, RowStays
  <2>2. ASSUME NEW h \in Handlers, Step(h)
        PROVE  \/ UNCHANGED sub
               \/ /\ UNCHANGED razorpayVars
                  /\ \/ RegisterWrite(h) \/ PendingWrite(h) \/ Promote(h) \/ Apply(h)
                     \/ BookDowngrade(h) \/ CancelWrite(h)
    BY <2>2 DEF Step, RegisterCreate, PendingCreate, RegisterWrite, ReplacePending, PendingWrite,
                StopOld, Promote, Fetch, Apply, WebhookFind, Downgrade, BookDowngrade,
                CancelCall, CancelPending, CancelWrite, Throws
  <2>3. UNCHANGED sub \/ \E h \in Handlers : Step(h)
    BY DEF Next, vars, Tick, Razorpay, Authorise, Charge, DebitRefused, CycleEnds, Arrive,
           RegisterRead, ChangeRead, ConfirmRead, WebhookRecord, CancelRead, ReconcileRead, Crash
  <2> QED BY <2>1, <2>2, <2>3, RowWritten
<1> QED BY <1>2, <1>3 DEF TierInv

\* If one request, webhook or sweep runs at a time, an organisation that has
\* access has it on a tier somebody authorised a mandate for, whatever offers
\* were abandoned at Checkout and whatever order events come in.
THEOREM TiersAreAgreed == ASSUME OneAtATime PROVE Spec => []TierIsAgreed
<1>1. Init => TierInv
  <2> SUFFICES ASSUME Init PROVE TierInv
      OBVIOUS
  <2>1. SerialInv
    BY ShapeInit DEF Init, SerialInv
  <2>2. MandatesHonest /\ RowAgreed /\ LocalsAgreed /\ \A e \in sent : Honest(e)
    BY DEF Init, MandatesHonest, RowAgreed, LocalsAgreed, Authorised, NoSub
  <2> QED BY <2>1, <2>2 DEF TierInv
<1>2. TierInv => TierIsAgreed
  <2> SUFFICES ASSUME TierInv, Grants(sub), sub.planRef # None
               PROVE  \E e \in sent :
                        e.plan = sub.planRef /\ e.status \in {"authenticated", "active"}
      BY DEF TierIsAgreed
  <2>1. clock \in Nat /\ sub.currentEnd \in Nat
    BY DEF TierInv, SerialInv, Shape, TypeOK, Sub
  <2>2. sub.currentEnd > 0 \/ sub.status \in {"active", "authenticated"}
    BY <2>1 DEF Grants
  <2> QED BY <2>2 DEF TierInv, RowAgreed, Agreed, Unsigned
<1> QED BY <1>1, <1>2, TierStep, PTL DEF Spec

-----------------------------------------------------------------------------
(* Agencies: where a request is, and what it knows there *)

\* The statements between the enrolment of a client and its row
Enrolled == {"choosing", "raising", "raised", "opening", "opened", "replacing", "replaced",
             "swapped", "writing"}

\* The statements of detachClient()
Releasing == {"releasing", "lowering", "lowered", "detaching"}

\* A client that was not created yet has neither an agency nor a row.
NotYetMade == \A c \in Clients \ created : agencyOf[c] = Nobody /\ row[c] = NoRow

\* What a request r knows of its client, whichever statement it has come to
KnowsClient(r, roster, rows, known) ==
    /\ r.step # "idle" => r.org \in Orgs
    /\ r.step = "attaching" => /\ r.target \in Orgs \cup known
                               /\ roster[r.target] \in {Nobody, r.org}
    /\ r.step \in {"enrolling"} \cup Enrolled => r.target \in known /\ rows[r.target] = NoRow
    /\ r.step \in Releasing => r.target \in Orgs \cup known
    /\ r.step \in Enrolled \cup Releasing => roster[r.target] = r.org
    /\ r.step \in {"lowering", "lowered"} =>
         r.target \in Clients /\ rows[r.target].payer = r.org /\ rows[r.target].ending
    /\ r.step = "detaching" =>
         r.target \in Orgs \/ rows[r.target].payer # r.org \/ rows[r.target].ending

RosterInv ==
    /\ NotYetMade /\ DetachedIsReleased
    /\ \A w \in Workers : KnowsClient(req[w], agencyOf, row, created)

\* The agency has authorised a mandate.
HasAuthorised(mandates, a) ==
    \E m \in DOMAIN mandates : mandates[m].owner = a /\ mandates[m].end > 0

\* A group is nobody's or points at a mandate of its agency's.
GroupsPoint ==
    \A a \in Orgs :
      /\ group[a].mandate = 0 => group[a].status = "cancelled"
      /\ group[a].mandate # 0 => /\ group[a].mandate \in Issued
                                 /\ mandate[group[a].mandate].owner = a
      /\ group[a].status = "active" => HasAuthorised(mandate, a)

\* What was announced has happened.
NewsIsTrue ==
    \A i \in DOMAIN news :
      /\ news[i].mandate \in Issued
      /\ news[i].status = "active" => mandate[news[i].mandate].end > 0

\* A client's row names a mandate, and its payer has one.
RowsWereBought ==
    \A c \in Clients : row[c].payer # Nobody =>
      /\ row[c].under \in Issued
      /\ group[row[c].payer].mandate # 0

\* Every client of an agency was bought on m, or on one that m replaced.
AllUnder(rows, a, m) == \A c \in Clients : rows[c].payer = a => rows[c].under = m

\* Its clients that were not released
Count(rows, a) == Cardinality({c \in Clients : rows[c].payer = a /\ ~rows[c].ending})

\* The group counts every client not released.
GroupCovers ==
    \A a \in Orgs : group[a].mandate # 0 /\ AllUnder(row, a, group[a].mandate)
                    => Count(row, a) <= group[a].quantity

\* And so does the provider.
ProviderCovers ==
    \A m \in Issued :
      mandate[m].status # "cancelled" /\ AllUnder(row, mandate[m].owner, m)
      => Count(row, mandate[m].owner) <= mandate[m].next

\* What a request r knows of the money
KnowsMoney(r, groups, rows, mandates) ==
    LET m == r.seen.mandate
    IN  /\ r.step \in {"raising", "raised", "replacing", "replaced", "swapped", "writing",
                       "lowering", "lowered"} =>
             m # 0 /\ m = groups[r.org].mandate /\ r.seen.quantity = groups[r.org].quantity
        /\ r.step \in {"opened", "replaced", "swapped"} =>
             /\ r.made \in DOMAIN mandates /\ mandates[r.made].owner = r.org
             /\ \A c \in Clients : rows[c].under # r.made
        /\ r.step = "opened" => mandates[r.made].next = 1
        /\ r.step \in {"replaced", "swapped"} =>
             r.made # m /\ mandates[r.made].next = r.seen.quantity + 1
        /\ r.step = "raised" => mandates[m].next = r.seen.quantity + 1
        /\ r.step \in {"lowering", "lowered"} /\ AllUnder(rows, r.org, m) =>
             Count(rows, r.org) <= (IF r.seen.quantity > 0 THEN r.seen.quantity - 1 ELSE 0)
        /\ r.step = "writing" /\ r.seen.status = "active" => HasAuthorised(mandates, r.org)
        /\ r.step = "writing" /\ AllUnder(rows, r.org, m) =>
             /\ Count(rows, r.org) + 1 <= r.seen.quantity
             /\ mandates[m].status # "cancelled" => Count(rows, r.org) + 1 <= mandates[m].next

Books == GroupsPoint /\ NewsIsTrue /\ RowsWereBought /\ GroupCovers /\ ProviderCovers
         /\ EntitledAfterAuthorised

MoneyInv == Books /\ \A w \in Workers : KnowsMoney(req[w], group, row, mandate)

AgencyInv == AgencyTypeOK /\ RosterInv /\ MoneyInv

-----------------------------------------------------------------------------

\* Nulls and beginnings have their types.
LEMMA NothingIsTyped ==
    /\ NoGroup \in Group /\ NoRow \in ClientRow /\ NoRequest \in Request
    /\ NoRow.payer = Nobody /\ Nobody \notin Orgs
BY AgencyAssumption DEF NoGroup, Group, NoRow, ClientRow, NoRequest, Request, MandateStatus,
   RequestStep, AllOrgs

\* What becomes of a request in hand, field by field
LEMMA RequestProceeds ==
    ASSUME AgencyTypeOK, NEW w \in Workers, NEW s \in RequestStep, Proceed(w, s)
    PROVE  /\ req' \in [Workers -> Request]
           /\ req'[w].step = s /\ req'[w].org = req[w].org /\ req'[w].target = req[w].target
           /\ req'[w].seen = req[w].seen /\ req'[w].made = req[w].made
BY DEF AgencyTypeOK, Proceed, Request

\* It is over.
LEMMA RequestAnswered ==
    ASSUME AgencyTypeOK, NEW w \in Workers, Answer(w)
    PROVE  /\ req' \in [Workers -> Request]
           /\ req'[w].step = "idle"
BY NothingIsTyped DEF AgencyTypeOK, Answer, NoRequest

\* It begins.
LEMMA RequestReceived ==
    ASSUME AgencyTypeOK, NEW w \in Workers, NEW s \in RequestStep, NEW a \in Orgs,
           NEW o \in AllOrgs \cup {Nobody}, Receive(w, s, a, o)
    PROVE  /\ req' \in [Workers -> Request]
           /\ req'[w].step = s /\ req'[w].org = a /\ req'[w].target = o
BY NothingIsTyped DEF AgencyTypeOK, Receive, NoRequest, Request

\* It has saved the group.
LEMMA RequestSaved ==
    ASSUME AgencyTypeOK, NEW w \in Workers, NEW g \in Group, Save(w, g), req[w].org \in Orgs
    PROVE  /\ req' \in [Workers -> Request]
           /\ req'[w].step = "writing" /\ req'[w].org = req[w].org
           /\ req'[w].target = req[w].target /\ req'[w].seen = g
           /\ group' = [group EXCEPT ![req[w].org] = g] /\ group' \in [Orgs -> Group]
<1>1. req' = [req EXCEPT ![w] = [req[w] EXCEPT !.step = "writing", !.seen = g, !.made = 0]]
  BY DEF Save
<1>2. [req[w] EXCEPT !.step = "writing", !.seen = g, !.made = 0] \in Request
  BY DEF AgencyTypeOK, Request, RequestStep
<1>3. req'[w] = [req[w] EXCEPT !.step = "writing", !.seen = g, !.made = 0]
  BY <1>1 DEF AgencyTypeOK
<1>4. req' \in [Workers -> Request]
  BY <1>1, <1>2 DEF AgencyTypeOK
<1>5. req[w] \in Request
  BY DEF AgencyTypeOK
<1>6. group' \in [Orgs -> Group]
  BY DEF AgencyTypeOK, Save
<1> QED BY <1>3, <1>4, <1>5, <1>6 DEF Request, Save

\* What becomes of the mandates
LEMMA MandateChanged ==
    ASSUME NEW md \in Seq(Mandate), NEW m \in DOMAIN md, NEW r \in Mandate
    PROVE  /\ [md EXCEPT ![m] = r] \in Seq(Mandate)
           /\ DOMAIN [md EXCEPT ![m] = r] = DOMAIN md
           /\ [md EXCEPT ![m] = r][m] = r
           /\ \A n \in DOMAIN md : n # m => [md EXCEPT ![m] = r][n] = md[n]
BY ExceptSeq

\* One more, with a number of its own
LEMMA MandateOpened ==
    ASSUME NEW md \in Seq(Mandate), NEW r \in Mandate
    PROVE  /\ Append(md, r) \in Seq(Mandate)
           /\ Len(md) + 1 \notin DOMAIN md
           /\ DOMAIN Append(md, r) = DOMAIN md \cup {Len(md) + 1}
           /\ Append(md, r)[Len(md) + 1] = r
           /\ \A n \in DOMAIN md : Append(md, r)[n] = md[n]
<1>1. Len(md) \in Nat /\ DOMAIN md = 1..Len(md)
  OBVIOUS
<1>2. Append(md, r) \in Seq(Mandate) /\ Len(Append(md, r)) = Len(md) + 1
  OBVIOUS
<1>3. DOMAIN Append(md, r) = 1..(Len(md) + 1)
  BY <1>2
<1>4. DOMAIN Append(md, r) = DOMAIN md \cup {Len(md) + 1} /\ Len(md) + 1 \notin DOMAIN md
  BY <1>1, <1>3
<1> QED BY <1>1, <1>2, <1>4

\* What is announced comes last.
LEMMA NewsGrows ==
    ASSUME NEW q \in Seq(Event), NEW e \in Event
    PROVE  /\ Append(q, e) \in Seq(Event)
           /\ \A i \in DOMAIN Append(q, e) : \/ i \in DOMAIN q /\ Append(q, e)[i] = q[i]
                                             \/ Append(q, e)[i] = e
<1>1. Len(q) \in Nat /\ DOMAIN q = 1..Len(q)
  OBVIOUS
<1>2. Append(q, e) \in Seq(Event) /\ Len(Append(q, e)) = Len(q) + 1
  OBVIOUS
<1>3. DOMAIN Append(q, e) = 1..(Len(q) + 1)
  BY <1>2
<1>4. ASSUME NEW i \in DOMAIN Append(q, e)
      PROVE  \/ i \in DOMAIN q /\ Append(q, e)[i] = q[i]
             \/ Append(q, e)[i] = e
  BY <1>1, <1>3
<1> QED BY <1>2, <1>4

\* What was read is gone.
LEMMA NewsRead ==
    ASSUME NEW q \in Seq(Event), q # << >>
    PROVE  /\ Tail(q) \in Seq(Event) /\ Head(q) = q[1] /\ 1 \in DOMAIN q
           /\ \A i \in DOMAIN Tail(q) : i + 1 \in DOMAIN q /\ Tail(q)[i] = q[i + 1]
<1>1. Len(q) \in Nat \ {0} /\ DOMAIN q = 1..Len(q)
  OBVIOUS
<1>2. Tail(q) \in Seq(Event) /\ Len(Tail(q)) = Len(q) - 1
  OBVIOUS
<1>3. DOMAIN Tail(q) = 1..(Len(q) - 1)
  BY <1>1, <1>2
<1>4. ASSUME NEW i \in DOMAIN Tail(q)
      PROVE  i + 1 \in DOMAIN q /\ Tail(q)[i] = q[i + 1]
  BY <1>1, <1>3
<1> QED BY <1>1, <1>2, <1>4

-----------------------------------------------------------------------------
(* Requests that leave the money alone *)

Quiet == {"idle", "converting", "demoting", "attaching", "ordering", "enrolling", "choosing",
          "opening", "releasing", "detaching"}

\* The books change only with the tables.
LEMMA BooksStay ==
    ASSUME Books, UNCHANGED <<group, row, mandate, news>>
    PROVE  Books'
BY DEF Books, GroupsPoint, NewsIsTrue, RowsWereBought, GroupCovers, ProviderCovers,
   EntitledAfterAuthorised, Issued

\* A request knows nothing of the money before it has read the group.
LEMMA MoneyRests ==
    ASSUME Books, NEW w, Workers = {w}, UNCHANGED <<group, row, mandate, news>>,
           req'[w].step \in Quiet
    PROVE  MoneyInv'
<1>1. Books'
  BY BooksStay
<1>2. KnowsMoney(req[w], group, row, mandate)'
  BY DEF KnowsMoney, Quiet
<1> QED BY <1>1, <1>2 DEF MoneyInv

\* convert() and createClient() have checked.
LEMMA Received ==
    ASSUME AgencyInv, NEW w, Workers = {w}, NEW o \in Orgs,
           StartConvert(w, o) \/ StartDemote(w, o) \/ StartCreate(w, o)
    PROVE  AgencyInv'
<1>1. PICK s \in {"converting", "demoting", "ordering"}, t \in AllOrgs \cup {Nobody} :
           Receive(w, s, o, t)
  BY DEF StartConvert, StartDemote, StartCreate, AllOrgs
<1>2. s \in RequestStep /\ w \in Workers /\ AgencyTypeOK
  BY DEF RequestStep, AgencyInv
<1>3. /\ req' \in [Workers -> Request]
      /\ req'[w].step = s /\ req'[w].org = o
  BY <1>1, <1>2, RequestReceived
<1>4. UNCHANGED <<settings, group, row, provider, faults>>
  BY DEF StartConvert, StartDemote, StartCreate
<1>5. AgencyTypeOK'
  BY <1>2, <1>3, <1>4 DEF AgencyTypeOK, Issued, settings, provider
<1>6. MoneyInv'
  BY <1>3, <1>4, MoneyRests DEF AgencyInv, MoneyInv, provider, Quiet
<1>7. RosterInv'
  BY <1>3, <1>4 DEF AgencyInv, RosterInv, NotYetMade, DetachedIsReleased, KnowsClient, settings,
     Enrolled, Releasing
<1> QED BY <1>5, <1>6, <1>7 DEF AgencyInv

\* attachClient() and detachClient() have checked.
LEMMA ReceivedForClient ==
    ASSUME AgencyInv, NEW w, Workers = {w}, NEW a \in Orgs, NEW o \in AllOrgs,
           StartAttach(w, a, o) \/ StartDetach(w, a, o)
    PROVE  AgencyInv'
<1>1. PICK s \in {"attaching", "releasing"} :
        /\ Receive(w, s, a, o)
        /\ s = "attaching" => agencyOf[o] \in {Nobody, a} /\ o \in Orgs \cup created
        /\ s = "releasing" => agencyOf[o] = a
  BY DEF StartAttach, StartDetach
<1>2. s \in RequestStep /\ w \in Workers /\ AgencyTypeOK
  BY DEF RequestStep, AgencyInv
<1>3. /\ req' \in [Workers -> Request]
      /\ req'[w].step = s /\ req'[w].org = a /\ req'[w].target = o
  BY <1>1, <1>2, RequestReceived
<1>4. UNCHANGED <<settings, group, row, provider, faults>>
  BY DEF StartAttach, StartDetach
<1>5. AgencyTypeOK'
  BY <1>2, <1>3, <1>4 DEF AgencyTypeOK, Issued, settings, provider
<1>6. MoneyInv'
  BY <1>3, <1>4, MoneyRests DEF AgencyInv, MoneyInv, provider, Quiet
<1>7. o \in Orgs \cup created
  BY <1>1, NothingIsTyped DEF AgencyInv, RosterInv, NotYetMade, AllOrgs
<1>8. KnowsClient(req[w], agencyOf, row, created)'
  BY <1>1, <1>3, <1>4, <1>7 DEF KnowsClient, settings, Enrolled, Releasing
<1>9. RosterInv'
  BY <1>4, <1>8 DEF AgencyInv, RosterInv, NotYetMade, DetachedIsReleased, settings
<1> QED BY <1>5, <1>6, <1>9 DEF AgencyInv

\* A request that is refused, or dies, leaves everything as it is.
LEMMA Answered ==
    ASSUME AgencyInv, NEW w, Workers = {w},
           NotSellable(w) \/ RaiseRefused(w) \/ CreateRefused(w) \/ Dies(w)
    PROVE  AgencyInv'
<1>1. Answer(w) /\ UNCHANGED <<settings, group, row, provider>> /\ faults' \in Nat
  BY DEF NotSellable, RaiseRefused, CreateRefused, Dies, Fault, AgencyInv, AgencyTypeOK
<1>2. req' \in [Workers -> Request] /\ req'[w].step = "idle"
  BY <1>1, RequestAnswered DEF AgencyInv
<1>3. AgencyTypeOK'
  BY <1>1, <1>2 DEF AgencyInv, AgencyTypeOK, Issued, settings, provider
<1>4. MoneyInv'
  BY <1>1, <1>2, MoneyRests DEF AgencyInv, MoneyInv, provider, Quiet
<1>5. RosterInv'
  BY <1>1, <1>2 DEF AgencyInv, RosterInv, NotYetMade, DetachedIsReleased, KnowsClient, settings,
     Enrolled, Releasing
<1> QED BY <1>3, <1>4, <1>5 DEF AgencyInv

\* convert() writes.
LEMMA Converted ==
    ASSUME AgencyInv, NEW w, Workers = {w}, WriteConvert(w)
    PROVE  AgencyInv'
<1>1. Answer(w) /\ UNCHANGED <<agencyOf, created, group, row, provider, faults>>
  BY DEF WriteConvert
<1>2. req' \in [Workers -> Request] /\ req'[w].step = "idle"
  BY <1>1, RequestAnswered DEF AgencyInv
<1>3. isAgency' \in SUBSET Orgs
  BY DEF AgencyInv, RosterInv, KnowsClient, WriteConvert, At, AgencyTypeOK
<1>4. AgencyTypeOK'
  BY <1>1, <1>2, <1>3 DEF AgencyInv, AgencyTypeOK, Issued, provider
<1>5. MoneyInv'
  BY <1>1, <1>2, MoneyRests DEF AgencyInv, MoneyInv, provider, Quiet
<1>6. RosterInv'
  BY <1>1, <1>2 DEF AgencyInv, RosterInv, NotYetMade, DetachedIsReleased, KnowsClient,
     Enrolled, Releasing
<1> QED BY <1>4, <1>5, <1>6 DEF AgencyInv

\* A client that is let go has been released, and one that is taken on is of no
\* other agency, or was released there.
LEMMA Handed ==
    ASSUME AgencyInv, NEW w, Workers = {w}, WriteAttach(w) \/ Detach(w)
    PROVE  AgencyInv'
<1> DEFINE t == req[w].target
<1> DEFINE a == req[w].org
<1>1. Answer(w) /\ UNCHANGED <<isAgency, created, group, row, provider, faults>>
  BY DEF WriteAttach, Detach
<1>2. req' \in [Workers -> Request] /\ req'[w].step = "idle"
  BY <1>1, RequestAnswered DEF AgencyInv
<1>3. a \in Orgs /\ t \in Orgs \cup created /\ t \in AllOrgs
  BY DEF AgencyInv, RosterInv, KnowsClient, WriteAttach, Detach, At, AgencyTypeOK, AllOrgs,
     Releasing
<1>4. PICK b \in {a, Nobody} : agencyOf' = [agencyOf EXCEPT ![t] = b]
  BY DEF WriteAttach, Detach
<1>5. agencyOf' \in [AllOrgs -> Orgs \cup {Nobody}]
  BY <1>3, <1>4 DEF AgencyInv, AgencyTypeOK
<1>6. AgencyTypeOK'
  BY <1>1, <1>2, <1>5 DEF AgencyInv, AgencyTypeOK, Issued, provider
<1>7. MoneyInv'
  BY <1>1, <1>2, MoneyRests DEF AgencyInv, MoneyInv, provider, Quiet
<1>8. NotYetMade'
  BY <1>1, <1>3, <1>4, AgencyAssumption DEF AgencyInv, RosterInv, NotYetMade, AgencyTypeOK, AllOrgs
<1>9. ASSUME NEW c \in Clients, row[c].payer # Nobody, agencyOf'[c] # row[c].payer
      PROVE  row[c].ending
  <2>1. CASE c # t
    BY <1>9, <2>1, <1>3, <1>4 DEF AgencyInv, RosterInv, DetachedIsReleased, AgencyTypeOK, AllOrgs
  <2>2. CASE c = t /\ WriteAttach(w)
    BY <1>9, <2>2, <1>3, NothingIsTyped DEF WriteAttach, At, AgencyInv, RosterInv, KnowsClient,
       DetachedIsReleased, AgencyTypeOK, AllOrgs
  <2>3. CASE c = t /\ Detach(w)
    <3>1. agencyOf[c] = a /\ (row[c].payer # a \/ row[c].ending)
      BY <2>3, AgencyAssumption DEF Detach, At, AgencyInv, RosterInv, KnowsClient, Enrolled,
         Releasing
    <3> QED BY <1>9, <3>1 DEF AgencyInv, RosterInv, DetachedIsReleased
  <2> QED BY <2>1, <2>2, <2>3
<1>10. DetachedIsReleased'
  BY <1>1, <1>9 DEF DetachedIsReleased
<1>11. KnowsClient(req[w], agencyOf, row, created)'
  BY <1>2 DEF KnowsClient, Enrolled, Releasing
<1> QED BY <1>6, <1>7, <1>8, <1>10, <1>11 DEF AgencyInv, RosterInv

\* The SSO has made the organisation.
LEMMA Ordered ==
    ASSUME AgencyInv, NEW w, Workers = {w}, CreateOrganization(w)
    PROVE  AgencyInv'
<1>1. PICK c \in Clients \ created :
        /\ created' = created \cup {c}
        /\ req' = [req EXCEPT ![w] = [req[w] EXCEPT !.step = "enrolling", !.target = c]]
        /\ UNCHANGED <<isAgency, agencyOf, group, row, provider, faults>>
  BY DEF CreateOrganization
<1>2. req[w] \in Request /\ w \in Workers /\ req[w].step = "ordering" /\ req[w].org \in Orgs
  BY DEF AgencyInv, AgencyTypeOK, CreateOrganization, At, RosterInv, KnowsClient
<1>3. [req[w] EXCEPT !.step = "enrolling", !.target = c] \in Request
  BY <1>2 DEF Request, RequestStep, AllOrgs
<1>4. req' \in [Workers -> Request] /\ req'[w] = [req[w] EXCEPT !.step = "enrolling", !.target = c]
  BY <1>1, <1>2, <1>3 DEF AgencyInv, AgencyTypeOK
<1>5. req'[w].step = "enrolling" /\ req'[w].org = req[w].org /\ req'[w].target = c
  BY <1>2, <1>4 DEF Request
<1>6. AgencyTypeOK'
  BY <1>1, <1>4 DEF AgencyInv, AgencyTypeOK, Issued, provider
<1>7. MoneyInv'
  BY <1>1, <1>5, MoneyRests DEF AgencyInv, MoneyInv, provider, Quiet
<1>8. row[c] = NoRow
  BY DEF AgencyInv, RosterInv, NotYetMade
<1>9. KnowsClient(req[w], agencyOf, row, created)'
  BY <1>1, <1>2, <1>5, <1>8 DEF KnowsClient, Enrolled, Releasing
<1> QED BY <1>1, <1>6, <1>7, <1>9 DEF AgencyInv, RosterInv, NotYetMade, DetachedIsReleased

\* It is enrolled.
LEMMA OnTheRoster ==
    ASSUME AgencyInv, NEW w, Workers = {w}, Enrol(w)
    PROVE  AgencyInv'
<1> DEFINE t == req[w].target
<1> DEFINE a == req[w].org
<1>1. /\ Proceed(w, "choosing") /\ agencyOf' = [agencyOf EXCEPT ![t] = a]
      /\ UNCHANGED <<isAgency, created, group, row, provider, faults>>
  BY DEF Enrol
<1>2. /\ req' \in [Workers -> Request]
      /\ req'[w].step = "choosing" /\ req'[w].org = a /\ req'[w].target = t
  BY <1>1, RequestProceeds DEF AgencyInv, RequestStep
<1>3. a \in Orgs /\ t \in created /\ row[t] = NoRow /\ t \in Clients
  BY DEF Enrol, At, AgencyInv, AgencyTypeOK, RosterInv, KnowsClient
<1>4. agencyOf' \in [AllOrgs -> Orgs \cup {Nobody}] /\ agencyOf'[t] = a
  BY <1>1, <1>3 DEF AgencyInv, AgencyTypeOK, AllOrgs
<1>5. AgencyTypeOK'
  BY <1>1, <1>2, <1>4 DEF AgencyInv, AgencyTypeOK, Issued, provider
<1>6. MoneyInv'
  BY <1>1, <1>2, MoneyRests DEF AgencyInv, MoneyInv, provider, Quiet
<1>7. KnowsClient(req[w], agencyOf, row, created)'
  BY <1>1, <1>2, <1>3, <1>4 DEF KnowsClient, Enrolled, Releasing
<1>8. NotYetMade'
  BY <1>1, <1>3 DEF AgencyInv, RosterInv, NotYetMade, AgencyTypeOK
<1>9. DetachedIsReleased'
  BY <1>1, <1>3, NothingIsTyped DEF AgencyInv, RosterInv, DetachedIsReleased, AgencyTypeOK, AllOrgs
<1> QED BY <1>5, <1>6, <1>7, <1>8, <1>9 DEF AgencyInv, RosterInv

-----------------------------------------------------------------------------
(* createClient(), from the group on *)

\* A request for a client that was created keeps hold of it.
LEMMA RosterRests ==
    ASSUME AgencyInv, NEW w, Workers = {w}, UNCHANGED <<agencyOf, created, row>>,
           req[w].step \in Enrolled, req'[w].step \in Enrolled,
           req'[w].org = req[w].org, req'[w].target = req[w].target
    PROVE  RosterInv'
<1>1. KnowsClient(req[w], agencyOf, row, created)'
  BY DEF AgencyInv, RosterInv, KnowsClient, Enrolled, Releasing
<1> QED BY <1>1 DEF AgencyInv, RosterInv, NotYetMade, DetachedIsReleased

\* Clients can be counted.
LEMMA CountIsNat ==
    ASSUME NEW rows, NEW a
    PROVE  Count(rows, a) \in Nat
<1>1. IsFiniteSet({c \in Clients : rows[c].payer = a /\ ~rows[c].ending})
  BY AgencyAssumption, FS_Subset
<1> QED BY <1>1, FS_CardinalityType DEF Count

\* Mandates are added and move on; they change hands as little as they are undone.
MandatesGrow(old, new) ==
    /\ DOMAIN old \subseteq DOMAIN new
    /\ \A m \in DOMAIN old : new[m].owner = old[m].owner /\ (old[m].end > 0 => new[m].end > 0)

\* What was true of the mandates stays true, but for what they are charged for.
LEMMA BooksGrow ==
    ASSUME AgencyTypeOK, Books, MandatesGrow(mandate, mandate'), UNCHANGED <<group, row>>
    PROVE  /\ GroupsPoint' /\ RowsWereBought' /\ GroupCovers' /\ EntitledAfterAuthorised'
           /\ news' = news => NewsIsTrue'
<1>1. \A a : HasAuthorised(mandate, a) => HasAuthorised(mandate, a)'
  BY DEF HasAuthorised, MandatesGrow
<1>2. GroupsPoint'
  BY <1>1 DEF Books, GroupsPoint, MandatesGrow, Issued
<1>3. RowsWereBought' /\ GroupCovers'
  BY DEF Books, RowsWereBought, GroupCovers, MandatesGrow, Issued
<1>4. EntitledAfterAuthorised'
  BY DEF Books, EntitledAfterAuthorised, MandatesGrow, Issued
<1>5. news' = news => NewsIsTrue'
  BY DEF Books, NewsIsTrue, MandatesGrow, Issued
<1> QED BY <1>2, <1>3, <1>4, <1>5

\* groupFor() reads the group, and knows it from here on.
LEMMA GroupRead ==
    ASSUME AgencyInv, NEW w, Workers = {w}, GroupFor(w)
    PROVE  AgencyInv'
<1> DEFINE g == group[req[w].org]
<1>1. UNCHANGED <<settings, group, row, provider, faults>>
  BY DEF GroupFor
<1>2. req[w] \in Request /\ w \in Workers /\ req[w].step = "choosing" /\ req[w].org \in Orgs
  BY DEF AgencyInv, AgencyTypeOK, GroupFor, At, RosterInv, KnowsClient
<1>3. g.mandate # 0 \/ g.status = "cancelled"
  BY <1>2 DEF AgencyInv, MoneyInv, Books, GroupsPoint, AgencyTypeOK
<1>4. CASE req' = [req EXCEPT ![w] = NoRequest]
  <2>1. Answer(w) /\ req' \in [Workers -> Request] /\ req'[w].step = "idle"
    BY <1>4, RequestAnswered DEF AgencyInv, Answer
  <2>2. AgencyTypeOK'
    BY <1>1, <2>1 DEF AgencyInv, AgencyTypeOK, Issued, settings, provider
  <2>3. MoneyInv'
    BY <1>1, <2>1, MoneyRests DEF AgencyInv, MoneyInv, provider, Quiet
  <2>4. RosterInv'
    BY <1>1, <2>1 DEF AgencyInv, RosterInv, NotYetMade, DetachedIsReleased, KnowsClient, settings,
       Enrolled, Releasing
  <2> QED BY <2>2, <2>3, <2>4 DEF AgencyInv
<1>5. ASSUME NEW s \in {"opening", "replacing", "raising"},
             req' = [req EXCEPT ![w] = [req[w] EXCEPT !.step = s, !.seen = g]],
             s # "opening" => g.status # "cancelled"
      PROVE  AgencyInv'
  <2>1. g \in Group
    BY <1>2 DEF AgencyInv, AgencyTypeOK
  <2>2. [req[w] EXCEPT !.step = s, !.seen = g] \in Request
    BY <1>2, <2>1 DEF Request, RequestStep
  <2>3. req' \in [Workers -> Request] /\ req'[w] = [req[w] EXCEPT !.step = s, !.seen = g]
    BY <1>2, <1>5, <2>2 DEF AgencyInv, AgencyTypeOK
  <2>4. /\ req'[w].step = s /\ req'[w].org = req[w].org /\ req'[w].target = req[w].target
        /\ req'[w].seen = g
    BY <1>2, <2>3 DEF Request
  <2>5. AgencyTypeOK'
    BY <1>1, <2>3 DEF AgencyInv, AgencyTypeOK, Issued, settings, provider
  <2>6. RosterInv'
    BY <1>1, <1>2, <2>4, RosterRests DEF settings, Enrolled
  <2>7. KnowsMoney(req[w], group, row, mandate)'
    BY <1>1, <1>3, <1>5, <2>4 DEF KnowsMoney
  <2>8. Books'
    BY <1>1, BooksStay DEF AgencyInv, MoneyInv, provider
  <2> QED BY <2>5, <2>6, <2>7, <2>8 DEF AgencyInv, MoneyInv
<1>6. \/ req' = [req EXCEPT ![w] = NoRequest]
      \/ \E s \in {"opening", "replacing", "raising"} :
           /\ req' = [req EXCEPT ![w] = [req[w] EXCEPT !.step = s, !.seen = g]]
           /\ s # "opening" => g.status # "cancelled"
  BY DEF GroupFor, IsFinished
<1> QED BY <1>4, <1>5, <1>6

\* One more is charged for before it is counted.
LEMMA Raised ==
    ASSUME AgencyInv, NEW w, Workers = {w}, RaiseQuantity(w)
    PROVE  AgencyInv'
<1> DEFINE m == req[w].seen.mandate
<1> DEFINE a == req[w].org
<1> DEFINE q == req[w].seen.quantity + 1
<1>1. /\ At(w, "raising") /\ Proceed(w, "raised")
      /\ UNCHANGED <<settings, group, row, news, faults>>
      /\ mandate' = [mandate EXCEPT ![m] = [mandate[m] EXCEPT !.quantity = q, !.next = q]]
  BY DEF RaiseQuantity
<1>2. /\ req' \in [Workers -> Request]
      /\ req'[w].step = "raised" /\ req'[w].org = a /\ req'[w].target = req[w].target
      /\ req'[w].seen = req[w].seen
  BY <1>1, RequestProceeds DEF AgencyInv, RequestStep
<1>3. a \in Orgs /\ m # 0 /\ m = group[a].mandate /\ req[w].seen.quantity = group[a].quantity
  BY <1>1 DEF At, AgencyInv, RosterInv, KnowsClient, MoneyInv, KnowsMoney
<1>4. m \in DOMAIN mandate /\ mandate[m].owner = a /\ mandate[m] \in Mandate /\ q \in Nat
  BY <1>3 DEF AgencyInv, MoneyInv, Books, GroupsPoint, Issued, AgencyTypeOK, Group
<1>5. [mandate[m] EXCEPT !.quantity = q, !.next = q] \in Mandate
  BY <1>4 DEF Mandate
<1>6. /\ mandate' \in Seq(Mandate) /\ DOMAIN mandate' = DOMAIN mandate
      /\ mandate'[m] = [mandate[m] EXCEPT !.quantity = q, !.next = q]
      /\ \A n \in DOMAIN mandate : n # m => mandate'[n] = mandate[n]
  BY <1>1, <1>4, <1>5, MandateChanged DEF AgencyInv, AgencyTypeOK
<1>7. /\ mandate'[m].next = q /\ mandate'[m].owner = a /\ mandate'[m].end = mandate[m].end
      /\ mandate'[m].status = mandate[m].status
  BY <1>4, <1>6 DEF Mandate
<1>8. AgencyTypeOK'
  BY <1>1, <1>2, <1>6 DEF AgencyInv, AgencyTypeOK, Issued, settings
<1>9. RosterInv'
  BY <1>1, <1>2, RosterRests DEF settings, Enrolled, At
<1>10. KnowsMoney(req[w], group, row, mandate)'
  BY <1>1, <1>2, <1>3, <1>7 DEF KnowsMoney
<1>11. MandatesGrow(mandate, mandate')
  BY <1>4, <1>6, <1>7 DEF MandatesGrow
<1>12. ProviderCovers'
  <2> SUFFICES ASSUME NEW n \in DOMAIN mandate,
                      mandate'[n].status # "cancelled", AllUnder(row, mandate'[n].owner, n)
               PROVE  Count(row, mandate'[n].owner) <= mandate'[n].next
    BY <1>1, <1>6 DEF ProviderCovers, Issued
  <2>1. CASE n # m
    BY <1>6, <2>1 DEF AgencyInv, MoneyInv, Books, ProviderCovers, Issued
  <2>2. CASE n = m
    <3>1. Count(row, a) <= group[a].quantity
      BY <1>3, <1>7, <2>2 DEF AgencyInv, MoneyInv, Books, GroupCovers
    <3>2. group[a].quantity \in Nat /\ Count(row, a) \in Nat
      BY <1>3, CountIsNat DEF AgencyInv, AgencyTypeOK, Group
    <3>3. mandate'[n].owner = a /\ mandate'[n].next = group[a].quantity + 1
      BY <1>3, <1>7, <2>2
    <3> QED BY <3>1, <3>2, <3>3
  <2> QED BY <2>1, <2>2
<1> QED BY <1>1, <1>8, <1>9, <1>10, <1>11, <1>12, BooksGrow DEF AgencyInv, MoneyInv, Books

\* A mandate that was just opened has no clients yet.
LEMMA MandateIsOpened ==
    ASSUME AgencyInv, NEW w, Workers = {w}, OpenMandate(w)
    PROVE  AgencyInv'
<1> DEFINE m == Len(mandate) + 1
<1> DEFINE a == req[w].org
<1> DEFINE q == IF At(w, "opening") THEN 1 ELSE req[w].seen.quantity + 1
<1> DEFINE fresh == [owner |-> a, status |-> "created", quantity |-> q, next |-> q, end |-> 0,
                    ending |-> FALSE]
<1>1. PICK s \in {"opened", "replaced"} :
        /\ req' = [req EXCEPT ![w] = [req[w] EXCEPT !.made = m, !.step = s]]
        /\ s = "opened" => At(w, "opening")
        /\ s = "replaced" => At(w, "replacing")
  BY DEF OpenMandate, At, AgencyInv, AgencyTypeOK
<1>2. /\ At(w, "opening") \/ At(w, "replacing")
      /\ m <= MaxMandates /\ mandate' = Append(mandate, fresh)
      /\ UNCHANGED <<settings, group, row, news, faults>>
  BY DEF OpenMandate
<1>3. req[w] \in Request /\ w \in Workers /\ a \in Orgs /\ q \in Nat
  BY <1>2 DEF AgencyInv, AgencyTypeOK, At, RosterInv, KnowsClient, Request, Group
<1>4. fresh \in Mandate
  BY <1>3 DEF Mandate, MandateStatus
<1>5. /\ mandate' \in Seq(Mandate) /\ m \notin DOMAIN mandate /\ mandate'[m] = fresh
      /\ DOMAIN mandate' = DOMAIN mandate \cup {m}
      /\ \A n \in DOMAIN mandate : mandate'[n] = mandate[n]
  <2> HIDE DEF fresh
  <2> QED BY <1>2, <1>4, MandateOpened DEF AgencyInv, AgencyTypeOK
<1>6. m \in Ids
  BY <1>2, AgencyAssumption DEF Ids, AgencyInv, AgencyTypeOK
<1>7. [req[w] EXCEPT !.made = m, !.step = s] \in Request
  BY <1>3, <1>6 DEF Request, RequestStep
<1>8. req' \in [Workers -> Request] /\ req'[w] = [req[w] EXCEPT !.made = m, !.step = s]
  BY <1>1, <1>3, <1>7 DEF AgencyInv, AgencyTypeOK
<1>9. /\ req'[w].step = s /\ req'[w].org = a /\ req'[w].target = req[w].target
      /\ req'[w].seen = req[w].seen /\ req'[w].made = m
  BY <1>3, <1>8 DEF Request
<1>10. AgencyTypeOK'
  BY <1>2, <1>5, <1>6, <1>8 DEF AgencyInv, AgencyTypeOK, Issued, settings
<1>11. RosterInv'
  BY <1>2, <1>9, RosterRests DEF settings, Enrolled, At
<1>12. mandate'[m].owner = a /\ mandate'[m].next = q
  BY <1>5
<1>13. \A c \in Clients : row[c].payer # Nobody => row[c].under # m
  BY <1>5 DEF AgencyInv, MoneyInv, Books, RowsWereBought, Issued
<1>14. \A c \in Clients : row[c].under # m
  <2>1. m \in Nat \ {0}
    BY <1>6, AgencyAssumption DEF Ids
  <2>2. ASSUME NEW c \in Clients, row[c].payer = Nobody
        PROVE  row[c].under = 0
    BY <2>2, AgencyAssumption DEF AgencyInv, AgencyTypeOK, ClientRow, NoRow
  <2> QED BY <1>13, <2>1, <2>2
<1>15. MandatesGrow(mandate, mandate')
  BY <1>5 DEF MandatesGrow
<1>16. s = "replaced" => req[w].seen.mandate = group[a].mandate /\ req[w].seen.mandate # 0
                         /\ req[w].seen.quantity = group[a].quantity
  BY <1>1 DEF At, AgencyInv, MoneyInv, KnowsMoney
<1>17. s = "replaced" => req[w].seen.mandate # m
  BY <1>3, <1>5, <1>16 DEF AgencyInv, MoneyInv, Books, GroupsPoint, Issued
<1>18. KnowsMoney(req[w], group, row, mandate)'
  <2>1. s = "opened" => q = 1
    BY <1>1
  <2>2. s = "replaced" => q = req[w].seen.quantity + 1
    BY <1>1 DEF At
  <2> HIDE DEF m, a, q
  <2> QED BY <1>2, <1>5, <1>9, <1>12, <1>14, <1>16, <1>17, <2>1, <2>2 DEF KnowsMoney, a
<1>19. ProviderCovers'
  <2> SUFFICES ASSUME NEW n \in DOMAIN mandate',
                      mandate'[n].status # "cancelled", AllUnder(row, mandate'[n].owner, n)
               PROVE  Count(row, mandate'[n].owner) <= mandate'[n].next
    BY <1>2 DEF ProviderCovers, Issued
  <2>1. CASE n \in DOMAIN mandate
    BY <1>5, <2>1 DEF AgencyInv, MoneyInv, Books, ProviderCovers, Issued
  <2>2. CASE n = m
    <3>1. {c \in Clients : row[c].payer = a /\ ~row[c].ending} = {}
      BY <1>12, <1>14, <2>2 DEF AllUnder
    <3>2. Count(row, a) = 0
      BY <3>1, FS_EmptySet DEF Count
    <3> QED BY <1>3, <1>12, <2>2, <3>2
  <2> QED BY <1>5, <2>1, <2>2
<1> QED BY <1>2, <1>10, <1>11, <1>15, <1>18, <1>19, BooksGrow DEF AgencyInv, MoneyInv, Books

\* What is saved of a group decides what the client in hand gets: the books agree,
\* and there is room in them for one more.
LEMMA Counted ==
    ASSUME AgencyInv, NEW w, Workers = {w}, NEW g \in Group, Save(w, g),
           req[w].step \in Enrolled, UNCHANGED <<settings, provider, faults>>,
           row' \in [Clients -> ClientRow], NotYetMade', DetachedIsReleased',
           row'[req[w].target] = row[req[w].target],
           \A c \in Clients : /\ row'[c].payer = row[c].payer /\ row'[c].ending = row[c].ending
                              /\ row'[c].status = row[c].status
                              /\ row'[c].payer # Nobody => row'[c].under \in Issued,
           g.mandate \in Issued, mandate[g.mandate].owner = req[w].org,
           g.status = "active" => HasAuthorised(mandate, req[w].org),
           AllUnder(row', req[w].org, g.mandate) =>
             /\ Count(row, req[w].org) + 1 <= g.quantity
             /\ mandate[g.mandate].status # "cancelled"
                => Count(row, req[w].org) + 1 <= mandate[g.mandate].next,
           \A m \in Issued : AllUnder(row', mandate[m].owner, m) =>
             \/ AllUnder(row, mandate[m].owner, m)
             \/ mandate[m].owner = req[w].org /\ m = g.mandate
             \/ Count(row, mandate[m].owner) = 0,
           \A b \in Orgs \ {req[w].org} : \A m : AllUnder(row', b, m) => AllUnder(row, b, m)
    PROVE  AgencyInv'
<1> DEFINE a == req[w].org
<1>1. req[w] \in Request /\ w \in Workers /\ a \in Orgs /\ req[w].target \in created
  BY DEF AgencyInv, AgencyTypeOK, RosterInv, KnowsClient, Enrolled
<1>2. /\ req' \in [Workers -> Request]
      /\ req'[w].step = "writing" /\ req'[w].org = a
      /\ req'[w].target = req[w].target /\ req'[w].seen = g
      /\ group' = [group EXCEPT ![a] = g] /\ group' \in [Orgs -> Group]
  BY <1>1, RequestSaved DEF AgencyInv
<1>3. AgencyTypeOK'
  BY <1>2 DEF AgencyInv, AgencyTypeOK, Issued, settings, provider
<1>4. KnowsClient(req[w], agencyOf, row, created)'
  <2>1. row'[req[w].target] = NoRow /\ agencyOf[req[w].target] = a
    BY DEF AgencyInv, RosterInv, KnowsClient, Enrolled
  <2> QED BY <1>1, <1>2, <2>1 DEF KnowsClient, Enrolled, Releasing, settings
<1>5. RosterInv'
  BY <1>4 DEF RosterInv
<1>6. group'[a] = g /\ \A b \in Orgs \ {a} : group'[b] = group[b]
  BY <1>1, <1>2 DEF AgencyInv, AgencyTypeOK
<1>7. mandate' = mandate /\ news' = news
  BY DEF provider
<1>8. \A b : Count(row', b) = Count(row, b)
  <2> TAKE b
  <2>1. {c \in Clients : row'[c].payer = b /\ ~row'[c].ending}
        = {c \in Clients : row[c].payer = b /\ ~row[c].ending}
    OBVIOUS
  <2> QED BY <2>1 DEF Count
<1>9. g.mandate # 0
  BY AgencyAssumption DEF AgencyInv, AgencyTypeOK, Ids
<1>10. GroupsPoint'
  BY <1>6, <1>7, <1>9 DEF AgencyInv, MoneyInv, Books, GroupsPoint, Issued
<1>11. NewsIsTrue'
  BY <1>7 DEF AgencyInv, MoneyInv, Books, NewsIsTrue, Issued
<1>12. RowsWereBought'
  <2> SUFFICES ASSUME NEW c \in Clients, row'[c].payer # Nobody
               PROVE  row'[c].under \in Issued' /\ group'[row'[c].payer].mandate # 0
    BY DEF RowsWereBought
  <2>1. row[c].payer \in Orgs /\ group[row[c].payer].mandate # 0
    BY AgencyAssumption DEF AgencyInv, AgencyTypeOK, ClientRow, NoRow, MoneyInv, Books,
       RowsWereBought
  <2> QED BY <1>6, <1>7, <1>9, <2>1 DEF Issued
<1>13. EntitledAfterAuthorised'
  BY <1>7 DEF AgencyInv, MoneyInv, Books, EntitledAfterAuthorised, Issued
<1>14. GroupCovers'
  <2> SUFFICES ASSUME NEW b \in Orgs, group'[b].mandate # 0, AllUnder(row', b, group'[b].mandate)
               PROVE  Count(row, b) <= group'[b].quantity
    BY <1>8 DEF GroupCovers
  <2>1. CASE b = a
    <3>1. Count(row, a) \in Nat /\ g.quantity \in Nat
      BY CountIsNat DEF Group
    <3> QED BY <1>6, <2>1, <3>1
  <2>2. CASE b # a
    BY <1>6, <2>2 DEF AgencyInv, MoneyInv, Books, GroupCovers
  <2> QED BY <2>1, <2>2
<1>15. ProviderCovers'
  <2> SUFFICES ASSUME NEW n \in Issued, mandate[n].status # "cancelled",
                      AllUnder(row', mandate[n].owner, n)
               PROVE  Count(row, mandate[n].owner) <= mandate[n].next
    BY <1>7, <1>8 DEF ProviderCovers, Issued
  <2>1. mandate[n].next \in Nat /\ Count(row, mandate[n].owner) \in Nat
    <3>1. mandate[n] \in Mandate
      BY DEF AgencyInv, AgencyTypeOK, Issued
    <3> QED BY <3>1, CountIsNat DEF Mandate
  <2>2. CASE AllUnder(row, mandate[n].owner, n)
    BY <2>2 DEF AgencyInv, MoneyInv, Books, ProviderCovers
  <2>3. CASE mandate[n].owner = a /\ n = g.mandate
    BY <2>1, <2>3
  <2>4. CASE Count(row, mandate[n].owner) = 0
    BY <2>1, <2>4
  <2> QED BY <2>2, <2>3, <2>4
<1>16. KnowsMoney(req[w], group, row, mandate)'
  BY <1>2, <1>6, <1>7, <1>8, <1>9 DEF KnowsMoney
<1> QED BY <1>3, <1>5, <1>10, <1>11, <1>12, <1>13, <1>14, <1>15, <1>16
        DEF AgencyInv, MoneyInv, Books

\* One more is counted after it is charged for.
LEMMA RaiseCounted ==
    ASSUME AgencyInv, NEW w, Workers = {w}, SaveRaised(w)
    PROVE  AgencyInv'
<1> DEFINE a == req[w].org
<1> DEFINE g == [group[a] EXCEPT !.quantity = req[w].seen.quantity + 1]
<1>1. At(w, "raised") /\ Save(w, g) /\ UNCHANGED <<settings, row, provider, faults>>
  BY DEF SaveRaised
<1>2. /\ a \in Orgs /\ group[a].mandate # 0 /\ req[w].seen.mandate = group[a].mandate
      /\ req[w].seen.quantity = group[a].quantity
      /\ mandate[group[a].mandate].next = group[a].quantity + 1
  BY <1>1 DEF At, AgencyInv, RosterInv, KnowsClient, MoneyInv, KnowsMoney
<1>3. group[a] \in Group /\ group[a].quantity \in Nat
  BY <1>2 DEF AgencyInv, AgencyTypeOK, Group
<1>4. /\ g \in Group /\ g.mandate = group[a].mandate /\ g.status = group[a].status
      /\ g.quantity = group[a].quantity + 1
  BY <1>2, <1>3 DEF Group
<1>5. /\ group[a].mandate \in Issued /\ mandate[group[a].mandate].owner = a
      /\ group[a].status = "active" => HasAuthorised(mandate, a)
  BY <1>2 DEF AgencyInv, MoneyInv, Books, GroupsPoint
<1>6. AllUnder(row, a, group[a].mandate) => Count(row, a) + 1 <= group[a].quantity + 1
  BY <1>2, <1>3, CountIsNat DEF AgencyInv, MoneyInv, Books, GroupCovers
<1>7. /\ row' \in [Clients -> ClientRow] /\ NotYetMade' /\ DetachedIsReleased'
      /\ \A c \in Clients : row'[c].payer # Nobody => row'[c].under \in Issued
  BY <1>1 DEF AgencyInv, AgencyTypeOK, RosterInv, NotYetMade, DetachedIsReleased, MoneyInv, Books,
     RowsWereBought, settings
<1> HIDE DEF g
<1> QED BY <1>1, <1>2, <1>4, <1>5, <1>6, <1>7, Counted DEF At, Enrolled

\* The first of a mandate is counted.
LEMMA FirstCounted ==
    ASSUME AgencyInv, NEW w, Workers = {w}, SaveOpened(w)
    PROVE  AgencyInv'
<1> DEFINE a == req[w].org
<1> DEFINE m == req[w].made
<1> DEFINE g == [mandate |-> m, quantity |-> 1, status |-> "created", end |-> 0,
                 ending |-> FALSE]
<1>1. At(w, "opened") /\ Save(w, g) /\ UNCHANGED <<settings, row, provider, faults>>
  BY DEF SaveOpened
<1>2. /\ a \in Orgs /\ m \in Issued /\ mandate[m].owner = a /\ mandate[m].next = 1
      /\ \A c \in Clients : row[c].under # m
  BY <1>1 DEF At, AgencyInv, RosterInv, KnowsClient, MoneyInv, KnowsMoney, Issued
<1>3. g \in Group /\ g.mandate = m /\ g.status = "created" /\ g.quantity = 1
  BY <1>2 DEF AgencyInv, AgencyTypeOK, Group, MandateStatus
<1>4. ASSUME AllUnder(row, a, m)
      PROVE  Count(row, a) + 1 <= 1
  <2>1. {c \in Clients : row[c].payer = a /\ ~row[c].ending} = {}
    BY <1>2, <1>4 DEF AllUnder
  <2>2. Count(row, a) = 0
    BY <2>1, FS_EmptySet DEF Count
  <2> QED BY <2>2
<1>5. /\ row' \in [Clients -> ClientRow] /\ NotYetMade' /\ DetachedIsReleased'
      /\ \A c \in Clients : row'[c].payer # Nobody => row'[c].under \in Issued
  BY <1>1 DEF AgencyInv, AgencyTypeOK, RosterInv, NotYetMade, DetachedIsReleased, MoneyInv, Books,
     RowsWereBought, settings
<1> HIDE DEF g
<1> QED BY <1>1, <1>2, <1>3, <1>4, <1>5, Counted DEF At, Enrolled

\* The clients of a replaced mandate are no more and no fewer on the new one.
LEMMA ReplacementCounted ==
    ASSUME AgencyInv, NEW w, Workers = {w}, SaveReplacement(w)
    PROVE  AgencyInv'
<1> DEFINE a == req[w].org
<1> DEFINE m == req[w].made
<1> DEFINE old == req[w].seen.mandate
<1> DEFINE g == [group[a] EXCEPT !.mandate = m, !.quantity = req[w].seen.quantity + 1,
                                 !.status = "created", !.end = 0]
<1>1. /\ At(w, "swapped") /\ Save(w, g) /\ UNCHANGED <<settings, provider, faults>>
      /\ row' = [c \in Clients |-> IF row[c].payer = a /\ row[c].under = old
                                   THEN [row[c] EXCEPT !.under = m] ELSE row[c]]
  BY DEF SaveReplacement, Transferred
<1>2. /\ a \in Orgs /\ m \in Issued /\ mandate[m].owner = a /\ old # 0 /\ m # old
      /\ old = group[a].mandate /\ req[w].seen.quantity = group[a].quantity
      /\ mandate[m].next = group[a].quantity + 1
      /\ \A c \in Clients : row[c].under # m
  BY <1>1 DEF At, AgencyInv, RosterInv, KnowsClient, MoneyInv, KnowsMoney, Issued
<1>3. req[w].target \in created /\ req[w].target \in Clients /\ row[req[w].target] = NoRow
  BY <1>1 DEF At, AgencyInv, AgencyTypeOK, RosterInv, KnowsClient, Enrolled
<1>4. group[a] \in Group /\ group[a].quantity \in Nat /\ m \in Ids
  BY <1>2 DEF AgencyInv, AgencyTypeOK, Group
<1>5. g \in Group /\ g.mandate = m /\ g.status = "created" /\ g.quantity = group[a].quantity + 1
  <2> DEFINE New(h, n, k) == [h EXCEPT !.mandate = n, !.quantity = k, !.status = "created",
                                       !.end = 0]
  <2>1. ASSUME NEW h \in Group, NEW n \in Ids, NEW k \in Nat
        PROVE  /\ New(h, n, k) \in Group /\ New(h, n, k).mandate = n
               /\ New(h, n, k).status = "created" /\ New(h, n, k).quantity = k
    BY DEF Group, MandateStatus
  <2>2. g = New(group[a], m, group[a].quantity + 1) /\ group[a].quantity + 1 \in Nat
    BY <1>2, <1>4
  <2> HIDE DEF New, g
  <2> QED BY <1>4, <2>1, <2>2
<1>6. ASSUME NEW c \in Clients
      PROVE  /\ row'[c] \in ClientRow
             /\ row'[c].payer = row[c].payer /\ row'[c].ending = row[c].ending
             /\ row'[c].status = row[c].status
             /\ row'[c].under = (IF row[c].payer = a /\ row[c].under = old THEN m ELSE row[c].under)
             /\ row[c].payer = Nobody => row'[c] = row[c]
  <2>1. row[c] \in ClientRow
    BY DEF AgencyInv, AgencyTypeOK
  <2>2. CASE row[c].payer = a /\ row[c].under = old
    <3>1. row[c] \in [payer: Orgs, status: MandateStatus, end: Nat, ending: BOOLEAN, under: Ids]
      BY <1>2, <2>1, <2>2, NothingIsTyped DEF ClientRow
    <3>2. row'[c] = [row[c] EXCEPT !.under = m]
      BY <1>1, <2>2
    <3>3. /\ row'[c] \in [payer: Orgs, status: MandateStatus, end: Nat, ending: BOOLEAN, under: Ids]
          /\ row'[c].payer = row[c].payer /\ row'[c].ending = row[c].ending
          /\ row'[c].status = row[c].status /\ row'[c].under = m
      BY <1>4, <3>1, <3>2
    <3> QED BY <1>2, <2>2, <3>3, NothingIsTyped DEF ClientRow
  <2>3. CASE ~ (row[c].payer = a /\ row[c].under = old)
    BY <1>1, <2>1, <2>3
  <2> QED BY <2>2, <2>3
<1>7. row' \in [Clients -> ClientRow]
  BY <1>1, <1>6
<1>8. NotYetMade' /\ DetachedIsReleased' /\ row'[req[w].target] = row[req[w].target]
  BY <1>1, <1>3, <1>6, NothingIsTyped DEF AgencyInv, AgencyTypeOK, RosterInv, NotYetMade,
     DetachedIsReleased, settings
<1>9. \A c \in Clients : row'[c].payer # Nobody => row'[c].under \in Issued
  BY <1>2, <1>6 DEF AgencyInv, MoneyInv, Books, RowsWereBought
<1>10. AllUnder(row', a, m) => AllUnder(row, a, old)
  BY <1>2, <1>6 DEF AllUnder
<1>11. AllUnder(row', a, m) => Count(row, a) + 1 <= group[a].quantity + 1
  BY <1>2, <1>4, <1>10, CountIsNat DEF AgencyInv, MoneyInv, Books, GroupCovers
<1>12. ASSUME NEW n \in Issued, AllUnder(row', mandate[n].owner, n)
       PROVE  \/ AllUnder(row, mandate[n].owner, n)
              \/ mandate[n].owner = a /\ n = m
              \/ Count(row, mandate[n].owner) = 0
  <2>1. CASE mandate[n].owner # a \/ n \notin {m, old}
    BY <1>6, <1>12, <2>1 DEF AllUnder
  <2>2. CASE mandate[n].owner = a /\ n = old
    BY <1>2, <1>6, <1>12, <2>2 DEF AllUnder
  <2> QED BY <2>1, <2>2
<1>13. \A b \in Orgs \ {a} : \A n : AllUnder(row', b, n) => AllUnder(row, b, n)
  BY <1>6 DEF AllUnder
<1>14. \A c \in Clients : /\ row'[c].payer = row[c].payer /\ row'[c].ending = row[c].ending
                           /\ row'[c].status = row[c].status
                           /\ row'[c].payer # Nobody => row'[c].under \in Issued
  BY <1>6, <1>9
<1>15. \A n \in Issued : AllUnder(row', mandate[n].owner, n) =>
         \/ AllUnder(row, mandate[n].owner, n)
         \/ mandate[n].owner = req[w].org /\ n = g.mandate
         \/ Count(row, mandate[n].owner) = 0
  BY <1>5, <1>12
<1>16. AllUnder(row', req[w].org, g.mandate) =>
         /\ Count(row, req[w].org) + 1 <= g.quantity
         /\ mandate[g.mandate].status # "cancelled"
            => Count(row, req[w].org) + 1 <= mandate[g.mandate].next
  BY <1>2, <1>5, <1>11
<1>17. /\ g \in Group /\ Save(w, g) /\ req[w].step \in Enrolled /\ g.status # "active"
       /\ g.mandate \in Issued /\ mandate[g.mandate].owner = req[w].org
  BY <1>1, <1>2, <1>5 DEF At, Enrolled
<1> HIDE DEF g
<1> QED BY <1>1, <1>7, <1>8, <1>13, <1>14, <1>15, <1>16, <1>17, Counted

\* A replaced mandate is cancelled, or is not: nothing the books say depends on it.
LEMMA ReplacedCancelled ==
    ASSUME AgencyInv, NEW w, Workers = {w}, CancelReplaced(w)
    PROVE  AgencyInv'
<1> DEFINE a == req[w].org
<1> DEFINE m == req[w].seen.mandate
<1>1. At(w, "replaced") /\ Proceed(w, "swapped") /\ UNCHANGED <<settings, group, row>>
  BY DEF CancelReplaced
<1>2. /\ req' \in [Workers -> Request]
      /\ req'[w].step = "swapped" /\ req'[w].org = a /\ req'[w].target = req[w].target
      /\ req'[w].seen = req[w].seen /\ req'[w].made = req[w].made
  BY <1>1, RequestProceeds DEF AgencyInv, RequestStep
<1>3. faults' \in Nat
  BY DEF CancelReplaced, Fault, AgencyInv, AgencyTypeOK
<1>4. RosterInv'
  BY <1>1, <1>2, RosterRests DEF settings, Enrolled, At
<1>5. KnowsMoney(req[w], group, row, mandate)
  BY DEF AgencyInv, MoneyInv
<1>6. CASE UNCHANGED provider
  <2>1. AgencyTypeOK'
    BY <1>1, <1>2, <1>3, <1>6 DEF AgencyInv, AgencyTypeOK, Issued, settings, provider
  <2>2. Books'
    BY <1>1, <1>6, BooksStay DEF AgencyInv, MoneyInv, provider
  <2>3. KnowsMoney(req[w], group, row, mandate)'
    BY <1>1, <1>2, <1>5, <1>6 DEF KnowsMoney, provider, At
  <2> QED BY <1>4, <2>1, <2>2, <2>3 DEF AgencyInv, MoneyInv
<1>7. CASE mandate' = [mandate EXCEPT ![m].status = "cancelled"] /\ Announce(m)
  <2>1. a \in Orgs /\ m # 0 /\ m = group[a].mandate
    BY <1>1 DEF At, AgencyInv, RosterInv, KnowsClient, MoneyInv, KnowsMoney
  <2>2. m \in DOMAIN mandate /\ m \in Ids /\ mandate[m] \in Mandate
    BY <2>1 DEF AgencyInv, MoneyInv, Books, GroupsPoint, Issued, AgencyTypeOK, Group
  <2>3. [mandate[m] EXCEPT !.status = "cancelled"] \in Mandate
    BY <2>2 DEF Mandate, MandateStatus
  <2>4. /\ mandate' \in Seq(Mandate) /\ DOMAIN mandate' = DOMAIN mandate
        /\ mandate'[m] = [mandate[m] EXCEPT !.status = "cancelled"]
        /\ \A n \in DOMAIN mandate : n # m => mandate'[n] = mandate[n]
    BY <1>7, <2>2, <2>3, MandateChanged DEF AgencyInv, AgencyTypeOK
  <2>5. \A n \in DOMAIN mandate : /\ mandate'[n].owner = mandate[n].owner
                                  /\ mandate'[n].end = mandate[n].end
                                  /\ mandate'[n].next = mandate[n].next
                                  /\ n # m => mandate'[n].status = mandate[n].status
    BY <2>2, <2>4 DEF Mandate
  <2>6. mandate'[m].status = "cancelled" /\ mandate'[m].end \in Nat
    BY <2>2, <2>4 DEF Mandate
  <2> DEFINE e == [mandate |-> m, status |-> mandate'[m].status, end |-> mandate'[m].end]
  <2>7. e \in Event /\ e.mandate = m /\ e.status = "cancelled"
    BY <2>2, <2>6 DEF Event, MandateStatus
  <2>8. /\ news' \in Seq(Event)
        /\ \A i \in DOMAIN news' : \/ i \in DOMAIN news /\ news'[i] = news[i]
                                   \/ news'[i] = e
    <3>1. news' = Append(news, e) /\ news \in Seq(Event)
      BY <1>7 DEF Announce, AgencyInv, AgencyTypeOK
    <3> HIDE DEF e
    <3> QED BY <2>7, <3>1, NewsGrows
  <2>9. AgencyTypeOK'
    BY <1>1, <1>2, <1>3, <2>4, <2>8 DEF AgencyInv, AgencyTypeOK, Issued, settings
  <2>10. MandatesGrow(mandate, mandate')
    BY <2>4, <2>5 DEF MandatesGrow
  <2>11. GroupsPoint' /\ RowsWereBought' /\ GroupCovers' /\ EntitledAfterAuthorised'
    BY <1>1, <2>10, BooksGrow DEF AgencyInv, MoneyInv
  <2>12. NewsIsTrue'
    <3> HIDE DEF e
    <3> QED BY <2>2, <2>4, <2>5, <2>7, <2>8
            DEF AgencyInv, MoneyInv, Books, NewsIsTrue, Issued
  <2>13. ProviderCovers'
    BY <1>1, <2>4, <2>5, <2>6 DEF AgencyInv, MoneyInv, Books, ProviderCovers, Issued
  <2>14. KnowsMoney(req[w], group, row, mandate)'
    BY <1>1, <1>2, <1>5, <2>4, <2>5 DEF KnowsMoney, At
  <2> QED BY <1>4, <2>9, <2>11, <2>12, <2>13, <2>14 DEF AgencyInv, MoneyInv, Books
<1> QED BY <1>6, <1>7 DEF CancelReplaced

\* A client more, for whom there was room in both books
LEMMA ClientWritten ==
    ASSUME AgencyInv, NEW w, Workers = {w}, WriteSubscription(w)
    PROVE  AgencyInv'
<1> DEFINE a == req[w].org
<1> DEFINE t == req[w].target
<1> DEFINE m == req[w].seen.mandate
<1> DEFINE new == [payer |-> a, status |-> req[w].seen.status, end |-> req[w].seen.end,
                   ending |-> FALSE, under |-> m]
<1>1. /\ At(w, "writing") /\ Answer(w) /\ UNCHANGED <<settings, group, provider, faults>>
      /\ row' = [row EXCEPT ![t] = new]
  BY DEF WriteSubscription
<1>2. req' \in [Workers -> Request] /\ req'[w].step = "idle"
  BY <1>1, RequestAnswered DEF AgencyInv
<1>3. a \in Orgs /\ t \in created /\ t \in Clients /\ row[t] = NoRow /\ agencyOf[t] = a
  BY <1>1 DEF At, AgencyInv, AgencyTypeOK, RosterInv, KnowsClient, Enrolled
<1>4. m # 0 /\ m = group[a].mandate /\ req[w].seen.quantity = group[a].quantity
  BY <1>1 DEF At, AgencyInv, MoneyInv, KnowsMoney
<1>5. m \in Issued /\ m \in Ids /\ mandate[m].owner = a /\ req[w].seen \in Group
  BY <1>3, <1>4 DEF AgencyInv, MoneyInv, Books, GroupsPoint, AgencyTypeOK, Request
<1>6. new \in ClientRow
  BY <1>3, <1>5 DEF ClientRow, Group
<1>7. /\ row' \in [Clients -> ClientRow] /\ row'[t] = new
      /\ \A c \in Clients : c # t => row'[c] = row[c]
  <2> HIDE DEF new
  <2> QED BY <1>1, <1>3, <1>6 DEF AgencyInv, AgencyTypeOK
<1>8. /\ row'[t].payer = a /\ row'[t].status = req[w].seen.status /\ ~row'[t].ending
      /\ row'[t].under = m
  BY <1>7
<1> HIDE DEF new
<1>9. AgencyTypeOK'
  BY <1>1, <1>2, <1>7 DEF AgencyInv, AgencyTypeOK, Issued, settings, provider
<1>10. RosterInv'
  <2>1. NotYetMade'
    BY <1>1, <1>3, <1>7 DEF AgencyInv, RosterInv, NotYetMade, settings
  <2>2. DetachedIsReleased'
    BY <1>1, <1>3, <1>7, <1>8 DEF AgencyInv, RosterInv, DetachedIsReleased, settings
  <2>3. KnowsClient(req[w], agencyOf, row, created)'
    BY <1>2 DEF KnowsClient, Enrolled, Releasing
  <2> QED BY <2>1, <2>2, <2>3 DEF RosterInv
<1>11. \A b \in Orgs : \A n : AllUnder(row', b, n) => AllUnder(row, b, n) /\ (b = a => n = m)
  <2> SUFFICES ASSUME NEW b \in Orgs, NEW n, AllUnder(row', b, n)
               PROVE  AllUnder(row, b, n) /\ (b = a => n = m)
    OBVIOUS
  <2>1. row[t].payer # b
    BY <1>3, NothingIsTyped
  <2>2. AllUnder(row, b, n)
    BY <1>7, <2>1 DEF AllUnder
  <2> QED BY <1>3, <1>8, <2>2 DEF AllUnder
<1>12. \A b \in Orgs \ {a} : Count(row', b) = Count(row, b)
  <2> TAKE b \in Orgs \ {a}
  <2>1. \A c \in Clients : (row'[c].payer = b /\ ~row'[c].ending)
                           <=> (row[c].payer = b /\ ~row[c].ending)
    BY <1>3, <1>7, <1>8, NothingIsTyped
  <2>2. {c \in Clients : row'[c].payer = b /\ ~row'[c].ending}
        = {c \in Clients : row[c].payer = b /\ ~row[c].ending}
    BY <2>1
  <2> QED BY <2>2 DEF Count
<1>13. Count(row', a) = Count(row, a) + 1
  <2> DEFINE S == {c \in Clients : row[c].payer = a /\ ~row[c].ending}
  <2>1. IsFiniteSet(S) /\ t \notin S
    BY <1>3, AgencyAssumption, FS_Subset, NothingIsTyped
  <2>2. {c \in Clients : row'[c].payer = a /\ ~row'[c].ending} = S \cup {t}
    BY <1>3, <1>7, <1>8
  <2> QED BY <2>1, <2>2, FS_AddElement DEF Count
<1>14. AllUnder(row, a, m) =>
         /\ Count(row, a) + 1 <= group[a].quantity
         /\ mandate[m].status # "cancelled" => Count(row, a) + 1 <= mandate[m].next
  BY <1>1, <1>4 DEF At, AgencyInv, MoneyInv, KnowsMoney
<1>15. mandate' = mandate /\ group' = group /\ news' = news
  BY <1>1 DEF provider
<1>16. GroupCovers'
  <2> SUFFICES ASSUME NEW b \in Orgs, group[b].mandate # 0, AllUnder(row', b, group[b].mandate)
               PROVE  Count(row', b) <= group[b].quantity
    BY <1>15 DEF GroupCovers
  <2>1. CASE b = a
    BY <1>11, <1>13, <1>14, <2>1
  <2>2. CASE b # a
    BY <1>11, <1>12, <2>2 DEF AgencyInv, MoneyInv, Books, GroupCovers
  <2> QED BY <2>1, <2>2
<1>17. ProviderCovers'
  <2> SUFFICES ASSUME NEW n \in Issued, mandate[n].status # "cancelled",
                      AllUnder(row', mandate[n].owner, n)
               PROVE  Count(row', mandate[n].owner) <= mandate[n].next
    BY <1>15 DEF ProviderCovers, Issued
  <2>1. mandate[n].owner \in Orgs
    <3>1. mandate[n] \in Mandate
      BY DEF AgencyInv, AgencyTypeOK, Issued
    <3> QED BY <3>1 DEF Mandate
  <2>2. CASE mandate[n].owner = a
    BY <1>11, <1>13, <1>14, <2>1, <2>2
  <2>3. CASE mandate[n].owner # a
    BY <1>11, <1>12, <2>1, <2>3 DEF AgencyInv, MoneyInv, Books, ProviderCovers
  <2> QED BY <2>2, <2>3
<1>18. GroupsPoint' /\ NewsIsTrue'
  BY <1>15 DEF AgencyInv, MoneyInv, Books, GroupsPoint, NewsIsTrue, Issued
<1>19. RowsWereBought'
  BY <1>3, <1>4, <1>5, <1>7, <1>8, <1>15 DEF AgencyInv, MoneyInv, Books, RowsWereBought, Issued
<1>20. EntitledAfterAuthorised'
  <2>1. req[w].seen.status = "active" => HasAuthorised(mandate, a)
    BY <1>1 DEF At, AgencyInv, MoneyInv, KnowsMoney
  <2> QED BY <1>7, <1>8, <1>15, <2>1
          DEF AgencyInv, MoneyInv, Books, EntitledAfterAuthorised, HasAuthorised, Issued
<1>21. KnowsMoney(req[w], group, row, mandate)'
  BY <1>2 DEF KnowsMoney
<1> QED BY <1>9, <1>10, <1>16, <1>17, <1>18, <1>19, <1>20, <1>21 DEF AgencyInv, MoneyInv, Books

-----------------------------------------------------------------------------
(* detachClient() *)

\* A client is flagged before one fewer is charged for.
LEMMA Flagged ==
    ASSUME AgencyInv, NEW w, Workers = {w}, ReleaseClient(w)
    PROVE  AgencyInv'
<1> DEFINE a == req[w].org
<1> DEFINE t == req[w].target
<1>1. At(w, "releasing") /\ UNCHANGED <<settings, group, provider, faults>>
  BY DEF ReleaseClient
<1>2. /\ req[w] \in Request /\ w \in Workers /\ a \in Orgs
      /\ t \in Orgs \cup created /\ agencyOf[t] = a
  BY <1>1 DEF At, AgencyInv, AgencyTypeOK, RosterInv, KnowsClient, Releasing
<1>3. CASE (t \notin Clients \/ row[t].payer # a \/ row[t].ending) /\ Proceed(w, "detaching")
           /\ UNCHANGED row
  <2>1. /\ req' \in [Workers -> Request]
        /\ req'[w].step = "detaching" /\ req'[w].org = a /\ req'[w].target = t
    BY <1>3, RequestProceeds DEF AgencyInv, RequestStep
  <2>2. AgencyTypeOK'
    BY <1>1, <1>3, <2>1 DEF AgencyInv, AgencyTypeOK, Issued, settings, provider
  <2>3. MoneyInv'
    BY <1>1, <1>3, <2>1, MoneyRests DEF AgencyInv, MoneyInv, provider, Quiet
  <2>4. t \in Orgs \/ row[t].payer # a \/ row[t].ending
    BY <1>2, <1>3 DEF AgencyInv, AgencyTypeOK
  <2>5. KnowsClient(req[w], agencyOf, row, created)'
    BY <1>1, <1>2, <1>3, <2>1, <2>4 DEF KnowsClient, Enrolled, Releasing, settings
  <2> QED BY <1>1, <1>3, <2>2, <2>3, <2>5
          DEF AgencyInv, RosterInv, NotYetMade, DetachedIsReleased, settings
<1>4. CASE /\ t \in Clients /\ row[t].payer = a /\ ~row[t].ending
           /\ row' = [row EXCEPT ![t] = [row[t] EXCEPT !.ending = TRUE]]
           /\ req' = [req EXCEPT ![w] = [req[w] EXCEPT !.step = "lowering", !.seen = group[a]]]
  <2>1. group[a] \in Group /\ group[a].quantity \in Nat
    BY <1>2 DEF AgencyInv, AgencyTypeOK, Group
  <2>2. [req[w] EXCEPT !.step = "lowering", !.seen = group[a]] \in Request
    BY <1>2, <2>1 DEF Request, RequestStep
  <2>3. /\ req' \in [Workers -> Request]
        /\ req'[w] = [req[w] EXCEPT !.step = "lowering", !.seen = group[a]]
    BY <1>2, <1>4, <2>2 DEF AgencyInv, AgencyTypeOK
  <2>4. /\ req'[w].step = "lowering" /\ req'[w].org = a /\ req'[w].target = t
        /\ req'[w].seen = group[a]
    BY <1>2, <2>3 DEF Request
  <2>5. row[t] \in [payer: Orgs, status: MandateStatus, end: Nat, ending: BOOLEAN, under: Ids]
    BY <1>2, <1>4, NothingIsTyped DEF AgencyInv, AgencyTypeOK, ClientRow
  <2>6. /\ row'[t] \in [payer: Orgs, status: MandateStatus, end: Nat, ending: BOOLEAN, under: Ids]
        /\ row'[t].payer = row[t].payer /\ row'[t].under = row[t].under /\ row'[t].ending
        /\ row'[t].status = row[t].status
    BY <1>4, <2>5 DEF AgencyInv, AgencyTypeOK
  <2>7. row' \in [Clients -> ClientRow] /\ \A c \in Clients : c # t => row'[c] = row[c]
    BY <1>4, <2>6 DEF AgencyInv, AgencyTypeOK, ClientRow
  <2>8. AgencyTypeOK'
    BY <1>1, <2>3, <2>7 DEF AgencyInv, AgencyTypeOK, Issued, settings, provider
  <2>9. RosterInv'
    <3>1. t \in created
      BY <1>2, <1>4, AgencyAssumption
    <3>2. NotYetMade' /\ DetachedIsReleased'
      BY <1>1, <2>6, <2>7, <3>1 DEF AgencyInv, RosterInv, NotYetMade, DetachedIsReleased, settings
    <3>3. KnowsClient(req[w], agencyOf, row, created)'
      BY <1>1, <1>2, <1>4, <2>4, <2>6, <3>1 DEF KnowsClient, Enrolled, Releasing, settings
    <3> QED BY <3>2, <3>3 DEF RosterInv
  <2>10. \A b, n : AllUnder(row', b, n) <=> AllUnder(row, b, n)
    <3>1. \A c \in Clients : row'[c].payer = row[c].payer /\ row'[c].under = row[c].under
      BY <2>6, <2>7
    <3> QED BY <3>1 DEF AllUnder
  <2>11. ASSUME NEW b
         PROVE  /\ Count(row', b) \in Nat /\ Count(row, b) \in Nat
                /\ Count(row', b) <= Count(row, b)
                /\ b = a => Count(row, a) = Count(row', a) + 1
    <3> DEFINE S == {c \in Clients : row[c].payer = b /\ ~row[c].ending}
    <3> DEFINE T == {c \in Clients : row'[c].payer = b /\ ~row'[c].ending}
    <3>1. IsFiniteSet(S) /\ IsFiniteSet(T)
      BY AgencyAssumption, FS_Subset
    <3>2. T = S \ {t}
      BY <2>6, <2>7
    <3>3. b = a => t \in S
      BY <1>4
    <3>4. Cardinality(T) = (IF t \in S THEN Cardinality(S) - 1 ELSE Cardinality(S))
      <4> HIDE DEF S, T
      <4> QED BY <3>1, <3>2, FS_RemoveElement
    <3>5. Cardinality(S) \in Nat /\ Cardinality(T) \in Nat
      BY <3>1, FS_CardinalityType
    <3>6. Count(row, b) = Cardinality(S) /\ Count(row', b) = Cardinality(T)
      BY DEF Count
    <3> HIDE DEF S, T
    <3> QED BY <3>3, <3>4, <3>5, <3>6
  <2>12. mandate' = mandate /\ group' = group /\ news' = news
    BY <1>1 DEF provider
  <2>13. GroupsPoint' /\ NewsIsTrue'
    BY <2>12 DEF AgencyInv, MoneyInv, Books, GroupsPoint, NewsIsTrue, Issued
  <2>14. \A c \in Clients : /\ row'[c].payer = row[c].payer /\ row'[c].under = row[c].under
                            /\ row'[c].status = row[c].status
    BY <2>6, <2>7
  <2>15. RowsWereBought' /\ EntitledAfterAuthorised'
    BY <2>12, <2>14 DEF AgencyInv, MoneyInv, Books, RowsWereBought, EntitledAfterAuthorised, Issued
  <2>16. GroupCovers'
    <3> SUFFICES ASSUME NEW b \in Orgs, group[b].mandate # 0, AllUnder(row', b, group[b].mandate)
                 PROVE  Count(row', b) <= group[b].quantity
      BY <2>12 DEF GroupCovers
    <3>1. Count(row, b) <= group[b].quantity
      BY <2>10 DEF AgencyInv, MoneyInv, Books, GroupCovers
    <3>2. group[b].quantity \in Nat
      BY DEF AgencyInv, AgencyTypeOK, Group
    <3> QED BY <2>11, <3>1, <3>2
  <2>17. ProviderCovers'
    <3> SUFFICES ASSUME NEW n \in Issued, mandate[n].status # "cancelled",
                        AllUnder(row', mandate[n].owner, n)
                 PROVE  Count(row', mandate[n].owner) <= mandate[n].next
      BY <2>12 DEF ProviderCovers, Issued
    <3>1. Count(row, mandate[n].owner) <= mandate[n].next
      BY <2>10 DEF AgencyInv, MoneyInv, Books, ProviderCovers
    <3>2. mandate[n] \in Mandate
      BY DEF AgencyInv, AgencyTypeOK, Issued
    <3>3. mandate[n].next \in Nat
      BY <3>2 DEF Mandate
    <3> QED BY <2>11, <3>1, <3>3
  <2>18. group[a].mandate # 0
    BY <1>2, <1>4, NothingIsTyped DEF AgencyInv, MoneyInv, Books, RowsWereBought
  <2>19. AllUnder(row', a, group[a].mandate) =>
           Count(row', a) <= (IF group[a].quantity > 0 THEN group[a].quantity - 1 ELSE 0)
    <3>1. AllUnder(row', a, group[a].mandate) => Count(row, a) <= group[a].quantity
      BY <1>2, <2>10, <2>18 DEF AgencyInv, MoneyInv, Books, GroupCovers
    <3> QED BY <2>1, <2>11, <3>1
  <2>20. KnowsMoney(req[w], group, row, mandate)'
    BY <2>4, <2>12, <2>18, <2>19 DEF KnowsMoney
  <2> QED BY <2>8, <2>9, <2>13, <2>15, <2>16, <2>17, <2>20 DEF AgencyInv, MoneyInv, Books
<1> QED BY <1>3, <1>4 DEF ReleaseClient

\* A client that was flagged stays in hand.
LEMMA StillReleasing ==
    ASSUME AgencyInv, NEW w, Workers = {w}, UNCHANGED <<agencyOf, created, row>>,
           req[w].step \in {"lowering", "lowered"}, req'[w].step \in {"lowered", "detaching"},
           req'[w].org = req[w].org, req'[w].target = req[w].target
    PROVE  RosterInv'
<1>1. KnowsClient(req[w], agencyOf, row, created)'
  BY DEF AgencyInv, RosterInv, KnowsClient, Enrolled, Releasing
<1> QED BY <1>1 DEF AgencyInv, RosterInv, NotYetMade, DetachedIsReleased

\* One fewer is charged for, and the clients that are left are no more.
LEMMA Lowered ==
    ASSUME AgencyInv, NEW w, Workers = {w}, LowerQuantity(w)
    PROVE  AgencyInv'
<1> DEFINE m == req[w].seen.mandate
<1> DEFINE a == req[w].org
<1> DEFINE left == Remaining(w)
<1>1. At(w, "lowering") /\ Proceed(w, "lowered") /\ UNCHANGED <<settings, group, row, news, faults>>
  BY DEF LowerQuantity
<1>2. PICK r : /\ mandate' = [mandate EXCEPT ![m] = r]
               /\ \/ r = [mandate[m] EXCEPT !.ending = TRUE]
                  \/ r = [mandate[m] EXCEPT !.next = left]
  BY DEF LowerQuantity
<1>3. /\ req' \in [Workers -> Request]
      /\ req'[w].step = "lowered" /\ req'[w].org = a /\ req'[w].target = req[w].target
      /\ req'[w].seen = req[w].seen
  BY <1>1, RequestProceeds DEF AgencyInv, RequestStep
<1>4. /\ a \in Orgs /\ m # 0 /\ m = group[a].mandate /\ req[w].seen.quantity = group[a].quantity
      /\ AllUnder(row, a, m) => Count(row, a) <= left
  BY <1>1 DEF At, AgencyInv, RosterInv, KnowsClient, MoneyInv, KnowsMoney, Remaining
<1>5. m \in DOMAIN mandate /\ mandate[m].owner = a /\ mandate[m] \in Mandate
  BY <1>4 DEF AgencyInv, MoneyInv, Books, GroupsPoint, Issued, AgencyTypeOK
<1>6. left \in Nat
  BY <1>4 DEF Remaining, AgencyInv, AgencyTypeOK, Group
<1> HIDE DEF left
<1>7. /\ r \in Mandate /\ r.owner = a /\ r.end = mandate[m].end /\ r.status = mandate[m].status
      /\ r.next \in {mandate[m].next, left}
  BY <1>2, <1>5, <1>6 DEF Mandate
<1>8. /\ mandate' \in Seq(Mandate) /\ DOMAIN mandate' = DOMAIN mandate
      /\ mandate'[m] = r /\ \A n \in DOMAIN mandate : n # m => mandate'[n] = mandate[n]
  BY <1>2, <1>5, <1>7, MandateChanged DEF AgencyInv, AgencyTypeOK
<1>9. AgencyTypeOK'
  BY <1>1, <1>3, <1>8 DEF AgencyInv, AgencyTypeOK, Issued, settings
<1>10. RosterInv'
  BY <1>1, <1>3, StillReleasing DEF At, settings
<1>11. KnowsMoney(req[w], group, row, mandate)'
  BY <1>1, <1>3, <1>4 DEF KnowsMoney, Remaining, left
<1>12. MandatesGrow(mandate, mandate')
  BY <1>5, <1>7, <1>8 DEF MandatesGrow
<1>13. ProviderCovers'
  <2> SUFFICES ASSUME NEW n \in DOMAIN mandate,
                      mandate'[n].status # "cancelled", AllUnder(row, mandate'[n].owner, n)
               PROVE  Count(row, mandate'[n].owner) <= mandate'[n].next
    BY <1>1, <1>8 DEF ProviderCovers, Issued
  <2>1. CASE n # m
    BY <1>8, <2>1 DEF AgencyInv, MoneyInv, Books, ProviderCovers, Issued
  <2>2. CASE n = m
    <3>1. Count(row, a) <= mandate[m].next
      BY <1>5, <1>7, <1>8, <2>2 DEF AgencyInv, MoneyInv, Books, ProviderCovers, Issued
    <3> QED BY <1>4, <1>7, <1>8, <2>2, <3>1
  <2> QED BY <2>1, <2>2
<1> QED BY <1>1, <1>9, <1>10, <1>11, <1>12, <1>13, BooksGrow DEF AgencyInv, MoneyInv, Books

\* The provider refuses to charge for one fewer.
LEMMA NotLowered ==
    ASSUME AgencyInv, NEW w, Workers = {w}, LowerRefused(w)
    PROVE  AgencyInv'
<1>1. PICK s \in {"detaching", "lowered"} : Proceed(w, s)
  BY DEF LowerRefused
<1>2. At(w, "lowering") /\ faults' \in Nat /\ UNCHANGED <<settings, group, row, provider>>
  BY DEF LowerRefused, Fault, AgencyInv, AgencyTypeOK
<1>3. /\ req' \in [Workers -> Request]
      /\ req'[w].step = s /\ req'[w].org = req[w].org /\ req'[w].target = req[w].target
      /\ req'[w].seen = req[w].seen
  BY <1>1, RequestProceeds DEF AgencyInv, RequestStep
<1>4. AgencyTypeOK'
  BY <1>2, <1>3 DEF AgencyInv, AgencyTypeOK, Issued, settings, provider
<1>5. RosterInv'
  BY <1>2, <1>3, StillReleasing DEF At, settings
<1>6. Books'
  BY <1>2, BooksStay DEF AgencyInv, MoneyInv, provider
<1>7. KnowsMoney(req[w], group, row, mandate)
  BY DEF AgencyInv, MoneyInv
<1>8. KnowsMoney(req[w], group, row, mandate)'
  BY <1>2, <1>3, <1>7 DEF KnowsMoney, At, provider
<1> QED BY <1>4, <1>5, <1>6, <1>8 DEF AgencyInv, MoneyInv

\* One fewer is counted.
LEMMA LoweringCounted ==
    ASSUME AgencyInv, NEW w, Workers = {w}, SaveLowered(w)
    PROVE  AgencyInv'
<1> DEFINE a == req[w].org
<1> DEFINE left == Remaining(w)
<1> DEFINE g == [group[a] EXCEPT !.quantity = left, !.ending = group[a].ending \/ left = 0]
<1>1. /\ At(w, "lowered") /\ Proceed(w, "detaching")
      /\ UNCHANGED <<settings, row, provider, faults>>
      /\ group' = [group EXCEPT ![a] = g]
  BY DEF SaveLowered
<1>2. /\ req' \in [Workers -> Request]
      /\ req'[w].step = "detaching" /\ req'[w].org = a /\ req'[w].target = req[w].target
  BY <1>1, RequestProceeds DEF AgencyInv, RequestStep
<1>3. /\ a \in Orgs /\ req[w].seen.mandate = group[a].mandate
      /\ req[w].seen.quantity = group[a].quantity
      /\ AllUnder(row, a, group[a].mandate) => Count(row, a) <= left
  BY <1>1 DEF At, AgencyInv, RosterInv, KnowsClient, MoneyInv, KnowsMoney, Remaining
<1>4. left \in Nat /\ group[a] \in Group /\ group[a].ending \in BOOLEAN
  BY <1>3 DEF Remaining, AgencyInv, AgencyTypeOK, Group
<1> HIDE DEF left
<1>5. g \in Group /\ g.mandate = group[a].mandate /\ g.quantity = left /\ g.status = group[a].status
  BY <1>4 DEF Group
<1> HIDE DEF g
<1>6. /\ group' \in [Orgs -> Group] /\ group'[a] = g
      /\ \A b \in Orgs \ {a} : group'[b] = group[b]
  BY <1>1, <1>3, <1>5 DEF AgencyInv, AgencyTypeOK
<1>7. AgencyTypeOK'
  BY <1>1, <1>2, <1>6 DEF AgencyInv, AgencyTypeOK, Issued, settings, provider
<1>8. RosterInv'
  BY <1>1, <1>2, StillReleasing DEF At, settings
<1>9. mandate' = mandate /\ row' = row /\ news' = news
  BY <1>1 DEF provider
<1>10. \A b \in Orgs : group'[b].mandate = group[b].mandate /\ group'[b].status = group[b].status
  BY <1>5, <1>6
<1>11. GroupsPoint' /\ NewsIsTrue'
  BY <1>9, <1>10 DEF AgencyInv, MoneyInv, Books, GroupsPoint, NewsIsTrue, Issued
<1>12. ProviderCovers' /\ EntitledAfterAuthorised'
  BY <1>9 DEF AgencyInv, MoneyInv, Books, ProviderCovers, EntitledAfterAuthorised, Issued
<1>13. RowsWereBought'
  <2>1. \A c \in Clients : row[c].payer # Nobody => row[c].payer \in Orgs
    BY AgencyAssumption DEF AgencyInv, AgencyTypeOK, ClientRow, NoRow
  <2> QED BY <1>9, <1>10, <2>1 DEF AgencyInv, MoneyInv, Books, RowsWereBought, Issued
<1>14. GroupCovers'
  BY <1>3, <1>5, <1>6, <1>9 DEF AgencyInv, MoneyInv, Books, GroupCovers
<1>15. KnowsMoney(req[w], group, row, mandate)'
  BY <1>2 DEF KnowsMoney
<1> QED BY <1>7, <1>8, <1>11, <1>12, <1>13, <1>14, <1>15 DEF AgencyInv, MoneyInv, Books

-----------------------------------------------------------------------------
(* The provider and its events *)

\* A mandate that moves on keeps its owner and what it is to be charged for next.
LEMMA MovesOn ==
    ASSUME NEW x \in Mandate, NEW s \in {"active", "halted", "cancelled"}
    PROVE  /\ Moved(x, s) \in Mandate
           /\ Moved(x, s).owner = x.owner /\ Moved(x, s).next = x.next /\ Moved(x, s).status = s
           /\ Moved(x, s).end = IF s = "active" THEN x.end + 1 ELSE x.end
<1>1. /\ x.owner \in Orgs /\ x.next \in Nat /\ x.end \in Nat /\ x.quantity \in Nat
      /\ x.ending \in BOOLEAN
  BY DEF Mandate
<1>2. x = [owner |-> x.owner, status |-> x.status, quantity |-> x.quantity, next |-> x.next,
           end |-> x.end, ending |-> x.ending]
  BY DEF Mandate
<1>3. CASE s = "active"
  <2>1. Moved(x, s) = [owner |-> x.owner, status |-> s, quantity |-> x.next, next |-> x.next,
                       end |-> x.end + 1, ending |-> x.ending]
    BY <1>2, <1>3 DEF Moved
  <2>2. x.end + 1 \in Nat /\ s \in MandateStatus
    BY <1>1 DEF MandateStatus
  <2> QED BY <1>1, <1>3, <2>1, <2>2 DEF Mandate
<1>4. CASE s # "active"
  BY <1>4 DEF Moved, Mandate, MandateStatus
<1> QED BY <1>3, <1>4

\* A mandate is authorised, charged, fails or ends: what it is to be charged for next stays.
LEMMA ProviderMoves ==
    ASSUME AgencyInv, NEW w, Workers = {w}, NEW m \in Issued,
           AuthoriseMandate(m) \/ ChargeMandate(m) \/ DebitFails(m) \/ Ends(m)
    PROVE  AgencyInv'
<1>1. PICK s \in {"active", "halted", "cancelled"} :
           ProviderStep(m, s) /\ mandate[m].status # "cancelled"
  BY DEF AuthoriseMandate, ChargeMandate, DebitFails, Ends
<1> DEFINE r == Moved(mandate[m], s)
<1>2. /\ mandate' = [mandate EXCEPT ![m] = r] /\ Announce(m)
      /\ UNCHANGED <<settings, group, row, req, faults>>
  BY <1>1 DEF ProviderStep
<1>3. mandate[m] \in Mandate /\ m \in DOMAIN mandate /\ m \in Ids
  BY DEF AgencyInv, AgencyTypeOK, Issued
<1>4. /\ r \in Mandate /\ r.owner = mandate[m].owner /\ r.next = mandate[m].next /\ r.status = s
      /\ r.end \in Nat /\ r.end >= mandate[m].end /\ (s = "active" => r.end > 0)
  <2>1. mandate[m].end \in Nat
    BY <1>3 DEF Mandate
  <2>2. /\ r \in Mandate /\ r.owner = mandate[m].owner /\ r.next = mandate[m].next /\ r.status = s
        /\ r.end = IF s = "active" THEN mandate[m].end + 1 ELSE mandate[m].end
    BY <1>3, MovesOn
  <2> QED BY <2>1, <2>2
<1> HIDE DEF r
<1>5. /\ mandate' \in Seq(Mandate) /\ DOMAIN mandate' = DOMAIN mandate
      /\ mandate'[m] = r /\ \A n \in DOMAIN mandate : n # m => mandate'[n] = mandate[n]
  BY <1>2, <1>3, <1>4, MandateChanged DEF AgencyInv, AgencyTypeOK
<1>6. \A n \in DOMAIN mandate :
        /\ mandate'[n].owner = mandate[n].owner /\ mandate'[n].next = mandate[n].next
        /\ mandate'[n].status # "cancelled" => mandate[n].status # "cancelled"
        /\ mandate[n].end > 0 => mandate'[n].end > 0
  <2>1. mandate[m].end \in Nat
    BY <1>3 DEF Mandate
  <2> QED BY <1>1, <1>4, <1>5, <2>1
<1> DEFINE e == [mandate |-> m, status |-> mandate'[m].status, end |-> mandate'[m].end]
<1>7. e \in Event /\ e.mandate = m /\ (e.status = "active" => mandate'[m].end > 0)
  BY <1>3, <1>4, <1>5 DEF Event, MandateStatus
<1>8. /\ news' \in Seq(Event)
      /\ \A i \in DOMAIN news' : \/ i \in DOMAIN news /\ news'[i] = news[i]
                                 \/ news'[i] = e
  <2>1. news' = Append(news, e) /\ news \in Seq(Event)
    BY <1>2 DEF Announce, AgencyInv, AgencyTypeOK
  <2> HIDE DEF e
  <2> QED BY <1>7, <2>1, NewsGrows
<1> HIDE DEF e
<1>9. AgencyTypeOK'
  BY <1>2, <1>5, <1>8 DEF AgencyInv, AgencyTypeOK, Issued, settings
<1>10. RosterInv'
  BY <1>2 DEF AgencyInv, RosterInv, NotYetMade, DetachedIsReleased, settings
<1>11. MandatesGrow(mandate, mandate')
  BY <1>5, <1>6 DEF MandatesGrow
<1>12. GroupsPoint' /\ RowsWereBought' /\ GroupCovers' /\ EntitledAfterAuthorised'
  BY <1>2, <1>11, BooksGrow DEF AgencyInv, MoneyInv
<1>13. NewsIsTrue'
  BY <1>3, <1>5, <1>6, <1>7, <1>8 DEF AgencyInv, MoneyInv, Books, NewsIsTrue, Issued
<1>14. ProviderCovers'
  BY <1>2, <1>5, <1>6 DEF AgencyInv, MoneyInv, Books, ProviderCovers, Issued
<1>15. KnowsMoney(req[w], group, row, mandate)'
  <2>1. KnowsMoney(req[w], group, row, mandate)
    BY DEF AgencyInv, MoneyInv
  <2>2. \A a : HasAuthorised(mandate, a) => HasAuthorised(mandate, a)'
    BY <1>5, <1>6 DEF HasAuthorised
  <2>3. req[w].step \in {"raised", "writing"} => req[w].seen.mandate \in DOMAIN mandate
    <3>1. req[w].step # "idle" => req[w].org \in Orgs
      BY DEF AgencyInv, RosterInv, KnowsClient
    <3> QED BY <2>1, <3>1 DEF KnowsMoney, AgencyInv, MoneyInv, Books, GroupsPoint, Issued
  <2> QED BY <1>2, <1>5, <1>6, <2>1, <2>2, <2>3 DEF KnowsMoney
<1> QED BY <1>9, <1>10, <1>12, <1>13, <1>14, <1>15 DEF AgencyInv, MoneyInv, Books

\* applyToGroup(): the event of a mandate of the agency's own
LEMMA EventApplied ==
    ASSUME AgencyInv, NEW w, Workers = {w}, ApplyToGroup
    PROVE  AgencyInv'
<1> DEFINE e == Head(news)
<1> DEFINE agencies == {a \in Orgs : group[a].mandate = e.mandate}
<1> DEFINE Updated(x) == [x EXCEPT !.status = e.status, !.end = IF e.end > 0 THEN e.end ELSE x.end]
<1>0. news # <<>> /\ news' = Tail(news) /\ UNCHANGED <<settings, mandate, req, faults>>
  BY DEF ApplyToGroup
<1>1. /\ group' = [a \in Orgs |-> IF a \in agencies THEN Updated(group[a]) ELSE group[a]]
      /\ row' = [c \in Clients |-> IF row[c].payer \in agencies THEN Updated(row[c]) ELSE row[c]]
  BY DEF ApplyToGroup
<1>2. /\ news' \in Seq(Event) /\ e = news[1] /\ 1 \in DOMAIN news
      /\ \A i \in DOMAIN news' : i + 1 \in DOMAIN news /\ news'[i] = news[i + 1]
  BY <1>0, NewsRead DEF AgencyInv, AgencyTypeOK
<1>3. e \in Event
  BY <1>2 DEF AgencyInv, AgencyTypeOK
<1>4. e.mandate \in Issued /\ (e.status = "active" => mandate[e.mandate].end > 0)
  BY <1>2 DEF AgencyInv, MoneyInv, Books, NewsIsTrue
<1>5. e.status \in MandateStatus /\ e.end \in Nat /\ e.mandate # 0
  BY <1>3, AgencyAssumption DEF Event, Ids
<1> HIDE DEF e
<1>6. ASSUME NEW a \in Orgs
      PROVE  /\ group'[a] \in Group /\ group'[a].mandate = group[a].mandate
             /\ group'[a].quantity = group[a].quantity
             /\ group'[a].status = (IF a \in agencies THEN e.status ELSE group[a].status)
  <2>1. group[a] \in Group
    BY DEF AgencyInv, AgencyTypeOK
  <2>2. CASE a \in agencies
    <3>1. group'[a] = Updated(group[a])
      BY <1>1, <2>2
    <3> QED BY <1>5, <2>1, <2>2, <3>1 DEF Group
  <2>3. CASE a \notin agencies
    <3>1. group'[a] = group[a]
      BY <1>1, <2>3
    <3> QED BY <2>1, <2>3, <3>1
  <2> QED BY <2>2, <2>3
<1>7. ASSUME NEW c \in Clients
      PROVE  /\ row'[c] \in ClientRow /\ row'[c].payer = row[c].payer
             /\ row'[c].ending = row[c].ending /\ row'[c].under = row[c].under
             /\ row'[c].status = (IF row[c].payer \in agencies THEN e.status ELSE row[c].status)
             /\ row[c].payer = Nobody => row'[c] = row[c]
  <2>1. row[c] \in ClientRow
    BY DEF AgencyInv, AgencyTypeOK
  <2>2. CASE row[c].payer \in agencies
    <3>1. row[c] \in [payer: Orgs, status: MandateStatus, end: Nat, ending: BOOLEAN, under: Ids]
      BY <2>1, <2>2, NothingIsTyped DEF ClientRow
    <3>2. row'[c] = Updated(row[c])
      BY <1>1, <2>2
    <3>3. /\ row'[c] \in [payer: Orgs, status: MandateStatus, end: Nat, ending: BOOLEAN, under: Ids]
          /\ row'[c].payer = row[c].payer /\ row'[c].ending = row[c].ending
          /\ row'[c].under = row[c].under /\ row'[c].status = e.status
      BY <1>5, <3>1, <3>2
    <3> QED BY <2>2, <3>3, NothingIsTyped DEF ClientRow
  <2>3. CASE row[c].payer \notin agencies
    <3>1. row'[c] = row[c]
      BY <1>1, <2>3
    <3> QED BY <2>1, <2>3, <3>1
  <2> QED BY <2>2, <2>3
<1>8. group' \in [Orgs -> Group] /\ row' \in [Clients -> ClientRow]
  BY <1>1, <1>6, <1>7
<1> HIDE DEF agencies, Updated
<1>9. AgencyTypeOK'
  BY <1>0, <1>2, <1>8 DEF AgencyInv, AgencyTypeOK, Issued, settings
<1>10. \A a \in agencies : e.status = "active" => HasAuthorised(mandate, a)
  BY <1>4, <1>5 DEF AgencyInv, MoneyInv, Books, GroupsPoint, HasAuthorised, Issued, agencies
<1>11. \A b, n : (AllUnder(row', b, n) <=> AllUnder(row, b, n)) /\ Count(row', b) = Count(row, b)
  <2> SUFFICES ASSUME NEW b, NEW n
               PROVE  /\ AllUnder(row', b, n) <=> AllUnder(row, b, n)
                      /\ Count(row', b) = Count(row, b)
    OBVIOUS
  <2>1. AllUnder(row', b, n) <=> AllUnder(row, b, n)
    BY <1>7 DEF AllUnder
  <2>2. {c \in Clients : row'[c].payer = b /\ ~row'[c].ending}
        = {c \in Clients : row[c].payer = b /\ ~row[c].ending}
    BY <1>7
  <2> QED BY <2>1, <2>2 DEF Count
<1>12. GroupsPoint'
  <2> SUFFICES ASSUME NEW a \in Orgs
               PROVE  /\ group'[a].mandate = 0 => group'[a].status = "cancelled"
                      /\ group'[a].mandate # 0 => /\ group'[a].mandate \in Issued
                                                  /\ mandate[group'[a].mandate].owner = a
                      /\ group'[a].status = "active" => HasAuthorised(mandate, a)
    BY <1>0 DEF GroupsPoint, Issued
  <2>1. a \in agencies => group[a].mandate # 0
    BY <1>5 DEF agencies
  <2> QED BY <1>6, <1>10, <2>1 DEF AgencyInv, MoneyInv, Books, GroupsPoint
<1>13. NewsIsTrue'
  BY <1>0, <1>2 DEF AgencyInv, MoneyInv, Books, NewsIsTrue, Issued
<1>14. RowsWereBought'
  <2>1. \A c \in Clients : row[c].payer # Nobody => row[c].payer \in Orgs
    BY AgencyAssumption DEF AgencyInv, AgencyTypeOK, ClientRow, NoRow
  <2> QED BY <1>0, <1>6, <1>7, <2>1 DEF AgencyInv, MoneyInv, Books, RowsWereBought, Issued
<1>15. GroupCovers' /\ ProviderCovers'
  BY <1>0, <1>6, <1>11 DEF AgencyInv, MoneyInv, Books, GroupCovers, ProviderCovers, Issued
<1>16. EntitledAfterAuthorised'
  <2> SUFFICES ASSUME NEW c \in Clients, row'[c].status = "active"
               PROVE  HasAuthorised(mandate, row[c].payer)
    BY <1>0, <1>7 DEF EntitledAfterAuthorised, HasAuthorised, Issued
  <2>1. CASE row[c].payer \in agencies
    BY <1>7, <1>10, <2>1
  <2>2. CASE row[c].payer \notin agencies
    BY <1>7, <2>2 DEF AgencyInv, MoneyInv, Books, EntitledAfterAuthorised, HasAuthorised, Issued
  <2> QED BY <2>1, <2>2
<1>17. RosterInv'
  <2>1. NotYetMade'
    BY <1>0, <1>7, NothingIsTyped DEF AgencyInv, RosterInv, NotYetMade, settings
  <2>2. DetachedIsReleased'
    BY <1>0, <1>7 DEF AgencyInv, RosterInv, DetachedIsReleased, settings
  <2>3. KnowsClient(req[w], agencyOf, row, created) /\ created \subseteq Clients
    BY DEF AgencyInv, RosterInv, AgencyTypeOK
  <2>4. KnowsClient(req[w], agencyOf, row, created)'
    BY <1>0, <1>7, <2>3, NothingIsTyped DEF KnowsClient, settings, Releasing
  <2> QED BY <2>1, <2>2, <2>4 DEF RosterInv
<1>18. KnowsMoney(req[w], group, row, mandate)'
  <2>1. KnowsMoney(req[w], group, row, mandate) /\ (req[w].step # "idle" => req[w].org \in Orgs)
    BY DEF AgencyInv, MoneyInv, RosterInv, KnowsClient
  <2> QED BY <1>0, <1>6, <1>7, <1>11, <2>1 DEF KnowsMoney
<1> QED BY <1>9, <1>12, <1>13, <1>14, <1>15, <1>16, <1>17, <1>18 DEF AgencyInv, MoneyInv, Books

-----------------------------------------------------------------------------

\* It begins so,
LEMMA AgencyBegins ==
    ASSUME NEW w, Workers = {w}
    PROVE  AgencyInit => AgencyInv
<1> SUFFICES ASSUME AgencyInit
             PROVE  AgencyInv
  OBVIOUS
<1>1. mandate = <<>> /\ news = <<>> /\ DOMAIN mandate = {} /\ DOMAIN news = {}
  BY DEF AgencyInit
<1>2. AgencyTypeOK
  BY <1>1, NothingIsTyped DEF AgencyInit, AgencyTypeOK, Issued
<1>3. RosterInv
  BY NothingIsTyped DEF AgencyInit, RosterInv, NotYetMade, DetachedIsReleased, KnowsClient,
     NoRequest, Enrolled, Releasing, AllOrgs
<1>4. Books
  BY <1>1, NothingIsTyped DEF AgencyInit, Books, GroupsPoint, NewsIsTrue, RowsWereBought,
     GroupCovers, ProviderCovers, EntitledAfterAuthorised, NoGroup, NoRow, Issued
<1>5. KnowsMoney(req[w], group, row, mandate)
  BY DEF AgencyInit, KnowsMoney, NoRequest
<1> QED BY <1>2, <1>3, <1>4, <1>5 DEF AgencyInv, MoneyInv

\* and every step keeps it.
LEMMA AgencyKept ==
    ASSUME NEW w, Workers = {w}
    PROVE  AgencyInv /\ [AgencyNext]_agencyVars => AgencyInv'
<1> SUFFICES ASSUME AgencyInv, [AgencyNext]_agencyVars
             PROVE  AgencyInv'
  OBVIOUS
<1>1. ASSUME NEW o \in Orgs, StartConvert(w, o) \/ StartDemote(w, o) \/ StartCreate(w, o)
      PROVE  AgencyInv'
  BY <1>1, Received
<1>2. ASSUME NEW a \in Orgs, NEW o \in AllOrgs, StartAttach(w, a, o) \/ StartDetach(w, a, o)
      PROVE  AgencyInv'
  BY <1>2, ReceivedForClient
<1>3. CASE Handle(w)
  BY <1>3, Converted, Handed, Ordered, OnTheRoster, Answered, GroupRead, Raised, RaiseCounted,
     MandateIsOpened, FirstCounted, ReplacedCancelled, ReplacementCounted, ClientWritten, Flagged,
     Lowered, NotLowered, LoweringCounted DEF Handle
<1>4. ASSUME NEW m \in Issued,
             AuthoriseMandate(m) \/ ChargeMandate(m) \/ DebitFails(m) \/ Ends(m)
      PROVE  AgencyInv'
  BY <1>4, ProviderMoves
<1>5. CASE ApplyToGroup
  BY <1>5, EventApplied
<1>6. CASE UNCHANGED agencyVars
  <2>1. UNCHANGED <<isAgency, agencyOf, created, group, row, mandate, news, req, faults>>
    BY <1>6 DEF agencyVars, settings, provider
  <2>2. Books'
    BY <2>1, BooksStay DEF AgencyInv, MoneyInv
  <2>3. AgencyTypeOK' /\ RosterInv'
    BY <2>1 DEF AgencyInv, AgencyTypeOK, Issued, RosterInv, NotYetMade, DetachedIsReleased
  <2> QED BY <2>1, <2>2, <2>3 DEF AgencyInv, MoneyInv
<1> QED BY <1>1, <1>2, <1>3, <1>4, <1>5, <1>6 DEF AgencyNext

\* The tables, the provider's subscriptions and a request's locals have their types.
THEOREM AgencyTypeCorrect ==
    ASSUME NEW w, Workers = {w}
    PROVE  AgencySpec => []AgencyTypeOK
<1>1. AgencyInv => AgencyTypeOK
  BY DEF AgencyInv
<1> QED BY <1>1, AgencyBegins, AgencyKept, PTL DEF AgencySpec

\* detachClient(): for any number of agencies and clients, one request at a time,
\* whatever the provider refuses and wherever a request dies, a client that was
\* let go is flagged, so that it is not renewed with the rest.
THEOREM DetachedAreReleased ==
    ASSUME NEW w, Workers = {w}
    PROVE  AgencySpec => []DetachedIsReleased
<1>1. AgencyInv => DetachedIsReleased
  BY DEF AgencyInv, RosterInv
<1> QED BY <1>1, AgencyBegins, AgencyKept, PTL DEF AgencySpec

\* subscribeClient() and releaseClient(): for any number of agencies, clients and
\* mandates, one request at a time, what the provider charges for covers the
\* clients not released, as long as they are all of one mandate; and access
\* follows authorisation.
THEOREM TheEntitledArePaidFor ==
    ASSUME NEW w, Workers = {w}
    PROVE  AgencySpec => []EntitledIsPaidFor
<1>1. AgencyInv => EntitledIsPaidFor
  <2> SUFFICES ASSUME AgencyInv
               PROVE  EntitledIsPaidFor
    OBVIOUS
  <2>1. CoveredByQuantity
    BY DEF AgencyInv, MoneyInv, Books, ProviderCovers, CoveredByQuantity, AllUnder, Count,
       Unreleased
  <2> QED BY <2>1 DEF AgencyInv, MoneyInv, Books, EntitledIsPaidFor
<1> QED BY <1>1, AgencyBegins, AgencyKept, PTL DEF AgencySpec

=============================================================================
