--------------------------- MODULE AgencyBilling ---------------------------
(***************************************************************************)
(* Agencies, the organisations they pay for, and the money: AgencyService  *)
(* and AgencyBillingService against Razorpay.                              *)
(*                                                                         *)
(* One plan is on sale.  An agency has one mandate for it, whose quantity  *)
(* is the number of clients it was taken out for; every client it created  *)
(* has a Subscription row on the agency's billing group.  A request is a   *)
(* worker that stops at every call to the provider or the SSO, and before  *)
(* every write that depends on something it read.                          *)
(***************************************************************************)
EXTENDS Integers, Sequences, FiniteSets

CONSTANTS
    Orgs,           \* organisations there are from the start
    Clients,        \* organisations an agency may create
    Nobody,
    Workers,
    IncludedClients,    \* the plan's ceiling on a roster
    MaxMandates,    \* bound: mandates created at the provider
    MaxPeriods,     \* bound: months charged on one mandate
    MaxNews,        \* bound: the provider waits while this many events are on their way
    MaxFaults       \* bound: calls the provider refuses, and crashes

ASSUME AgencyAssumption ==
    /\ Nobody \notin Orgs \cup Clients /\ Orgs \cap Clients = {}
    /\ IsFiniteSet(Clients)
    /\ IncludedClients \in Nat
    /\ MaxMandates \in Nat /\ MaxPeriods \in Nat /\ MaxNews \in Nat /\ MaxFaults \in Nat

VARIABLES
    isAgency,       \* OrganisationSettings.isAgency
    agencyOf,       \* OrganisationSettings.agencyOrgId
    created,        \* clients that exist in the SSO
    group,          \* AgencyBillingGroup of each agency
    row,            \* Subscription of each client
    mandate,        \* the provider's subscriptions
    news,           \* its events, in the order they will arrive
    req,            \* locals of each worker
    faults

settings == <<isAgency, agencyOf, created>>
provider == <<mandate, news>>
agencyVars == <<settings, group, row, provider, req, faults>>

-----------------------------------------------------------------------------

AllOrgs == Orgs \cup Clients

\* SubscriptionStatus. "active" is authenticated too: both take a change of
\* quantity and both grant access. "halted" stands for pending and paused as well.
MandateStatus == {"created", "active", "halted", "cancelled"}

IsFinished(status) == status = "cancelled"

Ids == 1..MaxMandates

NoGroup == [mandate |-> 0, quantity |-> 0, status |-> "cancelled", end |-> 0, ending |-> FALSE]

Group ==
    [mandate: Ids \cup {0}, quantity: Nat, status: MandateStatus, end: Nat, ending: BOOLEAN]

NoRow == [payer |-> Nobody, status |-> "created", end |-> 0, ending |-> FALSE, under |-> 0]

\* under: the mandate it was bought on, or the one that replaced that (history).
ClientRow ==
    [payer: Orgs, status: MandateStatus, end: Nat, ending: BOOLEAN, under: Ids] \cup {NoRow}

\* quantity is charged now, next from the coming period on; end is the last
\* period charged for, 0 before it is authorised.
Mandate ==
    [owner: Orgs, status: MandateStatus, quantity: Nat, next: Nat, end: Nat, ending: BOOLEAN]

Issued == DOMAIN mandate

Event == [mandate: Ids, status: MandateStatus, end: Nat]

RequestStep ==
    {"idle", "converting", "demoting", "attaching", "ordering", "enrolling", "choosing",
     "raising", "raised", "opening", "opened", "replacing", "replaced", "swapped",
     "writing", "releasing", "lowering", "lowered", "detaching"}

Request == [step: RequestStep, org: Orgs \cup {Nobody}, target: AllOrgs \cup {Nobody},
            seen: Group, made: Ids \cup {0}]

NoRequest == [step |-> "idle", org |-> Nobody, target |-> Nobody, seen |-> NoGroup, made |-> 0]

AgencyTypeOK ==
    /\ isAgency \in SUBSET Orgs
    /\ agencyOf \in [AllOrgs -> Orgs \cup {Nobody}]
    /\ created \in SUBSET Clients
    /\ group \in [Orgs -> Group]
    /\ row \in [Clients -> ClientRow]
    /\ mandate \in Seq(Mandate) /\ Issued \subseteq Ids
    /\ news \in Seq(Event)
    /\ req \in [Workers -> Request]
    /\ faults \in Nat

AgencyInit ==
    /\ isAgency = {}
    /\ agencyOf = [o \in AllOrgs |-> Nobody]
    /\ created = {}
    /\ group = [o \in Orgs |-> NoGroup]
    /\ row = [c \in Clients |-> NoRow]
    /\ mandate = <<>>
    /\ news = <<>>
    /\ req = [w \in Workers |-> NoRequest]
    /\ faults = 0

-----------------------------------------------------------------------------
(* Requests *)

At(w, step) == req[w].step = step

Proceed(w, step) == req' = [req EXCEPT ![w].step = step]

Answer(w) == req' = [req EXCEPT ![w] = NoRequest]

Receive(w, step, org, target) ==
    /\ At(w, "idle")
    /\ req' = [req EXCEPT ![w] = [NoRequest EXCEPT !.step = step, !.org = org,
                                                        !.target = target]]

Fault == faults < MaxFaults /\ faults' = faults + 1

ClientsOf(a) == {o \in AllOrgs : agencyOf[o] = a}

\* convert(true): "One level, no chains."
StartConvert(w, o) ==
    /\ o \notin isAgency
    /\ agencyOf[o] = Nobody
    /\ Receive(w, "converting", o, o)
    /\ UNCHANGED <<settings, group, row, provider, faults>>

\* convert(false): not while it has clients.
StartDemote(w, o) ==
    /\ o \in isAgency
    /\ ClientsOf(o) = {}
    /\ Receive(w, "demoting", o, o)
    /\ UNCHANGED <<settings, group, row, provider, faults>>

WriteConvert(w) ==
    /\ \/ At(w, "converting") /\ isAgency' = isAgency \cup {req[w].org}
       \/ At(w, "demoting") /\ isAgency' = isAgency \ {req[w].org}
    /\ Answer(w)
    /\ UNCHANGED <<agencyOf, created, group, row, provider, faults>>

\* assertWithin() of includedClients.
HasPlace(a) == Cardinality(ClientsOf(a)) < IncludedClients

\* attachClient()
StartAttach(w, a, o) ==
    /\ a # o /\ a \in isAgency /\ o \notin isAgency
    /\ agencyOf[o] \in {Nobody, a}
    /\ agencyOf[o] = Nobody => HasPlace(a)
    /\ o \in Orgs \cup created
    /\ Receive(w, "attaching", a, o)
    /\ UNCHANGED <<settings, group, row, provider, faults>>

WriteAttach(w) ==
    /\ At(w, "attaching")
    /\ agencyOf' = [agencyOf EXCEPT ![req[w].target] = req[w].org]
    /\ Answer(w)
    /\ UNCHANGED <<isAgency, created, group, row, provider, faults>>

-----------------------------------------------------------------------------
(* createClient() *)

StartCreate(w, a) ==
    /\ a \in isAgency /\ HasPlace(a)
    /\ Receive(w, "ordering", a, Nobody)
    /\ UNCHANGED <<settings, group, row, provider, faults>>

\* The SSO makes the organisation.
CreateOrganization(w) ==
    /\ At(w, "ordering")
    /\ \E c \in Clients \ created :
         /\ created' = created \cup {c}
         /\ req' = [req EXCEPT ![w].step = "enrolling", ![w].target = c]
    /\ UNCHANGED <<isAgency, agencyOf, group, row, provider, faults>>

Enrol(w) ==
    /\ At(w, "enrolling")
    /\ agencyOf' = [agencyOf EXCEPT ![req[w].target] = req[w].org]
    /\ Proceed(w, "choosing")
    /\ UNCHANGED <<isAgency, created, group, row, provider, faults>>

\* sellableToAgency() refuses: the client stays on the roster, without a plan.
NotSellable(w) ==
    /\ At(w, "choosing")
    /\ Answer(w)
    /\ UNCHANGED <<settings, group, row, provider, faults>>

\* groupFor(): how this client's seat is to be paid for, or that it cannot be.
GroupFor(w) ==
    LET seen == group[req[w].org]
        next == CASE IsFinished(seen.status) -> "opening"
                  [] ~IsFinished(seen.status) /\ seen.ending -> "idle"
                  [] seen.status = "created" /\ ~seen.ending -> "replacing"
                  [] seen.status = "active" /\ ~seen.ending -> "raising"
                  [] OTHER -> "idle"
    IN  /\ At(w, "choosing")
        /\ req' = [req EXCEPT ![w] = IF next = "idle" THEN NoRequest
                                     ELSE [@ EXCEPT !.step = next, !.seen = seen]]
        /\ UNCHANGED <<settings, group, row, provider, faults>>

\* setSubscriptionQuantity(): a subscription that is not live takes no change.
Accepts(m) == mandate[m].status = "active" /\ ~mandate[m].ending

\* Mutant: the client is added to what the provider is already charging for.
RaiseQuantity_Same(w) ==
    LET m == req[w].seen.mandate
    IN  /\ At(w, "raising")
        /\ Accepts(m)
        /\ Proceed(w, "raised")
        /\ UNCHANGED <<settings, group, row, provider, faults>>

RaiseQuantity(w) ==
    LET m == req[w].seen.mandate
        quantity == req[w].seen.quantity + 1
    IN  /\ At(w, "raising")
        /\ Accepts(m)
        /\ mandate' = [mandate EXCEPT ![m].quantity = quantity, ![m].next = quantity]
        /\ Proceed(w, "raised")
        /\ UNCHANGED <<settings, group, row, news, faults>>

\* "Nothing has been changed."
RaiseRefused(w) ==
    /\ At(w, "raising")
    /\ IF Accepts(req[w].seen.mandate) THEN Fault ELSE UNCHANGED faults
    /\ Answer(w)
    /\ UNCHANGED <<settings, group, row, provider>>

\* The group is written; what was written decides what the client gets.
Save(w, saved) ==
    /\ group' = [group EXCEPT ![req[w].org] = saved]
    /\ req' = [req EXCEPT ![w].step = "writing", ![w].seen = saved, ![w].made = 0]

SaveRaised(w) ==
    /\ At(w, "raised")
    /\ Save(w, [group[req[w].org] EXCEPT !.quantity = req[w].seen.quantity + 1])
    /\ UNCHANGED <<settings, row, provider, faults>>

\* createSubscription(), for the first client or for one more.
OpenMandate(w) ==
    LET m == Len(mandate) + 1
        quantity == IF At(w, "opening") THEN 1 ELSE req[w].seen.quantity + 1
    IN  /\ At(w, "opening") \/ At(w, "replacing")
        /\ m <= MaxMandates
        /\ mandate' = Append(mandate, [owner |-> req[w].org, status |-> "created",
             quantity |-> quantity, next |-> quantity, end |-> 0, ending |-> FALSE])
        /\ req' = [req EXCEPT ![w].made = m,
                              ![w].step = IF @ = "opening" THEN "opened" ELSE "replaced"]
        /\ UNCHANGED <<settings, group, row, news, faults>>

CreateRefused(w) ==
    /\ At(w, "opening") \/ At(w, "replacing")
    /\ Fault
    /\ Answer(w)
    /\ UNCHANGED <<settings, group, row, provider>>

SaveOpened(w) ==
    /\ At(w, "opened")
    /\ Save(w, [mandate |-> req[w].made, quantity |-> 1, status |-> "created", end |-> 0,
                ending |-> FALSE])
    /\ UNCHANGED <<settings, row, provider, faults>>

Announce(m) == news' = Append(news,
    [mandate |-> m, status |-> mandate'[m].status, end |-> mandate'[m].end])

\* replaceUnauthorised(): the old mandate is cancelled; a refusal is only logged.
CancelReplaced(w) ==
    LET m == req[w].seen.mandate
    IN  /\ At(w, "replaced")
        /\ \/ /\ mandate[m].status # "cancelled"
              /\ mandate' = [mandate EXCEPT ![m].status = "cancelled"]
              /\ Announce(m)
              /\ UNCHANGED faults
           \/ /\ IF mandate[m].status # "cancelled" THEN Fault ELSE UNCHANGED faults
              /\ UNCHANGED provider
        /\ Proceed(w, "swapped")
        /\ UNCHANGED <<settings, group, row>>

\* The clients of the replaced mandate are counted in the new one.
Transferred(a, from, to) ==
    [c \in Clients |-> IF row[c].payer = a /\ row[c].under = from
                       THEN [row[c] EXCEPT !.under = to] ELSE row[c]]

SaveReplacement(w) ==
    LET r == req[w]
    IN  /\ At(w, "swapped")
        /\ Save(w, [group[r.org] EXCEPT !.mandate = r.made, !.quantity = r.seen.quantity + 1,
                                        !.status = "created", !.end = 0])
        /\ row' = Transferred(r.org, r.seen.mandate, r.made)
        /\ UNCHANGED <<settings, provider, faults>>

\* Mutant: the client may start before anybody has paid.
WriteSubscription_Active(w) ==
    LET r == req[w]
    IN  /\ At(w, "writing")
        /\ row' = [row EXCEPT ![r.target] = [payer |-> r.org, status |-> "active",
             end |-> r.seen.end, ending |-> FALSE, under |-> r.seen.mandate]]
        /\ Answer(w)
        /\ UNCHANGED <<settings, group, provider, faults>>

\* The row the client is entitled by.
WriteSubscription(w) ==
    LET r == req[w]
    IN  /\ At(w, "writing")
        /\ row' = [row EXCEPT ![r.target] = [payer |-> r.org, status |-> r.seen.status,
             end |-> r.seen.end, ending |-> FALSE, under |-> r.seen.mandate]]
        /\ Answer(w)
        /\ UNCHANGED <<settings, group, provider, faults>>

-----------------------------------------------------------------------------
(* detachClient() *)

StartDetach(w, a, o) ==
    /\ agencyOf[o] = a
    /\ Receive(w, "releasing", a, o)
    /\ UNCHANGED <<settings, group, row, provider, faults>>

\* Mutant: the row is flagged only where the provider has agreed.
ReleaseClient_Unflagged(w) ==
    LET o == req[w].target
        a == req[w].org
    IN  /\ At(w, "releasing")
        /\ IF o \notin Clients \/ row[o].payer # a \/ row[o].ending THEN Proceed(w, "detaching")
           ELSE req' = [req EXCEPT ![w].step = "lowering", ![w].seen = group[a]]
        /\ UNCHANGED <<settings, group, row, provider, faults>>

\* releaseClient(): nothing to release, released before, or flagged now.
ReleaseClient(w) ==
    LET o == req[w].target
        a == req[w].org
    IN  /\ At(w, "releasing")
        /\ IF o \notin Clients \/ row[o].payer # a \/ row[o].ending
           THEN Proceed(w, "detaching") /\ UNCHANGED row
           ELSE /\ row' = [row EXCEPT ![o].ending = TRUE]
                /\ req' = [req EXCEPT ![w].step = "lowering", ![w].seen = group[a]]
        /\ UNCHANGED <<settings, group, provider, faults>>

Remaining(w) == IF req[w].seen.quantity > 0 THEN req[w].seen.quantity - 1 ELSE 0

\* At the end of the cycle: one fewer, or none.
LowerQuantity(w) ==
    LET m == req[w].seen.mandate
    IN  /\ At(w, "lowering")
        /\ Accepts(m)
        /\ mandate' = IF Remaining(w) = 0 THEN [mandate EXCEPT ![m].ending = TRUE]
                      ELSE [mandate EXCEPT ![m].next = Remaining(w)]
        /\ Proceed(w, "lowered")
        /\ UNCHANGED <<settings, group, row, news, faults>>

\* A change of quantity that is refused is saved as if it had been made; a
\* cancellation that is refused ends releaseClient(), and detachClient() goes on.
LowerRefused(w) ==
    /\ At(w, "lowering")
    /\ IF Accepts(req[w].seen.mandate) THEN Fault ELSE UNCHANGED faults
    /\ Proceed(w, IF Remaining(w) = 0 THEN "detaching" ELSE "lowered")
    /\ UNCHANGED <<settings, group, row, provider>>

SaveLowered(w) ==
    LET a == req[w].org
    IN  /\ At(w, "lowered")
        /\ group' = [group EXCEPT ![a].quantity = Remaining(w),
                                  ![a].ending = @ \/ Remaining(w) = 0]
        /\ Proceed(w, "detaching")
        /\ UNCHANGED <<settings, row, provider, faults>>

Detach(w) ==
    /\ At(w, "detaching")
    /\ agencyOf' = [agencyOf EXCEPT ![req[w].target] = Nobody]
    /\ Answer(w)
    /\ UNCHANGED <<isAgency, created, group, row, provider, faults>>

Dies(w) ==
    /\ ~At(w, "idle")
    /\ Fault
    /\ Answer(w)
    /\ UNCHANGED <<settings, group, row, provider>>

-----------------------------------------------------------------------------
(* The provider, and its events *)

\* A month that is paid for moves the end and takes the quantity asked for.
Moved(r, status) ==
    IF status = "active"
    THEN [r EXCEPT !.status = status, !.end = r.end + 1, !.quantity = r.next]
    ELSE [r EXCEPT !.status = status]

ProviderStep(m, status) ==
    /\ Len(news) < MaxNews
    /\ mandate' = [mandate EXCEPT ![m] = Moved(mandate[m], status)]
    /\ Announce(m)
    /\ UNCHANGED <<settings, group, row, req, faults>>

\* The agency follows the link on its billing page.
AuthoriseMandate(m) ==
    /\ mandate[m].status = "created"
    /\ group[mandate[m].owner].mandate = m
    /\ mandate[m].end < MaxPeriods
    /\ ProviderStep(m, "active")

ChargeMandate(m) ==
    /\ mandate[m].status \in {"active", "halted"} /\ ~mandate[m].ending
    /\ mandate[m].end < MaxPeriods
    /\ ProviderStep(m, "active")

DebitFails(m) ==
    /\ mandate[m].status = "active" /\ ~mandate[m].ending
    /\ mandate[m].end = MaxPeriods
    /\ ProviderStep(m, "halted")

Ends(m) ==
    /\ mandate[m].status = "halted" \/ (mandate[m].status = "active" /\ mandate[m].ending)
    /\ ProviderStep(m, "cancelled")

\* applyToGroup(): the group and every row on it, or nothing if no group has
\* this mandate.
ApplyToGroup ==
    LET e == Head(news)
        agencies == {a \in Orgs : group[a].mandate = e.mandate}
        Updated(r) == [r EXCEPT !.status = e.status, !.end = IF e.end > 0 THEN e.end ELSE @]
    IN  /\ news # <<>>
        /\ news' = Tail(news)
        /\ group' = [a \in Orgs |-> IF a \in agencies THEN Updated(group[a]) ELSE group[a]]
        /\ row' = [c \in Clients |-> IF row[c].payer \in agencies THEN Updated(row[c])
                                     ELSE row[c]]
        /\ UNCHANGED <<settings, mandate, req, faults>>

-----------------------------------------------------------------------------

Handle(w) ==
    \/ WriteConvert(w) \/ WriteAttach(w)
    \/ CreateOrganization(w) \/ Enrol(w) \/ NotSellable(w) \/ GroupFor(w)
    \/ RaiseQuantity(w) \/ RaiseRefused(w) \/ SaveRaised(w)
    \/ OpenMandate(w) \/ CreateRefused(w) \/ SaveOpened(w)
    \/ CancelReplaced(w) \/ SaveReplacement(w) \/ WriteSubscription(w)
    \/ ReleaseClient(w) \/ LowerQuantity(w) \/ LowerRefused(w) \/ SaveLowered(w) \/ Detach(w)
    \/ Dies(w)

AgencyNext ==
    \/ \E w \in Workers :
         \/ \E o \in Orgs : StartConvert(w, o) \/ StartDemote(w, o) \/ StartCreate(w, o)
         \/ \E a \in Orgs, o \in AllOrgs : StartAttach(w, a, o) \/ StartDetach(w, a, o)
         \/ Handle(w)
    \/ \E m \in Issued : AuthoriseMandate(m) \/ ChargeMandate(m) \/ DebitFails(m) \/ Ends(m)
    \/ ApplyToGroup

AgencySpec == AgencyInit /\ [][AgencyNext]_agencyVars

-----------------------------------------------------------------------------
(* Properties *)

\* The clients an agency has taken on and not released since
Unreleased(a) == {c \in Clients : row[c].payer = a /\ ~row[c].ending}

\* While every client of an agency was bought on one mandate, or on one that it
\* replaced, what the provider will charge for covers every client not released.
CoveredByQuantity ==
    \A m \in Issued :
      LET a == mandate[m].owner
      IN  /\ mandate[m].status # "cancelled"
          /\ \A c \in Clients : row[c].payer = a => row[c].under = m
          => Cardinality(Unreleased(a)) <= mandate[m].next

\* A client has access only once its agency has authorised a mandate.
EntitledAfterAuthorised ==
    \A c \in Clients : row[c].status = "active" =>
      \E m \in Issued : mandate[m].owner = row[c].payer /\ mandate[m].end > 0

\* "A client is never entitled to something nobody is paying for", whatever the
\* provider refuses and wherever a request dies, until a mandate that has
\* finished is followed by another.
EntitledIsPaidFor == CoveredByQuantity /\ EntitledAfterAuthorised

\* The same without the exception: the clients that have access and were not
\* released are no more than the agency's mandate is charged for.
EntitledWithinQuantity ==
    \A a \in Orgs :
      LET entitled == {c \in Unreleased(a) : row[c].status = "active"}
      IN  entitled # {} => Cardinality(entitled) <= mandate[group[a].mandate].next

\* "Detaching first would leave a client paid for by nobody and still being
\* charged to somebody": a client that was let go is not renewed with the rest.
DetachedIsReleased ==
    \A c \in Clients : row[c].payer # Nobody /\ agencyOf[c] # row[c].payer => row[c].ending

=============================================================================
