----------------------------- MODULE PriceList -----------------------------
(***************************************************************************)
(* The price list and what it decides: operators write and rewire tiers    *)
(* (AdminService), a boot applies RAZORPAY_PLAN_IDS (PlanSyncService),     *)
(* organisations see, buy and are held to them (PlansService,              *)
(* BillingService.register, PlanLimitsService).  The operators' own        *)
(* access, AdminService.setAdmin(), is here too.                           *)
(*                                                                         *)
(* A request is in flight on any replica; each database statement and each *)
(* call to the provider is a step.  A price stands for amount and          *)
(* currency.  null is None: a ceiling of None refuses nothing.             *)
(***************************************************************************)
EXTENDS Integers, FiniteSets

CONSTANTS
    Codes, Orgs, PlanIds, Users, Requests, None,
    Operators,      \* the users who are admins at the start
    Seeded,         \* the tiers a migration wrote: [Codes -> Row \cup {None}]
    Dashboard,      \* plans made at the provider by hand: [a subset of PlanIds -> a price]
    Mapping,        \* RAZORPAY_PLAN_IDS, parsed: [a set of codes -> PlanIds]
    Drafts,         \* what POST /admin/plans is given
    Patches,        \* what PATCH /admin/plans/:code is given
    AgencyOf,       \* OrganisationSettings.agencyOrgId: [Orgs -> Orgs \cup {None}]
    AccountTier,    \* the tier of a live subscription of the one account an
                    \* organisation has, from before subscriptions were the
                    \* organisation's: [Orgs -> Codes \cup {None}]
    Sold,           \* the subscriptions there are at the start
    Mixes,          \* which kinds of request are tried together
    MaxHeld,        \* bound: contacts, seats or endpoints an organisation gets to
    MaxEdits        \* bound: edits of the list

VARIABLES
    plans,          \* Plan
    provider,       \* what each plan at the provider charges, None if not made
    sub,            \* each organisation's Subscription
    held,           \* rows counted against a ceiling
    admins,         \* User.isAdmin
    req,            \* requests in flight
    mix,
    edits,          \* how many edits were begun
    ceiling,        \* history: the highest ceiling a check has read
    crossed         \* history: decisions two requests were taking at one time

listVars == <<plans, provider>>
history == <<edits, ceiling, crossed>>
listAll == <<plans, provider, sub, held, admins, req, mix, edits, ceiling, crossed>>

-----------------------------------------------------------------------------

Kinds == {"contacts", "members", "endpoints"}

\* `history` refuses nothing: it is how many days messages are kept.
Allowances == Kinds \cup {"history"}

\* The columns a property depends on
Row == [price : Nat \cup {None}, sso : Orgs \cup {None},
        ctaKind : {"subscribe", "contact"}, planId : PlanIds \cup {None},
        max : [Allowances -> Nat \cup {None}], rank : Nat,
        recommended : BOOLEAN, active : BOOLEAN]

Subscription == [live : BOOLEAN, tier : Codes \cup {None}, planId : PlanIds \cup {None}]

\* The fields of UpdatePlanDto: neither the price nor whose tier it is
Editable == {"planId", "recommended", "active", "ctaKind", "max", "rank"}

DraftRow == [code : Codes, price : Nat \cup {None}, sso : Orgs \cup {None},
             ctaKind : {"subscribe", "contact", None}, label : BOOLEAN,
             max : [Allowances -> Nat \cup {None}], rank : Nat]

\* A plan of this id charges what the tier costs, or is the one the
\* configuration names for it.
SoldAt(c, row, id) ==
    \/ row.price = None
    \/ id \in DOMAIN Dashboard /\ Dashboard[id] = row.price
    \/ c \in DOMAIN Mapping /\ Mapping[c] = id

\* What operators send, and the list and the subscriptions there are at the
\* start: as the operations below leave them, so wired at their price.
ASSUME ListAssumption ==
    /\ IsFiniteSet(Requests) /\ Requests # {}
    /\ None \notin Nat \cup Codes \cup Orgs \cup PlanIds \cup Row \cup Subscription
    /\ None \notin {"subscribe", "contact"}
    /\ Operators \subseteq Users /\ Operators # {}
    /\ MaxHeld \in Nat /\ MaxEdits \in Nat
    /\ Seeded \in [Codes -> Row \cup {None}]
    /\ \A c, d \in {e \in Codes : Seeded[e] # None} :
         Seeded[c].recommended /\ Seeded[d].recommended => c = d
    /\ \A c \in {e \in Codes : Seeded[e] # None} :
         Seeded[c].planId # None => SoldAt(c, Seeded[c], Seeded[c].planId)
    /\ DOMAIN Dashboard \subseteq PlanIds /\ Dashboard \in [DOMAIN Dashboard -> Nat]
    /\ DOMAIN Mapping \subseteq Codes /\ Mapping \in [DOMAIN Mapping -> PlanIds]
    /\ Drafts \subseteq DraftRow
    /\ \A dto \in Patches :
         /\ DOMAIN dto \subseteq Editable /\ dto = [f \in DOMAIN dto |-> dto[f]]
         /\ "planId" \in DOMAIN dto => dto.planId \in PlanIds
         /\ "recommended" \in DOMAIN dto => dto.recommended \in BOOLEAN
         /\ "active" \in DOMAIN dto => dto.active \in BOOLEAN
         /\ "ctaKind" \in DOMAIN dto => dto.ctaKind \in {"subscribe", "contact"}
         /\ "max" \in DOMAIN dto => dto.max \in [Allowances -> Nat \cup {None}]
         /\ "rank" \in DOMAIN dto => dto.rank \in Nat
    /\ AgencyOf \in [Orgs -> Orgs \cup {None}]
    /\ AccountTier \in [Orgs -> {c \in Codes : Seeded[c] # None} \cup {None}]
    /\ Sold \in [Orgs -> Subscription]
    /\ \A o \in Orgs : Sold[o].tier # None =>
         /\ Seeded[Sold[o].tier] # None
         /\ Sold[o].planId # None => SoldAt(Sold[o].tier, Seeded[Sold[o].tier], Sold[o].planId)

Published == {c \in Codes : plans[c] # None}

Idle == [at |-> "idle"]

Begin(r, step) == req' = [req EXCEPT ![r] = step]

End(r) == req' = [req EXCEPT ![r] = Idle]

At(r, label) == req[r].at = label

\* A decision begun while another request is still taking one of its kind
Crosses(what, others) == crossed' = IF others = {} THEN crossed ELSE crossed \cup {what}

Starts(r, kind) == At(r, "idle") /\ kind \in mix

-----------------------------------------------------------------------------
(* What a tier allows: PlanLimitsService *)

\* subscribedPlans(): tiers of the organisation's live subscriptions
subscribedPlans(o) ==
    {plans[c] : c \in ({AccountTier[o]} \cup (IF sub[o].live THEN {sub[o].tier} ELSE {}))
                      \ {None}}

\* best(): of the highest rank; which of several, the sort leaves open
best(rows) == {p \in rows : \A q \in rows : q.rank <= p.rank}

\* entryLimits(): the cheapest priced tier that is public, sold or not
entryLimits ==
    LET priced == {plans[c] : c \in {d \in Published :
                     plans[d].active /\ plans[d].price # None /\ plans[d].sso = None}}
    IN  {p \in priced : \A q \in priced : p.price <= q.price}

\* forOrg(): its own tiers, else its agency's, else the entry tier's limits.
\* The rows the answer may be read off; {} is NO_PLAN.
forOrg(o) ==
    IF subscribedPlans(o) # {} THEN best(subscribedPlans(o))
    ELSE IF AgencyOf[o] # None /\ subscribedPlans(AgencyOf[o]) # {}
         THEN best(subscribedPlans(AgencyOf[o]))
         ELSE entryLimits

\* forWaba(): the payer's subscription of this very account first (an agency
\* has none of a client's account)
forWaba(o) ==
    IF AgencyOf[o] = None /\ AccountTier[o] # None THEN {plans[AccountTier[o]]}
    ELSE forOrg(o)

\* The ceilings the answer may hold
toLimits(kind, rows) == IF rows = {} THEN {None} ELSE {p.max[kind] : p \in rows}

CeilingOf(o, kind) == toLimits(kind, IF kind = "endpoints" THEN forWaba(o) ELSE forOrg(o))

Admits(limit, need) == limit # None => need <= limit

HigherOf(a, b) == IF None \in {a, b} THEN None ELSE IF a < b THEN b ELSE a

\* assertWithin(), and assertRoomFor() of one
Fits(limit, count) == limit # None => count < limit

\* Members and pending invitations, or nothing when the SSO does not answer
teamMemberCount(o) == {held["members"][o], None}

\* Endpoints over the organisation's accounts; here it has one.
coveredAccounts(o) == held["endpoints"][o]

\* stateOf(): the meters of the billing page, measured against forOrg()
stateOf(o, kind) ==
    LET used == CASE kind = "contacts" -> {held[kind][o]}
                  [] kind = "members" -> teamMemberCount(o)
                  [] kind = "endpoints" -> {coveredAccounts(o)}
    IN  [used : used, allowed : toLimits(kind, forOrg(o))]

\* allowances(): what the console marks as full
atLimit(meter) == None \notin {meter.used, meter.allowed} /\ meter.used >= meter.allowed

\* lookUpPlanAllowing() without the filter on the provider's plan
Candidates_Unwired(kind, need) ==
    {c \in Published : /\ plans[c].active /\ plans[c].sso = None
                       /\ plans[c].ctaKind = "subscribe"
                       /\ Admits(plans[c].max[kind], need)}

Candidates(kind, need) ==
    {c \in Published : /\ plans[c].active /\ plans[c].sso = None
                       /\ plans[c].ctaKind = "subscribe" /\ plans[c].planId # None
                       /\ Admits(plans[c].max[kind], need)}

\* cheapestPlanAllowing(): a finite ceiling before none, then the lower price.
cheapestPlanAllowing(kind, need) ==
    LET cost(c) == IF plans[c].price = None THEN 0 ELSE plans[c].price
        open(c) == plans[c].max[kind] = None
        before(c, d) == (open(d) /\ ~open(c)) \/ (open(c) = open(d) /\ cost(c) <= cost(d))
        all == Candidates(kind, need)
    IN  {c \in all : \A d \in all : before(c, d)}

\* wayOut(), and the end of assertRoomFor(): the tier a refusal names
wayOut(kind, count) == cheapestPlanAllowing(kind, count + 1)

-----------------------------------------------------------------------------
(* What is on offer: PlansService and BillingService.sellablePlan() *)

\* findAll() and findByCode(): public, or this organisation's own
Listed(o) == {c \in Published : plans[c].active /\ plans[c].sso \in {None, o}}

\* toDto(): `available`
Available(c) == plans[c].ctaKind = "subscribe" /\ plans[c].planId # None

sellablePlan(c, o) ==
    /\ c \in Published /\ plans[c].active /\ plans[c].sso \in {None, o}
    /\ plans[c].ctaKind # "contact" /\ plans[c].planId # None

\* register(): refused to a client of an agency, and while one is running.
\* What it sells is the tier it has just read, id included.
Register(r, o, c) ==
    /\ Starts(r, "buy")
    /\ sellablePlan(c, o) /\ AgencyOf[o] = None /\ ~sub[o].live
    /\ Begin(r, [at |-> "buying", org |-> o, code |-> c, planId |-> plans[c].planId])
    /\ UNCHANGED <<listVars, sub, held, admins, mix, history>>

\* The provider makes the subscription, if it has such a plan, and the row is
\* written.
Subscribe(r) ==
    /\ At(r, "buying")
    /\ sub' = IF provider[req[r].planId] = None THEN sub
              ELSE [sub EXCEPT ![req[r].org] =
                      [live |-> TRUE, tier |-> req[r].code, planId |-> req[r].planId]]
    /\ End(r)
    /\ UNCHANGED <<listVars, held, admins, mix, history>>

\* The subscription runs out.
Lapse(o) ==
    /\ "buy" \in mix /\ sub[o].live
    /\ sub' = [sub EXCEPT ![o].live = FALSE]
    /\ UNCHANGED <<listVars, held, admins, req, mix, history>>

-----------------------------------------------------------------------------
(* Counted against a ceiling: the count and the limit are read, the row is *)
(* written in a later statement.                                           *)

\* The ceiling is read, and what there is already is not counted.
Ask_Unchecked(r, o, kind) ==
    /\ held[kind][o] < MaxHeld
    /\ \E limit \in CeilingOf(o, kind) :
         /\ limit # 0
         /\ ceiling' = [ceiling EXCEPT ![kind][o] = HigherOf(@, limit)]
    /\ Begin(r, [at |-> "adding", org |-> o, kind |-> kind])
    /\ UNCHANGED <<listVars, sub, held, admins, mix, edits, crossed>>

Ask(r, o, kind) ==
    /\ held[kind][o] < MaxHeld
    /\ \E limit \in CeilingOf(o, kind) :
         /\ Fits(limit, held[kind][o])
         /\ ceiling' = [ceiling EXCEPT ![kind][o] = HigherOf(@, limit)]
    /\ Begin(r, [at |-> "adding", org |-> o, kind |-> kind])
    /\ UNCHANGED <<listVars, sub, held, admins, mix, edits, crossed>>

CreateContact(r, o) == Starts(r, "contacts") /\ Ask(r, o, "contacts")

\* Members and invitations are counted together; the row is the SSO's.
InviteMember(r, o) == Starts(r, "members") /\ Ask(r, o, "members")

CreateEndpoint(r, o) == Starts(r, "endpoints") /\ Ask(r, o, "endpoints")

Add(r) ==
    /\ At(r, "adding")
    /\ held' = [held EXCEPT ![req[r].kind][req[r].org] = @ + 1]
    /\ End(r)
    /\ UNCHANGED <<listVars, sub, admins, mix, history>>

\* A contact deleted, a member removed, an endpoint deleted
RemoveOne(o, kind) ==
    /\ kind \in mix /\ held[kind][o] > 0
    /\ held' = [held EXCEPT ![kind][o] = @ - 1]
    /\ UNCHANGED <<listVars, sub, admins, req, mix, history>>

-----------------------------------------------------------------------------
(* Writing the list: AdminService *)

Taken(id) == \E c \in Published : plans[c].planId = id

\* createPlan() works out what kind of card it is, and refuses one that is
\* sold without a price or quoted without a label.
CtaKind(d) == IF d.ctaKind # None THEN d.ctaKind
              ELSE IF d.price # None THEN "subscribe" ELSE "contact"

CreatePlan(r, d) ==
    /\ Starts(r, "author")
    /\ plans[d.code] = None
    /\ CtaKind(d) = "subscribe" => d.price # None
    /\ CtaKind(d) = "contact" => d.label \/ d.price # None
    /\ LET row == [price |-> d.price, sso |-> d.sso, ctaKind |-> CtaKind(d),
                   planId |-> None, max |-> d.max, rank |-> d.rank,
                   recommended |-> FALSE, active |-> TRUE]
       IN  Begin(r, [at |-> IF CtaKind(d) = "subscribe" THEN "making" ELSE "inserting",
                     code |-> d.code, row |-> row, amount |-> d.price])
    /\ UNCHANGED <<listVars, sub, held, admins, mix, history>>

\* createProviderPlan(): only for a priced tier that has none
CreateProviderPlan(r, c) ==
    /\ Starts(r, "wire")
    /\ c \in Published /\ plans[c].planId = None
    /\ plans[c].ctaKind = "subscribe" /\ plans[c].price # None
    /\ Begin(r, [at |-> "making", code |-> c, row |-> None, amount |-> plans[c].price])
    /\ UNCHANGED <<listVars, sub, held, admins, mix, history>>

\* razorpay.createPlan(): the provider makes a plan that charges the amount.
MakePlan(r) ==
    /\ At(r, "making")
    /\ \E id \in PlanIds :
         /\ provider[id] = None
         /\ provider' = [provider EXCEPT ![id] = req[r].amount]
         /\ Begin(r, IF req[r].row = None
                     THEN [at |-> "wiring", code |-> req[r].code, patch |-> [planId |-> id]]
                     ELSE [at |-> "inserting", code |-> req[r].code,
                           row |-> [req[r].row EXCEPT !.planId = id], amount |-> None])
    /\ UNCHANGED <<plans, sub, held, admins, mix, history>>

\* The provider refuses, and nothing has been written.
MakeFails(r) ==
    /\ At(r, "making")
    /\ End(r)
    /\ UNCHANGED <<listVars, sub, held, admins, mix, history>>

\* The row, unless the code was taken meanwhile
InsertPlan(r) ==
    /\ At(r, "inserting")
    /\ plans' = IF plans[req[r].code] = None
                THEN [plans EXCEPT ![req[r].code] = req[r].row] ELSE plans
    /\ End(r)
    /\ UNCHANGED <<provider, sub, held, admins, mix, history>>

\* assertProviderPlanMatches() that only asks whether the plan exists
assertProviderPlanMatches_Exists(id, row) == provider[id] # None

\* A tier with no price is not compared.
assertProviderPlanMatches(id, row) ==
    /\ provider[id] # None
    /\ row.price # None => provider[id] = row.price

Fields(patch) == DOMAIN patch

Patched(row, patch) ==
    [f \in DOMAIN row |-> IF f \in Fields(patch) THEN patch[f] ELSE row[f]]

\* Requests that are about to highlight a tier
Highlighting ==
    {r \in Requests : /\ req[r].at \in {"clearing", "wiring"}
                      /\ "recommended" \in Fields(req[r].patch)
                      /\ req[r].patch.recommended}

\* updatePlan(): the id is checked against the row just read, and what is
\* left of the patch is what differs from it.
UpdatePlan(r, c, dto) ==
    /\ Starts(r, IF Fields(dto) = {"max"} THEN "relimit" ELSE "edit")
    /\ edits < MaxEdits /\ edits' = edits + 1
    /\ c \in Published
    /\ LET current == plans[c]
           differs == {f \in Fields(dto) : dto[f] # current[f]}
           patch == [f \in differs |-> dto[f]]
           highlights == "recommended" \in differs /\ dto.recommended
       IN  /\ "planId" \in differs => assertProviderPlanMatches(dto.planId, current)
           /\ differs # {}
           /\ Begin(r, [at |-> IF highlights THEN "clearing" ELSE "wiring",
                        code |-> c, patch |-> patch])
           /\ Crosses("recommended", IF highlights THEN Highlighting ELSE {})
    /\ UNCHANGED <<listVars, sub, held, admins, mix, ceiling>>

\* updatePlan() that forgets the tier highlighted before
ClearRecommended_Nothing(r) ==
    /\ At(r, "clearing")
    /\ Begin(r, [req[r] EXCEPT !.at = "wiring"])
    /\ UNCHANGED <<listVars, sub, held, admins, mix, history>>

ClearRecommended(r) ==
    /\ At(r, "clearing")
    /\ plans' = [c \in Codes |-> IF c \in Published \ {req[r].code}
                                 THEN [plans[c] EXCEPT !.recommended = FALSE] ELSE plans[c]]
    /\ Begin(r, [req[r] EXCEPT !.at = "wiring"])
    /\ UNCHANGED <<provider, sub, held, admins, mix, history>>

\* The write that ends updatePlan() and createProviderPlan(); the unique index
\* refuses an id another tier has.
WritePlan(r) ==
    /\ At(r, "wiring")
    /\ LET c == req[r].code
           row == Patched(plans[c], req[r].patch)
           clash == "planId" \in Fields(req[r].patch) /\ row.planId # plans[c].planId
                    /\ Taken(row.planId)
       IN  plans' = IF clash THEN plans ELSE [plans EXCEPT ![c] = row]
    /\ End(r)
    /\ UNCHANGED <<provider, sub, held, admins, mix, history>>

-----------------------------------------------------------------------------
(* A replica boots: PlanSyncService *)

Boot(r) ==
    /\ Starts(r, "boot")
    /\ Begin(r, [at |-> "syncing", todo |-> DOMAIN Mapping])
    /\ UNCHANGED <<listVars, sub, held, admins, mix, history>>

\* sync(): updateMany({ code, NOT: { razorpayPlanId } }).  A comparison with
\* NULL is not true, so a tier that has no id is passed by.
Sync(r, c) ==
    /\ At(r, "syncing") /\ c \in req[r].todo
    /\ plans' = IF /\ c \in Published /\ plans[c].planId \notin {None, Mapping[c]}
                   /\ ~Taken(Mapping[c])
                THEN [plans EXCEPT ![c].planId = Mapping[c]] ELSE plans
    /\ Begin(r, [req[r] EXCEPT !.todo = @ \ {c}])
    /\ UNCHANGED <<provider, sub, held, admins, mix, history>>

\* adoptExisting(): fills blanks only.
AdoptExisting(r) ==
    /\ At(r, "syncing") /\ req[r].todo = {}
    /\ sub' = [o \in Orgs |->
                 IF sub[o].tier = None /\ sub[o].planId # None /\ Taken(sub[o].planId)
                 THEN [sub[o] EXCEPT !.tier =
                         CHOOSE c \in Published : plans[c].planId = sub[o].planId]
                 ELSE sub[o]]
    /\ End(r)
    /\ UNCHANGED <<listVars, held, admins, mix, history>>

-----------------------------------------------------------------------------
(* AdminService.setAdmin(), behind AdminGuard *)

\* AdminGuard: the row as it is now, whatever the token says
Admitted(actor) == actor \in admins

\* setAdmin() without its two refusals
MayDemote_Anybody(actor, u) == TRUE

\* Nobody demotes themselves, nor the only admin.
MayDemote(actor, u) == u # actor /\ admins \ {u} # {}

SetAdmin(r, actor, u, isAdmin) ==
    /\ Starts(r, "admin")
    /\ Admitted(actor)
    /\ ~isAdmin => MayDemote(actor, u)
    /\ (u \in admins) # isAdmin
    /\ Begin(r, [at |-> "granting", user |-> u, isAdmin |-> isAdmin])
    /\ Crosses("admins", {q \in Requests : At(q, "granting")})
    /\ UNCHANGED <<listVars, sub, held, admins, mix, edits, ceiling>>

WriteAdmin(r) ==
    /\ At(r, "granting")
    /\ admins' = IF req[r].isAdmin THEN admins \cup {req[r].user} ELSE admins \ {req[r].user}
    /\ End(r)
    /\ UNCHANGED <<listVars, sub, held, mix, history>>

-----------------------------------------------------------------------------

ListInit ==
    /\ plans = Seeded
    /\ provider = [id \in PlanIds |-> IF id \in DOMAIN Dashboard THEN Dashboard[id] ELSE None]
    /\ sub = Sold
    /\ held = [k \in Kinds |-> [o \in Orgs |-> 0]]
    /\ admins = Operators
    /\ req = [r \in Requests |-> Idle]
    /\ mix \in Mixes
    /\ edits = 0
    /\ ceiling = [k \in Kinds |-> [o \in Orgs |-> 0]]
    /\ crossed = {}

ListNext ==
    \/ \E r \in Requests :
         \/ \E o \in Orgs : \/ \E c \in Codes : Register(r, o, c)
                            \/ CreateContact(r, o) \/ InviteMember(r, o) \/ CreateEndpoint(r, o)
         \/ Subscribe(r) \/ Add(r)
         \/ \E d \in Drafts : CreatePlan(r, d)
         \/ \E c \in Codes : \/ CreateProviderPlan(r, c)
                             \/ \E dto \in Patches : UpdatePlan(r, c, dto)
                             \/ Sync(r, c)
         \/ MakePlan(r) \/ MakeFails(r) \/ InsertPlan(r) \/ ClearRecommended(r) \/ WritePlan(r)
         \/ Boot(r) \/ AdoptExisting(r)
         \/ \E actor, u \in Users : SetAdmin(r, actor, u, TRUE) \/ SetAdmin(r, actor, u, FALSE)
         \/ WriteAdmin(r)
    \/ \E o \in Orgs : Lapse(o) \/ \E k \in Kinds : RemoveOne(o, k)

-----------------------------------------------------------------------------
(* Properties *)

\* Types
ListTypeOK ==
    /\ plans \in [Codes -> Row \cup {None}]
    /\ provider \in [PlanIds -> Nat \cup {None}]
    /\ sub \in [Orgs -> Subscription]
    /\ held \in [Kinds -> [Orgs -> 0 .. MaxHeld + Cardinality(Requests)]]
    /\ admins \subseteq Users
    /\ \A r \in Requests : req[r].at \in
         {"idle", "buying", "adding", "making", "inserting", "clearing", "wiring",
          "syncing", "granting", "pruning", "dropping sent", "dropping received"}
    /\ edits \in 0 .. MaxEdits
    /\ ceiling \in [Kinds -> [Orgs -> Nat \cup {None}]]
    /\ crossed \subseteq {"recommended", "admins"}

\* However many requests race for the last place under a ceiling, an
\* organisation ends up over it by at most the requests that were in flight
\* beside the one that filled it (contacts.service.ts, org.service.ts and
\* webhook-endpoints.service.ts count before they add).  `ceiling` is the
\* highest one any check was given.
CeilingHolds ==
    \A k \in Kinds, o \in Orgs :
       ceiling[k][o] # None => held[k][o] <= ceiling[k][o] + Cardinality(Requests) - 1

\* What an organisation is shown as available is what checkout sells it, and
\* the tier a refusal names (wayOut()) is one of them, takes what
\* was refused, and lifts the ceiling once bought unless a tier of a higher
\* rank is held beside it.  A meter reads full exactly when the next one is
\* refused, unless the account has a subscription of its own (forWaba()).
CardIsHonest ==
    /\ \A o \in Orgs : {c \in Listed(o) : Available(c)} = {c \in Codes : sellablePlan(c, o)}
    /\ \A k \in Kinds, count \in 0 .. MaxHeld :
         \A c \in wayOut(k, count), o \in Orgs :
           /\ sellablePlan(c, o)
           /\ LET rows == {plans[c]} \cup
                          IF AccountTier[o] = None THEN {} ELSE {plans[AccountTier[o]]}
              IN  best(rows) = {plans[c]} => \A m \in toLimits(k, best(rows)) : Fits(m, count)
    /\ \A o \in Orgs, k \in Kinds :
         k # "endpoints" \/ forWaba(o) = forOrg(o) =>
           \A meter \in stateOf(o, k) :
             meter.used # None => (atLimit(meter) <=> ~Fits(meter.allowed, meter.used))

\* One tier at most is highlighted, unless two edits that highlight one were
\* made at the same time (updatePlan() clears the others in a statement of its
\* own).
OneRecommended ==
    "recommended" \in crossed
    \/ Cardinality({c \in Published : plans[c].recommended}) <= 1

\* Somebody can use the console, unless two changes of who may were decided at
\* the same time (setAdmin() counts the others and writes afterwards).
AdminRemains == admins # {} \/ "admins" \in crossed

\* What is counted or cleared before it is written gives way to requests in
\* flight at the same time and to nothing else.
OnlyRacesGetPast == CeilingHolds /\ OneRecommended /\ AdminRemains

=============================================================================
