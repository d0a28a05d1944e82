------------------------------ MODULE Accounts ------------------------------
(***************************************************************************)
(* One WhatsApp Business Account that several organisations may hold: who  *)
(* connected it where and with whose Meta token, the copy kept here of its *)
(* phone numbers and templates, and the ways in which all of it goes away. *)
(*                                                                         *)
(* Meta is outside.  It numbers what it says about a phone number or a     *)
(* template: version k is what it said the k-th time.  A request stops     *)
(* between its reads, its calls to Meta and its writes; a transaction, or  *)
(* the writes of one synchronisation, is one step.                         *)
(***************************************************************************)
EXTENDS Integers, FiniteSets

CONSTANTS
    Users, Orgs,
    Staff,          \* the users of each organisation, as pairs
    Numbers,        \* phone numbers
    Templates,
    Requests,       \* requests that can be under way at once
    Mixes,          \* the sets of kinds of request that are tried together
    None,
    MaxStarts,      \* bound: requests
    MaxVersion,     \* bound: changes of one phone number or template at Meta
    MaxFaults       \* bound: calls to Meta or Redis that fail

Kinds == {"connect", "disconnect", "deleteWaba", "deleteAccount", "sync", "template", "pay"}

Things == Numbers \cup Templates

ASSUME ConstantsAssumption ==
    /\ Staff \subseteq Users \X Orgs /\ Mixes \subseteq SUBSET Kinds
    /\ Numbers \cap Templates = {} /\ None \notin Users \cup Orgs \cup Things
    /\ MaxStarts \in Nat /\ MaxVersion \in Nat \ {0} /\ MaxFaults \in Nat

VARIABLES
    meta,           \* Meta: what there is, the version and the words of what it says
    reports,        \* Meta: webhook reports on their way
    users,          \* User rows
    waba,           \* Waba.userId, who connected the account first, or None
    holder,         \* per organisation, WabaOrganisation.userId, or None
    token,          \* the users with a UserWhatsapp row
    row,            \* WabaPhoneNumber and MessageTemplate rows
    phone,          \* Redis: per number, whose token is cached, or None
    feed,           \* the users with Notification rows
    paid,           \* organisations with access
    req,            \* locals of each request
    mix, starts, faults,
    said,           \* history: per template and version, what Meta said
    heard,          \* history: per thing, the newest version its row was written from
    crossed,        \* history: things written from an answer that was overtaken
    leaked          \* history: cached tokens a later purge will not reach

metaVars == <<meta, reports, said>>
holdVars == <<users, waba, holder, token>>
rowVars == <<row, heard, crossed>>
cacheVars == <<phone, leaked>>
bounds == <<mix, starts, faults>>
vars == <<metaVars, holdVars, rowVars, cacheVars, feed, paid, req, bounds>>

-----------------------------------------------------------------------------

Statuses == {"PENDING", "APPROVED", "PAUSED", "DELETED"}

\* What Meta says of a thing, and the row made of it.  A number says "PENDING".
Row == [there: BOOLEAN, version: 0..MaxVersion, status: Statuses]

NoRow == [there |-> FALSE, version |-> 0, status |-> "PENDING"]

Steps == {"idle", "member", "upsert", "join", "store", "purge", "cut", "survey", "erase", "forget",
          "token", "list", "save", "fill", "templates", "copy", "call", "write"}

Idle == [step |-> "idle", kind |-> "sync", user |-> None, org |-> None, by |-> None,
         thing |-> None, seen |-> [x \in Things |-> NoRow], numbers |-> {}, orphan |-> FALSE,
         late |-> FALSE, behind |-> {}]

Request == [step: Steps, kind: Kinds, user: Users \cup {None}, org: Orgs \cup {None},
            by: Users \cup {None}, thing: Things \cup {None}, seen: [Things -> Row],
            numbers: SUBSET Numbers, orphan: BOOLEAN, late: BOOLEAN, behind: SUBSET Things]

\* Every variable has its type, and the foreign keys to the account and to its
\* first connector hold.
TypeOK ==
    /\ meta \in [Things -> Row]
    /\ reports \in SUBSET [thing: Things, version: 1..MaxVersion, says: Statuses]
    /\ users \in SUBSET Users /\ waba \in Users \cup {None}
    /\ holder \in [Orgs -> Users \cup {None}] /\ token \in SUBSET Users
    /\ row \in [Things -> Row] /\ phone \in [Numbers -> Users \cup {None}]
    /\ feed \in SUBSET Users /\ paid \in SUBSET Orgs
    /\ req \in [Requests -> Request]
    /\ mix \in Mixes /\ starts \in 0..MaxStarts /\ faults \in 0..MaxFaults
    /\ said \in [Templates -> [0..MaxVersion -> Statuses]]
    /\ heard \in [Things -> 0..MaxVersion] /\ crossed \in SUBSET Things
    /\ leaked \in SUBSET (Numbers \X Users)
    /\ waba = None => /\ token = {} /\ \A o \in Orgs : holder[o] = None
                      /\ \A x \in Things : ~row[x].there
    /\ waba # None => waba \in users
    /\ token \cup feed \subseteq users

Init ==
    /\ meta = [x \in Things |-> IF x \in Numbers THEN [NoRow EXCEPT !.there = TRUE, !.version = 1]
                                  ELSE NoRow]
    /\ reports = {} /\ said = [t \in Templates |-> [v \in 0..MaxVersion |-> "PENDING"]]
    /\ users = Users /\ waba = None /\ holder = [o \in Orgs |-> None] /\ token = {}
    /\ row = [x \in Things |-> NoRow] /\ phone = [n \in Numbers |-> None]
    /\ feed = {} /\ paid = {}
    /\ req = [p \in Requests |-> Idle]
    /\ mix \in Mixes /\ starts = 0 /\ faults = 0
    /\ heard = [x \in Things |-> 0] /\ crossed = {} /\ leaked = {}

At(p, step) == req[p].step = step

Goes(p, step) == req' = [req EXCEPT ![p].step = step]

Ends(p) == req' = [req EXCEPT ![p] = Idle]

Fault == faults < MaxFaults /\ faults' = faults + 1

Held == waba # None

\* require(), holds(): the account is there and this organisation is a member.
Holds(o) == Held /\ holder[o] # None

\* A request of a user of an organisation comes in.
Starts(p, kind, u, o, step) ==
    /\ At(p, "idle") /\ starts < MaxStarts /\ kind \in mix
    /\ <<u, o>> \in Staff /\ u \in users
    /\ starts' = starts + 1
    /\ req' = [req EXCEPT ![p] = [Idle EXCEPT !.step = step, !.kind = kind, !.user = u, !.org = o]]
    /\ UNCHANGED <<metaVars, holdVars, rowVars, cacheVars, feed, paid, mix, faults>>

-----------------------------------------------------------------------------
(* Meta *)

\* The next thing Meta says of x
Said(x, there, status) ==
    LET v == meta[x].version + 1 IN
    /\ v <= MaxVersion
    /\ meta' = [meta EXCEPT ![x] = [there |-> there, version |-> v, status |-> status]]
    /\ said' = IF x \in Templates THEN [said EXCEPT ![x][v] = status] ELSE said

Tells(x, status) ==
    reports' = reports \cup {[thing |-> x, version |-> meta[x].version + 1, says |-> status]}

\* A decision on a template; the quality of a number; a number added or removed,
\* which no webhook reports.
MetaNext ==
    /\ Held
    /\ \/ \E t \in Templates, s \in {"APPROVED", "PAUSED", "DELETED"} :
            /\ meta[t].there /\ meta[t].status # s
            /\ Said(t, s # "DELETED", s) /\ Tells(t, s)
       \/ \E n \in Numbers :
            /\ "sync" \in mix /\ meta[n].there
            /\ Said(n, TRUE, "PENDING") /\ Tells(n, "PENDING")
       \/ \E n \in Numbers :
            /\ "sync" \in mix /\ Said(n, ~meta[n].there, "PENDING") /\ UNCHANGED reports
    /\ UNCHANGED <<holdVars, rowVars, cacheVars, feed, paid, req, bounds>>

mapStatus_Approves(raw) == IF raw = "DELETED" THEN raw ELSE "APPROVED"

\* What a listing makes of a status: it knows fewer of them than the webhook does.
mapStatus(raw) == IF raw \in {"APPROVED", "DELETED"} THEN raw ELSE "PENDING"

Written_Once(x, there, v, status) ==
    IF row[x].there /\ there THEN row[x] ELSE [there |-> there, version |-> v, status |-> status]

\* The row of x once it has been written from version v
Written(x, there, v, status) == [there |-> there, version |-> v, status |-> status]

Newest(x, v) == IF v > heard[x] THEN v ELSE heard[x]

\* The requests whose answer from Meta is older than a write of these things
Overtaken(q, which) ==
    IF req[q].step \in {"save", "copy", "write"} THEN [req[q] EXCEPT !.behind = @ \cup which]
      ELSE req[q]

\* updateMany() of the row, if there is one, in whatever order reports come
Record(r) ==
    LET x == r.thing IN
    /\ r \in reports
    /\ reports' = reports \ {r}
    /\ IF row[x].there
         THEN /\ row' = [row EXCEPT ![x] = Written(x, TRUE, r.version, r.says)]
              /\ heard' = [heard EXCEPT ![x] = Newest(x, r.version)]
              /\ crossed' = IF r.version < heard[x] THEN crossed \cup {x} ELSE crossed \ {x}
         ELSE UNCHANGED rowVars
    /\ req' = [q \in Requests |-> Overtaken(q, {x})]
    /\ UNCHANGED <<meta, said, holdVars, cacheVars, paid, bounds>>

\* TemplateStatusHandler: news is also filed for everybody connected.
TemplateReport(r) ==
    /\ r.thing \in Templates /\ Record(r)
    /\ feed' = IF row[r.thing].there /\ r.says # "DELETED" THEN feed \cup token ELSE feed

\* AccountHandler: the quality or the name of a number
NumberReport(r) == r.thing \in Numbers /\ Record(r) /\ UNCHANGED feed

-----------------------------------------------------------------------------
(* Connecting *)

\* connectWhatsapp(), manualConnect(): Meta trades the code for a token, or fails
\* and nothing has happened.
Connect(p, u, o) == Starts(p, "connect", u, o, "member")

\* createOrUpdateWaba(): connected by somebody else in this organisation is refused.
CheckMembership(p) ==
    /\ At(p, "member")
    /\ IF holder[req[p].org] \in {None, req[p].user} THEN Goes(p, "upsert") ELSE Ends(p)
    /\ UNCHANGED <<metaVars, holdVars, rowVars, cacheVars, feed, paid, bounds>>

UpsertWaba(p) ==
    LET u == req[p].user IN
    /\ At(p, "upsert")
    /\ IF Held \/ u \in users
         THEN waba' = (IF Held THEN waba ELSE u) /\ Goes(p, "join")
         ELSE UNCHANGED waba /\ Ends(p)
    /\ UNCHANGED <<metaVars, users, holder, token, rowVars, cacheVars, feed, paid, bounds>>

\* The membership keeps whoever is there already.
Join(p) ==
    LET o == req[p].org IN
    /\ At(p, "join")
    /\ IF Held
         THEN /\ holder' = [holder EXCEPT ![o] = IF @ = None THEN req[p].user ELSE @]
              /\ req' = [q \in Requests |->
                           IF q = p THEN [req[p] EXCEPT !.step = "store"]
                             ELSE IF At(q, "erase") THEN [req[q] EXCEPT !.late = TRUE]
                             ELSE req[q]]
         ELSE UNCHANGED holder /\ Ends(p)
    /\ UNCHANGED <<metaVars, users, waba, token, rowVars, cacheVars, feed, paid, bounds>>

\* UserWhatsappService.createOrUpdate(): needs the user and the account.  Nothing
\* is synchronised.
StoreToken(p) ==
    LET u == req[p].user IN
    /\ At(p, "store")
    /\ token' = IF Held /\ u \in users THEN token \cup {u} ELSE token
    /\ Ends(p)
    /\ UNCHANGED <<metaVars, users, waba, holder, rowVars, cacheVars, feed, paid, bounds>>

-----------------------------------------------------------------------------
(* Phone numbers *)

\* connection(): the caller's own token, or that of whoever brought the account
\* into this organisation.
Connection(u, o) ==
    IF ~Holds(o) THEN None
      ELSE IF u \in token THEN u
      ELSE IF holder[o] \in token THEN holder[o] ELSE None

\* syncPhoneNumbers(), and registerPhoneNumber() after its call
SyncPhoneNumbers(p, u, o) == Starts(p, "sync", u, o, "token")

ReadConnection(p) ==
    LET by == Connection(req[p].user, req[p].org) IN
    /\ At(p, "token")
    /\ IF by = None THEN Ends(p)
         ELSE req' = [req EXCEPT ![p].by = by, ![p].step = "list"]
    /\ UNCHANGED <<metaVars, holdVars, rowVars, cacheVars, feed, paid, bounds>>

\* Done with the numbers, one way or the other: provision() turns to the
\* templates, everybody else is answered.
NumbersDone(p) == IF req[p].kind = "pay" THEN Goes(p, "templates") ELSE Ends(p)

\* Meta's list.  Subscribing the application to the account's webhooks, which
\* provision() does just before, is best-effort and changes nothing here.
ListNumbers(p) ==
    /\ At(p, "list")
    /\ \/ /\ req' = [req EXCEPT ![p].seen = meta, ![p].behind = {}, ![p].step = "save"]
          /\ UNCHANGED faults
       \/ Fault /\ NumbersDone(p)
    /\ UNCHANGED <<metaVars, holdVars, rowVars, cacheVars, feed, paid, mix, starts>>

\* Rows written from what Meta answered
SaveRows(p, which) ==
    LET seen == req[p].seen IN
    /\ row' = [x \in Things |->
                 IF x \in which
                   THEN Written(x, seen[x].there, seen[x].version, mapStatus(seen[x].status))
                   ELSE row[x]]
    /\ heard' = [x \in Things |-> IF x \in which THEN Newest(x, seen[x].version) ELSE heard[x]]
    /\ crossed' = (crossed \ which) \cup (which \cap req[p].behind)

\* The request goes on, and others under way are overtaken.
GoesOn(p, which, step) ==
    req' = [q \in Requests |-> IF q # p THEN Overtaken(q, which)
                                 ELSE IF step = "idle" THEN Idle ELSE [req[p] EXCEPT !.step = step]]

\* fetchAndUpsert(): every number listed is written, every other one deleted and
\* its cached token dropped.  With the account gone the first write fails.
UpsertNumbers(p) ==
    LET stale == {n \in Numbers : row[n].there /\ ~req[p].seen[n].there} IN
    /\ At(p, "save")
    /\ IF Held
         THEN /\ SaveRows(p, Numbers)
              /\ phone' = [n \in Numbers |-> IF n \in stale THEN None ELSE phone[n]]
              /\ GoesOn(p, Numbers, "fill")
         ELSE NumbersDone(p) /\ UNCHANGED <<rowVars, phone>>
    /\ UNCHANGED <<metaVars, holdVars, leaked, feed, paid, bounds>>

\* populatePhoneCache().  The token was read before the call to Meta: whoever has
\* disconnected since, and a number dropped since, are cached all the same.
PopulatePhoneCache(p) ==
    LET by == req[p].by
        there == {n \in Numbers : req[p].seen[n].there}
        late == {n \in there : by \notin token \/ ~row[n].there
                                 \/ \E q \in Requests \ {p} : At(q, "cut")} IN
    /\ At(p, "fill")
    /\ \/ /\ phone' = [n \in Numbers |-> IF n \in there THEN by ELSE phone[n]]
          /\ leaked' = {l \in leaked : l[1] \notin there} \cup (late \X {by})
          /\ UNCHANGED faults
       \/ Fault /\ UNCHANGED cacheVars
    /\ NumbersDone(p)
    /\ UNCHANGED <<metaVars, holdVars, rowVars, feed, paid, mix, starts>>

-----------------------------------------------------------------------------
(* Templates *)

\* resolveWabaContext(): the caller's own token, the membership and the paywall
Context(u, o) == u \in token /\ Holds(o) /\ o \in paid

SyncTemplates(p, u, o) == Starts(p, "template", u, o, "templates")

ListTemplates(p) ==
    LET u == IF req[p].kind = "pay" THEN req[p].by ELSE req[p].user IN
    /\ At(p, "templates")
    /\ IF Context(u, req[p].org)
         THEN \/ /\ req' = [req EXCEPT ![p].seen = meta, ![p].behind = {}, ![p].step = "copy"]
                 /\ UNCHANGED faults
              \/ Fault /\ Ends(p)
         ELSE Ends(p) /\ UNCHANGED faults
    /\ UNCHANGED <<metaVars, holdVars, rowVars, cacheVars, feed, paid, mix, starts>>

\* syncTemplates(): only what Meta lists is written; a row it no longer lists
\* stays as it is.  Each row is written on its own, and a failure skips it.
UpsertTemplates(p) ==
    LET listed == {t \in Templates : req[p].seen[t].there} IN
    /\ At(p, "copy")
    /\ IF Held
         THEN SaveRows(p, listed) /\ GoesOn(p, listed, "idle")
         ELSE Ends(p) /\ UNCHANGED rowVars
    /\ UNCHANGED <<metaVars, holdVars, cacheVars, feed, paid, bounds>>

ChangeTemplate(p, u, o) == Context(u, o) /\ Starts(p, "template", u, o, "call")

Answered(p, t, step) ==
    /\ req' = [req EXCEPT ![p].thing = t, ![p].seen = meta', ![p].behind = {}, ![p].step = step]
    /\ UNCHANGED <<holdVars, rowVars, cacheVars, feed, paid, bounds>>

\* createTemplate(): Meta keeps the new template and says what it thinks of it.
CreateTemplate(p, t) ==
    /\ At(p, "call") /\ meta[t].version = 0
    /\ \E s \in {"PENDING", "APPROVED"} : Said(t, TRUE, s)
    /\ UNCHANGED reports /\ Answered(p, t, "write")

\* createFromLibrary(): Meta has written the text itself.
CreateFromLibrary(p, t) ==
    /\ At(p, "call") /\ meta[t].version = 0
    /\ Said(t, TRUE, "APPROVED")
    /\ UNCHANGED reports /\ Answered(p, t, "write")

\* deleteTemplate(): Meta removes it, and will report that.
DeleteTemplate(p, t) ==
    /\ At(p, "call") /\ row[t].there /\ meta[t].there
    /\ Said(t, FALSE, "DELETED") /\ Tells(t, "DELETED")
    /\ Answered(p, t, "write")

\* updateTemplate(): Meta looks at it again; the row's status is left alone.
UpdateTemplate(p, t) ==
    /\ At(p, "call") /\ row[t].there /\ meta[t].there
    /\ Said(t, TRUE, "PENDING")
    /\ Ends(p)
    /\ UNCHANGED <<reports, holdVars, rowVars, cacheVars, feed, paid, bounds>>

\* migrateTemplates(): Meta copies a template from another account of the caller,
\* and the copy is fetched like any other, as a best effort.
MigrateTemplates(p, t) ==
    /\ At(p, "call") /\ meta[t].version = 0
    /\ Said(t, TRUE, "PENDING")
    /\ UNCHANGED reports /\ Answered(p, t, "templates")

\* Whichever it is, Meta may refuse or not answer.
CallFails(p) ==
    /\ At(p, "call") /\ Fault /\ Ends(p)
    /\ UNCHANGED <<metaVars, holdVars, rowVars, cacheVars, feed, paid, mix, starts>>

\* An upsert of the new template, or status DELETED on the row, which stays.
StoreTemplate(p) ==
    LET t == req[p].thing
        s == req[p].seen[t] IN
    /\ At(p, "write")
    /\ IF Held /\ (s.there \/ row[t].there)
         THEN /\ row' = [row EXCEPT ![t] = Written(t, TRUE, s.version, mapStatus(s.status))]
              /\ heard' = [heard EXCEPT ![t] = Newest(t, s.version)]
              /\ crossed' = (crossed \ {t}) \cup ({t} \cap req[p].behind)
              /\ GoesOn(p, {t}, "idle")
         ELSE Ends(p) /\ UNCHANGED rowVars
    /\ UNCHANGED <<metaVars, holdVars, cacheVars, feed, paid, bounds>>

-----------------------------------------------------------------------------
(* Paying *)

\* provisionIfNewlyPaid(): on the edge from not paid to paid, and only for an
\* account with no numbers yet; provision() acts for whoever brought it here.
Pay(p, o) ==
    /\ At(p, "idle") /\ starts < MaxStarts /\ "pay" \in mix /\ o \notin paid
    /\ starts' = starts + 1 /\ paid' = paid \cup {o}
    /\ req' = IF Holds(o) /\ ~\E n \in Numbers : row[n].there
                THEN [req EXCEPT ![p] = [Idle EXCEPT !.step = "token", !.kind = "pay",
                                          !.user = holder[o], !.org = o]]
                ELSE req
    /\ UNCHANGED <<metaVars, holdVars, rowVars, cacheVars, feed, mix, faults>>

-----------------------------------------------------------------------------
(* Disconnecting and deleting *)

Stored == {n \in Numbers : row[n].there}

Purged_None(numbers) == {}

\* invalidatePhoneCache() for every number
Purged(numbers) == numbers

Purge(numbers) ==
    /\ phone' = [n \in Numbers |-> IF n \in Purged(numbers) THEN None ELSE phone[n]]
    /\ leaked' = {l \in leaked : l[1] \notin numbers}

\* disconnectWaba(): the caller's own connection
Disconnect(p, u, o) == Holds(o) /\ u \in token /\ Starts(p, "disconnect", u, o, "purge")

\* The cached tokens go first; if that fails nothing has happened.
PurgePhones(p) ==
    /\ At(p, "purge")
    /\ \/ Purge(Stored) /\ Goes(p, "cut") /\ UNCHANGED faults
       \/ Fault /\ Ends(p) /\ UNCHANGED cacheVars
    /\ UNCHANGED <<metaVars, holdVars, rowVars, feed, paid, mix, starts>>

\* Then the connection and this organisation's membership, in one transaction,
\* which fails if somebody else has deleted the connection.
Cut(p) ==
    LET u == req[p].user IN
    /\ At(p, "cut")
    /\ IF u \in token
         THEN token' = token \ {u} /\ holder' = [holder EXCEPT ![req[p].org] = None]
         ELSE UNCHANGED <<token, holder>>
    /\ Ends(p)
    /\ UNCHANGED <<metaVars, users, waba, rowVars, cacheVars, feed, paid, bounds>>

DeleteWaba(p, u, o) == Holds(o) /\ waba = u /\ Starts(p, "deleteWaba", u, o, "survey")

DeleteAccount(p, u, o) == Starts(p, "deleteAccount", u, o, "survey")

\* The memberships of somebody who leaves
Brought(u) == {o \in Orgs : holder[o] = u}

Orphaned_First(u) == waba = u

\* deleteAccount(): an account goes with its user only when nobody else holds it.
Orphaned(u) == Brought(u) # {} /\ \A o \in Orgs : holder[o] \in {None, u}

\* What is read before anything goes: whether another organisation holds the
\* account, and the numbers whose cached tokens are to be purged.  deleteWaba()
\* is refused if one does, and tells Meta to stop sending webhooks.
Survey(p) ==
    LET r == req[p]
        goes == IF r.kind = "deleteWaba" THEN TRUE ELSE Orphaned(r.user) IN
    /\ At(p, "survey")
    /\ IF r.kind = "deleteWaba" /\ (~Holds(r.org) \/ \E o \in Orgs \ {r.org} : Holds(o))
         THEN Ends(p)
         ELSE req' = [req EXCEPT ![p].orphan = goes, ![p].late = FALSE, ![p].step = "erase",
                                 ![p].numbers = IF goes THEN Stored ELSE {}]
    /\ UNCHANGED <<metaVars, holdVars, rowVars, cacheVars, feed, paid, bounds>>

\* The account with its rows, connections and memberships
EraseAccount ==
    /\ waba' = None /\ row' = [x \in Things |-> NoRow]
    /\ heard' = [x \in Things |-> 0] /\ crossed' = {}

\* Cached tokens of people who lose their connection, of numbers nobody purges
Unreached(p, gone) == {l \in (Numbers \ req[p].numbers) \X gone : phone[l[1]] = l[2]}

\* deleteWaba()'s transaction; it fails if the account is gone.
EraseWaba(p) ==
    /\ At(p, "erase") /\ req[p].kind = "deleteWaba"
    /\ IF Held
         THEN /\ EraseAccount /\ token' = {} /\ holder' = [o \in Orgs |-> None]
              /\ leaked' = leaked \cup Unreached(p, token)
              /\ Goes(p, "forget")
         ELSE UNCHANGED <<waba, token, holder, rowVars, leaked>> /\ Ends(p)
    /\ UNCHANGED <<metaVars, users, phone, feed, paid, bounds>>

\* The connections that deleteAccount()'s transaction leaves
Connections(p, u) == IF req[p].orphan THEN {} ELSE token \ {u}

\* Nothing refers to the user any more: not the account as its first connector,
\* and not the feed, whose rows the transaction does not delete.
Unreferenced(p, u) ==
    /\ u \notin feed
    /\ waba # u \/ req[p].orphan

\* deleteAccount()'s transaction: all of it or, on a reference left, nothing
EraseUser(p) ==
    LET u == req[p].user IN
    /\ At(p, "erase") /\ req[p].kind = "deleteAccount"
    /\ IF u \in users /\ Unreferenced(p, u)
         THEN /\ users' = users \ {u}
              /\ token' = Connections(p, u)
              /\ IF req[p].orphan
                   THEN EraseAccount /\ holder' = [o \in Orgs |-> None]
                   ELSE /\ holder' = [o \in Orgs |-> IF holder[o] = u THEN None ELSE holder[o]]
                        /\ UNCHANGED <<waba, rowVars>>
              /\ leaked' = leaked \cup Unreached(p, token \ token')
              /\ Goes(p, "forget")
         ELSE UNCHANGED <<holdVars, rowVars, leaked>> /\ Ends(p)
    /\ UNCHANGED <<metaVars, phone, feed, paid, bounds>>

\* Both purge the cache afterwards, as best they can.
Forget(p) ==
    /\ At(p, "forget")
    /\ \/ Purge(req[p].numbers) /\ UNCHANGED faults
       \/ /\ Fault /\ UNCHANGED phone
          /\ leaked' = leaked \cup {l \in req[p].numbers \X Users : phone[l[1]] = l[2]}
    /\ Ends(p)
    /\ UNCHANGED <<metaVars, holdVars, rowVars, feed, paid, mix, starts>>

-----------------------------------------------------------------------------

Arrives(p) ==
    \/ \E u \in Users, o \in Orgs :
         \/ Connect(p, u, o) \/ SyncPhoneNumbers(p, u, o) \/ SyncTemplates(p, u, o)
         \/ ChangeTemplate(p, u, o) \/ Disconnect(p, u, o) \/ DeleteWaba(p, u, o)
         \/ DeleteAccount(p, u, o)
    \/ \E o \in Orgs : Pay(p, o)

Step(p) ==
    \/ CheckMembership(p) \/ UpsertWaba(p) \/ Join(p) \/ StoreToken(p)
    \/ ReadConnection(p) \/ ListNumbers(p) \/ UpsertNumbers(p) \/ PopulatePhoneCache(p)
    \/ ListTemplates(p) \/ UpsertTemplates(p)
    \/ \E t \in Templates :
         \/ CreateTemplate(p, t) \/ CreateFromLibrary(p, t) \/ DeleteTemplate(p, t)
         \/ UpdateTemplate(p, t) \/ MigrateTemplates(p, t)
    \/ CallFails(p) \/ StoreTemplate(p)
    \/ PurgePhones(p) \/ Cut(p) \/ Survey(p) \/ EraseWaba(p) \/ EraseUser(p) \/ Forget(p)

Next ==
    \/ MetaNext
    \/ \E r \in reports : TemplateReport(r) \/ NumberReport(r)
    \/ \E p \in Requests : Arrives(p) \/ Step(p)

Spec == Init /\ [][Next]_vars

-----------------------------------------------------------------------------
(* Properties *)

\* disconnectWaba(), deleteWaba(), deleteAccount(): whoever leaves takes nothing
\* from an organisation that somebody else brought the account into: its
\* membership, its connection and the account's rows stay.  Only an organisation
\* that joins while the account is being erased is erased with it.
SharedSurvives ==
    [][\A p \in Requests, o \in Orgs :
         LET r == req[p]
             other == Holds(o) /\ o # r.org /\ holder[o] # r.user /\ ~r.late IN
         (r.step \in {"cut", "erase"} /\ req'[p].step # r.step /\ other) =>
           /\ Held' /\ holder'[o] = holder[o] /\ row' = row
           /\ holder[o] \in token => holder[o] \in token']_vars

\* The token cached for a number is one its owner still has a connection for, or
\* it is about to be purged; otherwise a synchronisation was under way when the
\* owner left, the purge failed, or the owner's account was deleted while another
\* organisation kept the numbers.
CacheFollows ==
    \A n \in Numbers :
      phone[n] # None =>
        \/ phone[n] \in token \/ <<n, phone[n]>> \in leaked
        \/ \E p \in Requests : At(p, "forget") /\ n \in req[p].numbers

\* A row never shows something older than what it was once written from, unless
\* two writers overlapped or Meta's reports overtook one another.
NewsIsShown == \A x \in Things : row[x].there /\ x \notin crossed => row[x].version >= heard[x]

\* syncTemplates(), createTemplate(), TemplateStatusHandler: a template is shown
\* as approved only on Meta's word.
ApprovedByMeta ==
    \A t \in Templates :
      row[t].there /\ row[t].status = "APPROVED" => said[t][row[t].version] = "APPROVED"

\* The console shows Meta's latest word on numbers and templates, and nothing else.
RowsFollowMeta == NewsIsShown /\ ApprovedByMeta

=============================================================================
