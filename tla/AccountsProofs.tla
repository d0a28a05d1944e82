--------------------------- MODULE AccountsProofs ---------------------------
(***************************************************************************)
(* What holds of a shared account for any number of people, organisations, *)
(* numbers, templates and requests under way: a cached token follows its   *)
(* owner, rows follow Meta, and an account survives those who leave it.    *)
(***************************************************************************)
EXTENDS Accounts, TLAPS

\* Whoever is fetching phone numbers has somebody's token, and whoever is about to
\* write a template has one in hand.
Equipped(r) ==
    /\ r.step \in {"list", "save", "fill"} => r.by \in Users
    /\ r.step = "write" => r.thing \in Templates

Acting == \A p \in Requests : Equipped(req[p])

TypeInv == TypeOK /\ Acting

-----------------------------------------------------------------------------
(* Requests *)

LEMMA NoRowTyped == NoRow \in Row
BY ConstantsAssumption DEF NoRow, Row, Statuses

LEMMA IdleTyped == Idle \in Request
BY NoRowTyped DEF Idle, Request, Steps, Kinds

\* Going to another step changes nothing else.
LEMMA GoesTyped ==
  ASSUME req \in [Requests -> Request], NEW p \in Requests, NEW s \in Steps, Goes(p, s)
  PROVE  /\ req' \in [Requests -> Request]
         /\ req'[p] = [req[p] EXCEPT !.step = s]
         /\ \A q \in Requests \ {p} : req'[q] = req[q]
BY DEF Goes, Request

LEMMA EndsTyped ==
  ASSUME req \in [Requests -> Request], NEW p \in Requests, Ends(p)
  PROVE  /\ req' \in [Requests -> Request]
         /\ req'[p] = Idle
         /\ \A q \in Requests \ {p} : req'[q] = req[q]
BY IdleTyped DEF Ends

LEMMA StartsTyped ==
  ASSUME req \in [Requests -> Request], NEW p \in Requests, NEW kind \in Kinds,
         NEW u \in Users, NEW o \in Orgs, NEW s \in Steps, Starts(p, kind, u, o, s)
  PROVE  /\ req' \in [Requests -> Request]
         /\ req'[p] = [Idle EXCEPT !.step = s, !.kind = kind, !.user = u, !.org = o]
         /\ \A q \in Requests \ {p} : req'[q] = req[q]
<1>1. [Idle EXCEPT !.step = s, !.kind = kind, !.user = u, !.org = o] \in Request
  BY NoRowTyped DEF Idle, Request
<1> QED BY <1>1 DEF Starts

\* Being overtaken changes what a request knows to be behind, and nothing else.
LEMMA OvertakenTyped ==
  ASSUME req \in [Requests -> Request], NEW q \in Requests, NEW which \in SUBSET Things
  PROVE  /\ Overtaken(q, which) \in Request
         /\ Overtaken(q, which) = [req[q] EXCEPT !.behind = Overtaken(q, which).behind]
         /\ req[q].behind \subseteq Overtaken(q, which).behind
         /\ req[q].step \in {"save", "copy", "write"} => which \subseteq Overtaken(q, which).behind
BY DEF Overtaken, Request

LEMMA GoesOnTyped ==
  ASSUME req \in [Requests -> Request], NEW p \in Requests, NEW which \in SUBSET Things,
         NEW s \in Steps, GoesOn(p, which, s)
  PROVE  /\ req' \in [Requests -> Request]
         /\ req'[p] = IF s = "idle" THEN Idle ELSE [req[p] EXCEPT !.step = s]
         /\ \A q \in Requests \ {p} : req'[q] = Overtaken(q, which)
<1>1. [req[p] EXCEPT !.step = s] \in Request
  BY DEF Request
<1>2. \A q \in Requests : Overtaken(q, which) \in Request
  BY OvertakenTyped
<1> QED BY <1>1, <1>2, IdleTyped DEF GoesOn

LEMMA NumbersDoneTyped ==
  ASSUME req \in [Requests -> Request], NEW p \in Requests, NumbersDone(p)
  PROVE  /\ req' \in [Requests -> Request]
         /\ req'[p] = Idle \/ req'[p] = [req[p] EXCEPT !.step = "templates"]
         /\ \A q \in Requests \ {p} : req'[q] = req[q]
BY GoesTyped, EndsTyped DEF NumbersDone, Steps

\* What a step of one request does to another: nothing but to overtake it.
Kept(q) ==
    /\ req'[q] \in Request
    /\ req'[q] = [req[q] EXCEPT !.late = req'[q].late, !.behind = req'[q].behind]
    /\ req[q].late => req'[q].late
    /\ req[q].behind \subseteq req'[q].behind

LEMMA SameIsKept ==
  ASSUME req \in [Requests -> Request], NEW q \in Requests, req'[q] = req[q]
  PROVE  Kept(q)
BY DEF Kept, Request

LEMMA OvertakenIsKept ==
  ASSUME req \in [Requests -> Request], NEW q \in Requests, NEW which \in SUBSET Things,
         req'[q] = Overtaken(q, which)
  PROVE  Kept(q)
<1>0. req'[q] \in Request
  BY OvertakenTyped
<1>1. req'[q].late = req[q].late /\ req'[q] \in Request
  BY <1>0 DEF Overtaken, Request
<1>2. req'[q] = [req[q] EXCEPT !.late = req'[q].late, !.behind = req'[q].behind]
  BY <1>1 DEF Overtaken, Request
<1> QED BY <1>1, <1>2, OvertakenTyped DEF Kept

\* A request that comes in
LEMMA ArrivesTyped ==
  ASSUME TypeInv, NEW p \in Requests, Arrives(p)
  PROVE  /\ req' \in [Requests -> Request]
         /\ \A q \in Requests \ {p} : req'[q] = req[q]
         /\ req'[p] = req[p] \/ req'[p].step \in {"member", "token", "templates", "call", "purge",
                                                  "survey"}
         /\ At(p, "idle")
<1> USE DEF TypeInv, TypeOK
<1>1. ASSUME NEW u \in Users, NEW o \in Orgs, NEW kind \in Kinds,
             NEW s \in {"member", "token", "templates", "call", "purge", "survey"},
             Starts(p, kind, u, o, s)
      PROVE  /\ req' \in [Requests -> Request]
             /\ \A q \in Requests \ {p} : req'[q] = req[q]
             /\ req'[p].step = s
             /\ At(p, "idle")
  <2>1. s \in Steps
    BY DEF Steps
  <2>2. /\ req' \in [Requests -> Request]
        /\ req'[p] = [Idle EXCEPT !.step = s, !.kind = kind, !.user = u, !.org = o]
        /\ \A q \in Requests \ {p} : req'[q] = req[q]
    BY <1>1, <2>1, StartsTyped
  <2> QED BY <1>1, <2>2 DEF Starts, Idle
<1>2. ASSUME NEW u \in Users, NEW o \in Orgs,
             \/ Connect(p, u, o) \/ SyncPhoneNumbers(p, u, o) \/ SyncTemplates(p, u, o)
             \/ ChangeTemplate(p, u, o) \/ Disconnect(p, u, o) \/ DeleteWaba(p, u, o)
             \/ DeleteAccount(p, u, o)
      PROVE  \E kind \in Kinds, s \in {"member", "token", "templates", "call", "purge",
                                       "survey"} :
               Starts(p, kind, u, o, s)
  BY <1>2 DEF Connect, SyncPhoneNumbers, SyncTemplates, ChangeTemplate, Disconnect, DeleteWaba,
              DeleteAccount, Kinds
<1>3. ASSUME NEW o \in Orgs, Pay(p, o)
      PROVE  /\ req' \in [Requests -> Request]
             /\ \A q \in Requests \ {p} : req'[q] = req[q]
             /\ req'[p] = req[p] \/ req'[p].step = "token"
             /\ At(p, "idle")
  <2>1. ASSUME Holds(o)
        PROVE  [Idle EXCEPT !.step = "token", !.kind = "pay", !.user = holder[o], !.org = o]
                 \in Request
    BY <2>1, NoRowTyped DEF Idle, Request, Steps, Kinds
  <2>2. CASE Holds(o) /\ ~\E n \in Numbers : row[n].there
    BY <1>3, <2>1, <2>2 DEF Pay, Idle
  <2>3. CASE ~(Holds(o) /\ ~\E n \in Numbers : row[n].there)
    BY <1>3, <2>3 DEF Pay
  <2> QED BY <2>2, <2>3
<1> QED BY <1>1, <1>2, <1>3 DEF Arrives

\* The answer of a call about a template
LEMMA AnsweredTyped ==
  ASSUME TypeInv, meta' \in [Things -> Row], NEW p \in Requests, NEW t \in Templates,
         NEW s \in Steps, Answered(p, t, s)
  PROVE  /\ req' \in [Requests -> Request]
         /\ req'[p].step = s /\ req'[p].thing = t /\ req'[p].seen = meta'
         /\ req'[p].behind = {}
         /\ \A q \in Requests \ {p} : req'[q] = req[q]
<1>1. [req[p] EXCEPT !.thing = t, !.seen = meta', !.behind = {}, !.step = s] \in Request
  <2>1. t \in Things
    BY DEF Things
  <2>2. req[p] \in Request
    BY DEF TypeInv, TypeOK
  <2> QED BY <2>1, <2>2 DEF Request
<1>2. req' = [req EXCEPT ![p] = [req[p] EXCEPT !.thing = t, !.seen = meta', !.behind = {},
                                               !.step = s]]
  BY DEF TypeInv, TypeOK, Answered
<1>3. req[p] \in Request /\ req'[p] = [req[p] EXCEPT !.thing = t, !.seen = meta', !.behind = {},
                                                     !.step = s]
  BY <1>2 DEF TypeInv, TypeOK
<1>4. /\ req'[p].step = s /\ req'[p].thing = t /\ req'[p].seen = meta'
      /\ req'[p].behind = {}
  BY <1>3 DEF Request
<1> QED BY <1>1, <1>2, <1>4 DEF TypeInv, TypeOK

\* The next thing Meta says has a version of its own.
LEMMA SaidTyped ==
  ASSUME TypeInv, NEW x \in Things, NEW there \in BOOLEAN, NEW s \in Statuses,
         Said(x, there, s)
  PROVE  /\ meta' \in [Things -> Row]
         /\ said' \in [Templates -> [0..MaxVersion -> Statuses]]
         /\ meta[x].version \in 0..MaxVersion /\ meta[x].version + 1 \in 1..MaxVersion
         /\ meta'[x].version = meta[x].version + 1
         /\ \A y \in Things \ {x} : meta'[y] = meta[y]
         /\ Tells(x, s) => reports' \in SUBSET [thing: Things, version: 1..MaxVersion,
                                                says: Statuses]
<1> USE ConstantsAssumption DEF TypeInv, TypeOK
<1>1. meta[x].version \in 0..MaxVersion /\ meta[x].version + 1 \in 1..MaxVersion
  BY DEF Said, Row
<1>2. [there |-> there, version |-> meta[x].version + 1, status |-> s] \in Row
  BY <1>1 DEF Row
<1>3. said' \in [Templates -> [0..MaxVersion -> Statuses]]
  BY <1>1 DEF Said
<1>4. Tells(x, s) => reports' \in SUBSET [thing: Things, version: 1..MaxVersion, says: Statuses]
  BY <1>1 DEF Tells
<1> QED BY <1>1, <1>2, <1>3, <1>4 DEF Said

-----------------------------------------------------------------------------
(* Types *)

\* A step of a request leaves its locals well-formed and the others' alone.
LEMMA StepTyped ==
  ASSUME TypeInv, NEW p \in Requests, Step(p)
  PROVE  /\ req' \in [Requests -> Request]
         /\ \A q \in Requests \ {p} : Kept(q)
         /\ Equipped(req'[p])
<1> DEFINE Goal == /\ req' \in [Requests -> Request]
                   /\ \A q \in Requests \ {p} : Kept(q)
                   /\ Equipped(req'[p])
<1>0. req \in [Requests -> Request] /\ req[p] \in Request
  BY DEF TypeInv, TypeOK
<1>1. ASSUME NEW s \in Steps \ {"list", "save", "fill", "write"}, Goes(p, s)
      PROVE  Goal
  <2>1. /\ req' \in [Requests -> Request]
        /\ req'[p] = [req[p] EXCEPT !.step = s]
        /\ \A q \in Requests \ {p} : req'[q] = req[q]
    BY <1>0, <1>1, GoesTyped
  <2>2. req'[p].step = s
    BY <1>0, <2>1 DEF Request
  <2> QED BY <1>0, <1>1, <2>1, <2>2, SameIsKept DEF Equipped
<1>2. ASSUME Ends(p)
      PROVE  Goal
  BY <1>0, <1>2, EndsTyped, SameIsKept DEF Idle, Equipped
<1>3. ASSUME NumbersDone(p)
      PROVE  Goal
  BY <1>1, <1>2, <1>3 DEF NumbersDone, Steps
<1>4. ASSUME NEW which \in SUBSET Things, NEW s \in {"idle", "fill"}, GoesOn(p, which, s),
             s = "fill" => At(p, "save")
      PROVE  Goal
  <2>1. /\ req' \in [Requests -> Request]
        /\ req'[p] = IF s = "idle" THEN Idle ELSE [req[p] EXCEPT !.step = s]
        /\ \A q \in Requests \ {p} : req'[q] = Overtaken(q, which)
    <3>1. s \in Steps
      BY DEF Steps
    <3> QED BY <1>0, <1>4, <3>1, GoesOnTyped
  <2>2. Equipped(req'[p])
    BY <1>0, <1>4, <2>1 DEF TypeInv, Acting, Equipped, At, Idle, Request
  <2> QED BY <1>0, <2>1, <2>2, OvertakenIsKept
<1>5. ASSUME NEW r \in Request, req' = [req EXCEPT ![p] = r], Equipped(r)
      PROVE  Goal
  BY <1>0, <1>5, SameIsKept
<1> USE DEF Steps
<1>6. CASE CheckMembership(p)
  BY <1>1, <1>2, <1>6 DEF CheckMembership
<1>7. CASE UpsertWaba(p)
  BY <1>1, <1>2, <1>7 DEF UpsertWaba
<1>8. CASE Join(p)
  <2>1. CASE ~Held
    BY <1>2, <1>8, <2>1 DEF Join
  <2>2. CASE Held
    <3>1. req' = [q \in Requests |-> IF q = p THEN [req[p] EXCEPT !.step = "store"]
                                       ELSE IF At(q, "erase") THEN [req[q] EXCEPT !.late = TRUE]
                                       ELSE req[q]]
      BY <1>8, <2>2 DEF Join
    <3>2. [req[p] EXCEPT !.step = "store"] \in Request
      BY <1>0 DEF Request
    <3>3. \A q \in Requests : [req[q] EXCEPT !.late = TRUE] \in Request
      BY <1>0 DEF Request
    <3>4. req' \in [Requests -> Request]
      BY <1>0, <3>1, <3>2, <3>3
    <3>5. ASSUME NEW q \in Requests \ {p} PROVE Kept(q)
      <4>1. req'[q] \in Request /\ req[q] \in Request
        BY <1>0, <3>4
      <4>2. CASE ~At(q, "erase")
        BY <1>0, <3>1, <4>2, SameIsKept
      <4>3. CASE At(q, "erase")
        <5>1. req'[q] = [req[q] EXCEPT !.late = TRUE]
          BY <3>1, <4>3
        <5>2. req'[q].late /\ req'[q].behind = req[q].behind
          BY <4>1, <5>1 DEF Request
        <5>3. req'[q] = [req[q] EXCEPT !.late = req'[q].late, !.behind = req'[q].behind]
          BY <4>1, <5>1, <5>2 DEF Request
        <5> QED BY <4>1, <5>2, <5>3 DEF Kept
      <4> QED BY <4>2, <4>3
    <3>6. req'[p].step = "store"
      BY <1>0, <3>1 DEF Request
    <3> QED BY <3>4, <3>5, <3>6 DEF Equipped
  <2> QED BY <2>1, <2>2
<1>9. CASE StoreToken(p)
  BY <1>2, <1>9 DEF StoreToken
<1>10. CASE ReadConnection(p)
  <2> DEFINE by == Connection(req[p].user, req[p].org)
             r == [req[p] EXCEPT !.by = by, !.step = "list"]
  <2>1. CASE by = None
    BY <1>2, <1>10, <2>1 DEF ReadConnection
  <2>2. CASE by # None
    <3>1. by \in Users
      BY <1>0, <2>2 DEF Connection, TypeInv, TypeOK
    <3>2. r \in Request /\ Equipped(r)
      BY <1>0, <3>1 DEF Request, Equipped
    <3>3. req' = [req EXCEPT ![p] = r]
      BY <1>0, <1>10, <2>2 DEF ReadConnection
    <3> HIDE DEF r
    <3> QED BY <1>5, <3>2, <3>3
  <2> QED BY <2>1, <2>2
<1>11. ASSUME NEW s \in {"save", "copy"}, s = "save" => At(p, "list"),
              req' = [req EXCEPT ![p].seen = meta, ![p].behind = {}, ![p].step = s]
       PROVE  Goal
  <2> DEFINE r == [req[p] EXCEPT !.seen = meta, !.behind = {}, !.step = s]
  <2>1. meta \in [Things -> Row]
    BY DEF TypeInv, TypeOK
  <2>2. r \in Request /\ r.step = s /\ r.by = req[p].by
    BY <1>0, <2>1 DEF Request
  <2>3. req' = [req EXCEPT ![p] = r]
    BY <1>0, <1>11
  <2>4. s = "save" => req[p].by \in Users
    BY <1>11 DEF TypeInv, Acting, Equipped, At
  <2>5. Equipped(r)
    BY <2>2, <2>4 DEF Equipped
  <2> HIDE DEF r
  <2> QED BY <1>5, <2>2, <2>3, <2>5
<1>12. CASE ListNumbers(p)
  BY <1>3, <1>11, <1>12 DEF ListNumbers
<1>13. CASE UpsertNumbers(p)
  BY <1>3, <1>4, <1>13 DEF UpsertNumbers, Things
<1>14. CASE PopulatePhoneCache(p)
  BY <1>3, <1>14 DEF PopulatePhoneCache
<1>15. CASE ListTemplates(p)
  BY <1>2, <1>11, <1>15 DEF ListTemplates
<1>16. CASE UpsertTemplates(p)
  <2>1. {t \in Templates : req[p].seen[t].there} \in SUBSET Things
    BY DEF Things
  <2> QED BY <1>2, <1>4, <1>16, <2>1 DEF UpsertTemplates
<1>17. ASSUME NEW t \in Templates, NEW s \in {"write", "templates"}, NEW b \in BOOLEAN,
              NEW says \in Statuses, Said(t, b, says), Answered(p, t, s)
       PROVE  Goal
  <2>1. meta' \in [Things -> Row]
    BY <1>17, SaidTyped DEF Things
  <2>2. /\ req' \in [Requests -> Request]
        /\ req'[p].step = s /\ req'[p].thing = t
        /\ \A q \in Requests \ {p} : req'[q] = req[q]
    <3>1. s \in Steps
      BY DEF Steps
    <3> QED BY <1>17, <2>1, <3>1, AnsweredTyped
  <2> QED BY <1>0, <1>17, <2>2, SameIsKept DEF Equipped
<1>18. ASSUME NEW t \in Templates,
              \/ CreateTemplate(p, t) \/ CreateFromLibrary(p, t) \/ DeleteTemplate(p, t)
              \/ UpdateTemplate(p, t) \/ MigrateTemplates(p, t)
       PROVE  Goal
  BY <1>2, <1>17, <1>18 DEF CreateTemplate, CreateFromLibrary, DeleteTemplate, UpdateTemplate,
                            MigrateTemplates, Statuses
<1>19. CASE CallFails(p)
  BY <1>2, <1>19 DEF CallFails
<1>20. CASE StoreTemplate(p)
  <2>1. CASE Held /\ (req[p].seen[req[p].thing].there \/ row[req[p].thing].there)
    <3>1. req[p].thing \in Things
      BY <1>20 DEF StoreTemplate, At, TypeInv, Acting, Equipped, Things
    <3> QED BY <1>4, <1>20, <2>1, <3>1 DEF StoreTemplate
  <2>2. CASE ~(Held /\ (req[p].seen[req[p].thing].there \/ row[req[p].thing].there))
    BY <1>2, <1>20, <2>2 DEF StoreTemplate
  <2> QED BY <2>1, <2>2
<1>21. CASE PurgePhones(p) \/ Cut(p) \/ EraseWaba(p) \/ EraseUser(p) \/ Forget(p)
  BY <1>1, <1>2, <1>21 DEF PurgePhones, Cut, EraseWaba, EraseUser, Forget
<1>22. CASE Survey(p)
  <2>1. CASE Ends(p)
    BY <1>2, <2>1
  <2>2. ASSUME NEW goes \in BOOLEAN, NEW numbers \in SUBSET Numbers,
               req' = [req EXCEPT ![p].orphan = goes, ![p].late = FALSE, ![p].step = "erase",
                                  ![p].numbers = numbers]
        PROVE  Goal
    <3> DEFINE r == [req[p] EXCEPT !.orphan = goes, !.late = FALSE, !.step = "erase",
                                   !.numbers = numbers]
    <3>1. r \in Request /\ Equipped(r)
      BY <1>0 DEF Request, Equipped
    <3>2. req' = [req EXCEPT ![p] = r]
      BY <1>0, <2>2
    <3> HIDE DEF r
    <3> QED BY <1>5, <3>1, <3>2
  <2> DEFINE goes == IF req[p].kind = "deleteWaba" THEN TRUE ELSE Orphaned(req[p].user)
             numbers == IF goes THEN Stored ELSE {}
  <2>3. goes \in BOOLEAN /\ numbers \in SUBSET Numbers
    BY DEF Orphaned, Stored
  <2>4. \/ Ends(p)
        \/ req' = [req EXCEPT ![p].orphan = goes, ![p].late = FALSE, ![p].step = "erase",
                               ![p].numbers = numbers]
    BY <1>22 DEF Survey
  <2> HIDE DEF goes, numbers
  <2> QED BY <2>1, <2>2, <2>3, <2>4
<1> QED BY <1>6, <1>7, <1>8, <1>9, <1>10, <1>12, <1>13, <1>14, <1>15, <1>16, <1>18, <1>19,
           <1>20, <1>21, <1>22 DEF Step

\* The type invariant but for the locals of requests
RestTyped ==
    /\ meta \in [Things -> Row]
    /\ reports \in SUBSET [thing: Things, version: 1..MaxVersion, says: Statuses]
    /\ users \in SUBSET Users /\ waba \in Users \cup {None}
    /\ holder \in [Orgs -> Users \cup {None}] /\ token \in SUBSET Users
    /\ row \in [Things -> Row] /\ phone \in [Numbers -> Users \cup {None}]
    /\ feed \in SUBSET Users /\ paid \in SUBSET Orgs
    /\ mix \in Mixes /\ starts \in 0..MaxStarts /\ faults \in 0..MaxFaults
    /\ said \in [Templates -> [0..MaxVersion -> Statuses]]
    /\ heard \in [Things -> 0..MaxVersion] /\ crossed \in SUBSET Things
    /\ leaked \in SUBSET (Numbers \X Users)
    /\ waba = None => /\ token = {} /\ \A o \in Orgs : holder[o] = None
                      /\ \A x \in Things : ~row[x].there
    /\ waba # None => waba \in users
    /\ token \cup feed \subseteq users

\* A row written from something Meta said
LEMMA WrittenTyped ==
  ASSUME NEW x, NEW there \in BOOLEAN, NEW v \in 0..MaxVersion, NEW s \in Statuses
  PROVE  Written(x, there, v, s) \in Row /\ mapStatus(s) \in Statuses
BY DEF Written, Row, mapStatus, Statuses

LEMMA NewestTyped ==
  ASSUME TypeInv, NEW x \in Things, NEW v \in 0..MaxVersion
  PROVE  Newest(x, v) \in 0..MaxVersion /\ Newest(x, v) >= v /\ Newest(x, v) >= heard[x]
BY ConstantsAssumption DEF TypeInv, TypeOK, Newest

\* What a synchronisation writes
LEMMA SaveRowsTyped ==
  ASSUME TypeInv, NEW p \in Requests, NEW which \in SUBSET Things, SaveRows(p, which)
  PROVE  /\ row' \in [Things -> Row] /\ heard' \in [Things -> 0..MaxVersion]
         /\ crossed' \in SUBSET Things
<1>1. ASSUME NEW x \in Things
      PROVE  /\ req[p].seen[x].there \in BOOLEAN /\ req[p].seen[x].version \in 0..MaxVersion
             /\ req[p].seen[x].status \in Statuses
  BY DEF TypeInv, TypeOK, Request, Row
<1>2. row' \in [Things -> Row]
  BY <1>1, WrittenTyped DEF SaveRows, TypeInv, TypeOK
<1>3. heard' \in [Things -> 0..MaxVersion]
  BY <1>1, NewestTyped DEF SaveRows, TypeInv, TypeOK
<1> QED BY <1>2, <1>3 DEF SaveRows, TypeInv, TypeOK

LEMMA EraseTyped ==
  ASSUME EraseAccount
  PROVE  /\ row' \in [Things -> Row] /\ heard' \in [Things -> 0..MaxVersion]
         /\ crossed' = {} /\ waba' = None /\ \A x \in Things : ~row'[x].there
<1>1. ~NoRow.there
  BY DEF NoRow
<1> QED BY <1>1, NoRowTyped, ConstantsAssumption DEF EraseAccount

LEMMA PurgeTyped ==
  ASSUME TypeInv, NEW numbers \in SUBSET Numbers, Purge(numbers)
  PROVE  phone' \in [Numbers -> Users \cup {None}] /\ leaked' \in SUBSET (Numbers \X Users)
BY DEF TypeInv, TypeOK, Purge

LEMMA FaultTyped ==
  ASSUME TypeInv, Fault
  PROVE  faults' \in 0..MaxFaults
BY ConstantsAssumption DEF TypeInv, TypeOK, Fault

\* A request that comes in changes nothing that is stored but who has paid.
LEMMA ArrivesRest ==
  ASSUME TypeInv, NEW p \in Requests, Arrives(p)
  PROVE  /\ RestTyped'
         /\ UNCHANGED <<metaVars, holdVars, rowVars, cacheVars, feed>>
<1> USE ConstantsAssumption
    DEF TypeInv, TypeOK, RestTyped, metaVars, holdVars, rowVars, cacheVars
<1>1. ASSUME NEW kind, NEW u, NEW o, NEW s, Starts(p, kind, u, o, s)
      PROVE  /\ RestTyped'
             /\ UNCHANGED <<metaVars, holdVars, rowVars, cacheVars, feed>>
  BY <1>1 DEF Starts
<1>2. ASSUME NEW o \in Orgs, Pay(p, o)
      PROVE  /\ RestTyped'
             /\ UNCHANGED <<metaVars, holdVars, rowVars, cacheVars, feed>>
  BY <1>2 DEF Pay
<1> HIDE DEF TypeInv, TypeOK, RestTyped, metaVars, holdVars, rowVars, cacheVars
<1>3. CASE \E u \in Users, o \in Orgs :
             \/ Connect(p, u, o) \/ SyncPhoneNumbers(p, u, o) \/ SyncTemplates(p, u, o)
             \/ ChangeTemplate(p, u, o) \/ Disconnect(p, u, o) \/ DeleteWaba(p, u, o)
             \/ DeleteAccount(p, u, o)
  BY <1>1, <1>3 DEF Connect, SyncPhoneNumbers, SyncTemplates, ChangeTemplate, Disconnect,
                    DeleteWaba, DeleteAccount
<1> QED BY <1>2, <1>3 DEF Arrives

\* Neither does a step of a request leave anything ill-formed, or a reference to
\* an account or a user that is gone.
LEMMA StepRest ==
  ASSUME TypeInv, NEW p \in Requests, Step(p)
  PROVE  RestTyped'
<1>0. /\ req[p] \in Request /\ req[p].user \in Users \cup {None}
      /\ req[p].org \in Orgs \cup {None}
  BY DEF TypeInv, TypeOK, Request
<1>1. CASE CheckMembership(p) \/ ReadConnection(p) \/ Survey(p)
  BY <1>1 DEF CheckMembership, ReadConnection, Survey, TypeInv, TypeOK, RestTyped, metaVars,
              holdVars, rowVars, cacheVars, bounds
<1>2. CASE UpsertWaba(p)
  BY <1>0, <1>2 DEF UpsertWaba, Held, TypeInv, TypeOK, RestTyped, metaVars, rowVars, cacheVars,
                    bounds
<1>3. CASE Join(p)
  <2>1. Held => holder' \in [Orgs -> Users \cup {None}]
    BY <1>0, <1>3 DEF Join, TypeInv, TypeOK
  <2> QED BY <1>3, <2>1 DEF Join, Held, TypeInv, TypeOK, RestTyped, metaVars, rowVars, cacheVars,
                            bounds
<1>4. CASE StoreToken(p)
  BY <1>0, <1>4 DEF StoreToken, Held, TypeInv, TypeOK, RestTyped, metaVars, rowVars, cacheVars,
                    bounds
<1>5. CASE ListNumbers(p) \/ ListTemplates(p) \/ CallFails(p)
  BY <1>5, FaultTyped DEF ListNumbers, ListTemplates, CallFails, TypeInv, TypeOK, RestTyped,
                          metaVars, holdVars, rowVars, cacheVars
<1>6. CASE UpsertNumbers(p)
  <2>1. Numbers \in SUBSET Things
    BY DEF Things
  <2>2. CASE Held
    <3>1. row' \in [Things -> Row] /\ heard' \in [Things -> 0..MaxVersion]
          /\ crossed' \in SUBSET Things
      BY <1>6, <2>1, <2>2, SaveRowsTyped DEF UpsertNumbers
    <3>2. phone' \in [Numbers -> Users \cup {None}]
      BY <1>6, <2>2 DEF UpsertNumbers, TypeInv, TypeOK
    <3> QED BY <1>6, <2>2, <3>1, <3>2 DEF UpsertNumbers, Held, TypeInv, TypeOK, RestTyped,
                                          metaVars, holdVars, bounds
  <2>3. CASE ~Held
    BY <1>6, <2>3 DEF UpsertNumbers, TypeInv, TypeOK, RestTyped, metaVars, holdVars, rowVars,
                      bounds
  <2> QED BY <2>2, <2>3
<1>7. CASE PopulatePhoneCache(p)
  <2>1. req[p].by \in Users
    BY <1>7 DEF PopulatePhoneCache, At, TypeInv, Acting, Equipped
  <2>2. phone' \in [Numbers -> Users \cup {None}] /\ leaked' \in SUBSET (Numbers \X Users)
        /\ faults' \in 0..MaxFaults
    BY <1>7, <2>1, FaultTyped DEF PopulatePhoneCache, TypeInv, TypeOK, cacheVars
  <2> QED BY <1>7, <2>2 DEF PopulatePhoneCache, TypeInv, TypeOK, RestTyped, metaVars, holdVars,
                            rowVars
<1>8. CASE UpsertTemplates(p)
  <2> DEFINE listed == {t \in Templates : req[p].seen[t].there}
  <2>1. listed \in SUBSET Things
    BY DEF Things
  <2>2. CASE Held
    <3>1. row' \in [Things -> Row] /\ heard' \in [Things -> 0..MaxVersion]
          /\ crossed' \in SUBSET Things
      BY <1>8, <2>1, <2>2, SaveRowsTyped DEF UpsertTemplates
    <3> QED BY <1>8, <2>2, <3>1 DEF UpsertTemplates, Held, TypeInv, TypeOK, RestTyped,
                                    metaVars, holdVars, cacheVars, bounds
  <2>3. CASE ~Held
    BY <1>8, <2>3 DEF UpsertTemplates, TypeInv, TypeOK, RestTyped, metaVars, holdVars, rowVars,
                      cacheVars, bounds
  <2> QED BY <2>2, <2>3
<1>9. ASSUME NEW t \in Templates,
             \/ CreateTemplate(p, t) \/ CreateFromLibrary(p, t) \/ DeleteTemplate(p, t)
             \/ UpdateTemplate(p, t) \/ MigrateTemplates(p, t)
      PROVE  RestTyped'
  <2>1. PICK b \in BOOLEAN, s \in Statuses :
          /\ Said(t, b, s)
          /\ Tells(t, s) \/ UNCHANGED reports
          /\ UNCHANGED <<holdVars, rowVars, cacheVars, feed, paid, bounds>>
    BY <1>9 DEF CreateTemplate, CreateFromLibrary, DeleteTemplate, UpdateTemplate,
                MigrateTemplates, Statuses, Answered
  <2>2. t \in Things
    BY DEF Things
  <2>3. /\ meta' \in [Things -> Row]
        /\ said' \in [Templates -> [0..MaxVersion -> Statuses]]
        /\ Tells(t, s) => reports' \in SUBSET [thing: Things, version: 1..MaxVersion,
                                               says: Statuses]
    BY <2>1, <2>2, SaidTyped
  <2> QED BY <2>1, <2>3 DEF TypeInv, TypeOK, RestTyped, holdVars, rowVars, cacheVars, bounds
<1>10. CASE StoreTemplate(p)
  <2> DEFINE t == req[p].thing
  <2>1. t \in Templates /\ t \in Things
    BY <1>10 DEF StoreTemplate, At, TypeInv, Acting, Equipped, Things
  <2>2. /\ req[p].seen[t].there \in BOOLEAN /\ req[p].seen[t].version \in 0..MaxVersion
        /\ req[p].seen[t].status \in Statuses
    BY <1>0, <2>1 DEF Request, Row
  <2>3. CASE Held /\ (req[p].seen[t].there \/ row[t].there)
    <3>0. /\ row' = [row EXCEPT ![t] = Written(t, TRUE, req[p].seen[t].version,
                                                mapStatus(req[p].seen[t].status))]
          /\ heard' = [heard EXCEPT ![t] = Newest(t, req[p].seen[t].version)]
          /\ crossed' = (crossed \ {t}) \cup ({t} \cap req[p].behind)
      BY <1>10, <2>3 DEF StoreTemplate
    <3>a. /\ Written(t, TRUE, req[p].seen[t].version, mapStatus(req[p].seen[t].status)) \in Row
          /\ Newest(t, req[p].seen[t].version) \in 0..MaxVersion
      BY <2>1, <2>2, WrittenTyped, NewestTyped
    <3> HIDE DEF t
    <3>1. row' \in [Things -> Row]
      BY <2>1, <3>0, <3>a DEF TypeInv, TypeOK
    <3>2. heard' \in [Things -> 0..MaxVersion] /\ crossed' \in SUBSET Things
      BY <2>1, <3>0, <3>a DEF TypeInv, TypeOK
    <3> USE DEF t
    <3> QED BY <1>10, <2>3, <3>1, <3>2 DEF StoreTemplate, Held, TypeInv, TypeOK, RestTyped,
                                           metaVars, holdVars, cacheVars, bounds
  <2>4. CASE ~(Held /\ (req[p].seen[t].there \/ row[t].there))
    BY <1>10, <2>4 DEF StoreTemplate, TypeInv, TypeOK, RestTyped, metaVars, holdVars, rowVars,
                       cacheVars, bounds
  <2> QED BY <2>3, <2>4
<1>11. CASE PurgePhones(p)
  <2>1. Stored \in SUBSET Numbers
    BY DEF Stored
  <2>2. phone' \in [Numbers -> Users \cup {None}] /\ leaked' \in SUBSET (Numbers \X Users)
        /\ faults' \in 0..MaxFaults
    BY <1>11, <2>1, PurgeTyped, FaultTyped DEF PurgePhones, TypeInv, TypeOK, cacheVars
  <2> QED BY <1>11, <2>2 DEF PurgePhones, TypeInv, TypeOK, RestTyped, metaVars, holdVars, rowVars
<1>12. CASE Cut(p)
  <2>1. holder' \in [Orgs -> Users \cup {None}] /\ token' \in SUBSET token
        /\ \A o \in Orgs : holder'[o] \in {holder[o], None}
    BY <1>0, <1>12 DEF Cut, TypeInv, TypeOK
  <2> QED BY <1>12, <2>1 DEF Cut, TypeInv, TypeOK, RestTyped, metaVars, rowVars, cacheVars, bounds
<1>13. \A gone \in SUBSET Users : Unreached(p, gone) \in SUBSET (Numbers \X Users)
  BY DEF Unreached
<1>14. CASE EraseWaba(p)
  <2>1. CASE Held
    <3>1. leaked' \in SUBSET (Numbers \X Users)
      BY <1>13, <1>14, <2>1 DEF EraseWaba, TypeInv, TypeOK
    <3>2. holder' = [o \in Orgs |-> None] /\ token' = {} /\ EraseAccount
      BY <1>14, <2>1 DEF EraseWaba
    <3> QED BY <1>14, <3>1, <3>2, EraseTyped DEF EraseWaba, TypeInv, TypeOK, RestTyped, metaVars,
                                                 bounds
  <2>2. CASE ~Held
    BY <1>14, <2>2 DEF EraseWaba, TypeInv, TypeOK, RestTyped, metaVars, rowVars, bounds
  <2> QED BY <2>1, <2>2
<1>15. CASE EraseUser(p)
  <2> DEFINE u == req[p].user
  <2>1. CASE u \in users /\ Unreferenced(p, u)
    <3>1. token' \in SUBSET token /\ u \notin token' /\ users' = users \ {u} /\ u \notin feed
      BY <1>15, <2>1 DEF EraseUser, Connections, Unreferenced
    <3>2. leaked' \in SUBSET (Numbers \X Users)
      BY <1>13, <1>15, <2>1 DEF EraseUser, TypeInv, TypeOK
    <3>3. CASE req[p].orphan
      <4>1. holder' = [o \in Orgs |-> None] /\ token' = {} /\ EraseAccount
        BY <1>15, <2>1, <3>3 DEF EraseUser, Connections
      <4> QED BY <1>15, <3>1, <3>2, <4>1, EraseTyped
              DEF EraseUser, TypeInv, TypeOK, RestTyped, metaVars, bounds
    <3>4. CASE ~req[p].orphan
      <4>1. /\ holder' = [o \in Orgs |-> IF holder[o] = u THEN None ELSE holder[o]]
            /\ waba # u /\ UNCHANGED <<waba, rowVars>>
        BY <1>15, <2>1, <3>4 DEF EraseUser, Unreferenced
      <4> QED BY <1>15, <3>1, <3>2, <4>1
              DEF EraseUser, TypeInv, TypeOK, RestTyped, metaVars, rowVars, bounds
    <3> QED BY <3>3, <3>4
  <2>2. CASE ~(u \in users /\ Unreferenced(p, u))
    BY <1>15, <2>2 DEF EraseUser, TypeInv, TypeOK, RestTyped, metaVars, holdVars, rowVars, bounds
  <2> QED BY <2>1, <2>2
<1>16. CASE Forget(p)
  <2>1. req[p].numbers \in SUBSET Numbers
    BY <1>0 DEF Request
  <2>2. phone' \in [Numbers -> Users \cup {None}] /\ leaked' \in SUBSET (Numbers \X Users)
        /\ faults' \in 0..MaxFaults
    BY <1>16, <2>1, PurgeTyped, FaultTyped DEF Forget, TypeInv, TypeOK
  <2> QED BY <1>16, <2>2 DEF Forget, TypeInv, TypeOK, RestTyped, metaVars, holdVars, rowVars
<1> QED BY <1>1, <1>2, <1>3, <1>4, <1>5, <1>6, <1>7, <1>8, <1>9, <1>10, <1>11, <1>12, <1>14,
           <1>15, <1>16 DEF Step

\* Meta says something on its own.
LEMMA MetaRest ==
  ASSUME TypeInv, MetaNext
  PROVE  RestTyped'
<1>1. PICK x \in Things, b \in BOOLEAN, s \in Statuses :
        /\ Said(x, b, s)
        /\ Tells(x, s) \/ UNCHANGED reports
  BY DEF MetaNext, Things, Statuses, TypeInv, TypeOK, Row
<1>2. /\ meta' \in [Things -> Row]
      /\ said' \in [Templates -> [0..MaxVersion -> Statuses]]
      /\ Tells(x, s) => reports' \in SUBSET [thing: Things, version: 1..MaxVersion,
                                             says: Statuses]
  BY <1>1, SaidTyped
<1> QED BY <1>1, <1>2 DEF MetaNext, TypeInv, TypeOK, RestTyped, holdVars, rowVars, cacheVars,
                          bounds

\* A report comes in.
LEMMA ReportTyped ==
  ASSUME TypeInv, NEW r \in reports, TemplateReport(r) \/ NumberReport(r)
  PROVE  RestTyped' /\ req' \in [Requests -> Request] /\ \A q \in Requests : Kept(q)
<1> DEFINE x == r.thing
<1>1. x \in Things /\ r.version \in 1..MaxVersion /\ r.says \in Statuses
  BY DEF TypeInv, TypeOK
<1>2. Record(r)
  BY DEF TemplateReport, NumberReport
<1>3. req' = [q \in Requests |-> Overtaken(q, {x})]
  BY <1>2 DEF Record
<1>4. req' \in [Requests -> Request] /\ \A q \in Requests : Kept(q)
  <2>1. {x} \in SUBSET Things /\ req \in [Requests -> Request]
    BY <1>1 DEF TypeInv, TypeOK
  <2>2. \A q \in Requests : Overtaken(q, {x}) \in Request
    BY <2>1, OvertakenTyped
  <2>3. ASSUME NEW q \in Requests PROVE Kept(q)
    <3>1. req'[q] = Overtaken(q, {x})
      BY <1>3
    <3> HIDE DEF x
    <3> QED BY <2>1, <3>1, OvertakenIsKept
  <2> QED BY <1>3, <2>2, <2>3
<1>5. feed' \in SUBSET users
  BY DEF TemplateReport, NumberReport, TypeInv, TypeOK
<1>6. /\ row' \in [Things -> Row] /\ heard' \in [Things -> 0..MaxVersion]
      /\ crossed' \in SUBSET Things
      /\ \A y \in Things : row'[y].there = row[y].there
  <2>1. CASE ~row[x].there
    BY <1>2, <2>1 DEF Record, rowVars, TypeInv, TypeOK
  <2>2. CASE row[x].there
    <3>1. /\ row' = [row EXCEPT ![x] = Written(x, TRUE, r.version, r.says)]
          /\ heard' = [heard EXCEPT ![x] = Newest(x, r.version)]
          /\ crossed' \in {crossed \cup {x}, crossed \ {x}}
      BY <1>2, <2>2 DEF Record
    <3>2. r.version \in 0..MaxVersion
      BY <1>1
    <3>3. /\ Written(x, TRUE, r.version, r.says) \in Row
          /\ Written(x, TRUE, r.version, r.says).there = TRUE
          /\ Newest(x, r.version) \in 0..MaxVersion
      BY <1>1, <3>2, WrittenTyped, NewestTyped DEF Written
    <3> HIDE DEF x
    <3>4. row[x].there = TRUE
      BY <1>1, <2>2 DEF TypeInv, TypeOK, Row
    <3> QED BY <1>1, <3>1, <3>3, <3>4 DEF TypeInv, TypeOK
  <2> QED BY <2>1, <2>2
<1> QED BY <1>2, <1>4, <1>5, <1>6 DEF Record, TypeInv, TypeOK, RestTyped, holdVars, cacheVars,
                                      bounds

\* A request that was only overtaken still has what it needs.
LEMMA KeptEquipped ==
  ASSUME TypeInv, NEW q \in Requests, Kept(q)
  PROVE  /\ Equipped(req'[q])
         /\ req'[q].step = req[q].step /\ req'[q].kind = req[q].kind
         /\ req'[q].user = req[q].user /\ req'[q].org = req[q].org
         /\ req'[q].orphan = req[q].orphan /\ req'[q].numbers = req[q].numbers
         /\ req'[q].seen = req[q].seen
<1>1. req[q] \in Request /\ Equipped(req[q])
  BY DEF TypeInv, TypeOK, Acting
<1>2. /\ req'[q].step = req[q].step /\ req'[q].kind = req[q].kind
      /\ req'[q].user = req[q].user /\ req'[q].org = req[q].org
      /\ req'[q].orphan = req[q].orphan /\ req'[q].numbers = req[q].numbers
      /\ req'[q].seen = req[q].seen /\ req'[q].by = req[q].by /\ req'[q].thing = req[q].thing
  BY <1>1 DEF Kept, Request
<1> QED BY <1>1, <1>2 DEF Equipped

LEMMA TypeInit == Init => TypeInv
<1> SUFFICES ASSUME Init PROVE TypeInv
    OBVIOUS
<1>1. meta \in [Things -> Row]
  <2>1. [NoRow EXCEPT !.there = TRUE, !.version = 1] \in Row
    <3>1. 1 \in 0..MaxVersion
      BY ConstantsAssumption
    <3>2. \A r \in Row : [r EXCEPT !.there = TRUE, !.version = 1] \in Row
      BY <3>1 DEF Row
    <3> QED BY <3>2, NoRowTyped
  <2> QED BY <2>1, NoRowTyped DEF Init
<1>2. req \in [Requests -> Request] /\ Acting
  BY IdleTyped DEF Init, Acting, Equipped, Idle
<1>3. row \in [Things -> Row] /\ \A x \in Things : ~row[x].there
  BY NoRowTyped DEF Init, NoRow
<1> QED BY <1>1, <1>2, <1>3, ConstantsAssumption DEF Init, TypeInv, TypeOK, Statuses

LEMMA TypeStep == TypeInv /\ [Next]_vars => TypeInv'
<1> SUFFICES ASSUME TypeInv, [Next]_vars PROVE TypeInv'
    OBVIOUS
<1>1. ASSUME RestTyped', req' \in [Requests -> Request], \A q \in Requests : Equipped(req'[q])
      PROVE  TypeInv'
  BY <1>1 DEF RestTyped, TypeInv, TypeOK, Acting
<1>2. CASE UNCHANGED vars
  BY <1>2 DEF vars, metaVars, holdVars, rowVars, cacheVars, bounds, TypeInv, TypeOK, Acting,
              Things
<1>3. CASE MetaNext
  <2>1. req' = req
    BY <1>3 DEF MetaNext
  <2> QED BY <1>1, <1>3, <2>1, MetaRest DEF TypeInv, TypeOK, Acting
<1>4. ASSUME NEW r \in reports, TemplateReport(r) \/ NumberReport(r)
      PROVE  TypeInv'
  BY <1>1, <1>4, ReportTyped, KeptEquipped
<1>5. ASSUME NEW p \in Requests, Arrives(p)
      PROVE  TypeInv'
  <2>1. \A q \in Requests : Equipped(req'[q])
    BY <1>5, ArrivesTyped DEF TypeInv, Acting, Equipped
  <2> QED BY <1>1, <1>5, <2>1, ArrivesTyped, ArrivesRest
<1>6. ASSUME NEW p \in Requests, Step(p)
      PROVE  TypeInv'
  <2>1. \A q \in Requests : Equipped(req'[q])
    BY <1>6, StepTyped, KeptEquipped
  <2> QED BY <1>1, <1>6, <2>1, StepTyped, StepRest
<1> QED BY <1>2, <1>3, <1>4, <1>5, <1>6 DEF Next

\* Every row, cache entry and local keeps its type, and no row refers to an
\* account or a user that is gone.
THEOREM TypeCorrect == Spec => []TypeOK
<1>1. TypeInv => TypeOK
  BY DEF TypeInv
<1> QED BY <1>1, TypeInit, TypeStep, PTL DEF Spec

-----------------------------------------------------------------------------
(* Who goes where *)

\* The only ways to the steps that the invariants below are about
LEMMA OwnStep ==
  ASSUME TypeInv, NEW p \in Requests, Step(p)
  PROVE  /\ req'[p].step = "erase" => Survey(p)
         /\ req'[p].step = "cut" => PurgePhones(p)
         /\ req'[p].step = "forget" => EraseWaba(p) \/ EraseUser(p)
         /\ req'[p].step = "save" => ListNumbers(p)
         /\ req'[p].step = "copy" => ListTemplates(p)
         /\ req'[p].step = "write"
              => \E t \in Templates : \/ CreateTemplate(p, t) \/ CreateFromLibrary(p, t)
                                      \/ DeleteTemplate(p, t)
<1> DEFINE Watched == {"erase", "cut", "forget", "save", "copy", "write"}
           Elsewhere == req'[p].step \notin Watched
<1>0. req \in [Requests -> Request] /\ req[p] \in Request
  BY DEF TypeInv, TypeOK
<1>1. ASSUME NEW s \in Steps, Goes(p, s)
      PROVE  req'[p].step = s
  BY <1>0, <1>1 DEF Goes, Request
<1>2. ASSUME Ends(p)
      PROVE  req'[p].step = "idle"
  BY <1>0, <1>2 DEF Ends, Idle
<1>3. ASSUME NumbersDone(p)
      PROVE  Elsewhere
  BY <1>1, <1>2, <1>3 DEF NumbersDone, Steps
<1>4. ASSUME NEW which \in SUBSET Things, NEW s \in {"idle", "fill"}, GoesOn(p, which, s)
      PROVE  Elsewhere
  BY <1>0, <1>4 DEF GoesOn, Idle, Request
<1>5. CASE CheckMembership(p) \/ UpsertWaba(p) \/ StoreToken(p) \/ CallFails(p) \/ Cut(p)
           \/ Forget(p) \/ PopulatePhoneCache(p)
  <2>1. Elsewhere
    BY <1>1, <1>2, <1>3, <1>5 DEF CheckMembership, UpsertWaba, StoreToken, CallFails, Cut, Forget,
                                  PopulatePhoneCache, Steps
  <2> QED BY <2>1
<1>6. CASE Join(p)
  <2>1. Elsewhere
    BY <1>0, <1>2, <1>6 DEF Join, Request
  <2> QED BY <2>1
<1>7. CASE ReadConnection(p)
  <2>1. Elsewhere
    BY <1>0, <1>2, <1>7 DEF ReadConnection, Request
  <2> QED BY <2>1
<1>8. CASE UpsertNumbers(p) \/ UpsertTemplates(p) \/ StoreTemplate(p)
  <2>1. {t \in Templates : req[p].seen[t].there} \in SUBSET Things /\ Numbers \in SUBSET Things
    BY DEF Things
  <2>2. StoreTemplate(p) => {req[p].thing} \in SUBSET Things
    BY DEF StoreTemplate, At, TypeInv, Acting, Equipped, Things
  <2>3. Elsewhere
    BY <1>2, <1>3, <1>4, <1>8, <2>1, <2>2 DEF UpsertNumbers, UpsertTemplates, StoreTemplate
  <2> QED BY <2>3
<1>9. CASE ListNumbers(p)
  <2>1. req'[p].step \in {"save", "idle", "templates"}
    BY <1>0, <1>2, <1>9, <1>1 DEF ListNumbers, NumbersDone, Request, Steps
  <2> QED BY <1>9, <2>1
<1>10. CASE ListTemplates(p)
  <2>1. req'[p].step \in {"copy", "idle"}
    BY <1>0, <1>2, <1>10 DEF ListTemplates, Request
  <2> QED BY <1>10, <2>1
<1>11. ASSUME NEW t \in Templates, UpdateTemplate(p, t) \/ MigrateTemplates(p, t)
       PROVE  Elsewhere
  <2>1. CASE UpdateTemplate(p, t)
    BY <1>2, <2>1 DEF UpdateTemplate
  <2>2. CASE MigrateTemplates(p, t)
    <3>1. meta' \in [Things -> Row]
      BY <2>2, SaidTyped DEF MigrateTemplates, Things, Statuses
    <3> QED BY <2>2, <3>1, AnsweredTyped DEF MigrateTemplates, Steps
  <2> QED BY <1>11, <2>1, <2>2
<1>12. ASSUME NEW t \in Templates,
              CreateTemplate(p, t) \/ CreateFromLibrary(p, t) \/ DeleteTemplate(p, t)
       PROVE  req'[p].step = "write"
  <2>1. meta' \in [Things -> Row]
    BY <1>12, SaidTyped DEF CreateTemplate, CreateFromLibrary, DeleteTemplate, Things, Statuses
  <2>2. Answered(p, t, "write")
    BY <1>12 DEF CreateTemplate, CreateFromLibrary, DeleteTemplate
  <2> QED BY <2>1, <2>2, AnsweredTyped DEF Steps
<1>13. CASE PurgePhones(p)
  <2>1. req'[p].step \in {"cut", "idle"}
    BY <1>1, <1>2, <1>13 DEF PurgePhones, Steps
  <2> QED BY <1>13, <2>1
<1>14. CASE EraseWaba(p) \/ EraseUser(p)
  <2>1. req'[p].step \in {"forget", "idle"}
    BY <1>1, <1>2, <1>14 DEF EraseWaba, EraseUser, Steps
  <2> QED BY <1>14, <2>1
<1>15. CASE Survey(p)
  <2>1. req'[p].step \in {"erase", "idle"}
    <3>1. ASSUME NEW goes, NEW numbers,
                 req' = [req EXCEPT ![p].orphan = goes, ![p].late = FALSE, ![p].step = "erase",
                                    ![p].numbers = numbers]
          PROVE  req'[p].step = "erase"
      BY <1>0, <3>1 DEF Request
    <3> QED BY <1>2, <1>15, <3>1 DEF Survey
  <2> QED BY <1>15, <2>1
<1> QED BY <1>5, <1>6, <1>7, <1>8, <1>9, <1>10, <1>11, <1>12, <1>13, <1>14, <1>15 DEF Step

\* Memberships come from joining only.
LEMMA HoldersShrink ==
  ASSUME TypeInv, NEW p \in Requests, Step(p), ~Join(p)
  PROVE  \A o \in Orgs : holder'[o] \in {holder[o], None}
<1>1. CASE UNCHANGED holder
  BY <1>1
<1>2. CASE Cut(p)
  BY <1>2 DEF Cut, TypeInv, TypeOK
<1>3. CASE EraseWaba(p) \/ EraseUser(p)
  BY <1>3 DEF EraseWaba, EraseUser, holdVars, TypeInv, TypeOK
<1> QED BY <1>1, <1>2, <1>3
        DEF Step, CheckMembership, UpsertWaba, StoreToken, ReadConnection, ListNumbers,
            UpsertNumbers, PopulatePhoneCache, ListTemplates, UpsertTemplates, CreateTemplate,
            CreateFromLibrary, DeleteTemplate, UpdateTemplate, MigrateTemplates, Answered,
            CallFails, StoreTemplate, PurgePhones, Survey, Forget, holdVars

-----------------------------------------------------------------------------
(* Leaving a shared account *)

\* Whoever is about to erase the account has seen that nobody else holds it, and
\* is told when somebody has joined since.
AloneIn(r) ==
    r.step = "erase" /\ ~r.late =>
      IF r.kind = "deleteWaba" THEN \A o \in Orgs \ {r.org} : holder[o] = None
        ELSE r.orphan => \A o \in Orgs : holder[o] \in {None, r.user}

Alone == \A p \in Requests : AloneIn(req[p])

LEMMA AloneStep == TypeInv /\ Alone /\ [Next]_vars => Alone'
<1> SUFFICES ASSUME TypeInv, Alone, [Next]_vars, NEW q \in Requests,
                    req'[q].step = "erase", ~req'[q].late
             PROVE  IF req'[q].kind = "deleteWaba"
                      THEN \A o \in Orgs \ {req'[q].org} : holder'[o] = None
                      ELSE req'[q].orphan
                             => \A o \in Orgs : holder'[o] \in {None, req'[q].user}
    BY DEF Alone, AloneIn
<1> DEFINE Goal == IF req'[q].kind = "deleteWaba"
                      THEN \A o \in Orgs \ {req'[q].org} : holder'[o] = None
                      ELSE req'[q].orphan
                             => \A o \in Orgs : holder'[o] \in {None, req'[q].user}
<1>1. ASSUME Kept(q), \A o \in Orgs : holder'[o] \in {holder[o], None}
      PROVE  Goal
  <2>1. req[q].step = "erase" /\ ~req[q].late
    BY <1>1, KeptEquipped DEF Kept
  <2>2. AloneIn(req[q])
    BY DEF Alone
  <2> QED BY <1>1, <2>1, <2>2, KeptEquipped DEF AloneIn
<1>2. CASE UNCHANGED <<req, holder>>
  <2>1. Kept(q)
    BY <1>2, SameIsKept DEF TypeInv, TypeOK
  <2> QED BY <1>1, <1>2, <2>1
<1>3. CASE UNCHANGED vars \/ MetaNext
  BY <1>2, <1>3 DEF vars, MetaNext, holdVars
<1>4. ASSUME NEW r \in reports, TemplateReport(r) \/ NumberReport(r)
      PROVE  Goal
  <2>1. UNCHANGED holder
    BY <1>4 DEF TemplateReport, NumberReport, Record, holdVars
  <2> QED BY <1>1, <1>4, <2>1, ReportTyped
<1>5. ASSUME NEW p \in Requests, Arrives(p)
      PROVE  Goal
  <2>1. req'[q] = req[q]
    BY <1>5, ArrivesTyped
  <2>2. UNCHANGED holder
    BY <1>5, ArrivesRest DEF holdVars
  <2>3. Kept(q)
    BY <2>1, SameIsKept DEF TypeInv, TypeOK
  <2> QED BY <1>1, <2>2, <2>3
<1>6. ASSUME NEW p \in Requests, Step(p), p # q
      PROVE  Goal
  <2>1. Kept(q)
    BY <1>6, StepTyped
  <2>2. CASE Join(p)
    <3>1. req[q].step = "erase"
      BY <2>1, KeptEquipped
    <3>2. ~Held
      <4> SUFFICES ASSUME Held PROVE FALSE
        OBVIOUS
      <4>1. req'[q] = [req[q] EXCEPT !.late = TRUE]
        BY <1>6, <2>2, <3>1 DEF Join, At
      <4>2. req[q] \in Request
        BY DEF TypeInv, TypeOK
      <4> QED BY <4>1, <4>2 DEF Request
    <3> QED BY <1>1, <2>1, <2>2, <3>2 DEF Join
  <2>3. CASE ~Join(p)
    BY <1>1, <1>6, <2>1, <2>3, HoldersShrink
  <2> QED BY <2>2, <2>3
<1>7. CASE Step(q)
  <2>1. Survey(q)
    BY <1>7, OwnStep
  <2>2. req[q] \in Request /\ req \in [Requests -> Request]
    BY DEF TypeInv, TypeOK
  <2> DEFINE goes == IF req[q].kind = "deleteWaba" THEN TRUE ELSE Orphaned(req[q].user)
  <2>3. ASSUME Ends(q) PROVE FALSE
    BY <2>2, <2>3, EndsTyped DEF Idle
  <2>4. /\ ~(req[q].kind = "deleteWaba"
              /\ (~Holds(req[q].org) \/ \E o \in Orgs \ {req[q].org} : Holds(o)))
        /\ \E numbers : req' = [req EXCEPT ![q].orphan = goes, ![q].late = FALSE,
                                           ![q].step = "erase", ![q].numbers = numbers]
        /\ UNCHANGED holder
    BY <2>1, <2>3 DEF Survey, holdVars
  <2>5. goes \in BOOLEAN
    BY DEF Orphaned
  <2>6. /\ req'[q].kind = req[q].kind /\ req'[q].org = req[q].org
        /\ req'[q].user = req[q].user /\ req'[q].orphan = goes
    <3> HIDE DEF goes
    <3> QED BY <2>2, <2>4 DEF Request
  <2> QED BY <2>4, <2>6 DEF Holds, Orphaned
<1> QED BY <1>3, <1>4, <1>5, <1>6, <1>7 DEF Next

LEMMA AloneInit == Init => Alone
BY DEF Init, Alone, AloneIn, Idle

\* Leaving takes a membership, a connection and, from somebody who is alone, the
\* account.
LEMMA LeavingSpares ==
  ASSUME TypeInv, Alone, NEW p \in Requests, NEW o \in Orgs,
         Cut(p) \/ EraseWaba(p) \/ EraseUser(p),
         Holds(o), o # req[p].org, holder[o] # req[p].user, ~req[p].late
  PROVE  /\ Held' /\ holder'[o] = holder[o] /\ row' = row
         /\ holder[o] \in token => holder[o] \in token'
<1> USE DEF Holds, Held
<1>1. CASE Cut(p)
  BY <1>1 DEF Cut, rowVars, TypeInv, TypeOK
<1>2. CASE EraseWaba(p)
  BY <1>2 DEF EraseWaba, At, Alone, AloneIn
<1>3. CASE EraseUser(p)
  <2>1. CASE req[p].user \in users /\ Unreferenced(p, req[p].user)
    <3>1. ~req[p].orphan
      BY <1>3 DEF EraseUser, At, Alone, AloneIn
    <3> QED BY <1>3, <2>1, <3>1 DEF EraseUser, Connections, rowVars, TypeInv, TypeOK
  <2>2. CASE ~(req[p].user \in users /\ Unreferenced(p, req[p].user))
    BY <1>3, <2>2 DEF EraseUser, holdVars, rowVars
  <2> QED BY <2>1, <2>2
<1> QED BY <1>1, <1>2, <1>3

\* Nobody else's request is moved on.
LEMMA LeavesItself ==
  ASSUME TypeInv, [Next]_vars, NEW p \in Requests, req[p].step \in {"cut", "erase"},
         req'[p].step # req[p].step
  PROVE  Cut(p) \/ EraseWaba(p) \/ EraseUser(p)
<1>1. ASSUME Kept(p) PROVE FALSE
  BY <1>1, KeptEquipped
<1>2. CASE UNCHANGED vars \/ MetaNext
  BY <1>2 DEF vars, MetaNext
<1>3. ASSUME NEW r \in reports, TemplateReport(r) \/ NumberReport(r)
      PROVE  FALSE
  BY <1>1, <1>3, ReportTyped
<1>4. ASSUME NEW q \in Requests, Arrives(q)
      PROVE  FALSE
  BY <1>4, ArrivesTyped DEF At
<1>5. ASSUME NEW q \in Requests, Step(q), q # p
      PROVE  FALSE
  BY <1>1, <1>5, StepTyped
<1>6. CASE Step(p)
  BY <1>6 DEF Step, At, CheckMembership, UpsertWaba, Join, StoreToken, ReadConnection, ListNumbers,
              UpsertNumbers, PopulatePhoneCache, ListTemplates, UpsertTemplates, CreateTemplate,
              CreateFromLibrary, DeleteTemplate, UpdateTemplate, MigrateTemplates, CallFails,
              StoreTemplate, PurgePhones, Survey, Forget
<1> QED BY <1>2, <1>3, <1>4, <1>5, <1>6 DEF Next

\* Whoever leaves, disconnecting or deleting, takes nothing from an organisation
\* that somebody else brought the account into, whatever else is under way.
THEOREM SharedAccountsSurvive == Spec => SharedSurvives
<1>1. TypeInv /\ Alone /\ [Next]_vars =>
        [\A p \in Requests, o \in Orgs :
           LET r == req[p]
               other == Holds(o) /\ o # r.org /\ holder[o] # r.user /\ ~r.late IN
           (r.step \in {"cut", "erase"} /\ req'[p].step # r.step /\ other) =>
             /\ Held' /\ holder'[o] = holder[o] /\ row' = row
             /\ holder[o] \in token => holder[o] \in token']_vars
  BY LeavingSpares, LeavesItself
<1> QED BY <1>1, TypeInit, TypeStep, AloneInit, AloneStep, PTL DEF Spec, SharedSurvives

-----------------------------------------------------------------------------
(* Cached tokens *)

Dropping(n) == \E p \in Requests : At(p, "forget") /\ n \in req[p].numbers

\* A cached token is one a purge missed, one somebody is about to drop, or that of
\* a connection whose number is stored: the purge of a disconnection will find it,
\* and until the connection is cut nothing else is cached.
Followed(n) ==
    \/ <<n, phone[n]>> \in leaked
    \/ Dropping(n)
    \/ phone[n] \in token /\ row[n].there /\ \A q \in Requests : ~At(q, "cut")

CacheInv == \A n \in Numbers : phone[n] # None => Followed(n)

LEMMA CacheInit == Init => CacheInv
BY DEF Init, CacheInv

\* Nobody else is about to cut a connection, and whoever was dropping entries is.
Undisturbed ==
    \A q \in Requests :
      /\ req[q].step = "forget" => req'[q].step = "forget" /\ req'[q].numbers = req[q].numbers
      /\ req'[q].step = "cut" => req[q].step = "cut"

LEMMA MovesUndisturbed ==
  ASSUME TypeInv, NEW p \in Requests, Step(p)
  PROVE  /\ ~PurgePhones(p) /\ ~At(p, "forget") => Undisturbed
         /\ \A q \in Requests \ {p} :
              /\ req[q].step = "forget"
                   => req'[q].step = "forget" /\ req'[q].numbers = req[q].numbers
              /\ req'[q].step = "cut" => req[q].step = "cut"
<1>1. \A q \in Requests \ {p} :
        /\ req[q].step = "forget"
             => req'[q].step = "forget" /\ req'[q].numbers = req[q].numbers
        /\ req'[q].step = "cut" => req[q].step = "cut"
  BY StepTyped, KeptEquipped
<1>2. ~PurgePhones(p) => req'[p].step # "cut"
  BY OwnStep
<1> QED BY <1>1, <1>2 DEF Undisturbed, At

\* A step that leaves an entry, and what it rests on, alone
LEMMA FollowedStays ==
  ASSUME TypeInv, NEW n \in Numbers, Followed(n), Undisturbed,
         phone'[n] = phone[n], <<n, phone[n]>> \in leaked => <<n, phone[n]>> \in leaked',
         token \subseteq token', row[n].there => row'[n].there
  PROVE  Followed(n)'
<1>1. CASE <<n, phone[n]>> \in leaked
  BY <1>1 DEF Followed
<1>2. CASE Dropping(n)
  BY <1>2 DEF Followed, Dropping, At, Undisturbed
<1>3. CASE phone[n] \in token /\ row[n].there /\ \A q \in Requests : ~At(q, "cut")
  BY <1>3 DEF Followed, At, Undisturbed
<1> QED BY <1>1, <1>2, <1>3 DEF Followed

\* An entry somebody else was dropping, or a purge missed, still is one.
LEMMA MissedStays ==
  ASSUME TypeInv, NEW p \in Requests, Step(p), NEW n \in Numbers, phone'[n] = phone[n],
         <<n, phone[n]>> \in leaked => <<n, phone[n]>> \in leaked',
         \/ <<n, phone[n]>> \in leaked
         \/ \E q \in Requests \ {p} : At(q, "forget") /\ n \in req[q].numbers
  PROVE  Followed(n)'
<1>1. CASE <<n, phone[n]>> \in leaked
  BY <1>1 DEF Followed
<1>2. ASSUME NEW q \in Requests \ {p}, At(q, "forget") /\ n \in req[q].numbers
      PROVE  Followed(n)'
  BY <1>2, MovesUndisturbed DEF Followed, Dropping, At
<1> QED BY <1>1, <1>2

\* The steps that cache, purge or erase
LEMMA CacheMoves ==
  ASSUME TypeInv, CacheInv, NEW p \in Requests, Step(p), NEW n \in Numbers, phone'[n] # None
  PROVE  /\ UpsertNumbers(p) => Followed(n)'
         /\ PopulatePhoneCache(p) => Followed(n)'
         /\ PurgePhones(p) => Followed(n)'
         /\ Cut(p) => Followed(n)'
         /\ EraseWaba(p) => Followed(n)'
         /\ EraseUser(p) => Followed(n)'
         /\ Forget(p) => Followed(n)'
<1>0. /\ req[p] \in Request /\ req \in [Requests -> Request] /\ n \in Things
      /\ phone[n] # None => Followed(n) /\ phone[n] \in Users
      /\ phone \in [Numbers -> Users \cup {None}]
  BY DEF TypeInv, TypeOK, CacheInv, Things
<1>1. CASE UpsertNumbers(p)
  <2>1. Undisturbed
    BY <1>1, MovesUndisturbed DEF UpsertNumbers, PurgePhones, At
  <2>2. CASE Held
    <3>1. /\ phone'[n] = phone[n] /\ ~(row[n].there /\ ~req[p].seen[n].there)
          /\ row'[n] = Written(n, req[p].seen[n].there, req[p].seen[n].version,
                               mapStatus(req[p].seen[n].status))
      BY <1>0, <1>1, <2>2 DEF UpsertNumbers, SaveRows
    <3>2. row[n].there => row'[n].there
      BY <3>1 DEF Written
    <3> QED BY <1>0, <1>1, <2>1, <3>1, <3>2, FollowedStays DEF UpsertNumbers, holdVars
  <2>3. CASE ~Held
    BY <1>0, <1>1, <2>1, <2>3, FollowedStays DEF UpsertNumbers, holdVars, rowVars
  <2> QED BY <2>2, <2>3
<1>2. CASE PopulatePhoneCache(p)
  <2>1. Undisturbed /\ req'[p].step # "cut"
    BY <1>2, MovesUndisturbed, OwnStep DEF PopulatePhoneCache, PurgePhones, At
  <2>2. CASE UNCHANGED cacheVars
    BY <1>0, <1>2, <2>1, <2>2, FollowedStays DEF PopulatePhoneCache, holdVars, rowVars, cacheVars
  <2> DEFINE by == req[p].by
             there == {m \in Numbers : req[p].seen[m].there}
             late == {m \in there : by \notin token \/ ~row[m].there
                                      \/ \E q \in Requests \ {p} : At(q, "cut")}
  <2>3. CASE /\ phone' = [m \in Numbers |-> IF m \in there THEN by ELSE phone[m]]
             /\ leaked' = {l \in leaked : l[1] \notin there} \cup (late \X {by})
    <3>1. CASE n \notin there
      <4>1. phone'[n] = phone[n] /\ (<<n, phone[n]>> \in leaked => <<n, phone[n]>> \in leaked')
        BY <2>3, <3>1
      <4> QED BY <1>0, <1>2, <2>1, <4>1, FollowedStays DEF PopulatePhoneCache, holdVars, rowVars
    <3>2. CASE n \in late
      BY <2>3, <3>2 DEF Followed
    <3>3. CASE n \in there \ late
      <4>1. phone'[n] = by /\ by \in token /\ row[n].there
            /\ \A q \in Requests \ {p} : ~At(q, "cut")
        BY <2>3, <3>3
      <4>2. token' = token /\ row' = row
        BY <1>2 DEF PopulatePhoneCache, holdVars, rowVars
      <4>3. \A q \in Requests : req'[q].step # "cut"
        BY <2>1, <4>1 DEF Undisturbed, At
      <4> QED BY <4>1, <4>2, <4>3 DEF Followed, At
    <3> QED BY <3>1, <3>2, <3>3
  <2> QED BY <1>2, <2>2, <2>3 DEF PopulatePhoneCache
<1>3. CASE PurgePhones(p)
  <2>1. CASE UNCHANGED cacheVars /\ Ends(p)
    <3>1. Undisturbed
      BY <1>0, <1>3, <2>1, MovesUndisturbed, EndsTyped DEF PurgePhones, Undisturbed, At, Idle
    <3> QED BY <1>0, <1>3, <2>1, <3>1, FollowedStays DEF PurgePhones, holdVars, rowVars, cacheVars
  <2>2. CASE Purge(Stored)
    <3>1. n \notin Stored /\ phone'[n] = phone[n]
          /\ (<<n, phone[n]>> \in leaked => <<n, phone[n]>> \in leaked')
      BY <1>0, <2>2 DEF Purge, Purged
    <3>2. ~row[n].there /\ ~At(p, "forget")
      BY <1>3, <3>1 DEF Stored, PurgePhones, At
    <3> QED BY <1>0, <3>1, <3>2, MissedStays DEF Followed, Dropping
  <2> QED BY <1>3, <2>1, <2>2 DEF PurgePhones
<1>4. CASE Cut(p)
  <2>1. phone' = phone /\ leaked' = leaked /\ At(p, "cut") /\ ~At(p, "forget")
    BY <1>4 DEF Cut, cacheVars, At
  <2> QED BY <1>0, <2>1, MissedStays DEF Followed, Dropping
<1>5. ASSUME NEW gone \in SUBSET Users, leaked' = leaked \cup Unreached(p, gone), phone' = phone,
             At(p, "erase"), Goes(p, "forget"), phone[n] \notin gone => Followed(n)'
      PROVE  Followed(n)'
  <2>1. req'[p].step = "forget" /\ req'[p].numbers = req[p].numbers
    BY <1>0, <1>5 DEF Goes, Request
  <2>2. CASE n \in req[p].numbers
    BY <2>1, <2>2 DEF Followed, Dropping, At
  <2>3. CASE n \notin req[p].numbers /\ phone[n] \in gone
    BY <1>5, <2>3 DEF Followed, Unreached
  <2> QED BY <1>5, <2>2, <2>3
<1>6. CASE EraseWaba(p)
  <2>1. CASE Held
    <3>1. /\ leaked' = leaked \cup Unreached(p, token) /\ phone' = phone /\ At(p, "erase")
          /\ Goes(p, "forget")
      BY <1>6, <2>1 DEF EraseWaba
    <3>2. phone[n] \notin token => Followed(n)'
      BY <1>0, <3>1, MissedStays DEF Followed, Dropping, At
    <3> QED BY <1>5, <3>1, <3>2 DEF TypeInv, TypeOK
  <2>2. CASE ~Held
    <3>1. Undisturbed /\ phone' = phone /\ leaked' = leaked /\ token' = token /\ row' = row
      BY <1>6, <2>2, MovesUndisturbed DEF EraseWaba, PurgePhones, At, rowVars
    <3> QED BY <1>0, <3>1, FollowedStays
  <2> QED BY <2>1, <2>2
<1>7. CASE EraseUser(p)
  <2>0. Undisturbed /\ phone' = phone
    BY <1>7, MovesUndisturbed DEF EraseUser, PurgePhones, At
  <2>1. CASE req[p].user \in users /\ Unreferenced(p, req[p].user)
    <3>1. /\ leaked' = leaked \cup Unreached(p, token \ token') /\ At(p, "erase")
          /\ Goes(p, "forget")
          /\ token' = IF req[p].orphan THEN {} ELSE token \ {req[p].user}
          /\ ~req[p].orphan => row' = row
      BY <1>7, <2>1 DEF EraseUser, Connections, rowVars
    <3>2. ASSUME phone[n] \notin token \ token' PROVE Followed(n)'
      <4>1. CASE phone[n] \notin token
        BY <1>0, <2>0, <3>1, <4>1, MissedStays DEF Followed, Dropping, At
      <4>2. CASE phone[n] \in token'
        <5>1. row' = row
          BY <3>1, <4>2
        <5>2. CASE \/ <<n, phone[n]>> \in leaked
                   \/ \E q \in Requests \ {p} : At(q, "forget") /\ n \in req[q].numbers
          BY <2>0, <3>1, <5>2, MissedStays
        <5>3. CASE phone[n] \in token /\ row[n].there /\ \A q \in Requests : ~At(q, "cut")
          BY <2>0, <4>2, <5>1, <5>3 DEF Followed, Undisturbed, At
        <5> QED BY <1>0, <2>0, <3>1, <5>2, <5>3 DEF Followed, Dropping, At
      <4> QED BY <3>2, <4>1, <4>2
    <3>3. token \ token' \in SUBSET Users
      BY DEF TypeInv, TypeOK
    <3> QED BY <1>5, <2>0, <3>1, <3>2, <3>3
  <2>2. CASE ~(req[p].user \in users /\ Unreferenced(p, req[p].user))
    <3>1. leaked' = leaked /\ token' = token /\ row' = row
      BY <1>7, <2>2 DEF EraseUser, holdVars, rowVars
    <3> QED BY <1>0, <2>0, <3>1, FollowedStays
  <2> QED BY <2>1, <2>2
<1>8. CASE Forget(p)
  <2>0. /\ req[p].numbers \subseteq Numbers /\ token' = token /\ row' = row
        /\ req'[p].step = "idle" /\ \A q \in Requests \ {p} : req'[q] = req[q]
    BY <1>0, <1>8, EndsTyped DEF Forget, holdVars, rowVars, Request, Idle
  <2>1. ASSUME phone'[n] = phone[n], n \notin req[p].numbers,
               <<n, phone[n]>> \in leaked => <<n, phone[n]>> \in leaked'
        PROVE  Followed(n)'
    <3>1. CASE \/ <<n, phone[n]>> \in leaked
               \/ \E q \in Requests \ {p} : At(q, "forget") /\ n \in req[q].numbers
      BY <2>1, <3>1, MissedStays
    <3>2. CASE phone[n] \in token /\ row[n].there /\ \A q \in Requests : ~At(q, "cut")
      BY <2>0, <2>1, <3>2 DEF Followed, At
    <3> QED BY <1>0, <2>1, <3>1, <3>2 DEF Followed, Dropping
  <2>2. CASE Purge(req[p].numbers)
    <3>1. /\ n \notin req[p].numbers /\ phone'[n] = phone[n]
          /\ <<n, phone[n]>> \in leaked => <<n, phone[n]>> \in leaked'
      BY <1>0, <2>2 DEF Purge, Purged
    <3> QED BY <2>1, <3>1
  <2>3. CASE /\ UNCHANGED phone
             /\ leaked' = leaked \cup {l \in req[p].numbers \X Users : phone[l[1]] = l[2]}
    <3>1. CASE n \in req[p].numbers
      <4>1. phone[n] \in Users /\ phone'[n] = phone[n]
        BY <1>0, <2>3
      <4>2. <<n, phone[n]>> \in {l \in req[p].numbers \X Users : phone[l[1]] = l[2]}
        BY <3>1, <4>1
      <4> QED BY <2>3, <4>1, <4>2 DEF Followed
    <3> QED BY <2>1, <2>3, <3>1
  <2> QED BY <1>8, <2>2, <2>3 DEF Forget
<1> QED BY <1>1, <1>2, <1>3, <1>4, <1>6, <1>7, <1>8

LEMMA CacheStep == TypeInv /\ CacheInv /\ [Next]_vars => CacheInv'
<1> SUFFICES ASSUME TypeInv, CacheInv, [Next]_vars, NEW n \in Numbers, phone'[n] # None
             PROVE  Followed(n)'
    BY DEF CacheInv
<1>0. n \in Things /\ n \notin Templates /\ (phone[n] # None => Followed(n))
  BY ConstantsAssumption DEF CacheInv, Things
<1>1. ASSUME UNCHANGED <<phone, leaked>>, token \subseteq token', Undisturbed,
             row[n].there => row'[n].there
      PROVE  Followed(n)'
  BY <1>0, <1>1, FollowedStays
<1>2. CASE UNCHANGED vars \/ MetaNext
  <2>1. UNCHANGED <<req, phone, leaked, token, row>>
    BY <1>2 DEF vars, MetaNext, holdVars, rowVars, cacheVars
  <2> QED BY <1>1, <2>1 DEF Undisturbed
<1>3. ASSUME NEW r \in reports, TemplateReport(r) \/ NumberReport(r)
      PROVE  Followed(n)'
  <2>1. UNCHANGED <<phone, leaked, token>>
    BY <1>3 DEF TemplateReport, NumberReport, Record, holdVars, cacheVars
  <2>2. Undisturbed
    BY <1>3, ReportTyped, KeptEquipped DEF Undisturbed
  <2>3. row[n].there => row'[n].there
    <3>1. \/ row' = row
          \/ row' = [row EXCEPT ![r.thing] = Written(r.thing, TRUE, r.version, r.says)]
      BY <1>3 DEF TemplateReport, NumberReport, Record, rowVars
    <3>2. Written(r.thing, TRUE, r.version, r.says).there
      BY DEF Written
    <3>3. CASE r.thing = n
      BY <1>0, <3>1, <3>2, <3>3 DEF TypeInv, TypeOK
    <3>4. CASE r.thing # n
      BY <1>0, <3>1, <3>4 DEF TypeInv, TypeOK
    <3> QED BY <3>3, <3>4
  <2> QED BY <1>1, <2>1, <2>2, <2>3
<1>4. ASSUME NEW p \in Requests, Arrives(p)
      PROVE  Followed(n)'
  <2>1. Undisturbed
    BY <1>4, ArrivesTyped DEF Undisturbed, At
  <2> QED BY <1>1, <1>4, <2>1, ArrivesRest DEF holdVars, rowVars, cacheVars
<1>5. ASSUME NEW p \in Requests, Step(p)
      PROVE  Followed(n)'
  <2>1. CASE \/ UpsertNumbers(p) \/ PopulatePhoneCache(p) \/ PurgePhones(p) \/ Cut(p)
             \/ EraseWaba(p) \/ EraseUser(p) \/ Forget(p)
    BY <1>5, <2>1, CacheMoves
  <2>2. CASE \/ CheckMembership(p) \/ UpsertWaba(p) \/ Join(p) \/ StoreToken(p)
             \/ ReadConnection(p) \/ ListNumbers(p) \/ ListTemplates(p)
             \/ (\E t \in Templates :
                   \/ CreateTemplate(p, t) \/ CreateFromLibrary(p, t) \/ DeleteTemplate(p, t)
                   \/ UpdateTemplate(p, t) \/ MigrateTemplates(p, t))
             \/ CallFails(p) \/ Survey(p)
    <3>1. ~At(p, "forget") /\ ~At(p, "purge")
      BY <2>2 DEF CheckMembership, UpsertWaba, Join, StoreToken, ReadConnection, ListNumbers,
                  ListTemplates, CreateTemplate, CreateFromLibrary, DeleteTemplate,
                  UpdateTemplate, MigrateTemplates, CallFails, Survey, At
    <3>2. Undisturbed
      BY <1>5, <3>1, MovesUndisturbed DEF PurgePhones
    <3>3. UNCHANGED <<phone, leaked, row>> /\ token \subseteq token'
      BY <2>2 DEF CheckMembership, UpsertWaba, Join, StoreToken, ReadConnection, ListNumbers,
                  ListTemplates, CreateTemplate, CreateFromLibrary, DeleteTemplate,
                  UpdateTemplate, MigrateTemplates, Answered, CallFails, Survey, holdVars,
                  rowVars, cacheVars
    <3> QED BY <1>1, <3>2, <3>3
  <2>3. CASE UpsertTemplates(p)
    <3>1. Undisturbed /\ UNCHANGED <<phone, leaked, token>>
      BY <1>5, <2>3, MovesUndisturbed DEF UpsertTemplates, PurgePhones, At, holdVars, cacheVars
    <3>2. row'[n] = row[n]
      BY <1>0, <2>3 DEF UpsertTemplates, SaveRows, rowVars
    <3> QED BY <1>1, <3>1, <3>2
  <2>4. CASE StoreTemplate(p)
    <3>1. Undisturbed /\ UNCHANGED <<phone, leaked, token>>
      BY <1>5, <2>4, MovesUndisturbed DEF StoreTemplate, PurgePhones, At, holdVars, cacheVars
    <3>2. req[p].thing # n
      BY <1>0, <2>4 DEF StoreTemplate, At, TypeInv, Acting, Equipped
    <3>3. row'[n] = row[n]
      BY <1>0, <2>4, <3>2 DEF StoreTemplate, rowVars, TypeInv, TypeOK
    <3> QED BY <1>1, <3>1, <3>3
  <2> QED BY <1>5, <2>1, <2>2, <2>3, <2>4 DEF Step
<1> QED BY <1>2, <1>3, <1>4, <1>5 DEF Next

\* populatePhoneCache(), disconnectWaba(), deleteWaba(), deleteAccount(): a token
\* cached for a number outlives its owner's connection only where a synchronisation
\* crossed the departure or a purge failed, whatever else is under way.
THEOREM CachedTokensFollow == Spec => []CacheFollows
<1>1. CacheInv => CacheFollows
  BY DEF CacheInv, Followed, Dropping, CacheFollows
<1> QED BY <1>1, TypeInit, TypeStep, CacheInit, CacheStep, PTL DEF Spec

-----------------------------------------------------------------------------
(* What Meta has said *)

\* Meta has said this of x: as its version v, and of a template in these words.
Genuine(x, v, status) ==
    /\ v <= meta[x].version
    /\ x \in Templates => said[x][v] = status

\* The row of x is at something Meta said, and is approved only on its word.
Backed(x) ==
    /\ row[x].version <= meta[x].version /\ heard[x] <= meta[x].version
    /\ x \in Templates /\ row[x].status = "APPROVED"
         => said[x][row[x].version] = "APPROVED"

\* Reports and answers, however late, carry what Meta said at their version.
Truthful ==
    /\ \A x \in Things : /\ Backed(x) /\ Genuine(x, 0, "PENDING")
                         /\ Genuine(x, meta[x].version, meta[x].status)
    /\ \A r \in reports : Genuine(r.thing, r.version, r.says)
    /\ \A q \in Requests, x \in Things : Genuine(x, req[q].seen[x].version, req[q].seen[x].status)

\* What a request holds is no older than what the row was written from since,
\* unless it knows.
AbreastIn(r) ==
    \A x \in Things : r.step \in {"save", "copy", "write"} /\ x \notin r.behind
                        => heard[x] <= r.seen[x].version

Abreast == \A q \in Requests : AbreastIn(req[q])

RowsInv == Truthful /\ Abreast /\ NewsIsShown

LEMMA RowsInit == Init => RowsInv
<1> SUFFICES ASSUME Init PROVE RowsInv
    OBVIOUS
<1>1. TypeInv
  BY TypeInit
<1>2. ASSUME NEW x \in Things
      PROVE  /\ meta[x].version \in {0, 1} /\ meta[x].status = "PENDING"
             /\ row[x].version = 0 /\ row[x].status = "PENDING" /\ heard[x] = 0
  BY DEF Init, NoRow
<1>3. \A t \in Templates, v \in 0..MaxVersion : said[t][v] = "PENDING"
  BY DEF Init
<1>4. \A q \in Requests : req[q] = Idle
  BY DEF Init
<1>5. \A x \in Things, v \in {0, 1} : v <= meta[x].version => Genuine(x, v, "PENDING")
  BY <1>3, ConstantsAssumption DEF Genuine
<1>6. \A x \in Things : Backed(x)
  BY <1>2 DEF Backed
<1>7. \A q \in Requests, x \in Things : /\ req[q].seen[x].version = 0
                                        /\ req[q].seen[x].status = "PENDING"
  BY <1>4 DEF Idle, NoRow
<1>8. Truthful
  BY <1>2, <1>5, <1>6, <1>7 DEF Truthful, Init
<1>9. Abreast
  BY <1>4 DEF Abreast, AbreastIn, Idle
<1> QED BY <1>2, <1>8, <1>9 DEF RowsInv, NewsIsShown

\* What has been said stays said.
Lasting ==
    \A x \in Things, v \in 0..MaxVersion : \A s :
      /\ v <= meta[x].version => v <= meta'[x].version
      /\ Genuine(x, v, s) => Genuine(x, v, s)'

LEMMA SaidLasts ==
  ASSUME TypeInv, Truthful, NEW x \in Things, NEW b \in BOOLEAN, NEW s \in Statuses, Said(x, b, s)
  PROVE  /\ Lasting
         /\ \A y \in Things : Genuine(y, meta[y].version, meta[y].status)'
         /\ \A v \in 1..MaxVersion : v = meta[x].version + 1 => Genuine(x, v, s)'
<1>1. /\ meta' \in [Things -> Row]
      /\ meta[x].version \in 0..MaxVersion /\ meta[x].version + 1 \in 1..MaxVersion
      /\ meta'[x].version = meta[x].version + 1
      /\ \A y \in Things \ {x} : meta'[y] = meta[y]
  BY SaidTyped
<1>2. meta'[x].status = s
  BY DEF Said, TypeInv, TypeOK
<1>3. /\ \A t \in Templates, v \in 0..MaxVersion :
           t # x \/ v # meta[x].version + 1 => said'[t][v] = said[t][v]
      /\ x \in Templates => said'[x][meta[x].version + 1] = s
  <2> DEFINE v1 == meta[x].version + 1
  <2>1. v1 \in 0..MaxVersion
    BY <1>1
  <2>2. said' = IF x \in Templates THEN [said EXCEPT ![x][v1] = s] ELSE said
    BY DEF Said
  <2>3. said \in [Templates -> [0..MaxVersion -> Statuses]]
    BY DEF TypeInv, TypeOK
  <2> HIDE DEF v1
  <2>4. /\ \A t \in Templates, v \in 0..MaxVersion : t # x \/ v # v1 => said'[t][v] = said[t][v]
        /\ x \in Templates => said'[x][v1] = s
    BY <2>1, <2>2, <2>3
  <2> QED BY <2>4 DEF v1
<1>4. \A y \in Things : meta[y].version \in 0..MaxVersion
  BY DEF TypeInv, TypeOK, Row
<1>5. Lasting
  <2> SUFFICES ASSUME NEW y \in Things, NEW v \in 0..MaxVersion, NEW w, v <= meta[y].version
               PROVE  /\ v <= meta'[y].version
                      /\ (y \in Templates => said[y][v] = w) => (y \in Templates => said'[y][v] = w)
      BY DEF Lasting, Genuine
  <2>1. v <= meta'[y].version
    BY <1>1, <1>4
  <2>2. y # x \/ v # meta[x].version + 1
    BY <1>1, <1>4
  <2> QED BY <1>3, <2>1, <2>2
<1>6. \A v \in 1..MaxVersion : v = meta[x].version + 1 => Genuine(x, v, s)'
  BY <1>1, <1>3 DEF Genuine
<1>7. ASSUME NEW y \in Things PROVE Genuine(y, meta[y].version, meta[y].status)'
  <2>1. CASE y = x
    BY <1>1, <1>2, <1>3, <2>1 DEF Genuine
  <2>2. CASE y # x
    <3>1. Genuine(y, meta[y].version, meta[y].status)
      BY DEF Truthful
    <3>2. Genuine(y, meta[y].version, meta[y].status) =>
            (y \in Templates => said'[y][meta[y].version] = meta[y].status)
      BY <1>3, <1>4, <2>2 DEF Genuine
    <3>3. meta'[y] = meta[y] /\ meta[y].version <= meta[y].version
      BY <1>1, <1>4, <2>2
    <3> QED BY <3>1, <3>2, <3>3 DEF Genuine
  <2> QED BY <2>1, <2>2
<1> QED BY <1>5, <1>6, <1>7

LEMMA SameLasts ==
  ASSUME TypeInv, Truthful, UNCHANGED <<meta, said>>
  PROVE  /\ Lasting
         /\ \A y \in Things : Genuine(y, meta[y].version, meta[y].status)'
<1>1. \A y \in Things : Genuine(y, meta[y].version, meta[y].status)
  BY DEF Truthful
<1> QED BY <1>1 DEF Lasting, Genuine, Things

\* Every step leaves what has been said, and what is on its way, as it was said.
LEMMA WordsLast ==
  ASSUME TypeInv, Truthful, [Next]_vars
  PROVE  /\ Lasting
         /\ \A y \in Things : Genuine(y, meta[y].version, meta[y].status)'
         /\ \A r \in reports' : Genuine(r.thing, r.version, r.says)'
<1> DEFINE Goal == /\ Lasting
                   /\ \A y \in Things : Genuine(y, meta[y].version, meta[y].status)'
                   /\ \A r \in reports' : Genuine(r.thing, r.version, r.says)'
<1>0. ASSUME NEW r \in reports, Lasting PROVE Genuine(r.thing, r.version, r.says)'
  <2>1. r.thing \in Things /\ r.version \in 0..MaxVersion
    BY DEF TypeInv, TypeOK
  <2>2. Genuine(r.thing, r.version, r.says)
    BY DEF Truthful
  <2> DEFINE y == r.thing
             v == r.version
             s == r.says
  <2>3. y \in Things /\ v \in 0..MaxVersion /\ Genuine(y, v, s)
    BY <2>1, <2>2
  <2> HIDE DEF y, v, s
  <2>4. Genuine(y, v, s)'
    BY <1>0, <2>3 DEF Lasting
  <2> QED BY <2>4 DEF y, v, s
<1>1. ASSUME UNCHANGED <<meta, said>>, reports' \subseteq reports PROVE Goal
  BY <1>0, <1>1, SameLasts
<1>2. ASSUME NEW x \in Things, NEW b \in BOOLEAN, NEW s \in Statuses, Said(x, b, s),
             Tells(x, s) \/ UNCHANGED reports
      PROVE  Goal
  <2>1. /\ Lasting
        /\ \A y \in Things : Genuine(y, meta[y].version, meta[y].status)'
        /\ \A v \in 1..MaxVersion : v = meta[x].version + 1 => Genuine(x, v, s)'
    BY <1>2, SaidLasts
  <2>2. ASSUME NEW r \in reports', r \notin reports PROVE Genuine(r.thing, r.version, r.says)'
    <3>1. r = [thing |-> x, version |-> meta[x].version + 1, says |-> s]
      BY <1>2, <2>2 DEF Tells
    <3>2. meta[x].version + 1 \in 1..MaxVersion
      BY <1>2, SaidTyped
    <3>3. r.thing = x /\ r.version \in 1..MaxVersion /\ r.version = meta[x].version + 1
          /\ r.says = s
      BY <3>1, <3>2
    <3> QED BY <2>1, <3>3
  <2> QED BY <1>0, <2>1, <2>2
<1>3. CASE UNCHANGED vars
  BY <1>1, <1>3 DEF vars, metaVars
<1>4. CASE MetaNext
  <2>1. PICK x \in Things, b \in BOOLEAN, s \in Statuses :
          /\ Said(x, b, s)
          /\ Tells(x, s) \/ UNCHANGED reports
    BY <1>4 DEF MetaNext, Things, Statuses, TypeInv, TypeOK, Row
  <2> QED BY <1>2, <2>1
<1>5. ASSUME NEW r \in reports, TemplateReport(r) \/ NumberReport(r) PROVE Goal
  BY <1>1, <1>5 DEF TemplateReport, NumberReport, Record
<1>6. ASSUME NEW p \in Requests, Arrives(p) PROVE Goal
  BY <1>1, <1>6, ArrivesRest DEF metaVars
<1>7. ASSUME NEW p \in Requests, Step(p) PROVE Goal
  <2>1. ASSUME NEW t \in Templates,
               \/ CreateTemplate(p, t) \/ CreateFromLibrary(p, t) \/ DeleteTemplate(p, t)
               \/ UpdateTemplate(p, t) \/ MigrateTemplates(p, t)
        PROVE  Goal
    <3>1. PICK b \in BOOLEAN, s \in Statuses : Said(t, b, s) /\ (Tells(t, s) \/ UNCHANGED reports)
      BY <2>1 DEF CreateTemplate, CreateFromLibrary, DeleteTemplate, UpdateTemplate,
                  MigrateTemplates, Statuses
    <3> QED BY <1>2, <3>1 DEF Things
  <2>2. CASE UNCHANGED metaVars
    BY <1>1, <2>2 DEF metaVars
  <2> QED BY <1>7, <2>1, <2>2
          DEF Step, CheckMembership, UpsertWaba, Join, StoreToken, ReadConnection, ListNumbers,
              UpsertNumbers, PopulatePhoneCache, ListTemplates, UpsertTemplates, CallFails,
              StoreTemplate, PurgePhones, Cut, Survey, EraseWaba, EraseUser, Forget
<1> QED BY <1>3, <1>4, <1>5, <1>6, <1>7 DEF Next

\* A request holds what it held, nothing, or Meta's latest word.
LEMMA AnswersFrom ==
  ASSUME TypeInv, [Next]_vars, NEW q \in Requests
  PROVE  req'[q].seen \in {req[q].seen, Idle.seen, meta'}
<1> DEFINE Goal == req'[q].seen \in {req[q].seen, Idle.seen, meta'}
<1>0. req \in [Requests -> Request] /\ req[q] \in Request
  BY DEF TypeInv, TypeOK
<1>1. CASE UNCHANGED vars \/ MetaNext
  BY <1>1 DEF vars, MetaNext
<1>2. ASSUME NEW r \in reports, TemplateReport(r) \/ NumberReport(r) PROVE Goal
  BY <1>2, ReportTyped, KeptEquipped
<1>3. ASSUME NEW p \in Requests, Arrives(p) PROVE Goal
  <2>1. CASE p # q
    BY <1>3, <2>1, ArrivesTyped
  <2>2. ASSUME NEW kind \in Kinds, NEW u \in Users, NEW o \in Orgs, NEW s, p = q,
               Starts(p, kind, u, o, s)
        PROVE  Goal
    BY <1>0, <2>2 DEF Starts, Idle
  <2>3. ASSUME NEW o \in Orgs, p = q, Pay(p, o) PROVE Goal
    BY <1>0, <2>3 DEF Pay, Idle
  <2> QED BY <1>3, <2>1, <2>2, <2>3 DEF Arrives, Connect, SyncPhoneNumbers, SyncTemplates,
                                        ChangeTemplate, Disconnect, DeleteWaba, DeleteAccount,
                                        Kinds
<1>4. ASSUME NEW p \in Requests, Step(p), p # q PROVE Goal
  BY <1>4, StepTyped, KeptEquipped
<1>5. CASE Step(q)
  <2>1. ASSUME NEW s, Goes(q, s) PROVE Goal
    BY <1>0, <2>1 DEF Goes, Request
  <2>2. CASE Ends(q)
    BY <1>0, <2>2 DEF Ends
  <2>3. CASE NumbersDone(q)
    BY <2>1, <2>2, <2>3 DEF NumbersDone
  <2>4. ASSUME NEW which, NEW s, GoesOn(q, which, s) PROVE Goal
    BY <1>0, <2>4 DEF GoesOn, Request
  <2>5. ASSUME NEW s, UNCHANGED metaVars,
               req' = [req EXCEPT ![q].seen = meta, ![q].behind = {}, ![q].step = s]
        PROVE  Goal
    BY <1>0, <2>5 DEF Request, metaVars
  <2>6. ASSUME NEW t \in Templates,
               \/ CreateTemplate(q, t) \/ CreateFromLibrary(q, t) \/ DeleteTemplate(q, t)
               \/ UpdateTemplate(q, t) \/ MigrateTemplates(q, t)
        PROVE  Goal
    <3>1. PICK b \in BOOLEAN, s \in Statuses : Said(t, b, s)
      BY <2>6 DEF CreateTemplate, CreateFromLibrary, DeleteTemplate, UpdateTemplate,
                  MigrateTemplates, Statuses
    <3>2. meta' \in [Things -> Row]
      BY <3>1, SaidTyped DEF Things
    <3>3. ASSUME NEW step \in Steps, Answered(q, t, step) PROVE Goal
      BY <3>2, <3>3, AnsweredTyped
    <3> QED BY <2>2, <2>6, <3>3 DEF CreateTemplate, CreateFromLibrary, DeleteTemplate,
                                    UpdateTemplate, MigrateTemplates, Steps
  <2>7. CASE Join(q)
    BY <1>0, <2>2, <2>7 DEF Join, Request
  <2>8. CASE ReadConnection(q)
    BY <1>0, <2>2, <2>8 DEF ReadConnection, Request
  <2>9. CASE Survey(q)
    <3>1. ASSUME NEW goes, NEW numbers,
                 req' = [req EXCEPT ![q].orphan = goes, ![q].late = FALSE, ![q].step = "erase",
                                    ![q].numbers = numbers]
          PROVE  Goal
      BY <1>0, <3>1 DEF Request
    <3> QED BY <2>2, <2>9, <3>1 DEF Survey
  <2> QED BY <1>5, <2>1, <2>2, <2>3, <2>4, <2>5, <2>6, <2>7, <2>8, <2>9
          DEF Step, CheckMembership, UpsertWaba, StoreToken, ListNumbers,
              UpsertNumbers, PopulatePhoneCache, ListTemplates, UpsertTemplates, CallFails,
              StoreTemplate, PurgePhones, Cut, EraseWaba, EraseUser, Forget
<1> QED BY <1>1, <1>2, <1>3, <1>4, <1>5 DEF Next

-----------------------------------------------------------------------------
(* What the rows show *)

\* The row of x has been written from version v.
Rewritten(x, v, status) ==
    /\ Genuine(x, v, status)
    /\ row'[x].version = v /\ row'[x].status \in {status, mapStatus(status)}
    /\ heard'[x] = Newest(x, v)
    /\ x \notin crossed' => heard[x] <= v

\* The row of x stays, goes with the account, or is written from something Meta
\* said.
RowMoves(x) ==
    \/ row'[x] = row[x] /\ heard'[x] = heard[x] /\ (x \in crossed => x \in crossed')
    \/ row'[x] = NoRow /\ heard'[x] = 0
    \/ \E v \in 0..MaxVersion, s \in Statuses : Rewritten(x, v, s)

\* Nobody's answer is older than the row without their knowing it.
Warned(x) ==
    \/ heard'[x] \in {heard[x], 0}
    \/ \A q \in Requests : req'[q].step \in {"save", "copy", "write"} => x \in req'[q].behind

LEMMA RowMovesKeep ==
  ASSUME TypeInv, Truthful, NewsIsShown, NEW x \in Things, Lasting, RowMoves(x)
  PROVE  /\ Backed(x)'
         /\ row'[x].there /\ x \notin crossed' => row'[x].version >= heard'[x]
<1>0. /\ row[x].version \in 0..MaxVersion /\ heard[x] \in 0..MaxVersion
      /\ meta[x].version \in 0..MaxVersion /\ 0 \in 0..MaxVersion
      /\ Backed(x) /\ Genuine(x, 0, "PENDING")
  BY ConstantsAssumption DEF TypeInv, TypeOK, Row, Truthful
<1>1. CASE row'[x] = row[x] /\ heard'[x] = heard[x] /\ (x \in crossed => x \in crossed')
  <2>1. row[x].version <= meta'[x].version /\ heard[x] <= meta'[x].version
    BY <1>0 DEF Backed, Lasting
  <2>2. ASSUME x \in Templates, row[x].status = "APPROVED"
        PROVE  said'[x][row[x].version] = "APPROVED"
    <3>1. Genuine(x, row[x].version, "APPROVED")
      BY <1>0, <2>2 DEF Backed, Genuine
    <3>2. \A v \in 0..MaxVersion : Genuine(x, v, "APPROVED") => Genuine(x, v, "APPROVED")'
      BY DEF Lasting
    <3>3. \A v \in 0..MaxVersion : Genuine(x, v, "APPROVED")' => said'[x][v] = "APPROVED"
      BY <2>2 DEF Genuine
    <3> QED BY <1>0, <3>1, <3>2, <3>3
  <2>3. Backed(x)'
    BY <1>1, <2>1, <2>2 DEF Backed
  <2> QED BY <1>1, <2>3 DEF NewsIsShown
<1>2. CASE row'[x] = NoRow /\ heard'[x] = 0
  <2>1. 0 <= meta'[x].version
    BY <1>0 DEF Lasting
  <2> QED BY <1>2, <2>1 DEF Backed, NoRow
<1>3. ASSUME NEW v \in 0..MaxVersion, NEW s \in Statuses, Rewritten(x, v, s)
      PROVE  /\ Backed(x)'
             /\ row'[x].there /\ x \notin crossed' => row'[x].version >= heard'[x]
  <2>1. /\ Genuine(x, v, s) /\ row'[x].version = v /\ row'[x].status \in {s, mapStatus(s)}
        /\ heard'[x] = Newest(x, v) /\ (x \notin crossed' => heard[x] <= v)
    BY <1>3 DEF Rewritten
  <2>2. Genuine(x, v, s)'
    BY <2>1 DEF Lasting
  <2>3. v <= meta'[x].version /\ (x \in Templates => said'[x][v] = s)
    BY <2>2 DEF Genuine
  <2>4. heard[x] <= meta'[x].version
    BY <1>0 DEF Backed, Lasting
  <2>5. heard'[x] <= meta'[x].version /\ (heard[x] <= v => v >= heard'[x])
    BY <1>0, <2>1, <2>3, <2>4 DEF Newest
  <2>6. row'[x].status = "APPROVED" => s = "APPROVED"
    BY <2>1 DEF mapStatus
  <2> QED BY <2>1, <2>3, <2>5, <2>6 DEF Backed
<1> QED BY <1>1, <1>2, <1>3 DEF RowMoves

\* An answer that was overtaken warns whoever holds it.
LEMMA OvertakenWarned ==
  ASSUME TypeInv, NEW q \in Requests, NEW which \in SUBSET Things, req'[q] = Overtaken(q, which),
         req'[q].step \in {"save", "copy", "write"}
  PROVE  which \subseteq req'[q].behind
<1>1. req \in [Requests -> Request]
  BY DEF TypeInv, TypeOK
<1>2. Kept(q)
  BY <1>1, OvertakenIsKept
<1>3. req[q].step \in {"save", "copy", "write"}
  BY <1>2, KeptEquipped
<1> QED BY <1>1, <1>3, OvertakenTyped

\* One who writes rows is done with Meta's answer, and warns the others.
LEMMA WriterWarns ==
  ASSUME TypeInv, NEW p \in Requests, NEW which \in SUBSET Things, NEW s \in {"idle", "fill"},
         GoesOn(p, which, s)
  PROVE  \A x \in which, q \in Requests :
           req'[q].step \in {"save", "copy", "write"} => x \in req'[q].behind
<1>1. req \in [Requests -> Request] /\ s \in Steps /\ req[p] \in Request
  BY DEF TypeInv, TypeOK, Steps
<1>2. /\ req'[p] = IF s = "idle" THEN Idle ELSE [req[p] EXCEPT !.step = s]
      /\ \A q \in Requests \ {p} : req'[q] = Overtaken(q, which)
  BY <1>1, GoesOnTyped
<1>3. req'[p].step \notin {"save", "copy", "write"}
  BY <1>1, <1>2 DEF Idle, Request
<1> QED BY <1>2, <1>3, OvertakenWarned

\* What a synchronisation writes is what Meta said when it was asked.
LEMMA SaveRowsMoves ==
  ASSUME TypeInv, Truthful, Abreast, NEW p \in Requests, NEW which \in SUBSET Things,
         req[p].step \in {"save", "copy", "write"}, SaveRows(p, which), NEW x \in Things
  PROVE  RowMoves(x) /\ (x \notin which => heard'[x] = heard[x])
<1>1. CASE x \notin which
  BY <1>1 DEF SaveRows, RowMoves
<1>2. CASE x \in which
  <2> DEFINE v == req[p].seen[x].version
             s == req[p].seen[x].status
  <2>1. v \in 0..MaxVersion /\ s \in Statuses
    BY DEF TypeInv, TypeOK, Request, Row
  <2>2. Genuine(x, v, s)
    BY DEF Truthful
  <2>3. row'[x] = Written(x, req[p].seen[x].there, v, mapStatus(s)) /\ heard'[x] = Newest(x, v)
    BY <1>2 DEF SaveRows
  <2>4. x \notin crossed' => heard[x] <= v
    BY <1>2 DEF SaveRows, Abreast, AbreastIn
  <2> HIDE DEF v, s
  <2>5. Rewritten(x, v, s)
    BY <2>2, <2>3, <2>4 DEF Rewritten, Written
  <2> QED BY <1>2, <2>1, <2>5 DEF RowMoves
<1> QED BY <1>1, <1>2

LEMMA ErasedMoves ==
  ASSUME EraseAccount, NEW x \in Things
  PROVE  RowMoves(x) /\ Warned(x)
BY DEF EraseAccount, RowMoves, Warned

LEMMA RowsMove ==
  ASSUME TypeInv, Truthful, Abreast, [Next]_vars, NEW x \in Things
  PROVE  RowMoves(x) /\ Warned(x)
<1> DEFINE Goal == RowMoves(x) /\ Warned(x)
<1>1. CASE UNCHANGED rowVars
  BY <1>1 DEF rowVars, RowMoves, Warned
<1>2. CASE UNCHANGED vars \/ MetaNext
  BY <1>1, <1>2 DEF vars, MetaNext
<1>3. ASSUME NEW r \in reports, TemplateReport(r) \/ NumberReport(r) PROVE Goal
  <2>1. Record(r)
    BY <1>3 DEF TemplateReport, NumberReport
  <2>2. CASE ~row[r.thing].there
    BY <1>1, <2>1, <2>2 DEF Record
  <2>3. CASE row[r.thing].there
    <3>1. /\ row' = [row EXCEPT ![r.thing] = Written(r.thing, TRUE, r.version, r.says)]
          /\ heard' = [heard EXCEPT ![r.thing] = Newest(r.thing, r.version)]
          /\ crossed' = IF r.version < heard[r.thing] THEN crossed \cup {r.thing}
                          ELSE crossed \ {r.thing}
          /\ \A q \in Requests : req'[q] = Overtaken(q, {r.thing})
      BY <2>1, <2>3 DEF Record
    <3>2. CASE x # r.thing
      BY <3>1, <3>2 DEF RowMoves, Warned, TypeInv, TypeOK
    <3>3. CASE x = r.thing
      <4> DEFINE v == r.version
                 s == r.says
      <4>1. v \in 0..MaxVersion /\ s \in Statuses /\ heard[x] \in 0..MaxVersion
        BY DEF TypeInv, TypeOK
      <4>2. Genuine(x, v, s)
        BY <3>3 DEF Truthful
      <4>3. row'[x] = Written(x, TRUE, v, s) /\ heard'[x] = Newest(x, v)
            /\ (x \notin crossed' => ~(v < heard[x]))
        BY <3>1, <3>3 DEF TypeInv, TypeOK
      <4> HIDE DEF v, s
      <4>4. Rewritten(x, v, s)
        BY <4>1, <4>2, <4>3 DEF Rewritten, Written
      <4>5. Warned(x)
        <5>1. {r.thing} \in SUBSET Things
          BY <3>3
        <5>2. ASSUME NEW q \in Requests, req'[q].step \in {"save", "copy", "write"}
              PROVE  x \in req'[q].behind
          BY <3>1, <3>3, <5>1, <5>2, OvertakenWarned
        <5> QED BY <5>2 DEF Warned
      <4> QED BY <4>1, <4>4, <4>5 DEF RowMoves
    <3> QED BY <3>2, <3>3
  <2> QED BY <2>2, <2>3
<1>4. ASSUME NEW p \in Requests, Arrives(p) PROVE Goal
  BY <1>1, <1>4, ArrivesRest
<1>5. ASSUME NEW p \in Requests, Step(p) PROVE Goal
  <2>1. ASSUME NEW which \in SUBSET Things, NEW s \in {"idle", "fill"},
               req[p].step \in {"save", "copy", "write"}, SaveRows(p, which), GoesOn(p, which, s)
        PROVE  Goal
    <3>1. RowMoves(x) /\ (x \notin which => heard'[x] = heard[x])
      BY <2>1, SaveRowsMoves
    <3>2. x \in which => Warned(x)
      BY <2>1, WriterWarns DEF Warned
    <3> QED BY <3>1, <3>2 DEF Warned
  <2>2. CASE UpsertNumbers(p)
    <3>1. Numbers \in SUBSET Things
      BY DEF Things
    <3> QED BY <1>1, <2>1, <2>2, <3>1 DEF UpsertNumbers, At, rowVars
  <2>3. CASE UpsertTemplates(p)
    <3>1. {t \in Templates : req[p].seen[t].there} \in SUBSET Things
      BY DEF Things
    <3> QED BY <1>1, <2>1, <2>3, <3>1 DEF UpsertTemplates, At, rowVars
  <2>4. CASE StoreTemplate(p)
    <3> DEFINE t == req[p].thing
               v == req[p].seen[t].version
               s == req[p].seen[t].status
    <3>1. t \in Things
      BY <2>4 DEF StoreTemplate, At, TypeInv, Acting, Equipped, Things
    <3>2. CASE Held /\ (req[p].seen[t].there \/ row[t].there)
      <4>1. /\ row' = [row EXCEPT ![t] = Written(t, TRUE, v, mapStatus(s))]
            /\ heard' = [heard EXCEPT ![t] = Newest(t, v)]
            /\ crossed' = (crossed \ {t}) \cup ({t} \cap req[p].behind)
            /\ GoesOn(p, {t}, "idle") /\ At(p, "write")
        BY <2>4, <3>2 DEF StoreTemplate
      <4>2. v \in 0..MaxVersion /\ s \in Statuses
        BY <3>1 DEF TypeInv, TypeOK, Request, Row
      <4>3. Genuine(t, v, s)
        BY <3>1 DEF Truthful
      <4>4. t \notin req[p].behind => heard[t] <= v
        BY <3>1, <4>1 DEF Abreast, AbreastIn, At
      <4> HIDE DEF t, v, s
      <4>5. CASE x # t
        BY <4>1, <4>5 DEF RowMoves, Warned, TypeInv, TypeOK
      <4>6. CASE x = t
        <5>1. row'[x] = Written(x, TRUE, v, mapStatus(s)) /\ heard'[x] = Newest(x, v)
              /\ (x \notin crossed' => heard[x] <= v)
          BY <4>1, <4>4, <4>6 DEF TypeInv, TypeOK
        <5>2. Rewritten(x, v, s)
          BY <4>3, <4>6, <5>1 DEF Rewritten, Written
        <5>3. Warned(x)
          <6>1. {t} \in SUBSET Things
            BY <3>1
          <6> QED BY <4>1, <4>6, <6>1, WriterWarns DEF Warned
        <5> QED BY <4>2, <5>2, <5>3 DEF RowMoves
      <4> QED BY <4>5, <4>6
    <3>3. CASE ~(Held /\ (req[p].seen[t].there \/ row[t].there))
      BY <1>1, <2>4, <3>3 DEF StoreTemplate
    <3> QED BY <3>2, <3>3
  <2>5. CASE EraseWaba(p) \/ EraseUser(p)
    BY <1>1, <2>5, ErasedMoves DEF EraseWaba, EraseUser, rowVars
  <2> QED BY <1>1, <1>5, <2>2, <2>3, <2>4, <2>5
          DEF Step, CheckMembership, UpsertWaba, Join, StoreToken, ReadConnection, ListNumbers,
              PopulatePhoneCache, ListTemplates, CreateTemplate, CreateFromLibrary,
              DeleteTemplate, UpdateTemplate, MigrateTemplates, Answered, CallFails, PurgePhones,
              Cut, Survey, Forget
<1> QED BY <1>2, <1>3, <1>4, <1>5 DEF Next

\* Whoever has just asked Meta holds the newest there is.
LEMMA JustAsked ==
  ASSUME TypeInv, Truthful, NEW p \in Requests, Step(p),
         req'[p].step \in {"save", "copy", "write"}
  PROVE  req'[p].seen = meta' /\ heard' = heard
<1>0. req \in [Requests -> Request] /\ req[p] \in Request
  BY DEF TypeInv, TypeOK
<1>1. ASSUME NEW s, UNCHANGED metaVars,
             req' = [req EXCEPT ![p].seen = meta, ![p].behind = {}, ![p].step = s]
      PROVE  req'[p].seen = meta'
  BY <1>0, <1>1 DEF Request, metaVars
<1>2. ASSUME Ends(p) PROVE FALSE
  BY <1>0, <1>2 DEF Ends, Idle
<1>3. ASSUME NumbersDone(p) PROVE FALSE
  <2>1. \/ Ends(p) \/ Goes(p, "templates")
    BY <1>3 DEF NumbersDone
  <2>2. Goes(p, "templates") => req'[p].step = "templates"
    BY <1>0 DEF Goes, Request
  <2> QED BY <1>2, <2>1, <2>2
<1>4. CASE ListNumbers(p)
  BY <1>1, <1>3, <1>4 DEF ListNumbers, rowVars
<1>5. CASE ListTemplates(p)
  BY <1>1, <1>2, <1>5 DEF ListTemplates, rowVars
<1>6. ASSUME NEW t \in Templates,
             CreateTemplate(p, t) \/ CreateFromLibrary(p, t) \/ DeleteTemplate(p, t)
      PROVE  req'[p].seen = meta' /\ heard' = heard
  <2>1. meta' \in [Things -> Row]
    BY <1>6, SaidTyped DEF CreateTemplate, CreateFromLibrary, DeleteTemplate, Things, Statuses
  <2>2. Answered(p, t, "write")
    BY <1>6 DEF CreateTemplate, CreateFromLibrary, DeleteTemplate
  <2> QED BY <2>1, <2>2, AnsweredTyped DEF Steps, Answered, rowVars
<1> QED BY <1>4, <1>5, <1>6, OwnStep

LEMMA AbreastStep == TypeInv /\ RowsInv /\ [Next]_vars => Abreast'
<1> SUFFICES ASSUME TypeInv, RowsInv, [Next]_vars, NEW q \in Requests, NEW x \in Things,
                    req'[q].step \in {"save", "copy", "write"}, x \notin req'[q].behind
             PROVE  heard'[x] <= req'[q].seen[x].version
    BY DEF Abreast, AbreastIn
<1> DEFINE Goal == heard'[x] <= req'[q].seen[x].version
<1>1. /\ Lasting /\ heard'[x] \in {heard[x], 0} /\ heard[x] <= meta[x].version
      /\ heard[x] \in 0..MaxVersion /\ req[q].seen[x].version \in 0..MaxVersion
  BY WordsLast, RowsMove DEF RowsInv, Truthful, Backed, Warned, TypeInv, TypeOK, Request, Row
<1>2. ASSUME Kept(q) PROVE Goal
  <2>1. /\ req[q].step \in {"save", "copy", "write"} /\ x \notin req[q].behind
        /\ req'[q].seen = req[q].seen
    BY <1>2, KeptEquipped DEF Kept
  <2>2. heard[x] <= req[q].seen[x].version
    BY <2>1 DEF RowsInv, Abreast, AbreastIn
  <2> QED BY <1>1, <2>1, <2>2
<1>3. CASE UNCHANGED vars \/ MetaNext
  <2>1. Kept(q)
    BY <1>3, SameIsKept DEF vars, MetaNext, TypeInv, TypeOK
  <2> QED BY <1>2, <2>1
<1>4. ASSUME NEW r \in reports, TemplateReport(r) \/ NumberReport(r) PROVE Goal
  BY <1>2, <1>4, ReportTyped
<1>5. ASSUME NEW p \in Requests, Arrives(p) PROVE Goal
  <2>1. req'[q] = req[q]
    BY <1>5, ArrivesTyped
  <2>2. Kept(q)
    BY <2>1, SameIsKept DEF TypeInv, TypeOK
  <2> QED BY <1>2, <2>2
<1>6. ASSUME NEW p \in Requests, Step(p), p # q PROVE Goal
  BY <1>2, <1>6, StepTyped
<1>7. CASE Step(q)
  <2>1. req'[q].seen = meta' /\ heard' = heard
    BY <1>7, JustAsked DEF RowsInv
  <2>2. heard[x] <= meta'[x].version
    BY <1>1 DEF Lasting
  <2> QED BY <2>1, <2>2
<1> QED BY <1>3, <1>4, <1>5, <1>6, <1>7 DEF Next

LEMMA TruthfulStep == TypeInv /\ RowsInv /\ [Next]_vars => Truthful' /\ NewsIsShown'
<1> SUFFICES ASSUME TypeInv, RowsInv, [Next]_vars PROVE Truthful' /\ NewsIsShown'
    OBVIOUS
<1>1. /\ Lasting
      /\ \A y \in Things : Genuine(y, meta[y].version, meta[y].status)'
      /\ \A r \in reports' : Genuine(r.thing, r.version, r.says)'
  BY WordsLast DEF RowsInv
<1>2. \A x \in Things : /\ Backed(x)'
                        /\ row'[x].there /\ x \notin crossed' => row'[x].version >= heard'[x]
  BY <1>1, RowsMove, RowMovesKeep DEF RowsInv
<1>3. \A x \in Things : Genuine(x, 0, "PENDING")'
  <2>1. 0 \in 0..MaxVersion
    BY ConstantsAssumption
  <2> QED BY <1>1, <2>1 DEF RowsInv, Truthful, Lasting
<1>4. ASSUME NEW q \in Requests, NEW x \in Things
      PROVE  Genuine(x, req[q].seen[x].version, req[q].seen[x].status)'
  <2>1. CASE req'[q].seen = meta'
    BY <1>1, <2>1 DEF Genuine
  <2>2. CASE req'[q].seen = Idle.seen
    <3>1. req'[q].seen[x].version = 0 /\ req'[q].seen[x].status = "PENDING"
      BY <2>2 DEF Idle, NoRow
    <3> QED BY <1>3, <3>1 DEF Genuine
  <2>3. CASE req'[q].seen = req[q].seen
    <3> DEFINE v == req[q].seen[x].version
               s == req[q].seen[x].status
    <3>1. v \in 0..MaxVersion /\ Genuine(x, v, s)
      BY DEF TypeInv, TypeOK, Request, Row, RowsInv, Truthful
    <3>2. /\ v <= meta[x].version => v <= meta'[x].version
          /\ x \in Templates /\ v <= meta[x].version /\ said[x][v] = s => said'[x][v] = s
      <4> HIDE DEF v, s
      <4>1. \A w \in 0..MaxVersion : \A k :
              /\ w <= meta[x].version => w <= meta'[x].version
              /\ Genuine(x, w, k) => Genuine(x, w, k)'
        BY <1>1 DEF Lasting
      <4>2. \A w \in 0..MaxVersion : \A k :
              x \in Templates /\ Genuine(x, w, k)' => said'[x][w] = k
        BY DEF Genuine
      <4>3. x \in Templates /\ v <= meta[x].version /\ said[x][v] = s => Genuine(x, v, s)
        BY DEF Genuine
      <4> QED BY <3>1, <4>1, <4>2, <4>3
    <3> QED BY <2>3, <3>1, <3>2 DEF Genuine
  <2> QED BY <2>1, <2>2, <2>3, AnswersFrom
<1>5. Truthful'
  BY <1>1, <1>2, <1>3, <1>4 DEF Truthful, Things
<1> QED BY <1>2, <1>5 DEF NewsIsShown, Things

\* syncPhoneNumbers(), syncTemplates(), createTemplate() and the webhooks, in any
\* order and however late: a row goes back to older news only where two writers or
\* two reports crossed, and a template is shown as approved only on Meta's word.
THEOREM RowsShowWhatMetaSaid == Spec => []RowsFollowMeta
<1>1. RowsInv => RowsFollowMeta
  BY DEF RowsInv, Truthful, Backed, RowsFollowMeta, ApprovedByMeta, Things
<1>2. TypeInv /\ RowsInv /\ [Next]_vars => RowsInv'
  BY AbreastStep, TruthfulStep DEF RowsInv
<1> QED BY <1>1, <1>2, TypeInit, TypeStep, RowsInit, PTL DEF Spec

=============================================================================
