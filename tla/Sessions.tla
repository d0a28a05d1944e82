------------------------------ MODULE Sessions ------------------------------
(***************************************************************************)
(* One signed-in person: the refresh cookie the browser keeps, the ring of *)
(* keys that access tokens are verified with, and the session record that  *)
(* says which organisations may be entered.  The sign-in service (SSO) is  *)
(* outside.                                                                *)
(*                                                                         *)
(* A request stops at every call it makes; the tabs of the browser share   *)
(* one cookie and run requests side by side.  The refresh tokens of the    *)
(* session are numbered in the order in which the SSO issued them.         *)
(***************************************************************************)
EXTENDS Integers, FiniteSets

CONSTANTS
    Requests,       \* requests that can be under way at once
    Mixes,          \* the sets of kinds of request that are tried together
    Orgs,
    Home,           \* the organisations the person belongs to at the SSO
    New,            \* the organisation the person may create
    Managed,        \* per organisation, the agency that manages it, or None
    None,
    MaxToken,       \* bound: refresh tokens the SSO issues
    MaxKid,         \* bound: signing keys the SSO goes through
    MaxStarts,      \* bound: requests
    MaxFaults       \* bound: calls that fail, answers that are lost

Kinds == {"refresh", "enter", "create", "logout", "rotate"}

ASSUME ConstantsAssumption ==
    /\ Mixes \subseteq SUBSET Kinds
    /\ Home \subseteq Orgs /\ New \in Orgs \ Home /\ None \notin Orgs
    /\ Managed \in [Orgs -> Orgs \cup {None}]
    /\ MaxToken \in Nat \ {0} /\ MaxKid \in Nat \ {0} /\ MaxStarts \in Nat /\ MaxFaults \in Nat

VARIABLES
    sso,            \* SSO: the session there, and the token it would accept
    member,         \* SSO: the organisations the person belongs to
    signing,        \* SSO: the key it signs with
    jar,            \* browser: the refresh token in the cookie, or 0
    issued,         \* browser: the keys its access tokens are signed with
    lock, result,   \* Redis: refreshlock:{hash}, and refresh:{hash} or 0
    record,         \* Redis: ssosession:{sid}
    ring,           \* keys
    fetch,          \* inFlight: what the SSO published when the fetch began, or {}
    cooling,        \* the fetches whose cooldown runs
    req,            \* locals of each request
    mix, starts, faults,
    presented,      \* history: how often each token reached the live session
    excused,        \* history: tokens somebody lost hold of
    checked,        \* history: what the last rotation check saw
    raced,          \* history: requests whose copy of the record was overtaken
    out             \* history: the sign-out that went all the way

ssoVars == <<sso, member, signing>>
refreshVars == <<jar, issued, lock, result, presented, excused>>
ringVars == <<ring, fetch, cooling, checked>>
recordVars == <<record, raced>>
bounds == <<mix, starts, faults>>
vars == <<ssoVars, refreshVars, ringVars, recordVars, out, req, bounds>>

-----------------------------------------------------------------------------

Tokens == 1..MaxToken
Kids == 1..MaxKid

NoRecord == [exists |-> FALSE, orgs |-> {}, grants |-> {}]

Record == [exists: BOOLEAN, orgs: SUBSET Orgs, grants: SUBSET Orgs]

Steps == {"idle", "result", "lock", "wait", "call", "keep", "release", "issue", "clear",
          "key", "loading", "rotation", "checking", "last",
          "session", "rebuild", "resolve", "record", "write", "entered",
          "create", "learn", "told", "drop"}

Idle == [step |-> "idle", kind |-> "enter", token |-> 0, pair |-> 0, refused |-> FALSE,
         kid |-> 0, org |-> None, copy |-> NoRecord, after |-> FALSE]

Request == [step: Steps, kind: Kinds, token: 0..MaxToken, pair: 0..MaxToken, refused: BOOLEAN,
            kid: 0..MaxKid, org: Orgs \cup {None}, copy: Record, after: BOOLEAN]

TypeOK ==
    /\ sso \in [state: {"none", "live", "ended", "stolen"}, token: 0..MaxToken]
    /\ member \in SUBSET Orgs /\ signing \in Kids
    /\ jar \in 0..MaxToken /\ issued \in SUBSET Kids
    /\ lock \in SUBSET Tokens /\ result \in [Tokens -> 0..MaxToken]
    /\ record \in Record /\ (record.exists \/ record = NoRecord)
    /\ ring \in SUBSET Kids /\ fetch \in SUBSET Kids /\ cooling \in SUBSET {"load", "rotation"}
    /\ req \in [Requests -> Request]
    /\ mix \in Mixes /\ starts \in 0..MaxStarts /\ faults \in 0..MaxFaults
    /\ presented \in [Tokens -> Nat] /\ excused \in SUBSET Tokens
    /\ checked \in {"never", "failed", "before", "after"}
    /\ raced \in SUBSET Requests /\ out \in {"no", "here", "told", "gone", "revived"}

Init ==
    /\ sso = [state |-> "none", token |-> 0] /\ member = Home /\ signing = 1
    /\ jar = 0 /\ issued = {} /\ lock = {} /\ result = [t \in Tokens |-> 0]
    /\ record = NoRecord /\ ring = {} /\ fetch = {} /\ cooling = {}
    /\ req = [p \in Requests |-> Idle]
    /\ mix \in Mixes /\ starts = 0 /\ faults = 0
    /\ presented = [t \in Tokens |-> 0] /\ excused = {} /\ checked = "never" /\ raced = {}
    /\ out = "no"

At(p, step) == req[p].step = step

Goes(p, step) == req' = [req EXCEPT ![p].step = step]

Ends(p) == req' = [req EXCEPT ![p] = Idle]

Fault == faults < MaxFaults /\ faults' = faults + 1

\* What a refresh leaves alone, and what a request to an organisation leaves alone.
NotRefresh == UNCHANGED <<member, signing, ringVars, recordVars, out, mix, starts>>
NotAccess == UNCHANGED <<refreshVars, mix, starts>>

\* A request comes in.
Starts(p, kind) ==
    /\ At(p, "idle") /\ starts < MaxStarts /\ kind \in mix
    /\ starts' = starts + 1
    /\ UNCHANGED <<mix, faults>>

-----------------------------------------------------------------------------
(* The SSO *)

\* listOrganizations(): [] is also the answer to a refusal and to an error, and
\* the list may be a moment behind a creation.
Listed == IF sso.state = "live" THEN {member, member \ {New}, {}} ELSE {{}}

\* exchangeCode(): the code buys the first pair
ExchangeCode == sso' = [state |-> "live", token |-> 1]

\* handleCallback(): nobody else knows the session id until this returns.
SignIn ==
    /\ sso.state = "none"
    /\ ExchangeCode
    /\ jar' = 1 /\ issued' = {signing} /\ ring' = Kids \cap 1..signing
    /\ \E orgs \in {member, {}} :
         record' = [exists |-> TRUE, orgs |-> orgs, grants |-> {}]
    /\ UNCHANGED <<member, signing, lock, result, presented, excused, fetch, cooling, checked,
                   raced, out, req, bounds>>

\* The SSO takes a new key into use; it goes on publishing the old one.
RotateKey ==
    /\ sso.state = "live" /\ "rotate" \in mix /\ signing < MaxKid
    /\ signing' = signing + 1 /\ issued' = issued \cup {signing + 1}
    /\ checked' = IF checked = "after" THEN "before" ELSE checked
    /\ UNCHANGED <<sso, member, jar, lock, result, presented, excused, ring, fetch, cooling,
                   recordVars, out, req, bounds>>

Published == 1..signing

\* Somebody is taken out of an organisation, in the console or at the SSO.
RemoveMember(o) ==
    /\ "create" \in mix /\ sso.state = "live" /\ o \in member
    /\ member' = member \ {o}
    /\ UNCHANGED <<sso, signing, refreshVars, ringVars, recordVars, out, req, bounds>>

-----------------------------------------------------------------------------
(* Refreshing *)

\* refresh(), in the controller and then in the service
Refresh(p) ==
    /\ Starts(p, "refresh")
    /\ jar # 0
    /\ req' = [req EXCEPT ![p] = [Idle EXCEPT !.step = "result", !.kind = "refresh",
                                              !.token = jar]]
    /\ UNCHANGED <<ssoVars, refreshVars, ringVars, recordVars, out>>

\* getRefreshResult(): the pair somebody else bought with this token
GetRefreshResult(p) ==
    LET t == req[p].token IN
    /\ At(p, "result")
    /\ req' = [req EXCEPT ![p].step = IF result[t] # 0 THEN "issue" ELSE "lock",
                          ![p].pair = result[t]]
    /\ NotRefresh /\ UNCHANGED <<sso, refreshVars, faults>>

TakeRefreshLock_Always(p) ==
    /\ At(p, "lock")
    /\ lock' = lock \cup {req[p].token}
    /\ Goes(p, "call")
    /\ NotRefresh /\ UNCHANGED <<sso, jar, issued, result, presented, excused, faults>>

TakeRefreshLock(p) ==
    LET t == req[p].token IN
    /\ At(p, "lock")
    /\ lock' = lock \cup {t}
    /\ Goes(p, IF t \in lock THEN "wait" ELSE "call")
    /\ NotRefresh /\ UNCHANGED <<sso, jar, issued, result, presented, excused, faults>>

\* waitForRefresh(): the other request's pair turns up, or two seconds pass (503)
WaitForRefresh(p) ==
    LET t == req[p].token IN
    /\ At(p, "wait")
    /\ \/ /\ result[t] # 0
          /\ req' = [req EXCEPT ![p].step = "issue", ![p].pair = result[t]]
       \/ result[t] = 0 /\ Ends(p)
    /\ NotRefresh /\ UNCHANGED <<sso, refreshVars, faults>>

\* refreshTokens(): the SSO trades the token it waits for; any other one it has
\* traded before, and takes the caller for a thief.
Trade(p) ==
    LET t == req[p].token IN
    /\ At(p, "call") /\ sso.state = "live" /\ t = sso.token /\ t < MaxToken
    /\ sso' = [sso EXCEPT !.token = t + 1]
    /\ presented' = [presented EXCEPT ![t] = @ + 1]
    /\ \/ /\ req' = [req EXCEPT ![p].step = "keep", ![p].pair = t + 1]
          /\ UNCHANGED <<excused, faults>>
       \/ /\ Fault /\ excused' = excused \cup {t}
          /\ Goes(p, "release")
    /\ NotRefresh /\ UNCHANGED <<jar, issued, lock, result>>

Refuse(p) ==
    LET t == req[p].token IN
    /\ At(p, "call") /\ (sso.state # "live" \/ t # sso.token)
    /\ sso' = [sso EXCEPT !.state = IF @ = "live" THEN "stolen" ELSE @]
    /\ presented' = IF sso.state = "live" THEN [presented EXCEPT ![t] = @ + 1] ELSE presented
    /\ req' = [req EXCEPT ![p].step = "release", ![p].refused = TRUE]
    /\ NotRefresh /\ UNCHANGED <<jar, issued, lock, result, excused, faults>>

\* ... or cannot be reached, or answers 500 (503).
Unreachable(p) ==
    /\ At(p, "call") /\ Fault
    /\ Goes(p, "release")
    /\ NotRefresh /\ UNCHANGED <<sso, refreshVars>>

SetRefreshResult(p) ==
    /\ At(p, "keep")
    /\ result' = [result EXCEPT ![req[p].token] = req[p].pair]
    /\ Goes(p, "issue")
    /\ NotRefresh /\ UNCHANGED <<sso, jar, issued, lock, presented, excused, faults>>

AfterError_Any(p) == "clear"

\* Only a refusal (401) goes on to clear the cookie.
AfterError(p) == IF req[p].refused THEN "clear" ELSE "idle"

ReleaseRefreshLock(p) ==
    /\ At(p, "release")
    /\ lock' = lock \ {req[p].token}
    /\ IF AfterError(p) = "idle" THEN Ends(p) ELSE Goes(p, "clear")
    /\ NotRefresh /\ UNCHANGED <<sso, jar, issued, result, presented, excused, faults>>

\* issue(): the answer reaches the browser and replaces its cookie, or gets lost.
Issue(p) ==
    /\ At(p, "issue")
    /\ \/ jar' = req[p].pair /\ UNCHANGED faults
       \/ Fault /\ UNCHANGED jar
    /\ issued' = issued \cup {signing}
    /\ Ends(p)
    /\ NotRefresh /\ UNCHANGED <<sso, lock, result, presented, excused>>

ClearRefreshCookie(p) ==
    /\ At(p, "clear")
    /\ jar' = 0
    /\ Ends(p)
    /\ NotRefresh /\ UNCHANGED <<sso, issued, lock, result, presented, excused, faults>>

\* Between finding no pair and leaving one, or giving the lock up.
Holding == {"lock", "call", "keep", "release"}

\* The process dies with a refresh under way.
Die(p) ==
    /\ req[p].step \in Holding /\ Fault
    /\ excused' = IF At(p, "keep") THEN excused \cup {req[p].token} ELSE excused
    /\ Ends(p)
    /\ NotRefresh /\ UNCHANGED <<sso, jar, issued, lock, result, presented>>

\* Ten seconds.  The SSO may take longer, axios has no timeout here.
LockRunsOut(t) ==
    /\ t \in lock
    /\ lock' = lock \ {t}
    /\ excused' = IF \E p \in Requests : req[p].token = t /\ req[p].step \in Holding
                    THEN excused \cup {t} ELSE excused
    /\ NotRefresh /\ UNCHANGED <<sso, jar, issued, result, presented, req, faults>>

\* Sixty seconds, so after its lock and after the results of earlier tokens.
ResultRunsOut(t) ==
    /\ result[t] # 0 /\ t \notin lock /\ \A u \in 1..(t - 1) : result[u] = 0
    /\ result' = [result EXCEPT ![t] = 0]
    /\ excused' = IF \/ jar = t
                     \/ \E p \in Requests :
                          req[p].step # "idle" /\ t \in {req[p].token, req[p].pair}
                    THEN excused \cup {t} ELSE excused
    /\ NotRefresh /\ UNCHANGED <<sso, jar, issued, lock, presented, req, faults>>

-----------------------------------------------------------------------------
(* Verifying an access token *)

\* A request with an access token: AuthMiddleware, and verify() with its kid.
Enter(p, kid, o) ==
    /\ Starts(p, "enter")
    /\ req' = [req EXCEPT ![p] = [Idle EXCEPT !.step = "key", !.kid = kid, !.org = o,
                                              !.after = out \in {"gone", "revived"}]]
    /\ UNCHANGED <<ssoVars, refreshVars, ringVars, recordVars, out>>

Create(p, kid) ==
    /\ Starts(p, "create") /\ New \notin member
    /\ req' = [req EXCEPT ![p] = [Idle EXCEPT !.step = "key", !.kind = "create", !.kid = kid,
                                              !.org = New, !.after = out \in {"gone", "revived"}]]
    /\ UNCHANGED <<ssoVars, refreshVars, ringVars, recordVars, out>>

Logout(p, kid) ==
    /\ Starts(p, "logout") /\ out = "no"
    /\ req' = [req EXCEPT ![p] = [Idle EXCEPT !.step = "key", !.kind = "logout", !.kid = kid]]
    /\ UNCHANGED <<ssoVars, refreshVars, ringVars, recordVars, out>>

AfterVerify(p) ==
    CASE req[p].kind = "enter" -> "session"
      [] req[p].kind = "create" -> "create"
      [] req[p].kind = "logout" -> "told"

Cooldown_Shared(why) == "load"

Cooldown(why) == why

\* loadKeys(): joins the fetch under way; a fetch of one's own has a cooldown.
LoadKeys(p, why, waiting, onward) ==
    \/ /\ fetch # {}
       /\ Goes(p, waiting)
       /\ UNCHANGED <<fetch, cooling>>
    \/ /\ fetch = {} /\ Cooldown(why) \in cooling
       /\ Goes(p, onward)
       /\ UNCHANGED <<fetch, cooling>>
    \/ /\ fetch = {} /\ Cooldown(why) \notin cooling
       /\ cooling' = cooling \cup {Cooldown(why)} /\ fetch' = Published
       /\ Goes(p, waiting)

\* keyFor()
KeyFor(p) ==
    /\ At(p, "key")
    /\ \/ ring # {} /\ UNCHANGED <<fetch, cooling>>
          /\ Goes(p, IF req[p].kid \in ring THEN AfterVerify(p) ELSE "rotation")
       \/ ring = {} /\ LoadKeys(p, "load", "loading", "rotation")
    /\ NotAccess /\ UNCHANGED <<ssoVars, ring, checked, recordVars, out, faults>>

\* verify(): an unknown key sends it back to the ring, once.
LookAgain(p) ==
    /\ At(p, "rotation")
    /\ LoadKeys(p, "rotation", "checking", "last")
    /\ NotAccess /\ UNCHANGED <<ssoVars, ring, checked, recordVars, out, faults>>

\* What a fetch leaves in the ring: an answer with no usable key changes nothing.
Kept(answer) == IF answer = {} THEN ring ELSE answer

Checked(saw) == checked' = IF \E p \in Requests : At(p, "checking") THEN saw ELSE checked

\* The fetch ends: an answer from when it began or from now, an error, or an
\* answer nothing can be read from.  Requests that wait for it go on.
FetchEnds ==
    /\ fetch # {} /\ fetch' = {}
    /\ \/ \E answer \in {fetch, Published} :
            /\ ring' = Kept(answer)
            /\ Checked(IF answer = Published THEN "after" ELSE "before")
            /\ UNCHANGED faults
       \/ Fault /\ ring' = Kept({}) /\ Checked("failed")
    /\ req' = [p \in Requests |->
                 [req[p] EXCEPT !.step =
                    CASE At(p, "loading") /\ req[p].kid \in ring' -> AfterVerify(p)
                      [] At(p, "loading") /\ req[p].kid \notin ring' -> "rotation"
                      [] At(p, "checking") -> "last"
                      [] OTHER -> @]]
    /\ NotAccess /\ UNCHANGED <<ssoVars, cooling, recordVars, out>>

LookUp(p) ==
    /\ At(p, "last")
    /\ IF req[p].kid \in ring THEN Goes(p, AfterVerify(p)) ELSE Ends(p)
    /\ NotAccess /\ UNCHANGED <<ssoVars, ringVars, recordVars, out, faults>>

CooldownEnds(why) ==
    /\ Cooldown(why) \in cooling /\ fetch = {}
    /\ cooling' = cooling \ {Cooldown(why)}
    /\ NotAccess /\ UNCHANGED <<ssoVars, ring, fetch, checked, recordVars, out, req, faults>>

\* A new process starts with an empty ring.
Restart ==
    /\ "rotate" \in mix /\ Fault /\ \A p \in Requests : At(p, "idle")
    /\ ring # {} /\ ring' = {} /\ fetch' = {} /\ cooling' = {} /\ checked' = "never"
    /\ NotAccess /\ UNCHANGED <<ssoVars, recordVars, out, req>>

-----------------------------------------------------------------------------
(* Entering an organisation *)

\* setSsoSession() and deleteSsoSession() overtake whoever has read the record
\* and is about to write it.
Overtaken(p) ==
    {q \in Requests \ {p} : req[q].step \in {"rebuild", "write", "learn"} \/ q \in raced}

Store(p, data) ==
    /\ record' = data
    /\ raced' = Overtaken(p)
    /\ out' = IF out = "gone" /\ ~req[p].after /\ data.orgs \cup data.grants # {}
                THEN "revived" ELSE out

NotStored == UNCHANGED <<recordVars, out>>

\* session(): the record, or the organisations the SSO lists
Session(p) ==
    /\ At(p, "session")
    /\ \/ /\ record.exists
          /\ req' = [req EXCEPT ![p].step = "resolve", ![p].copy = record]
       \/ /\ ~record.exists
          /\ \E orgs \in Listed :
               req' = [req EXCEPT ![p].step = "rebuild",
                                  ![p].copy = [exists |-> TRUE, orgs |-> orgs, grants |-> {}]]
    /\ NotStored /\ NotAccess /\ UNCHANGED <<ssoVars, ringVars, faults>>

Rebuild(p) ==
    /\ At(p, "rebuild")
    /\ Store(p, req[p].copy)
    /\ Goes(p, "resolve")
    /\ NotAccess /\ UNCHANGED <<ssoVars, ringVars, faults>>

\* resolve(): membership, or managing it as an agency
Granted(orgs, o) == o \in orgs \/ Managed[o] \in orgs

\* grantFor(): the grant on the record, or one to be recorded, or 403
GrantFor(p) ==
    LET session == req[p].copy
        o == req[p].org IN
    /\ At(p, "resolve")
    /\ \/ o \in session.grants /\ Goes(p, "entered")
       \/ o \notin session.grants /\ Granted(session.orgs, o) /\ Goes(p, "record")
       \/ o \notin session.grants /\ ~Granted(session.orgs, o) /\ Ends(p)
    /\ NotStored /\ NotAccess /\ UNCHANGED <<ssoVars, ringVars, faults>>

Reread_First(p) == IF record.exists THEN req[p].copy ELSE record

\* record() writes what it just read, and nothing where the record is gone.
Reread(p) == record

RecordGrant(p) ==
    LET session == Reread(p) IN
    /\ At(p, "record")
    /\ \/ session.exists /\ req' = [req EXCEPT ![p].step = "write", ![p].copy = session]
       \/ ~session.exists /\ Goes(p, "entered")
    /\ NotStored /\ NotAccess /\ UNCHANGED <<ssoVars, ringVars, faults>>

WriteGrant(p) ==
    /\ At(p, "write")
    /\ Store(p, [req[p].copy EXCEPT !.grants = @ \cup {req[p].org}])
    /\ Goes(p, "entered")
    /\ NotAccess /\ UNCHANGED <<ssoVars, ringVars, faults>>

\* selectOrg() and the middleware have let it in; the request is served.
Served(p) ==
    /\ At(p, "entered")
    /\ Ends(p)
    /\ raced' = raced \ {p}
    /\ NotAccess /\ UNCHANGED <<ssoVars, ringVars, record, out, faults>>

\* createOrganisation(): at the SSO, then onto the record that is there
CreateOrganization(p) ==
    /\ At(p, "create")
    /\ \/ sso.state = "live" /\ member' = member \cup {New}
          /\ req' = [req EXCEPT ![p].step = IF record.exists THEN "learn" ELSE "record",
                                ![p].copy = record]
       \/ sso.state # "live" /\ UNCHANGED member /\ Ends(p)
    /\ NotStored /\ NotAccess /\ UNCHANGED <<sso, signing, ringVars, faults>>

Learn(p) ==
    /\ At(p, "learn")
    /\ Store(p, [req[p].copy EXCEPT !.orgs = @ \cup {New}])
    /\ Goes(p, "record")
    /\ NotAccess /\ UNCHANGED <<ssoVars, ringVars, faults>>

-----------------------------------------------------------------------------
(* Signing out *)

\* logout(): the SSO is told, best-effort ...
LogoutAtSso(p) ==
    /\ At(p, "told")
    /\ \/ /\ sso' = [sso EXCEPT !.state = IF @ = "live" THEN "ended" ELSE @]
          /\ out' = IF out \in {"no", "here"} THEN "told" ELSE out
          /\ UNCHANGED faults
       \/ Fault /\ out' = (IF out = "no" THEN "here" ELSE out) /\ UNCHANGED sso
    /\ Goes(p, "drop")
    /\ NotAccess /\ UNCHANGED <<member, signing, ringVars, recordVars>>

Dropped_Not == record

Dropped == NoRecord

\* ... and the record is deleted either way; the answer clears the cookie.
DeleteSsoSession(p) ==
    /\ At(p, "drop")
    /\ record' = Dropped
    /\ raced' = Overtaken(p)
    /\ out' = IF out = "told" THEN "gone" ELSE out
    /\ Goes(p, "clear")
    /\ NotAccess /\ UNCHANGED <<ssoVars, ringVars, faults>>

\* The record lives out its thirty days, or Redis evicts it.
Evict ==
    /\ "enter" \in mix /\ record.exists /\ Fault
    /\ record' = NoRecord
    /\ NotAccess /\ UNCHANGED <<ssoVars, ringVars, raced, out, req>>

-----------------------------------------------------------------------------

RefreshNext ==
    \/ \E p \in Requests :
         \/ Refresh(p) \/ GetRefreshResult(p) \/ TakeRefreshLock(p) \/ WaitForRefresh(p)
         \/ Trade(p) \/ Refuse(p) \/ Unreachable(p) \/ SetRefreshResult(p)
         \/ ReleaseRefreshLock(p) \/ Issue(p) \/ ClearRefreshCookie(p) \/ Die(p)
    \/ \E t \in Tokens : LockRunsOut(t) \/ ResultRunsOut(t)

VerifyNext ==
    \/ \E p \in Requests, kid \in issued :
         \/ \E o \in Orgs : Enter(p, kid, o)
         \/ Create(p, kid) \/ Logout(p, kid)
    \/ \E p \in Requests : KeyFor(p) \/ LookAgain(p) \/ LookUp(p)
    \/ FetchEnds \/ Restart
    \/ \E why \in {"load", "rotation"} : CooldownEnds(why)

AccessNext ==
    \/ \E p \in Requests :
         \/ Session(p) \/ Rebuild(p) \/ GrantFor(p) \/ RecordGrant(p) \/ WriteGrant(p)
         \/ Served(p) \/ CreateOrganization(p) \/ Learn(p) \/ LogoutAtSso(p)
         \/ DeleteSsoSession(p)
    \/ Evict
    \/ \E o \in Orgs : RemoveMember(o)

Next == SignIn \/ RotateKey \/ RefreshNext \/ VerifyNext \/ AccessNext

Spec == Init /\ [][Next]_vars

-----------------------------------------------------------------------------
(* Properties *)

\* Tabs that wake together do not sign the person out between them: a refresh
\* token reaches the SSO a second time (and reads as theft) only when whoever
\* had it lost hold of it, that is when the SSO's answer or the process was
\* lost, a call outlived its lock of ten seconds, or the pair it bought lived
\* out its minute with the old token still in a request or in the cookie.
SpentOnce ==
    \A t \in Tokens : presented[t] > 1 => t \in excused

\* An outage never costs a session: the cookie is cleared only by signing out
\* or once the SSO has ended the session itself.
OutageKeepsCookie ==
    jar = 0 => sso.state # "live" \/ out # "no"

\* Nobody is signed out but by signing out, by the SSO, or by a loss that SpentOnce
\* names.
SessionIsKept == SpentOnce /\ OutageKeepsCookie

\* A rotation of the SSO's key is found by the first token that needs it: a
\* token signed with a published key is turned away only after a check of the
\* ring that failed or was answered before the key was published.
RotationSeenAtOnce ==
    [][\A p \in Requests :
         At(p, "last") /\ req'[p].step = "idle" /\ req[p].kid \in Published
           => checked \in {"failed", "before"}]_vars

\* Writing a grant never costs another: the record loses an organisation or a
\* grant only to a write that another write overtook between its own read and
\* its own write.
WritersKeepOthers ==
    [][record.exists /\ record'.exists =>
         \/ record.orgs \subseteq record'.orgs /\ record.grants \subseteq record'.grants
         \/ raced \ raced' # {}]_vars

\* Signing out shuts the organisations: once the SSO was told and the record
\* dropped, no request that arrives later gets into an organisation, unless one
\* that was under way at that moment wrote what it had read before.
SignedOutStaysOut ==
    \A p \in Requests : At(p, "entered") /\ req[p].after => out = "revived"

=============================================================================
