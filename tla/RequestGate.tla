---------------------------- MODULE RequestGate ----------------------------
(***************************************************************************)
(* What a request with an API key passes before it may send: the key and   *)
(* its cache, the send-rate window, and whether anybody pays for the       *)
(* account, with the versioned cache in front of that question.            *)
(*                                                                         *)
(* A request is a worker that stops at every read or write of Redis or the *)
(* database.  Revoking a key and changing a subscription are two steps     *)
(* each: the row, then the cache.  One unit of time is one rate window.    *)
(***************************************************************************)
EXTENDS Integers, FiniteSets, Sequences

CONSTANTS
    Orgs,
    None,
    Keys,
    OrgOf,          \* the organisation of each key
    Agencies,       \* organisations that may pay for others
    Workers,
    MaxKeys,        \* apiKeysPerWaba
    PerMinute,      \* messagesPerMinute
    Ttl,            \* setSubscriptionAccess()'s ttlSeconds
    MaxChanges,     \* bound: changes of a subscription or of who pays
    MaxClock,       \* bound
    MaxFaults       \* bound: Redis entries lost, counters and bumps that fail

ASSUME ConstantsAssumption ==
    /\ None \notin Orgs
    /\ OrgOf \in [Keys -> Orgs]
    /\ Agencies \subseteq Orgs
    /\ MaxKeys \in Nat /\ PerMinute \in Nat /\ Ttl \in Nat \ {0}
    /\ MaxChanges \in Nat /\ MaxClock \in Nat /\ MaxFaults \in Nat

VARIABLES
    keyRow,         \* UserApiKey: absent, live or revoked
    keyCache,       \* keys in Redis
    revoking,       \* keys whose row is revoked and whose entry is not deleted yet
    grantedBy,      \* what the organisation's own subscription says, or none
    payer,          \* OrganisationSettings.agencyOrgId
    version,        \* OrganisationSettings.payerVersion
    bumping,        \* per organisation, the change it has still to announce, or 0
    cache,          \* sub:{org}:v{version}: [allowed, expires, basis]
    used,           \* ratelimit:{key}:{window}
    sent,           \* history: requests let through in this window
    req,            \* locals of each worker
    clock, faults,
    madeAt,         \* history: when each change was made, in order
    announced,      \* history: per key, the last one announced to its organisation
    moved,          \* history: organisations that changed payer
    raced           \* history: keys revoked while a request was caching them

keyVars == <<keyRow, keyCache, revoking, raced>>
payVars == <<grantedBy, payer, version, bumping, madeAt, announced, moved>>
sendVars == <<cache, used, sent, req, clock>>
vars == <<keyVars, payVars, sendVars, faults>>

-----------------------------------------------------------------------------

NoEntry == [allowed |-> FALSE, expires |-> 0, basis |-> 0]

Versions == 0..MaxChanges

\* Whose version is part of an organisation's cache keys: cacheVersionFor().
VersionOrg(o) == IF payer[o] = None THEN o ELSE payer[o]

Grants(answer) == answer = "yes"

\* forOrganisation(), then fromPayer().
Allowed(o) ==
    IF grantedBy[o] # "none" THEN Grants(grantedBy[o])
    ELSE payer[o] # None /\ Grants(grantedBy[payer[o]])

Step == {"idle", "lookup", "caching", "version", "cached", "reading", "filling", "counting"}

NoRequest == [step |-> "idle", key |-> None, floor |-> 0, version |-> 0,
              allowed |-> FALSE, basis |-> 0]

Request == [step: Step, key: Keys \cup {None}, floor: Nat, version: Nat,
            allowed: BOOLEAN, basis: Nat]

Entry == [allowed: BOOLEAN, expires: Nat, basis: Nat]

TypeOK ==
    /\ keyRow \in [Keys -> {"absent", "live", "revoked"}]
    /\ keyCache \in SUBSET Keys /\ revoking \in SUBSET Keys /\ raced \in SUBSET Keys
    /\ grantedBy \in [Orgs -> {"none", "yes", "no"}]
    /\ payer \in [Orgs -> Orgs \cup {None}]
    /\ version \in [Orgs -> Versions]
    /\ bumping \in [Orgs -> Nat] /\ announced \in [Keys -> Nat] /\ madeAt \in Seq(Nat)
    /\ moved \in SUBSET Orgs
    /\ cache \in [Orgs \X Versions -> Entry]
    /\ used \in [Keys -> Nat] /\ sent \in [Keys -> Nat]
    /\ req \in [Workers -> Request]
    /\ clock \in Nat /\ faults \in Nat

Init ==
    /\ keyRow = [k \in Keys |-> "absent"]
    /\ keyCache = {} /\ revoking = {} /\ raced = {}
    /\ grantedBy = [o \in Orgs |-> "none"]
    /\ payer \in {p \in [Orgs -> Agencies \cup {None}] :
                   \A o \in Agencies : p[o] = None}
    /\ moved = {}
    /\ version = [o \in Orgs |-> 0]
    /\ bumping = [o \in Orgs |-> 0] /\ announced = [k \in Keys |-> 0] /\ madeAt = <<>>
    /\ cache = [ov \in Orgs \X Versions |-> NoEntry]
    /\ used = [k \in Keys |-> 0] /\ sent = [k \in Keys |-> 0]
    /\ req = [w \in Workers |-> NoRequest]
    /\ clock = 1 /\ faults = 0

-----------------------------------------------------------------------------
(* Keys *)

At(w, step) == req[w].step = step

Goto(w, step) == req' = [req EXCEPT ![w].step = step]

Done(w) == req' = [req EXCEPT ![w] = NoRequest]

\* createApiKey(): the cap, the row, the cache.
CreateApiKey(k) ==
    /\ keyRow[k] = "absent"
    /\ Cardinality({j \in Keys : keyRow[j] = "live"}) < MaxKeys
    /\ keyRow' = [keyRow EXCEPT ![k] = "live"]
    /\ keyCache' = keyCache \cup {k}
    /\ UNCHANGED <<revoking, raced, payVars, sendVars, faults>>

\* Requests that have read the key's row and not cached it yet.
Caching(k) == {w \in Workers : req[w].key = k /\ At(w, "caching")}

\* revokeApiKey(), its first half.
RevokeRow(k) ==
    /\ keyRow[k] = "live"
    /\ keyRow' = [keyRow EXCEPT ![k] = "revoked"]
    /\ revoking' = revoking \cup {k}
    /\ UNCHANGED <<keyCache, raced, payVars, sendVars, faults>>

\* Mutant: the entry is left to expire, which it never does.
RevokeCache_Leaves(k) ==
    /\ k \in revoking
    /\ revoking' = revoking \ {k}
    /\ raced' = IF Caching(k) # {} THEN raced \cup {k} ELSE raced
    /\ UNCHANGED <<keyRow, keyCache, payVars, sendVars, faults>>

\* revokeApiKey(), its second half.
RevokeCache(k) ==
    /\ k \in revoking
    /\ keyCache' = keyCache \ {k}
    /\ revoking' = revoking \ {k}
    /\ raced' = IF Caching(k) # {} THEN raced \cup {k} ELSE raced
    /\ UNCHANGED <<keyRow, payVars, sendVars, faults>>

\* use() begins with getApiKeyCache().
Begin(w, k) ==
    /\ At(w, "idle")
    /\ keyRow[k] # "absent"
    /\ req' = [req EXCEPT ![w] = [NoRequest EXCEPT !.key = k, !.floor = announced[k],
                 !.step = IF k \in keyCache THEN "version" ELSE "lookup"]]
    /\ UNCHANGED <<keyVars, payVars, cache, used, sent, clock, faults>>

\* The row, when it is not in Redis; a revoked key is refused.
ReadKeyRow(w) ==
    /\ At(w, "lookup")
    /\ IF keyRow[req[w].key] = "live" THEN Goto(w, "caching") ELSE Done(w)
    /\ UNCHANGED <<keyVars, payVars, cache, used, sent, clock, faults>>

CacheKey(w) ==
    /\ At(w, "caching")
    /\ keyCache' = keyCache \cup {req[w].key}
    /\ Goto(w, "version")
    /\ UNCHANGED <<keyRow, revoking, raced, payVars, cache, used, sent, clock, faults>>

-----------------------------------------------------------------------------
(* The paywall: hasAccess(), asked by the middleware and again by send() *)

\* cacheVersionFor()
ReadVersion(w) ==
    /\ At(w, "version")
    /\ req' = [req EXCEPT ![w].step = "cached",
                          ![w].version = version[VersionOrg(OrgOf[req[w].key])]]
    /\ UNCHANGED <<keyVars, payVars, cache, used, sent, clock, faults>>

Scope(w) == <<OrgOf[req[w].key], req[w].version>>

Answer(w, allowed, basis) ==
    req' = [req EXCEPT ![w] = IF allowed
      THEN [@ EXCEPT !.step = "counting", !.version = 0, !.allowed = TRUE, !.basis = basis]
      ELSE NoRequest]

\* getSubscriptionAccess(): an answer that has not expired is the answer.
ReadCache(w) ==
    LET entry == cache[Scope(w)]
    IN  /\ At(w, "cached")
        /\ \/ entry.expires > clock /\ Answer(w, entry.allowed, entry.basis)
           \/ entry.expires <= clock /\ Goto(w, "reading")
        /\ UNCHANGED <<keyVars, payVars, cache, used, sent, clock, faults>>

ReadSubscription(w) ==
    /\ At(w, "reading")
    /\ req' = [req EXCEPT ![w] = [@ EXCEPT !.step = "filling", !.basis = Len(madeAt),
                                           !.allowed = Allowed(OrgOf[req[w].key])]]
    /\ UNCHANGED <<keyVars, payVars, cache, used, sent, clock, faults>>

\* Mutant: an entry that outlives any request.
Expiry_Never == clock + MaxClock

Expiry == clock + Ttl

\* setSubscriptionAccess()
FillCache(w) ==
    /\ At(w, "filling")
    /\ cache' = [cache EXCEPT ![Scope(w)] = [allowed |-> req[w].allowed, expires |-> Expiry,
                                             basis |-> req[w].basis]]
    /\ Answer(w, req[w].allowed, req[w].basis)
    /\ UNCHANGED <<keyVars, payVars, used, sent, clock, faults>>

-----------------------------------------------------------------------------
(* The send rate *)

\* Mutant: the request over the limit is let through.
WithinRate_OffByOne(count) == count <= PerMinute + 1

WithinRate(count) == count <= PerMinute

\* The count is one INCR, and without Redis nothing is refused; past the limit
\* the model stops counting.
CountInWindow(w) ==
    LET k == req[w].key
        Sent == sent' = [sent EXCEPT ![k] = @ + 1]
    IN  /\ At(w, "counting")
        /\ \/ /\ WithinRate(used[k] + 1) /\ Sent
              /\ used' = [used EXCEPT ![k] = @ + 1]
              /\ UNCHANGED faults
           \/ ~ WithinRate(used[k] + 1) /\ UNCHANGED <<used, sent, faults>>
           \/ /\ faults < MaxFaults /\ faults' = faults + 1
              /\ Sent
              /\ UNCHANGED used
        /\ Done(w)
        /\ UNCHANGED <<keyVars, payVars, cache, clock>>

-----------------------------------------------------------------------------
(* Changes *)

Change == Len(madeAt) < MaxChanges /\ madeAt' = Append(madeAt, clock)

\* Those whose cache keys carry this organisation's version.
Readers(o) == {x \in Orgs : VersionOrg(x) = o}

\* A webhook, a confirmation or the reconciliation writes a subscription.
ChangeSubscription(o, answer) ==
    /\ Change
    /\ answer # grantedBy[o] /\ bumping[o] = 0
    /\ grantedBy' = [grantedBy EXCEPT ![o] = answer]
    /\ bumping' = [bumping EXCEPT ![o] = Len(madeAt) + 1]
    /\ UNCHANGED <<keyVars, payer, version, announced, moved, sendVars, faults>>

\* Mutant: the version is left as it is.
BumpPayerVersion_Skips(o) ==
    /\ bumping[o] # 0
    /\ announced' = [k \in Keys |-> IF OrgOf[k] \in Readers(o) THEN bumping[o]
                                   ELSE announced[k]]
    /\ bumping' = [bumping EXCEPT ![o] = 0]
    /\ UNCHANGED <<keyVars, grantedBy, payer, version, madeAt, moved, sendVars, faults>>

\* bumpPayerVersion()
BumpPayerVersion(o) ==
    /\ bumping[o] # 0
    /\ version' = [version EXCEPT ![o] = @ + 1]
    /\ announced' = [k \in Keys |-> IF OrgOf[k] \in Readers(o) THEN bumping[o]
                                   ELSE announced[k]]
    /\ bumping' = [bumping EXCEPT ![o] = 0]
    /\ UNCHANGED <<keyVars, grantedBy, payer, madeAt, moved, sendVars, faults>>

\* It never throws: a bump that fails is logged, and the entry expires.
BumpFails(o) ==
    /\ bumping[o] # 0
    /\ faults < MaxFaults /\ faults' = faults + 1
    /\ bumping' = [bumping EXCEPT ![o] = 0]
    /\ UNCHANGED <<keyVars, grantedBy, payer, version, madeAt, announced, moved, sendVars>>

\* attachClient() and detachClient() move the client's own version with its payer,
\* but a client that has no row yet is given one at version 0.
ChangePayer(o, a) ==
    /\ Change
    /\ o \notin Agencies /\ (payer[o] = None) # (a = None)
    /\ payer' = [payer EXCEPT ![o] = a]
    /\ \E n \in IF a # None /\ version[o] = 0 THEN {0, 1} ELSE {1} :
         version' = [version EXCEPT ![o] = @ + n]
    /\ moved' = moved \cup {o}
    /\ UNCHANGED <<keyVars, grantedBy, bumping, announced, sendVars, faults>>

\* Redis evicts an entry or is restarted.
LoseKeyCache(k) ==
    /\ k \in keyCache
    /\ faults < MaxFaults /\ faults' = faults + 1
    /\ keyCache' = keyCache \ {k}
    /\ UNCHANGED <<keyRow, revoking, raced, payVars, sendVars>>

\* The next window, whose counters start at zero; requests are short beside it.
Tick ==
    /\ clock < MaxClock
    /\ \A w \in Workers : At(w, "idle")
    /\ clock' = clock + 1
    /\ used' = [k \in Keys |-> 0] /\ sent' = [k \in Keys |-> 0]
    /\ UNCHANGED <<keyVars, payVars, cache, req, faults>>

-----------------------------------------------------------------------------

Handle(w) ==
    \/ ReadKeyRow(w) \/ CacheKey(w) \/ ReadVersion(w) \/ ReadCache(w)
    \/ ReadSubscription(w) \/ FillCache(w) \/ CountInWindow(w)

Next ==
    \/ \E w \in Workers : Handle(w) \/ \E k \in Keys : Begin(w, k)
    \/ \E k \in Keys : CreateApiKey(k) \/ RevokeRow(k) \/ RevokeCache(k) \/ LoseKeyCache(k)
    \/ \E o \in Orgs :
         \/ \E answer \in {"yes", "no"} : ChangeSubscription(o, answer)
         \/ BumpPayerVersion(o) \/ BumpFails(o)
         \/ \E a \in Agencies \cup {None} : ChangePayer(o, a)
    \/ Tick

Spec == Init /\ [][Next]_vars

-----------------------------------------------------------------------------
(* Properties *)

\* A revoked key is refused from then on: its entry comes back, without an
\* expiry, only if a request had read the row and not yet cached it.
RevokedStaysOut ==
    \A k \in Keys : keyRow[k] = "revoked" /\ k \in keyCache \ revoking => k \in raced

\* "So the old ones stop being addressable at once": a request that begins after
\* a change was announced is not let in by an answer from before it, unless the
\* organisation changed payer and came upon a version number it had used before.
LandsAtOnce ==
    \A w \in Workers :
      At(w, "counting") /\ OrgOf[req[w].key] \notin moved => req[w].basis >= req[w].floor

\* "The expiry is the backstop": whatever went wrong with a bump, and whichever
\* version number is met again, a change is seen once an entry's life has passed.
StaleIsShort ==
    \A w \in Workers, n \in DOMAIN madeAt :
      At(w, "counting") /\ clock >= madeAt[n] + Ttl => req[w].basis >= n

\* No change of a subscription is missed: it lands at once, or with the expiry.
ChangesAreSeen == LandsAtOnce /\ StaleIsShort

\* "The limit is a promise about the whole deployment": however many requests are
\* handled at once, a window holds no more than the plan's number, and one more
\* for every time Redis could not be asked.
SentWithinRate == \A k \in Keys : sent[k] <= PerMinute + faults

=============================================================================
