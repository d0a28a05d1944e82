------------------------- MODULE RequestGateProofs -------------------------
(***************************************************************************)
(* Proofs about the gate an API request passes, for any number of keys,    *)
(* organisations, workers and changes: a revoked key stays out, a change   *)
(* of a subscription is seen at once or with the expiry, and the send rate *)
(* is kept across replicas.                                                *)
(***************************************************************************)
EXTENDS RequestGate, TLAPS

\* Steps at which a request holds the version it will look its answer up by.
Versioned == {"cached", "reading", "filling"}

OrgAt(w) == OrgOf[req[w].key]

\* Only clients change payer, and only agencies pay for others.
Payers == payer \in [Orgs -> Agencies \cup {None}] /\ moved \cap Agencies = {}

\* Every version was a change, and one announced late is one still counted.
VersionsCounted ==
    /\ Len(madeAt) <= MaxChanges
    /\ \A o \in Orgs :
         /\ version[o] + (IF bumping[o] = 0 THEN 0 ELSE 1) <= Len(madeAt)
         /\ bumping[o] <= Len(madeAt)

\* A request has a key, and nobody knows of a change that has not been made.
RequestsKnow ==
    /\ \A w \in Workers :
         /\ ~ At(w, "idle") => req[w].key \in Keys
         /\ req[w].version \in Versions
         /\ req[w].floor <= Len(madeAt) /\ req[w].basis <= Len(madeAt)
    /\ \A k \in Keys : announced[k] <= Len(madeAt)
    /\ \A ov \in Orgs \X Versions : cache[ov].basis <= Len(madeAt)

Shape == TypeOK /\ Payers /\ VersionsCounted /\ RequestsKnow

\* A request about to cache a revoked key is one revokeApiKey() has still to
\* undo, or one it raced.
CachingIsRaced ==
    \A w \in Workers :
      At(w, "caching") => /\ keyRow[req[w].key] # "absent"
                          /\ keyRow[req[w].key] = "revoked" => req[w].key \in revoking \cup raced

\* What was let through was counted, or cost a fault.
CountCovers == \A k \in Keys : used[k] <= PerMinute /\ sent[k] <= used[k] + faults

\* Every change an answer does not know of was made after the answer was read.
EntriesAge ==
    \A ov \in Orgs \X Versions :
      /\ cache[ov].expires <= clock + Ttl
      /\ \A n \in DOMAIN madeAt :
           n > cache[ov].basis => cache[ov].expires <= madeAt[n] + Ttl

AnswersAge ==
    \A w \in Workers, n \in DOMAIN madeAt :
      n > req[w].basis => /\ At(w, "filling") => clock <= madeAt[n]
                          /\ At(w, "counting") => clock < madeAt[n] + Ttl

\* Announcements are made in the order of the changes, and a request begins
\* with the last one.
AnnouncedInOrder ==
    /\ \A k \in Keys :
         OrgOf[k] \notin moved /\ bumping[VersionOrg(OrgOf[k])] # 0 =>
           announced[k] <= bumping[VersionOrg(OrgOf[k])]
    /\ \A w \in Workers :
         ~ At(w, "idle") /\ OrgAt(w) \notin moved => req[w].floor <= announced[req[w].key]

\* Nothing is stored or asked for under a version that has not been reached.
NoLaterVersion ==
    \A o \in Orgs \ moved :
      /\ \A v \in Versions : v > version[VersionOrg(o)] => cache[<<o, v>>].expires = 0
      /\ \A w \in Workers :
           req[w].step \in Versioned /\ OrgAt(w) = o => req[w].version <= version[VersionOrg(o)]

\* What is stored, or about to be, under the present version knows of every
\* change announced.
CurrentKnows ==
    \A k \in Keys :
      LET o == OrgOf[k]
          v == version[VersionOrg(o)]
      IN  o \notin moved =>
            /\ cache[<<o, v>>].expires > 0 => cache[<<o, v>>].basis >= announced[k]
            /\ \A w \in Workers :
                 At(w, "filling") /\ OrgAt(w) = o /\ req[w].version = v =>
                   req[w].basis >= announced[k]

\* What is stored, or about to be, under any version knows of every change the
\* requests that read that version began with.
VersionKnows ==
    \A w \in Workers :
      LET o == OrgAt(w)
          v == req[w].version
      IN  req[w].step \in Versioned /\ o \notin moved =>
            /\ cache[<<o, v>>].expires > 0 => cache[<<o, v>>].basis >= req[w].floor
            /\ \A x \in Workers :
                 At(x, "filling") /\ OrgAt(x) = o /\ req[x].version = v =>
                   req[x].basis >= req[w].floor

LandsInv ==
    AnnouncedInOrder /\ NoLaterVersion /\ CurrentKnows /\ VersionKnows /\ LandsAtOnce

-----------------------------------------------------------------------------
(* What a step does to the request that takes it *)

\* The steps of requests, and all others.
Requesting(w) == Handle(w) \/ \E k \in Keys : Begin(w, k)

Changing ==
    \/ \E k \in Keys : CreateApiKey(k) \/ RevokeRow(k) \/ RevokeCache(k) \/ LoseKeyCache(k)
    \/ \E o \in Orgs :
         \/ \E answer \in {"yes", "no"} : ChangeSubscription(o, answer)
         \/ BumpPayerVersion(o) \/ BumpFails(o)
         \/ \E a \in Agencies \cup {None} : ChangePayer(o, a)
    \/ Tick

\* The fields of a request, without the answer.
Fields(r, step, key, floor, ver, basis) ==
    r.step = step /\ r.key = key /\ r.floor = floor /\ r.version = ver /\ r.basis = basis

LEMMA GotoFields ==
  ASSUME TypeOK, NEW w \in Workers, NEW step \in Step, Goto(w, step)
  PROVE  /\ req' \in [Workers -> Request]
         /\ Fields(req'[w], step, req[w].key, req[w].floor, req[w].version, req[w].basis)
         /\ \A v \in Workers \ {w} : req'[v] = req[v]
BY DEF TypeOK, Goto, Request, Fields

LEMMA DoneFields ==
  ASSUME TypeOK, NEW w \in Workers, Done(w)
  PROVE  /\ req' \in [Workers -> Request]
         /\ Fields(req'[w], "idle", None, 0, 0, 0)
         /\ \A v \in Workers \ {w} : req'[v] = req[v]
BY DEF TypeOK, Done, Request, NoRequest, Fields, Step

LEMMA BeginFields ==
  ASSUME TypeOK, NEW w \in Workers, NEW k \in Keys, Begin(w, k)
  PROVE  /\ req' \in [Workers -> Request]
         /\ \E step \in {"version", "lookup"} : Fields(req'[w], step, k, announced[k], 0, 0)
         /\ \A v \in Workers \ {w} : req'[v] = req[v]
BY DEF TypeOK, Begin, Request, NoRequest, Fields, Step

LEMMA VersionFields ==
  ASSUME TypeOK, NEW w \in Workers, ReadVersion(w), version[VersionOrg(OrgAt(w))] \in Versions
  PROVE  /\ req' \in [Workers -> Request]
         /\ Fields(req'[w], "cached", req[w].key, req[w].floor, version[VersionOrg(OrgAt(w))],
                   req[w].basis)
         /\ \A v \in Workers \ {w} : req'[v] = req[v]
<1>1. PICK n \in Versions : n = version[VersionOrg(OrgAt(w))]
  OBVIOUS
<1>2. n \in Nat
  BY <1>1, ConstantsAssumption DEF Versions
<1>3. req' = [req EXCEPT ![w] = [req[w] EXCEPT !.step = "cached", !.version = n]]
  BY <1>1 DEF ReadVersion, OrgAt, TypeOK
<1> QED BY <1>1, <1>2, <1>3 DEF TypeOK, Request, Fields, Step

LEMMA AnswerFields ==
  ASSUME TypeOK, NEW w \in Workers, NEW allowed \in BOOLEAN, NEW basis \in Nat,
         Answer(w, allowed, basis)
  PROVE  /\ req' \in [Workers -> Request]
         /\ \/ Fields(req'[w], "counting", req[w].key, req[w].floor, 0, basis)
            \/ Fields(req'[w], "idle", None, 0, 0, 0)
         /\ \A v \in Workers \ {w} : req'[v] = req[v]
<1>1. CASE allowed
  <2>1. req' = [req EXCEPT ![w] = [req[w] EXCEPT !.step = "counting", !.version = 0,
                                                 !.allowed = TRUE, !.basis = basis]]
    BY <1>1 DEF Answer
  <2> QED BY <2>1 DEF TypeOK, Request, Fields, Step
<1>2. CASE ~ allowed
  <2>1. Done(w)
    BY <1>2 DEF Answer, Done
  <2> QED BY <2>1, DoneFields
<1> QED BY <1>1, <1>2

LEMMA SubscriptionFields ==
  ASSUME TypeOK, NEW w \in Workers, ReadSubscription(w), req[w].key \in Keys
  PROVE  /\ req' \in [Workers -> Request]
         /\ Fields(req'[w], "filling", req[w].key, req[w].floor, req[w].version, Len(madeAt))
         /\ \A v \in Workers \ {w} : req'[v] = req[v]
<1>1. Len(madeAt) \in Nat /\ Allowed(OrgOf[req[w].key]) \in BOOLEAN
  <2>1. Allowed(OrgOf[req[w].key]) \in BOOLEAN
    BY Zenon DEF Allowed, Grants
  <2> QED BY <2>1 DEF TypeOK
<1>2. req' = [req EXCEPT ![w] = [req[w] EXCEPT !.step = "filling", !.basis = Len(madeAt),
                                               !.allowed = Allowed(OrgOf[req[w].key])]]
  BY DEF ReadSubscription
<1>3. PICK yes \in BOOLEAN : yes = Allowed(OrgOf[req[w].key])
  BY <1>1
<1> QED BY <1>1, <1>2, <1>3 DEF TypeOK, Request, Fields, Step

-----------------------------------------------------------------------------
(* Types, versions and what requests know *)

LEMMA ShapeInit == Init => Shape
<1> SUFFICES ASSUME Init PROVE Shape
    OBVIOUS
<1>1. Len(madeAt) = 0 /\ madeAt \in Seq(Nat) /\ 0 \in Versions
  BY ConstantsAssumption DEF Init, Versions
<1>2. TypeOK
  BY <1>1, ConstantsAssumption DEF Init, TypeOK, NoEntry, Entry, NoRequest, Request, Step
<1>3. Payers
  BY DEF Init, Payers
<1>4. VersionsCounted
  BY <1>1, ConstantsAssumption DEF Init, VersionsCounted
<1>5. RequestsKnow
  BY <1>1 DEF Init, RequestsKnow, NoRequest, NoEntry, At
<1> QED BY <1>2, <1>3, <1>4, <1>5 DEF Shape

\* Whose version an organisation's answers are stored under.
LEMMA VersionOrgType ==
  ASSUME Shape, NEW o \in Orgs
  PROVE  /\ VersionOrg(o) \in Orgs /\ version[VersionOrg(o)] \in Versions
         /\ version[VersionOrg(o)] \in Nat
BY ConstantsAssumption DEF Shape, TypeOK, Payers, VersionOrg, Versions

\* A change is added to the others.
LEMMA ChangeFacts ==
  ASSUME Shape, Change
  PROVE  /\ madeAt' \in Seq(Nat) /\ Len(madeAt') = Len(madeAt) + 1
         /\ Len(madeAt) \in Nat /\ Len(madeAt') <= MaxChanges
         /\ DOMAIN madeAt' = DOMAIN madeAt \cup {Len(madeAt) + 1}
         /\ madeAt'[Len(madeAt) + 1] = clock
         /\ \A n \in DOMAIN madeAt : madeAt'[n] = madeAt[n]
BY ConstantsAssumption DEF Shape, TypeOK, Change

\* A request past the paywall is counted, refused, or let through uncounted.
LEMMA CountFacts ==
  ASSUME Shape, NEW w \in Workers, CountInWindow(w)
  PROVE  \E k \in Keys :
           \/ /\ WithinRate(used[k] + 1) /\ faults' = faults
              /\ used' = [used EXCEPT ![k] = @ + 1] /\ sent' = [sent EXCEPT ![k] = @ + 1]
           \/ UNCHANGED <<used, sent, faults>>
           \/ /\ faults' = faults + 1 /\ used' = used /\ sent' = [sent EXCEPT ![k] = @ + 1]
BY DEF CountInWindow, Shape, RequestsKnow, At

\* The steps of a request change nothing but the request, the caches, the
\* counters and the faults.
LEMMA ShapeRequest ==
  ASSUME Shape, NEW w \in Workers, Requesting(w)
  PROVE  Shape'
<1>t. TypeOK /\ Payers /\ VersionsCounted /\ RequestsKnow
  BY DEF Shape
<1>n. Len(madeAt) \in Nat
  BY <1>t DEF TypeOK
<1>u. UNCHANGED payVars /\ UNCHANGED <<keyRow, revoking, raced, clock>>
  BY DEF Requesting, Handle, Begin, ReadKeyRow, CacheKey, ReadVersion, ReadCache,
         ReadSubscription, FillCache, CountInWindow, keyVars
<1>p. Payers' /\ VersionsCounted'
  BY <1>t, <1>u DEF Payers, VersionsCounted, payVars
<1>1. ASSUME req' \in [Workers -> Request], keyCache' \in SUBSET Keys,
             cache' \in [Orgs \X Versions -> Entry], used' \in [Keys -> Nat],
             sent' \in [Keys -> Nat], faults' \in Nat
      PROVE  TypeOK'
  BY <1>t, <1>u, <1>1 DEF TypeOK, payVars
<1>2. ASSUME \A v \in Workers \ {w} : req'[v] = req[v],
             ~ At(w, "idle")' => req'[w].key \in Keys, req'[w].version \in Versions,
             req'[w].floor <= Len(madeAt), req'[w].basis <= Len(madeAt),
             \A ov \in Orgs \X Versions : cache'[ov].basis <= Len(madeAt)
      PROVE  RequestsKnow'
  BY <1>t, <1>u, <1>2 DEF RequestsKnow, At, payVars
<1>z. 0 \in Versions /\ 0 <= Len(madeAt)
  BY <1>n, ConstantsAssumption DEF Versions
<1>3. ASSUME NEW k \in Keys, Begin(w, k) PROVE Shape'
  <2>1. PICK step \in {"version", "lookup"} : Fields(req'[w], step, k, announced[k], 0, 0)
    BY <1>t, <1>3, BeginFields
  <2>2. RequestsKnow'
    BY <1>t, <1>3, <1>2, <1>z, <2>1, BeginFields DEF Fields, RequestsKnow, Begin
  <2>3. TypeOK'
    BY <1>t, <1>3, <1>1, BeginFields DEF Begin, TypeOK, keyVars
  <2> QED BY <1>p, <2>2, <2>3 DEF Shape
<1>4. ASSUME NEW step \in Step \ {"idle"}, Goto(w, step), ~ At(w, "idle"),
             keyCache' \in SUBSET Keys, UNCHANGED <<cache, used, sent, faults>>
      PROVE  Shape'
  <2>1. RequestsKnow'
    BY <1>t, <1>4, <1>2, GotoFields DEF Fields, RequestsKnow
  <2>2. TypeOK'
    BY <1>t, <1>4, <1>1, GotoFields DEF TypeOK
  <2> QED BY <1>p, <2>1, <2>2 DEF Shape
<1>5. ASSUME Done(w), keyCache' = keyCache, cache' = cache,
             used' \in [Keys -> Nat], sent' \in [Keys -> Nat], faults' \in Nat
      PROVE  Shape'
  <2>1. RequestsKnow'
    BY <1>t, <1>5, <1>2, <1>z, DoneFields DEF Fields, At, RequestsKnow
  <2>2. TypeOK'
    BY <1>t, <1>5, <1>1, DoneFields DEF TypeOK
  <2> QED BY <1>p, <2>1, <2>2 DEF Shape
<1>6. ASSUME NEW allowed \in BOOLEAN, NEW basis \in Nat, Answer(w, allowed, basis),
             basis <= Len(madeAt), ~ At(w, "idle"),
             cache' \in [Orgs \X Versions -> Entry], UNCHANGED <<keyCache, used, sent, faults>>,
             \A ov \in Orgs \X Versions : cache'[ov].basis <= Len(madeAt)
      PROVE  Shape'
  <2>1. RequestsKnow'
    <3>1. CASE Fields(req'[w], "counting", req[w].key, req[w].floor, 0, basis)
      BY <1>t, <1>6, <1>2, <1>z, <3>1, AnswerFields DEF Fields, RequestsKnow
    <3>2. CASE Fields(req'[w], "idle", None, 0, 0, 0)
      BY <1>t, <1>6, <1>2, <1>z, <3>2, AnswerFields DEF Fields, At
    <3> QED BY <1>t, <1>6, <3>1, <3>2, AnswerFields
  <2>2. TypeOK'
    BY <1>t, <1>6, <1>1, AnswerFields DEF TypeOK
  <2> QED BY <1>p, <2>1, <2>2 DEF Shape
<1>k. ~ At(w, "idle") => /\ req[w].key \in Keys /\ OrgAt(w) \in Orgs
                         /\ Scope(w) \in Orgs \X Versions /\ cache[Scope(w)] \in Entry
  BY <1>t, ConstantsAssumption DEF RequestsKnow, OrgAt, Scope, TypeOK
<1>7. CASE ReadKeyRow(w)
  BY <1>7, <1>t, <1>4, <1>5 DEF ReadKeyRow, At, Step, keyVars, TypeOK
<1>8. CASE CacheKey(w)
  BY <1>8, <1>t, <1>4, <1>k DEF CacheKey, At, Step, TypeOK
<1>9. CASE ReadVersion(w)
  <2>1. OrgAt(w) \in Orgs
    BY <1>9, <1>k DEF ReadVersion, At
  <2>2. version[VersionOrg(OrgAt(w))] \in Versions
    BY <2>1, VersionOrgType
  <2>3. RequestsKnow'
    BY <1>9, <1>t, <1>2, <1>k, <2>2, VersionFields DEF Fields, RequestsKnow, ReadVersion, At
  <2>4. TypeOK'
    BY <1>9, <1>t, <1>1, <2>2, VersionFields DEF ReadVersion, TypeOK, keyVars
  <2> QED BY <1>p, <2>3, <2>4 DEF Shape
<1>10. CASE ReadCache(w)
  <2>1. CASE Goto(w, "reading")
    BY <1>10, <1>t, <1>4, <2>1 DEF ReadCache, At, Step, keyVars, TypeOK
  <2>2. CASE Answer(w, cache[Scope(w)].allowed, cache[Scope(w)].basis)
    <3>1. cache[Scope(w)] \in Entry
      BY <1>10, <1>k DEF ReadCache, At
    <3>2. PICK yes \in BOOLEAN, b \in Nat :
            yes = cache[Scope(w)].allowed /\ b = cache[Scope(w)].basis
      BY <3>1 DEF Entry
    <3>3. b <= Len(madeAt)
      BY <1>10, <1>t, <1>k, <3>2 DEF RequestsKnow, ReadCache, At
    <3> QED BY <1>10, <1>t, <1>6, <2>2, <3>2, <3>3 DEF ReadCache, At, keyVars, TypeOK, RequestsKnow
  <2> QED BY <1>10, <2>1, <2>2 DEF ReadCache
<1>11. CASE ReadSubscription(w)
  <2>1. req[w].key \in Keys
    BY <1>11, <1>k DEF ReadSubscription, At
  <2>4. Len(madeAt) <= Len(madeAt)
    BY <1>n
  <2>2. RequestsKnow'
    BY <1>11, <1>t, <1>2, <2>4, <2>1, SubscriptionFields DEF Fields, RequestsKnow, ReadSubscription
  <2>3. TypeOK'
    BY <1>11, <1>t, <1>1, <2>1, SubscriptionFields DEF ReadSubscription, TypeOK, keyVars
  <2> QED BY <1>p, <2>2, <2>3 DEF Shape
<1>12. CASE FillCache(w)
  <2>1. /\ req[w] \in Request /\ Scope(w) \in Orgs \X Versions /\ ~ At(w, "idle")
        /\ Expiry \in Nat /\ req[w].basis <= Len(madeAt)
    BY <1>12, <1>t, <1>k, ConstantsAssumption DEF FillCache, At, TypeOK, Expiry, RequestsKnow
  <2>2. PICK yes \in BOOLEAN, b \in Nat : yes = req[w].allowed /\ b = req[w].basis
    BY <2>1 DEF Request
  <2>3. /\ cache' = [cache EXCEPT ![Scope(w)] = [allowed |-> yes, expires |-> Expiry, basis |-> b]]
        /\ Answer(w, yes, b)
    BY <1>12, <2>2 DEF FillCache
  <2>4. cache' \in [Orgs \X Versions -> Entry]
    BY <1>t, <2>1, <2>2, <2>3 DEF TypeOK, Entry
  <2>5. \A ov \in Orgs \X Versions : cache'[ov].basis <= Len(madeAt)
    BY <1>t, <2>1, <2>2, <2>3 DEF TypeOK, RequestsKnow
  <2>6. UNCHANGED <<keyCache, used, sent, faults>>
    BY <1>12 DEF FillCache, keyVars
  <2> QED BY <1>6, <2>1, <2>2, <2>3, <2>4, <2>5, <2>6
<1>13. CASE CountInWindow(w)
  <2>1. req[w].key \in Keys
    BY <1>13, <1>k DEF CountInWindow, At
  <2>2. used' \in [Keys -> Nat] /\ sent' \in [Keys -> Nat] /\ faults' \in Nat
    <3>1. PICK k \in Keys :
            \/ used' = [used EXCEPT ![k] = @ + 1] /\ sent' = [sent EXCEPT ![k] = @ + 1]
               /\ faults' = faults
            \/ UNCHANGED <<used, sent, faults>>
            \/ used' = used /\ sent' = [sent EXCEPT ![k] = @ + 1] /\ faults' = faults + 1
      BY <1>13, CountFacts
    <3>2. used \in [Keys -> Nat] /\ sent \in [Keys -> Nat] /\ faults \in Nat
      BY <1>t DEF TypeOK
    <3> QED BY <3>1, <3>2
  <2> QED BY <1>13, <1>5, <2>2 DEF CountInWindow, keyVars
<1> QED BY <1>3, <1>7, <1>8, <1>9, <1>10, <1>11, <1>12, <1>13 DEF Requesting, Handle

\* The ways a request moves.
LEMMA RequestMoves ==
  ASSUME Shape, NEW w \in Workers, Requesting(w)
  PROVE  /\ \A v \in Workers \ {w} : req'[v] = req[v]
         /\ \/ \E k \in Keys, step \in {"version", "lookup"} :
                 Fields(req'[w], step, k, announced[k], 0, 0)
            \/ /\ ReadKeyRow(w) /\ keyRow[req[w].key] = "live"
               /\ Fields(req'[w], "caching", req[w].key, req[w].floor, req[w].version, req[w].basis)
            \/ /\ CacheKey(w)
               /\ Fields(req'[w], "version", req[w].key, req[w].floor, req[w].version, req[w].basis)
            \/ /\ ReadVersion(w)
               /\ Fields(req'[w], "cached", req[w].key, req[w].floor,
                         version[VersionOrg(OrgAt(w))], req[w].basis)
            \/ /\ ReadCache(w) /\ cache[Scope(w)].expires <= clock
               /\ Fields(req'[w], "reading", req[w].key, req[w].floor, req[w].version, req[w].basis)
            \/ /\ ReadCache(w) /\ cache[Scope(w)].expires > clock
               /\ Fields(req'[w], "counting", req[w].key, req[w].floor, 0, cache[Scope(w)].basis)
            \/ /\ ReadSubscription(w)
               /\ Fields(req'[w], "filling", req[w].key, req[w].floor, req[w].version, Len(madeAt))
            \/ /\ FillCache(w)
               /\ Fields(req'[w], "counting", req[w].key, req[w].floor, 0, req[w].basis)
            \/ Fields(req'[w], "idle", None, 0, 0, 0)
<1>t. TypeOK /\ RequestsKnow
  BY DEF Shape
<1>k. ~ At(w, "idle") => /\ req[w].key \in Keys /\ OrgAt(w) \in Orgs
                         /\ Scope(w) \in Orgs \X Versions /\ cache[Scope(w)] \in Entry
  BY <1>t, ConstantsAssumption DEF RequestsKnow, OrgAt, Scope, TypeOK
<1>1. CASE \E k \in Keys : Begin(w, k)
  BY <1>t, <1>1, BeginFields
<1>2. CASE ReadKeyRow(w)
  BY <1>t, <1>2, GotoFields, DoneFields DEF ReadKeyRow, Step
<1>3. CASE CacheKey(w)
  BY <1>t, <1>3, GotoFields DEF CacheKey, Step
<1>4. CASE ReadVersion(w)
  <2>1. version[VersionOrg(OrgAt(w))] \in Versions
    BY <1>4, <1>k, VersionOrgType DEF ReadVersion, At
  <2> QED BY <1>t, <1>4, <2>1, VersionFields
<1>5. CASE ReadCache(w)
  <2>1. PICK yes \in BOOLEAN, b \in Nat :
          yes = cache[Scope(w)].allowed /\ b = cache[Scope(w)].basis
    BY <1>5, <1>k DEF ReadCache, At, Entry
  <2> QED BY <1>t, <1>5, <2>1, GotoFields, AnswerFields DEF ReadCache, Step
<1>6. CASE ReadSubscription(w)
  BY <1>t, <1>k, <1>6, SubscriptionFields DEF ReadSubscription, At
<1>7. CASE FillCache(w)
  <2>1. PICK yes \in BOOLEAN, b \in Nat : yes = req[w].allowed /\ b = req[w].basis
    BY <1>t DEF TypeOK, Request
  <2> QED BY <1>t, <1>7, <2>1, AnswerFields DEF FillCache
<1>8. CASE CountInWindow(w)
  BY <1>t, <1>8, DoneFields DEF CountInWindow
<1> QED BY <1>1, <1>2, <1>3, <1>4, <1>5, <1>6, <1>7, <1>8 DEF Requesting, Handle

\* Keys and subscriptions change, and time passes.
LEMMA ShapeChange ==
  ASSUME Shape, Changing
  PROVE  Shape'
<1>t. TypeOK /\ Payers /\ VersionsCounted /\ RequestsKnow /\ Len(madeAt) \in Nat
  BY DEF Shape, TypeOK
<1>1. ASSUME NEW k \in Keys, CreateApiKey(k) \/ RevokeRow(k) \/ RevokeCache(k) \/ LoseKeyCache(k)
      PROVE  Shape'
  <2>1. UNCHANGED <<payVars, sendVars>>
    BY <1>1 DEF CreateApiKey, RevokeRow, RevokeCache, LoseKeyCache
  <2>2. TypeOK'
    <3>1. /\ keyRow' \in [Keys -> {"absent", "live", "revoked"}] /\ keyCache' \in SUBSET Keys
          /\ revoking' \in SUBSET Keys /\ raced' \in SUBSET Keys /\ faults' \in Nat
      <4>1. CASE CreateApiKey(k)
        BY <1>t, <4>1 DEF TypeOK, CreateApiKey
      <4>2. CASE RevokeRow(k)
        BY <1>t, <4>2 DEF TypeOK, RevokeRow
      <4>3. CASE RevokeCache(k)
        BY <1>t, <4>3 DEF TypeOK, RevokeCache
      <4>4. CASE LoseKeyCache(k)
        BY <1>t, <4>4 DEF TypeOK, LoseKeyCache
      <4> QED BY <1>1, <4>1, <4>2, <4>3, <4>4
    <3> QED BY <1>t, <2>1, <3>1 DEF TypeOK, payVars, sendVars
  <2>3. Payers' /\ VersionsCounted' /\ RequestsKnow'
    BY <1>t, <2>1 DEF Payers, VersionsCounted, RequestsKnow, payVars, sendVars, At
  <2> QED BY <2>2, <2>3 DEF Shape
<1>2. ASSUME NEW o \in Orgs, NEW answer \in {"yes", "no"}, ChangeSubscription(o, answer)
      PROVE  Shape'
  <2>1. Change /\ UNCHANGED <<keyVars, payer, version, announced, moved, sendVars, faults>>
        /\ bumping[o] = 0
        /\ grantedBy' = [grantedBy EXCEPT ![o] = answer]
        /\ bumping' = [bumping EXCEPT ![o] = Len(madeAt) + 1]
    BY <1>2 DEF ChangeSubscription
  <2>2. TypeOK'
    BY <1>t, <2>1, ChangeFacts DEF TypeOK, keyVars, sendVars
  <2>3. Payers'
    BY <1>t, <2>1 DEF Payers
  <2>4. VersionsCounted'
    <3> SUFFICES ASSUME NEW x \in Orgs
                 PROVE  /\ version[x] + (IF bumping'[x] = 0 THEN 0 ELSE 1) <= Len(madeAt')
                        /\ bumping'[x] <= Len(madeAt')
      BY <2>1, ChangeFacts DEF VersionsCounted
    <3>1. /\ version[x] \in Nat /\ bumping[x] \in Nat /\ bumping[x] <= Len(madeAt)
          /\ version[x] + (IF bumping[x] = 0 THEN 0 ELSE 1) <= Len(madeAt)
      BY <1>t, ConstantsAssumption DEF VersionsCounted, TypeOK, Versions
    <3>2. Len(madeAt') = Len(madeAt) + 1
      BY <2>1, ChangeFacts
    <3>3. CASE x = o
      BY <1>t, <2>1, <3>1, <3>2, <3>3 DEF TypeOK
    <3>4. CASE x # o
      <4>1. bumping'[x] = bumping[x]
        BY <1>t, <2>1, <3>4 DEF TypeOK
      <4> QED BY <1>t, <3>1, <3>2, <4>1
    <3> QED BY <3>3, <3>4
  <2>5. RequestsKnow'
    <3>1. Len(madeAt') = Len(madeAt) + 1
      BY <2>1, ChangeFacts
    <3>2. \A n \in Nat : n <= Len(madeAt) => n <= Len(madeAt')
      BY <1>t, <3>1
    <3>3. /\ \A w \in Workers : req[w].floor \in Nat /\ req[w].basis \in Nat
          /\ \A k \in Keys : announced[k] \in Nat
          /\ \A ov \in Orgs \X Versions : cache[ov].basis \in Nat
      BY <1>t DEF TypeOK, Request, Entry
    <3> QED BY <1>t, <2>1, <3>2, <3>3 DEF RequestsKnow, At, sendVars
  <2> QED BY <2>2, <2>3, <2>4, <2>5 DEF Shape
<1>3. ASSUME NEW o \in Orgs, BumpPayerVersion(o) \/ BumpFails(o)
      PROVE  Shape'
  <2>1. /\ UNCHANGED <<keyVars, payer, madeAt, moved, sendVars, grantedBy>>
        /\ bumping[o] # 0 /\ bumping' = [bumping EXCEPT ![o] = 0]
    BY <1>3 DEF BumpPayerVersion, BumpFails
  <2>2. version' = version \/ version' = [version EXCEPT ![o] = @ + 1]
    BY <1>3 DEF BumpPayerVersion, BumpFails
  <2>3. \A k \in Keys : announced'[k] = announced[k] \/ announced'[k] = bumping[o]
    BY <1>3, <1>t DEF BumpPayerVersion, BumpFails, TypeOK
  <2>4. announced' \in [Keys -> Nat] /\ faults' \in Nat /\ bumping' \in [Orgs -> Nat]
    BY <1>3, <1>t, <2>1 DEF BumpPayerVersion, BumpFails, TypeOK
  <2>5. \A x \in Orgs :
          /\ version'[x] \in Nat
          /\ version'[x] + (IF bumping'[x] = 0 THEN 0 ELSE 1) <= Len(madeAt)
          /\ bumping'[x] <= Len(madeAt)
    <3> SUFFICES ASSUME NEW x \in Orgs
                 PROVE  /\ version'[x] \in Nat
                        /\ version'[x] + (IF bumping'[x] = 0 THEN 0 ELSE 1) <= Len(madeAt)
                        /\ bumping'[x] <= Len(madeAt)
        OBVIOUS
    <3>1. /\ version[x] \in Nat /\ bumping[x] \in Nat /\ bumping[x] <= Len(madeAt)
          /\ version[x] + (IF bumping[x] = 0 THEN 0 ELSE 1) <= Len(madeAt)
      BY <1>t, ConstantsAssumption DEF VersionsCounted, TypeOK, Versions
    <3>2. CASE x = o
      <4>1. bumping'[x] = 0 /\ (version'[x] = version[x] \/ version'[x] = version[x] + 1)
        BY <1>t, <2>1, <2>2, <3>2 DEF TypeOK
      <4> QED BY <1>t, <2>1, <3>1, <3>2, <4>1
    <3>3. CASE x # o
      <4>1. bumping'[x] = bumping[x] /\ version'[x] = version[x]
        BY <1>t, <2>1, <2>2, <3>3 DEF TypeOK
      <4> QED BY <1>t, <3>1, <4>1
    <3> QED BY <3>2, <3>3
  <2>6. VersionsCounted'
    BY <1>t, <2>1, <2>5 DEF VersionsCounted
  <2>7. version' \in [Orgs -> Versions]
    <3>1. \A x \in Orgs : version'[x] \in Versions
      BY <1>t, <2>5, ConstantsAssumption DEF VersionsCounted, Versions
    <3> QED BY <1>t, <2>2, <3>1 DEF TypeOK
  <2>8. TypeOK'
    BY <1>t, <2>1, <2>4, <2>7 DEF TypeOK, keyVars, sendVars
  <2>9. RequestsKnow'
    BY <1>t, <2>1, <2>3 DEF RequestsKnow, VersionsCounted, At, sendVars
  <2> QED BY <1>t, <2>1, <2>6, <2>8, <2>9 DEF Shape, Payers
<1>4. ASSUME NEW o \in Orgs, NEW a \in Agencies \cup {None}, ChangePayer(o, a)
      PROVE  Shape'
  <2>1. /\ Change /\ UNCHANGED <<keyVars, grantedBy, bumping, announced, sendVars, faults>>
        /\ o \notin Agencies /\ payer' = [payer EXCEPT ![o] = a] /\ moved' = moved \cup {o}
    BY <1>4 DEF ChangePayer
  <2>2. version' = [version EXCEPT ![o] = @ + 0] \/ version' = [version EXCEPT ![o] = @ + 1]
    BY <1>4 DEF ChangePayer
  <2>3. Len(madeAt') = Len(madeAt) + 1 /\ Len(madeAt') <= MaxChanges /\ madeAt' \in Seq(Nat)
    BY <2>1, ChangeFacts
  <2>4. \A x \in Orgs :
          /\ version'[x] \in Nat
          /\ version'[x] + (IF bumping[x] = 0 THEN 0 ELSE 1) <= Len(madeAt')
          /\ bumping[x] <= Len(madeAt')
    <3> SUFFICES ASSUME NEW x \in Orgs
                 PROVE  /\ version'[x] \in Nat
                        /\ version'[x] + (IF bumping[x] = 0 THEN 0 ELSE 1) <= Len(madeAt')
                        /\ bumping[x] <= Len(madeAt')
        OBVIOUS
    <3>1. /\ version[x] \in Nat /\ bumping[x] \in Nat /\ bumping[x] <= Len(madeAt)
          /\ version[x] + (IF bumping[x] = 0 THEN 0 ELSE 1) <= Len(madeAt)
      BY <1>t, ConstantsAssumption DEF VersionsCounted, TypeOK, Versions
    <3>2. version'[x] = version[x] \/ version'[x] = version[x] + 1
      BY <1>t, <2>2, <3>1 DEF TypeOK
    <3> QED BY <1>t, <2>3, <3>1, <3>2
  <2>5. version' \in [Orgs -> Versions]
    <3>1. \A x \in Orgs : version'[x] \in Versions
      <4> SUFFICES ASSUME NEW x \in Orgs PROVE version'[x] \in Versions
          OBVIOUS
      <4>1. version'[x] \in Nat /\ version'[x] <= Len(madeAt')
        BY <1>t, <2>3, <2>4
      <4> QED BY <1>t, <2>3, <4>1, ConstantsAssumption DEF Versions
    <3> QED BY <1>t, <2>2, <3>1 DEF TypeOK
  <2>6. VersionsCounted'
    BY <2>1, <2>3, <2>4 DEF VersionsCounted
  <2>7. Payers'
    BY <1>t, <2>1 DEF Payers
  <2>8. TypeOK'
    BY <1>t, <2>1, <2>3, <2>5, ConstantsAssumption DEF TypeOK, keyVars, sendVars
  <2>9. RequestsKnow'
    <3>2. \A n \in Nat : n <= Len(madeAt) => n <= Len(madeAt')
      BY <1>t, <2>3
    <3>3. /\ \A w \in Workers : req[w].floor \in Nat /\ req[w].basis \in Nat
          /\ \A k \in Keys : announced[k] \in Nat
          /\ \A ov \in Orgs \X Versions : cache[ov].basis \in Nat
      BY <1>t DEF TypeOK, Request, Entry
    <3> QED BY <1>t, <2>1, <3>2, <3>3 DEF RequestsKnow, At, sendVars
  <2> QED BY <2>6, <2>7, <2>8, <2>9 DEF Shape
<1>5. CASE Tick
  <2>1. TypeOK'
    BY <1>5, <1>t DEF Tick, TypeOK, keyVars, payVars
  <2>2. Payers' /\ VersionsCounted' /\ RequestsKnow'
    BY <1>5, <1>t DEF Tick, Payers, VersionsCounted, RequestsKnow, payVars, At
  <2> QED BY <2>1, <2>2 DEF Shape
<1> QED BY <1>1, <1>2, <1>3, <1>4, <1>5 DEF Changing

LEMMA ShapeStep == Shape /\ [Next]_vars => Shape'
<1> SUFFICES ASSUME Shape, [Next]_vars PROVE Shape'
    OBVIOUS
<1>1. ASSUME NEW w \in Workers, Requesting(w) PROVE Shape'
  BY <1>1, ShapeRequest
<1>2. CASE Changing
  BY <1>2, ShapeChange
<1>3. CASE UNCHANGED vars
  BY <1>3 DEF vars, keyVars, payVars, sendVars, Shape, TypeOK, Payers, VersionsCounted,
              RequestsKnow, At
<1> QED BY <1>1, <1>2, <1>3 DEF Next, Requesting, Changing

-----------------------------------------------------------------------------
(* Revoked keys and the send rate *)

LEMMA RevokedStep ==
  Shape /\ CachingIsRaced /\ RevokedStaysOut /\ [Next]_vars => CachingIsRaced' /\ RevokedStaysOut'
<1> SUFFICES ASSUME Shape, CachingIsRaced, RevokedStaysOut, [Next]_vars
             PROVE  CachingIsRaced' /\ RevokedStaysOut'
    OBVIOUS
<1>t. TypeOK /\ RequestsKnow
  BY DEF Shape
<1>1. ASSUME NEW w \in Workers, Requesting(w) PROVE CachingIsRaced' /\ RevokedStaysOut'
  <2>u. UNCHANGED <<keyRow, revoking, raced>>
    BY <1>1 DEF Requesting, Handle, Begin, ReadKeyRow, CacheKey, ReadVersion, ReadCache,
                ReadSubscription, FillCache, CountInWindow, keyVars
  <2>1. RevokedStaysOut'
    <3>1. CASE CacheKey(w)
      BY <2>u, <3>1 DEF CacheKey, RevokedStaysOut, CachingIsRaced
    <3>2. CASE ~ CacheKey(w)
      <4>1. keyCache' = keyCache
        BY <1>1, <3>2 DEF Requesting, Handle, Begin, ReadKeyRow, ReadVersion, ReadCache,
                          ReadSubscription, FillCache, CountInWindow, keyVars
      <4> QED BY <2>u, <4>1 DEF RevokedStaysOut
    <3> QED BY <3>1, <3>2
  <2>2. /\ \A v \in Workers \ {w} : req'[v] = req[v]
        /\ req'[w].step = "caching" => keyRow[req[w].key] = "live" /\ req'[w].key = req[w].key
    BY <1>1, RequestMoves DEF Fields
  <2>3. CachingIsRaced'
    BY <2>u, <2>2 DEF CachingIsRaced, At
  <2> QED BY <2>1, <2>3
<1>2. ASSUME NEW k \in Keys, CreateApiKey(k) PROVE CachingIsRaced' /\ RevokedStaysOut'
  BY <1>2, <1>t DEF CreateApiKey, CachingIsRaced, RevokedStaysOut, At, sendVars, TypeOK,
                    RequestsKnow
<1>3. ASSUME NEW k \in Keys, RevokeRow(k) PROVE CachingIsRaced' /\ RevokedStaysOut'
  BY <1>3, <1>t DEF RevokeRow, CachingIsRaced, RevokedStaysOut, At, sendVars, TypeOK, RequestsKnow
<1>4. ASSUME NEW k \in Keys, RevokeCache(k) PROVE CachingIsRaced' /\ RevokedStaysOut'
  <2>1. RevokedStaysOut'
    BY <1>4, <1>t DEF RevokeCache, RevokedStaysOut, TypeOK
  <2>2. CachingIsRaced'
    <3> SUFFICES ASSUME NEW w \in Workers, At(w, "caching")
                 PROVE  /\ keyRow[req[w].key] # "absent"
                        /\ keyRow[req[w].key] = "revoked" => req[w].key \in revoking' \cup raced'
      BY <1>4 DEF RevokeCache, CachingIsRaced, At, sendVars
    <3>1. CASE req[w].key # k
      BY <1>4, <3>1 DEF RevokeCache, CachingIsRaced
    <3>2. CASE req[w].key = k
      <4>1. w \in Caching(k)
        BY <3>2 DEF Caching
      <4> QED BY <1>4, <3>2, <4>1 DEF RevokeCache, CachingIsRaced
    <3> QED BY <3>1, <3>2
  <2> QED BY <2>1, <2>2
<1>5. ASSUME NEW k \in Keys, LoseKeyCache(k) PROVE CachingIsRaced' /\ RevokedStaysOut'
  BY <1>5 DEF LoseKeyCache, CachingIsRaced, RevokedStaysOut, At, sendVars
<1>6. ASSUME UNCHANGED keyVars, req' = req PROVE CachingIsRaced' /\ RevokedStaysOut'
  BY <1>6 DEF CachingIsRaced, RevokedStaysOut, At, keyVars
<1>7. CASE (\E o \in Orgs :
              \/ \E answer \in {"yes", "no"} : ChangeSubscription(o, answer)
              \/ BumpPayerVersion(o) \/ BumpFails(o)
              \/ \E a \in Agencies \cup {None} : ChangePayer(o, a)) \/ Tick \/ UNCHANGED vars
  BY <1>6, <1>7 DEF ChangeSubscription, BumpPayerVersion, BumpFails, ChangePayer, Tick, vars,
                    sendVars
<1> QED BY <1>1, <1>2, <1>3, <1>4, <1>5, <1>7 DEF Next, Requesting

LEMMA CountStep == Shape /\ CountCovers /\ [Next]_vars => CountCovers'
<1> SUFFICES ASSUME Shape, CountCovers, [Next]_vars PROVE CountCovers'
    OBVIOUS
<1>t. /\ used \in [Keys -> Nat] /\ sent \in [Keys -> Nat] /\ faults \in Nat
      /\ PerMinute \in Nat
  BY ConstantsAssumption DEF Shape, TypeOK
<1>1. ASSUME used' = used, sent' = sent, faults' \in {faults, faults + 1} PROVE CountCovers'
  BY <1>t, <1>1 DEF CountCovers
<1>2. ASSUME NEW w \in Workers, CountInWindow(w) PROVE CountCovers'
  <2>1. PICK k \in Keys :
          \/ /\ WithinRate(used[k] + 1) /\ faults' = faults
             /\ used' = [used EXCEPT ![k] = @ + 1] /\ sent' = [sent EXCEPT ![k] = @ + 1]
          \/ UNCHANGED <<used, sent, faults>>
          \/ faults' = faults + 1 /\ used' = used /\ sent' = [sent EXCEPT ![k] = @ + 1]
    BY <1>2, CountFacts
  <2>2. CASE /\ WithinRate(used[k] + 1) /\ faults' = faults
             /\ used' = [used EXCEPT ![k] = @ + 1] /\ sent' = [sent EXCEPT ![k] = @ + 1]
    BY <1>t, <2>2 DEF CountCovers, WithinRate
  <2>3. CASE faults' = faults + 1 /\ used' = used /\ sent' = [sent EXCEPT ![k] = @ + 1]
    BY <1>t, <2>3 DEF CountCovers
  <2> QED BY <1>1, <2>1, <2>2, <2>3
<1>3. CASE Tick
  BY <1>t, <1>3 DEF Tick, CountCovers
<1>4. \/ used' = used /\ sent' = sent /\ faults' \in {faults, faults + 1}
      \/ Tick \/ \E w \in Workers : CountInWindow(w)
  BY DEF Next, Handle, Begin, ReadKeyRow, CacheKey, ReadVersion, ReadCache, ReadSubscription,
         FillCache, CreateApiKey, RevokeRow, RevokeCache, LoseKeyCache, ChangeSubscription,
         BumpPayerVersion, BumpFails, ChangePayer, vars, sendVars
<1> QED BY <1>1, <1>2, <1>3, <1>4

-----------------------------------------------------------------------------
(* The expiry is the backstop *)

\* Only a fill changes the answers in Redis.
LEMMA CacheMoves ==
  ASSUME Shape, NEW w \in Workers, Requesting(w)
  PROVE  /\ UNCHANGED payVars /\ clock' = clock
         /\ \/ cache' = cache
            \/ /\ At(w, "filling") /\ Scope(w) \in Orgs \X Versions
               /\ cache'[Scope(w)].basis = req[w].basis
               /\ cache'[Scope(w)].expires = clock + Ttl
               /\ \A ov \in (Orgs \X Versions) \ {Scope(w)} : cache'[ov] = cache[ov]
<1>1. UNCHANGED payVars /\ clock' = clock
  BY DEF Requesting, Handle, Begin, ReadKeyRow, CacheKey, ReadVersion, ReadCache,
         ReadSubscription, FillCache, CountInWindow
<1>2. CASE FillCache(w)
  <2>1. Scope(w) \in Orgs \X Versions /\ At(w, "filling")
    BY <1>2, ConstantsAssumption DEF FillCache, Shape, RequestsKnow, At, Scope
  <2> QED BY <1>1, <1>2, <2>1 DEF FillCache, Shape, TypeOK, Expiry
<1>3. CASE ~ FillCache(w)
  <2>1. cache' = cache
    BY <1>3 DEF Requesting, Handle, Begin, ReadKeyRow, CacheKey, ReadVersion, ReadCache,
                ReadSubscription, CountInWindow
  <2> QED BY <1>1, <2>1
<1> QED BY <1>2, <1>3

LEMMA AgeStep ==
  Shape /\ EntriesAge /\ AnswersAge /\ [Next]_vars => EntriesAge' /\ AnswersAge'
<1> SUFFICES ASSUME Shape, EntriesAge, AnswersAge, [Next]_vars
             PROVE  EntriesAge' /\ AnswersAge'
    OBVIOUS
<1>t. /\ clock \in Nat /\ Ttl \in Nat \ {0} /\ Len(madeAt) \in Nat
      /\ \A n \in DOMAIN madeAt : n \in Nat /\ n <= Len(madeAt) /\ madeAt[n] \in Nat
      /\ \A ov \in Orgs \X Versions : cache[ov].expires \in Nat /\ cache[ov].basis \in Nat
      /\ \A w \in Workers : req[w].basis \in Nat
  BY ConstantsAssumption DEF Shape, TypeOK, Entry, Request
<1>1. ASSUME NEW w \in Workers, Requesting(w) PROVE EntriesAge' /\ AnswersAge'
  <2>u. clock' = clock /\ madeAt' = madeAt
    BY <1>1, CacheMoves DEF payVars
  <2>1. EntriesAge'
    <3>1. CASE cache' = cache
      BY <2>u, <3>1 DEF EntriesAge
    <3>2. CASE /\ At(w, "filling") /\ Scope(w) \in Orgs \X Versions
               /\ cache'[Scope(w)].basis = req[w].basis
               /\ cache'[Scope(w)].expires = clock + Ttl
               /\ \A ov \in (Orgs \X Versions) \ {Scope(w)} : cache'[ov] = cache[ov]
      <4>1. \A n \in DOMAIN madeAt : n > req[w].basis => clock + Ttl <= madeAt[n] + Ttl
        BY <1>t, <3>2 DEF AnswersAge
      <4>2. clock + Ttl <= clock + Ttl
        BY <1>t
      <4> QED BY <2>u, <3>2, <4>1, <4>2 DEF EntriesAge
    <3> QED BY <1>1, <3>1, <3>2, CacheMoves
  <2>2. AnswersAge'
    <3> SUFFICES ASSUME NEW v \in Workers, NEW n \in DOMAIN madeAt, n > req'[v].basis
                 PROVE  /\ req'[v].step = "filling" => clock <= madeAt[n]
                        /\ req'[v].step = "counting" => clock < madeAt[n] + Ttl
      BY <2>u DEF AnswersAge, At
    <3>1. CASE v # w
      BY <1>1, <3>1, RequestMoves DEF AnswersAge, At
    <3>2. CASE v = w
      <4>1. CASE req'[w].step \notin {"filling", "counting"}
        BY <3>2, <4>1
      <4>2. CASE req'[w].step = "filling" /\ req'[w].basis = Len(madeAt)
        BY <1>t, <3>2, <4>2
      <4>3. CASE /\ req'[w].step = "counting" /\ ReadCache(w) /\ cache[Scope(w)].expires > clock
                 /\ req'[w].basis = cache[Scope(w)].basis
        <5>1. Scope(w) \in Orgs \X Versions
          BY <4>3, ConstantsAssumption DEF ReadCache, Shape, RequestsKnow, At, Scope
        <5>2. cache[Scope(w)].expires <= madeAt[n] + Ttl
          BY <3>2, <4>3, <5>1 DEF EntriesAge
        <5> QED BY <1>t, <3>2, <4>3, <5>1, <5>2
      <4>4. CASE req'[w].step = "counting" /\ FillCache(w) /\ req'[w].basis = req[w].basis
        <5>1. clock <= madeAt[n]
          BY <3>2, <4>4 DEF AnswersAge, FillCache
        <5> QED BY <1>t, <3>2, <4>4, <5>1
      <4>5. \/ req'[w].step \notin {"filling", "counting"}
            \/ req'[w].step = "filling" /\ req'[w].basis = Len(madeAt)
            \/ /\ req'[w].step = "counting" /\ ReadCache(w) /\ cache[Scope(w)].expires > clock
               /\ req'[w].basis = cache[Scope(w)].basis
            \/ req'[w].step = "counting" /\ FillCache(w) /\ req'[w].basis = req[w].basis
        BY <1>1, RequestMoves DEF Fields
      <4> QED BY <4>1, <4>2, <4>3, <4>4, <4>5
    <3> QED BY <3>1, <3>2
  <2> QED BY <2>1, <2>2
<1>2. ASSUME Change, UNCHANGED sendVars PROVE EntriesAge' /\ AnswersAge'
  <2>1. /\ DOMAIN madeAt' = DOMAIN madeAt \cup {Len(madeAt) + 1}
        /\ madeAt'[Len(madeAt) + 1] = clock
        /\ \A n \in DOMAIN madeAt : madeAt'[n] = madeAt[n]
    BY <1>2, ChangeFacts
  <2>2. UNCHANGED <<cache, req, clock>>
    BY <1>2 DEF sendVars
  <2>3. EntriesAge'
    BY <2>1, <2>2 DEF EntriesAge
  <2>4. clock <= clock /\ clock < clock + Ttl
    BY <1>t
  <2>5. AnswersAge'
    BY <2>1, <2>2, <2>4 DEF AnswersAge, At
  <2> QED BY <2>3, <2>5
<1>3. CASE Tick
  <2>1. clock' = clock + 1 /\ UNCHANGED <<cache, req, madeAt>> /\ \A w \in Workers : At(w, "idle")
    BY <1>3 DEF Tick, payVars
  <2>2. EntriesAge'
    BY <1>t, <2>1 DEF EntriesAge
  <2>3. AnswersAge'
    BY <2>1 DEF AnswersAge, At
  <2> QED BY <2>2, <2>3
<1>4. ASSUME UNCHANGED <<sendVars, madeAt>> PROVE EntriesAge' /\ AnswersAge'
  BY <1>4 DEF EntriesAge, AnswersAge, At, sendVars
<1>5. CASE \E k \in Keys : CreateApiKey(k) \/ RevokeRow(k) \/ RevokeCache(k) \/ LoseKeyCache(k)
  BY <1>4, <1>5 DEF CreateApiKey, RevokeRow, RevokeCache, LoseKeyCache, payVars
<1>6. CASE \E o \in Orgs :
             \/ \E answer \in {"yes", "no"} : ChangeSubscription(o, answer)
             \/ BumpPayerVersion(o) \/ BumpFails(o)
             \/ \E a \in Agencies \cup {None} : ChangePayer(o, a)
  BY <1>2, <1>4, <1>6 DEF ChangeSubscription, BumpPayerVersion, BumpFails, ChangePayer
<1>7. CASE UNCHANGED vars
  BY <1>4, <1>7 DEF vars, payVars
<1> QED BY <1>1, <1>3, <1>5, <1>6, <1>7 DEF Next, Requesting

-----------------------------------------------------------------------------
(* A change that was announced lands at once *)

LEMMA LandsRequest ==
  ASSUME Shape, LandsInv, NEW w \in Workers, Requesting(w)
  PROVE  LandsInv'
<1>i. AnnouncedInOrder /\ NoLaterVersion /\ CurrentKnows /\ VersionKnows /\ LandsAtOnce
  BY DEF LandsInv
<1>u. UNCHANGED <<payer, version, bumping, madeAt, announced, moved, clock>>
  BY CacheMoves DEF payVars
<1>v. \A o : VersionOrg(o)' = VersionOrg(o)
  BY <1>u DEF VersionOrg
<1>o. \A v \in Workers \ {w} : req'[v] = req[v]
  BY RequestMoves
<1>t. /\ \A k \in Keys : OrgOf[k] \in Orgs /\ announced[k] \in Nat /\ announced[k] <= Len(madeAt)
      /\ \A v \in Workers : /\ req[v].floor \in Nat /\ req[v].basis \in Nat
                            /\ req[v].version \in Versions /\ req[v].floor <= Len(madeAt)
                            /\ req[v].step # "idle" => req[v].key \in Keys /\ OrgAt(v) \in Orgs
      /\ Len(madeAt) \in Nat /\ clock \in Nat
      /\ \A ov \in Orgs \X Versions : cache[ov].expires \in Nat /\ cache[ov].basis \in Nat
  BY ConstantsAssumption DEF Shape, TypeOK, RequestsKnow, Request, Entry, At, OrgAt
<1>vt. \A o \in Orgs : version[VersionOrg(o)] \in Versions
  BY VersionOrgType
<1>c. /\ \A ov \in Orgs \X Versions : cache'[ov] = cache[ov] \/ (ov = Scope(w) /\ At(w, "filling"))
      /\ At(w, "filling") => cache'[Scope(w)] = cache[Scope(w)]
                             \/ cache'[Scope(w)].basis = req[w].basis
  BY CacheMoves
<1>s. Scope(w) = <<OrgAt(w), req[w].version>>
  BY DEF Scope, OrgAt
<1>1. AnnouncedInOrder'
  <2>1. \A v \in Workers : ~ At(v, "idle")' /\ OrgAt(v)' \notin moved =>
                             req'[v].floor <= announced[req'[v].key]
    <3> SUFFICES ASSUME NEW v \in Workers, req'[v].step # "idle", OrgOf[req'[v].key] \notin moved
                 PROVE  req'[v].floor <= announced[req'[v].key]
      BY DEF At, OrgAt
    <3>1. CASE req'[v] = req[v]
      BY <1>i, <3>1 DEF AnnouncedInOrder, At, OrgAt
    <3>2. CASE v = w
      <4>1. CASE \E k \in Keys : req'[w].key = k /\ req'[w].floor = announced[k]
        BY <1>t, <3>2, <4>1
      <4>2. CASE /\ req'[w].key = req[w].key /\ req'[w].floor = req[w].floor
                 /\ ~ At(w, "idle")
        BY <1>i, <3>2, <4>2 DEF AnnouncedInOrder, OrgAt
      <4> QED BY <3>2, <4>1, <4>2, RequestMoves DEF Fields, ReadKeyRow, CacheKey, ReadVersion,
                                                    ReadCache, ReadSubscription, FillCache, At
    <3> QED BY <1>o, <3>1, <3>2
  <2> QED BY <1>i, <1>u, <1>v, <2>1 DEF AnnouncedInOrder
<1>2. NoLaterVersion'
  <2>1. ASSUME NEW o \in Orgs \ moved, NEW v \in Versions, v > version[VersionOrg(o)]
        PROVE  cache'[<<o, v>>].expires = 0
    <3>1. cache[<<o, v>>].expires = 0
      BY <1>i, <2>1 DEF NoLaterVersion
    <3>2. CASE <<o, v>> = Scope(w) /\ At(w, "filling")
      <4>1. OrgAt(w) = o /\ req[w].version = v
        BY <1>s, <3>2
      <4>2. v <= version[VersionOrg(o)]
        BY <1>i, <2>1, <3>2, <4>1 DEF NoLaterVersion, At, Versioned
      <4>3. v \in Nat /\ version[VersionOrg(o)] \in Nat
        BY <2>1, VersionOrgType, ConstantsAssumption DEF Versions
      <4> QED BY <2>1, <4>2, <4>3
    <3> QED BY <1>c, <2>1, <3>1, <3>2
  <2>2. ASSUME NEW o \in Orgs \ moved, NEW v \in Workers, req'[v].step \in Versioned,
               OrgOf[req'[v].key] = o
        PROVE  req'[v].version <= version[VersionOrg(o)]
    <3>1. CASE req'[v] = req[v]
      BY <1>i, <2>2, <3>1 DEF NoLaterVersion, OrgAt
    <3>2. CASE v = w /\ req'[w].key = req[w].key /\ req'[w].version = version[VersionOrg(OrgAt(w))]
      <4>1. version[VersionOrg(o)] \in Nat
        BY VersionOrgType
      <4> QED BY <2>2, <3>2, <4>1 DEF OrgAt
    <3>3. CASE /\ v = w /\ req'[w].key = req[w].key /\ req'[w].version = req[w].version
               /\ req[w].step \in Versioned
      BY <1>i, <2>2, <3>3 DEF NoLaterVersion, OrgAt
    <3> QED BY <1>o, <2>2, <3>1, <3>2, <3>3, RequestMoves
            DEF Fields, Versioned, ReadCache, ReadSubscription, At
  <2> QED BY <1>u, <1>v, <2>1, <2>2 DEF NoLaterVersion, OrgAt
<1>3. CurrentKnows'
  <2> SUFFICES ASSUME NEW k \in Keys, NEW o \in Orgs, o = OrgOf[k], o \notin moved,
                      NEW n \in Versions, n = version[VersionOrg(o)]
               PROVE  /\ cache'[<<o, n>>].expires > 0 => cache'[<<o, n>>].basis >= announced[k]
                      /\ \A v \in Workers :
                           req'[v].step = "filling" /\ OrgOf[req'[v].key] = o
                             /\ req'[v].version = n =>
                             req'[v].basis >= announced[k]
    BY <1>u, <1>v, <1>t, <1>vt DEF CurrentKnows, OrgAt, At
  <2>1. /\ cache[<<o, n>>].expires > 0 => cache[<<o, n>>].basis >= announced[k]
        /\ \A v \in Workers :
             req[v].step = "filling" /\ OrgAt(v) = o /\ req[v].version = n =>
               req[v].basis >= announced[k]
    BY <1>i DEF CurrentKnows, At
  <2>2. cache'[<<o, n>>].expires > 0 => cache'[<<o, n>>].basis >= announced[k]
    <3>1. CASE cache'[<<o, n>>] = cache[<<o, n>>]
      BY <2>1, <3>1
    <3>2. CASE <<o, n>> = Scope(w) /\ At(w, "filling") /\ cache'[Scope(w)].basis = req[w].basis
      BY <1>s, <2>1, <3>2 DEF At
    <3> QED BY <1>c, <3>1, <3>2
  <2>3. ASSUME NEW v \in Workers, req'[v].step = "filling", OrgOf[req'[v].key] = o,
               req'[v].version = n
        PROVE  req'[v].basis >= announced[k]
    <3>1. CASE req'[v] = req[v]
      BY <2>1, <2>3, <3>1 DEF OrgAt
    <3>2. CASE req'[v].basis = Len(madeAt)
      BY <1>t, <3>2
    <3> QED BY <1>o, <2>3, <3>1, <3>2, RequestMoves DEF Fields
  <2> QED BY <2>2, <2>3
<1>4. VersionKnows'
  <2> SUFFICES ASSUME NEW v \in Workers, req'[v].step \in Versioned, NEW o, o = OrgOf[req'[v].key],
                      o \notin moved, NEW n, n = req'[v].version
               PROVE  /\ cache'[<<o, n>>].expires > 0 => cache'[<<o, n>>].basis >= req'[v].floor
                      /\ \A x \in Workers :
                           req'[x].step = "filling" /\ OrgOf[req'[x].key] = o
                             /\ req'[x].version = n =>
                             req'[x].basis >= req'[v].floor
    BY <1>u DEF VersionKnows, OrgAt, At
  <2>1. /\ o \in Orgs /\ n \in Versions /\ req'[v].floor \in Nat /\ req'[v].floor <= Len(madeAt)
        /\ cache[<<o, n>>].expires > 0 => cache[<<o, n>>].basis >= req'[v].floor
        /\ \A x \in Workers :
             req[x].step = "filling" /\ OrgAt(x) = o /\ req[x].version = n =>
               req[x].basis >= req'[v].floor
    <3>1. CASE /\ req[v].step \in Versioned /\ req'[v].key = req[v].key
               /\ req'[v].version = req[v].version /\ req'[v].floor = req[v].floor
      BY <1>i, <1>t, <3>1 DEF VersionKnows, OrgAt, At, Versioned
    <3>2. CASE /\ v = w /\ ReadVersion(w) /\ req'[w].key = req[w].key
               /\ req'[w].floor = req[w].floor
               /\ req'[w].version = version[VersionOrg(OrgAt(w))]
      <4>1. PICK k \in Keys : k = req[w].key /\ o = OrgOf[k] /\ o \in Orgs
        BY <1>t, <3>2 DEF ReadVersion, At
      <4>2. n \in Versions /\ n = version[VersionOrg(o)]
        BY <1>vt, <3>2, <4>1 DEF OrgAt
      <4>3. req[w].floor <= announced[k]
        BY <1>i, <3>2, <4>1 DEF AnnouncedInOrder, ReadVersion, At, OrgAt
      <4>4. /\ cache[<<o, n>>].expires > 0 => cache[<<o, n>>].basis >= announced[k]
            /\ \A x \in Workers :
                 req[x].step = "filling" /\ OrgAt(x) = o /\ req[x].version = n =>
                   req[x].basis >= announced[k]
        BY <1>i, <4>1, <4>2 DEF CurrentKnows, At
      <4>5. cache[<<o, n>>].basis \in Nat /\ announced[k] \in Nat
        BY <1>t, <4>1, <4>2
      <4> QED BY <1>t, <3>2, <4>1, <4>2, <4>3, <4>4, <4>5
    <3> QED BY <1>o, <3>1, <3>2, RequestMoves
            DEF Fields, Versioned, ReadCache, ReadSubscription, At
  <2>2. cache'[<<o, n>>].expires > 0 => cache'[<<o, n>>].basis >= req'[v].floor
    <3>1. CASE cache'[<<o, n>>] = cache[<<o, n>>]
      BY <2>1, <3>1
    <3>2. CASE <<o, n>> = Scope(w) /\ At(w, "filling") /\ cache'[Scope(w)].basis = req[w].basis
      BY <1>s, <2>1, <3>2 DEF At
    <3> QED BY <1>c, <2>1, <3>1, <3>2
  <2>3. ASSUME NEW x \in Workers, req'[x].step = "filling", OrgOf[req'[x].key] = o,
               req'[x].version = n
        PROVE  req'[x].basis >= req'[v].floor
    <3>1. CASE req'[x] = req[x]
      BY <2>1, <2>3, <3>1 DEF OrgAt
    <3>2. CASE req'[x].basis = Len(madeAt)
      BY <1>t, <2>1, <3>2
    <3> QED BY <1>o, <2>3, <3>1, <3>2, RequestMoves DEF Fields
  <2> QED BY <2>2, <2>3
<1>5. LandsAtOnce'
  <2> SUFFICES ASSUME NEW v \in Workers, req'[v].step = "counting", OrgOf[req'[v].key] \notin moved
               PROVE  req'[v].basis >= req'[v].floor
    BY <1>u DEF LandsAtOnce, At
  <2>1. CASE req'[v] = req[v]
    BY <1>i, <2>1 DEF LandsAtOnce, At
  <2>2. CASE /\ v = w /\ ReadCache(w) /\ cache[Scope(w)].expires > clock
             /\ req'[w].key = req[w].key /\ req'[w].floor = req[w].floor
             /\ req'[w].basis = cache[Scope(w)].basis
    <3>1. cache[Scope(w)].expires > 0
      <4>1. Scope(w) \in Orgs \X Versions
        BY <1>t, <1>s, <2>2 DEF ReadCache, At
      <4> QED BY <1>t, <2>2, <4>1
    <3> QED BY <1>i, <1>s, <2>2, <3>1 DEF VersionKnows, ReadCache, At, OrgAt, Versioned
  <2>3. CASE /\ v = w /\ FillCache(w) /\ req'[w].key = req[w].key
             /\ req'[w].floor = req[w].floor /\ req'[w].basis = req[w].basis
    BY <1>i, <2>3 DEF VersionKnows, FillCache, At, OrgAt, Versioned
  <2> QED BY <1>o, <2>1, <2>2, <2>3, RequestMoves DEF Fields
<1> QED BY <1>1, <1>2, <1>3, <1>4, <1>5 DEF LandsInv

\* A bump leaves the old version behind, and nothing is stored under the new.
LEMMA LandsBump ==
  ASSUME Shape, Shape', LandsInv, NEW o \in Orgs, BumpPayerVersion(o)
  PROVE  LandsInv'
<1>i. AnnouncedInOrder /\ NoLaterVersion /\ CurrentKnows /\ VersionKnows /\ LandsAtOnce
  BY DEF LandsInv
<1>u. /\ UNCHANGED <<payer, moved, cache, req>> /\ bumping[o] # 0
      /\ bumping' = [bumping EXCEPT ![o] = 0]
      /\ version' = [version EXCEPT ![o] = @ + 1]
      /\ announced' = [k \in Keys |-> IF OrgOf[k] \in Readers(o) THEN bumping[o] ELSE announced[k]]
  BY DEF BumpPayerVersion, sendVars
<1>t. /\ bumping \in [Orgs -> Nat] /\ version \in [Orgs -> Versions]
      /\ \A x \in Orgs : version[x] \in Nat
      /\ \A k \in Keys : OrgOf[k] \in Orgs /\ announced[k] \in Nat
      /\ \A w \in Workers : /\ req[w].floor \in Nat /\ req[w].version \in Nat
                            /\ ~ At(w, "idle") => req[w].key \in Keys /\ OrgAt(w) \in Orgs
  BY ConstantsAssumption DEF Shape, TypeOK, Versions, Request, RequestsKnow, OrgAt
<1>v. \A x \in Orgs : VersionOrg(x)' = VersionOrg(x) /\ VersionOrg(x) \in Orgs
  BY <1>u, VersionOrgType DEF VersionOrg
<1>w. \A x \in Orgs : version'[x] = IF x = o THEN version[x] + 1 ELSE version[x]
  BY <1>t, <1>u
<1>a. \A k \in Keys : announced'[k] = IF VersionOrg(OrgOf[k]) = o THEN bumping[o] ELSE announced[k]
  BY <1>t, <1>u DEF Readers
<1>g. \A k \in Keys : OrgOf[k] \notin moved => announced[k] <= announced'[k]
  BY <1>i, <1>t, <1>u, <1>a DEF AnnouncedInOrder
<1>1. AnnouncedInOrder'
  <2>1. ASSUME NEW k \in Keys, OrgOf[k] \notin moved, bumping'[VersionOrg(OrgOf[k])] # 0
        PROVE  announced'[k] <= bumping'[VersionOrg(OrgOf[k])]
    <3>1. VersionOrg(OrgOf[k]) # o
      BY <1>t, <1>u, <2>1
    <3>2. /\ bumping'[VersionOrg(OrgOf[k])] = bumping[VersionOrg(OrgOf[k])]
          /\ announced'[k] = announced[k]
      BY <1>t, <1>u, <1>v, <1>a, <3>1
    <3> QED BY <1>i, <2>1, <3>2 DEF AnnouncedInOrder
  <2>2. ASSUME NEW w \in Workers, ~ At(w, "idle"), OrgAt(w) \notin moved
        PROVE  req[w].floor <= announced'[req[w].key]
    <3>1. PICK k \in Keys : k = req[w].key
      BY <1>t, <2>2
    <3>2. /\ req[w].floor <= announced[k] /\ announced[k] <= announced'[k]
          /\ announced'[k] \in Nat
      BY <1>i, <1>g, <1>t, <1>u, <1>a, <2>2, <3>1 DEF AnnouncedInOrder, OrgAt
    <3> QED BY <1>t, <3>1, <3>2
  <2>3. \A k \in Keys : VersionOrg(OrgOf[k])' = VersionOrg(OrgOf[k])
    BY <1>u DEF VersionOrg
  <2> QED BY <1>u, <2>1, <2>2, <2>3 DEF AnnouncedInOrder, At, OrgAt
<1>2. NoLaterVersion'
  <2> SUFFICES ASSUME NEW x \in Orgs \ moved
               PROVE  /\ \A n \in Versions :
                           n > version'[VersionOrg(x)] => cache[<<x, n>>].expires = 0
                      /\ \A w \in Workers :
                           req[w].step \in Versioned /\ OrgAt(w) = x =>
                             req[w].version <= version'[VersionOrg(x)]
    BY <1>u, <1>v DEF NoLaterVersion, OrgAt
  <2>1. PICK p \in Orgs : p = VersionOrg(x)
    BY <1>v
  <2>2. version[p] \in Nat /\ version'[p] \in {version[p], version[p] + 1}
    BY <1>t, <1>w, <2>1
  <2>3. /\ \A n \in Versions : n > version[p] => cache[<<x, n>>].expires = 0
        /\ \A w \in Workers :
             req[w].step \in Versioned /\ OrgAt(w) = x => req[w].version <= version[p]
    BY <1>i, <2>1 DEF NoLaterVersion
  <2>4. \A n \in Versions : n \in Nat
    BY ConstantsAssumption DEF Versions
  <2>5. \A n \in Versions : n > version'[p] => n > version[p]
    BY <2>2, <2>4
  <2>6. \A n \in Nat : n <= version[p] => n <= version'[p]
    BY <2>2
  <2> QED BY <1>t, <2>1, <2>3, <2>5, <2>6
<1>3. CurrentKnows'
  <2> SUFFICES ASSUME NEW k \in Keys, NEW x \in Orgs, x = OrgOf[k], x \notin moved,
                      NEW n, n = version'[VersionOrg(x)]
               PROVE  /\ cache[<<x, n>>].expires > 0 => cache[<<x, n>>].basis >= announced'[k]
                      /\ \A w \in Workers :
                           At(w, "filling") /\ OrgAt(w) = x /\ req[w].version = n =>
                             req[w].basis >= announced'[k]
    BY <1>t, <1>u, <1>v DEF CurrentKnows, OrgAt, At
  <2>1. CASE VersionOrg(x) # o
    <3>1. n = version[VersionOrg(x)] /\ announced'[k] = announced[k]
      BY <1>t, <1>v, <1>w, <1>a, <2>1
    <3> QED BY <1>i, <3>1 DEF CurrentKnows
  <2>2. CASE VersionOrg(x) = o
    <3>1. n = version[o] + 1 /\ version[o] \in Nat /\ n > version[o]
      BY <1>t, <1>w, <2>2
    <3>2. n \in Versions
      BY <2>2 DEF Shape, TypeOK
    <3>3. cache[<<x, n>>].expires = 0
      BY <1>i, <2>2, <3>1, <3>2 DEF NoLaterVersion
    <3>4. \A w \in Workers : At(w, "filling") /\ OrgAt(w) = x => req[w].version <= version[o]
      BY <1>i, <2>2 DEF NoLaterVersion, At, Versioned
    <3>5. \A w \in Workers : At(w, "filling") /\ OrgAt(w) = x => req[w].version # n
      BY <1>t, <3>1, <3>4
    <3> QED BY <3>3, <3>5
  <2> QED BY <2>1, <2>2
<1>4. VersionKnows' /\ LandsAtOnce'
  BY <1>i, <1>u DEF VersionKnows, LandsAtOnce, OrgAt, At
<1> QED BY <1>1, <1>2, <1>3, <1>4 DEF LandsInv

\* Changes that are not announced leave the answers of those who did not move.
LEMMA LandsChange ==
  ASSUME Shape, LandsInv, NEW o \in Orgs,
         \/ \E answer \in {"yes", "no"} : ChangeSubscription(o, answer)
         \/ BumpFails(o)
         \/ \E a \in Agencies \cup {None} : ChangePayer(o, a)
  PROVE  LandsInv'
<1>i. AnnouncedInOrder /\ NoLaterVersion /\ CurrentKnows /\ VersionKnows /\ LandsAtOnce
  BY DEF LandsInv
<1>u. UNCHANGED <<cache, req, announced>>
  BY DEF ChangeSubscription, BumpFails, ChangePayer, sendVars
<1>t. /\ bumping \in [Orgs -> Nat] /\ version \in [Orgs -> Versions]
      /\ payer \in [Orgs -> Agencies \cup {None}] /\ Agencies \subseteq Orgs
      /\ \A k \in Keys : OrgOf[k] \in Orgs /\ announced[k] \in Nat /\ announced[k] <= Len(madeAt)
      /\ Len(madeAt) \in Nat
      /\ \A w \in Workers : ~ At(w, "idle") => req[w].key \in Keys /\ OrgAt(w) \in Orgs
  BY ConstantsAssumption DEF Shape, TypeOK, Payers, RequestsKnow, OrgAt
<1>m. moved \subseteq moved'
  BY DEF ChangeSubscription, BumpFails, ChangePayer
<1>v. \A x \in Orgs : x \notin moved' =>
        /\ VersionOrg(x)' = VersionOrg(x) /\ VersionOrg(x) \in Orgs
        /\ version'[VersionOrg(x)] = version[VersionOrg(x)]
  <2>1. CASE \E a \in Agencies \cup {None} : ChangePayer(o, a)
    <3>1. PICK a \in Agencies \cup {None} : ChangePayer(o, a)
      BY <2>1
    <3>2. /\ o \notin Agencies /\ payer' = [payer EXCEPT ![o] = a] /\ moved' = moved \cup {o}
          /\ \E n \in {0, 1} : version' = [version EXCEPT ![o] = @ + n]
      BY <3>1 DEF ChangePayer
    <3> QED BY <1>t, <3>2 DEF VersionOrg
  <2>2. CASE (\E answer \in {"yes", "no"} : ChangeSubscription(o, answer)) \/ BumpFails(o)
    <3>1. UNCHANGED <<payer, version>>
      BY <2>2 DEF ChangeSubscription, BumpFails
    <3>2. \A x \in Orgs : VersionOrg(x) \in Orgs
      BY VersionOrgType
    <3> QED BY <3>1, <3>2 DEF VersionOrg
  <2> QED BY <2>1, <2>2
<1>b. \A x \in Orgs : bumping'[x] \in {0, bumping[x], Len(madeAt) + 1}
  BY <1>t DEF ChangeSubscription, BumpFails, ChangePayer
<1>1. AnnouncedInOrder'
  <2>1. ASSUME NEW k \in Keys, NEW x \in Orgs, x = OrgOf[k], x \notin moved',
               NEW p \in Orgs, p = VersionOrg(x), bumping'[p] # 0
        PROVE  announced[k] <= bumping'[p]
    <3>1. x \notin moved
      BY <1>m, <2>1
    <3>2. CASE bumping'[p] = bumping[p]
      BY <1>i, <2>1, <3>1, <3>2 DEF AnnouncedInOrder
    <3>3. CASE bumping'[p] = Len(madeAt) + 1
      BY <1>t, <3>3
    <3> QED BY <1>b, <2>1, <3>2, <3>3
  <2>2. \A k \in Keys : OrgOf[k] \notin moved' /\ bumping'[VersionOrg(OrgOf[k])'] # 0 =>
                          announced[k] <= bumping'[VersionOrg(OrgOf[k])']
    BY <1>t, <1>v, <2>1
  <2>3. \A w \in Workers : ~ At(w, "idle") /\ OrgAt(w) \notin moved' =>
                             req[w].floor <= announced[req[w].key]
    BY <1>i, <1>m DEF AnnouncedInOrder
  <2> QED BY <1>u, <2>2, <2>3 DEF AnnouncedInOrder, At, OrgAt
<1>2. NoLaterVersion'
  <2> SUFFICES ASSUME NEW x \in Orgs, x \notin moved'
               PROVE  /\ \A n \in Versions :
                           n > version[VersionOrg(x)] => cache[<<x, n>>].expires = 0
                      /\ \A w \in Workers :
                           req[w].step \in Versioned /\ OrgAt(w) = x =>
                             req[w].version <= version[VersionOrg(x)]
    BY <1>u, <1>v DEF NoLaterVersion, OrgAt
  <2> QED BY <1>i, <1>m DEF NoLaterVersion
<1>3. CurrentKnows'
  <2> SUFFICES ASSUME NEW k \in Keys, NEW x \in Orgs, x = OrgOf[k], x \notin moved',
                      NEW n, n = version[VersionOrg(x)]
               PROVE  /\ cache[<<x, n>>].expires > 0 => cache[<<x, n>>].basis >= announced[k]
                      /\ \A w \in Workers :
                           At(w, "filling") /\ OrgAt(w) = x /\ req[w].version = n =>
                             req[w].basis >= announced[k]
    BY <1>t, <1>u, <1>v DEF CurrentKnows, OrgAt, At
  <2> QED BY <1>i, <1>m DEF CurrentKnows
<1>4. VersionKnows' /\ LandsAtOnce'
  BY <1>i, <1>u, <1>m DEF VersionKnows, LandsAtOnce, OrgAt, At
<1> QED BY <1>1, <1>2, <1>3, <1>4 DEF LandsInv

LEMMA LandsStep == Shape /\ LandsInv /\ [Next]_vars => LandsInv'
<1> SUFFICES ASSUME Shape, LandsInv, [Next]_vars PROVE LandsInv'
    OBVIOUS
<1>1. ASSUME NEW w \in Workers, Requesting(w) PROVE LandsInv'
  BY <1>1, LandsRequest
<1>2. ASSUME NEW o \in Orgs, BumpPayerVersion(o) PROVE LandsInv'
  BY <1>2, LandsBump, ShapeStep
<1>3. ASSUME NEW o \in Orgs,
             \/ \E answer \in {"yes", "no"} : ChangeSubscription(o, answer)
             \/ BumpFails(o)
             \/ \E a \in Agencies \cup {None} : ChangePayer(o, a)
      PROVE  LandsInv'
  BY <1>3, LandsChange
<1>4. ASSUME UNCHANGED <<payVars, cache, req>> PROVE LandsInv'
  BY <1>4 DEF LandsInv, AnnouncedInOrder, NoLaterVersion, CurrentKnows, VersionKnows, LandsAtOnce,
              payVars, VersionOrg, OrgAt, At
<1>5. CASE (\E k \in Keys : CreateApiKey(k) \/ RevokeRow(k) \/ RevokeCache(k) \/ LoseKeyCache(k))
           \/ Tick \/ UNCHANGED vars
  BY <1>4, <1>5 DEF CreateApiKey, RevokeRow, RevokeCache, LoseKeyCache, Tick, vars, sendVars
<1> QED BY <1>1, <1>2, <1>3, <1>5 DEF Next, Requesting

-----------------------------------------------------------------------------
(* Theorems *)

\* Types, versions and what is known: every reachable state has the shape.
THEOREM ShapeHolds == Spec => []Shape
<1>1. Init => Shape
  BY ShapeInit
<1>2. Shape /\ [Next]_vars => Shape'
  BY ShapeStep
<1> QED BY <1>1, <1>2, PTL DEF Spec

\* The gate's variables keep their types.
THEOREM TypeCorrect == Spec => []TypeOK
<1>1. Shape => TypeOK
  BY DEF Shape
<1> QED BY <1>1, ShapeHolds, PTL

\* revokeApiKey() shuts a key out for good, except where a request had read the
\* row before and cached the key after.
THEOREM RevokedKeys == Spec => []RevokedStaysOut
<1>1. Init => CachingIsRaced /\ RevokedStaysOut
  BY DEF Init, CachingIsRaced, RevokedStaysOut, NoRequest, At
<1>2. Shape /\ CachingIsRaced /\ RevokedStaysOut /\ [Next]_vars =>
        CachingIsRaced' /\ RevokedStaysOut'
  BY RevokedStep
<1> QED BY <1>1, <1>2, ShapeHolds, PTL DEF Spec

\* A window lets through the plan's number of messages, however many replicas
\* count, and one more for each time Redis could not be asked.
THEOREM RateIsKept == Spec => []SentWithinRate
<1>1. Init => CountCovers
  BY ConstantsAssumption DEF Init, CountCovers
<1>2. Shape /\ CountCovers /\ [Next]_vars => CountCovers'
  BY CountStep
<1>3. Shape /\ CountCovers => SentWithinRate
  BY ConstantsAssumption DEF Shape, TypeOK, CountCovers, SentWithinRate
<1> QED BY <1>1, <1>2, <1>3, ShapeHolds, PTL DEF Spec

\* A change of a subscription is seen by the first request after the bump that
\* announces it, or, whatever became of the bump, once an entry's life is over.
THEOREM ChangesSeen == Spec => []ChangesAreSeen
<1>1. Init => EntriesAge /\ AnswersAge /\ LandsInv
  <2> SUFFICES ASSUME Init PROVE EntriesAge /\ AnswersAge /\ LandsInv
      OBVIOUS
  <2>1. DOMAIN madeAt = {} /\ clock = 1 /\ Ttl \in Nat
    BY ConstantsAssumption DEF Init
  <2>2. EntriesAge /\ AnswersAge
    BY <2>1 DEF Init, EntriesAge, AnswersAge, NoEntry
  <2>3. LandsInv
    <3>1. \A w \in Workers : req[w].step = "idle"
      BY DEF Init, NoRequest
    <3>2. /\ \A o \in Orgs, n \in Versions : cache[<<o, n>>].expires = 0
          /\ \A o \in Orgs : bumping[o] = 0
      BY DEF Init, NoEntry
    <3>3. \A k \in Keys : LET o == OrgOf[k] IN
            o \in Orgs /\ VersionOrg(o) \in Orgs /\ version[VersionOrg(o)] \in Versions
      BY ShapeInit, VersionOrgType, ConstantsAssumption
    <3>4. AnnouncedInOrder
      BY <3>1, <3>2, <3>3 DEF AnnouncedInOrder, At
    <3>5. NoLaterVersion
      BY <3>1, <3>2 DEF NoLaterVersion, Versioned
    <3>6. CurrentKnows
      BY <3>1, <3>2, <3>3 DEF CurrentKnows, At
    <3>7. VersionKnows /\ LandsAtOnce
      BY <3>1 DEF VersionKnows, LandsAtOnce, At, Versioned
    <3> QED BY <3>4, <3>5, <3>6, <3>7 DEF LandsInv
  <2> QED BY <2>2, <2>3
<1>2. Shape /\ EntriesAge /\ AnswersAge /\ [Next]_vars => EntriesAge' /\ AnswersAge'
  BY AgeStep
<1>3. Shape /\ LandsInv /\ [Next]_vars => LandsInv'
  BY LandsStep
<1>4. Shape /\ AnswersAge /\ LandsInv => ChangesAreSeen
  <2> SUFFICES ASSUME Shape, AnswersAge PROVE StaleIsShort
    BY DEF ChangesAreSeen, LandsInv
  <2> SUFFICES ASSUME NEW w \in Workers, NEW n \in DOMAIN madeAt, At(w, "counting"),
                      clock >= madeAt[n] + Ttl
               PROVE  req[w].basis >= n
    BY DEF StaleIsShort
  <2>1. n \in Nat /\ req[w].basis \in Nat /\ clock \in Nat /\ madeAt[n] \in Nat /\ Ttl \in Nat
    BY ConstantsAssumption DEF Shape, TypeOK, Request
  <2>2. n > req[w].basis => clock < madeAt[n] + Ttl
    BY DEF AnswersAge
  <2> QED BY <2>1, <2>2
<1> QED BY <1>1, <1>2, <1>3, <1>4, ShapeHolds, PTL DEF Spec

=============================================================================
