--------------------------- MODULE SessionsProofs ---------------------------
(***************************************************************************)
(* Proofs about a signed-in person, for any number of requests side by     *)
(* side, organisations, tokens, keys and faults: nobody is signed out by   *)
(* another tab or by an outage, a rotated key is found, a grant is lost    *)
(* only to a write that was overtaken, and signing out shuts the           *)
(* organisations.                                                          *)
(***************************************************************************)
EXTENDS Sessions, TLAPS

\* Between the start of a refresh and its answer.
Buying == {"result", "lock", "wait", "call", "keep", "release"}

\* What a request knows at each step.
Fits(r) ==
    /\ r.step = "idle" => r = Idle
    /\ r.step \in Buying => r.token \in Tokens
    /\ r.step = "keep" => r.pair = r.token + 1
    /\ r.step = "issue" => r.pair # 0
    /\ r.step \in {"key", "loading", "rotation", "checking", "last"} =>
         r.kind \in {"enter", "create", "logout"}
    /\ r.step \in {"session", "rebuild", "resolve", "record", "write", "entered", "create", "learn"}
         => r.kind \in {"enter", "create"}
    /\ r.step # "idle" /\ r.kind \in {"enter", "create"} => r.org \in Orgs
    /\ r.step \in {"rebuild", "write", "learn"} => r.copy.exists

RequestsFit == \A p \in Requests : Fits(req[p])

\* A pair is kept with the token that bought it.
ResultsFit == \A t \in Tokens : result[t] \in {0, t + 1}

\* Before the person signs in there is nothing.
Fresh ==
    sso.state = "none" =>
      /\ jar = 0 /\ issued = {} /\ lock = {} /\ ring = {} /\ fetch = {} /\ record = NoRecord
      /\ out = "no"
      /\ \A t \in Tokens : result[t] = 0 /\ presented[t] = 0
      /\ \A p \in Requests : req[p] = Idle

Shape == TypeOK /\ RequestsFit /\ ResultsFit /\ Fresh

-----------------------------------------------------------------------------
(* Refreshing *)

Has(p, t) == req[p].token = t /\ req[p].step \in {"call", "keep", "release"}

\* While the session lives, the SSO has been shown each token it has traded once.
ShownOnce ==
    /\ sso.token \in Tokens
    /\ \A t \in Tokens : presented[t] = IF t < sso.token THEN 1 ELSE 0

\* One request at a time spends a token, and it holds the lock.
OneBuyer ==
    \A t \in Tokens \ excused : \A p \in Requests :
      Has(p, t) => t \in lock /\ \A q \in Requests : Has(q, t) => q = p

\* A token that has not been traded has bought nothing.
NotYetSpent ==
    \A t \in Tokens \ excused :
      t >= sso.token => /\ result[t] = 0
                        /\ \A p \in Requests : req[p].token = t => req[p].step # "keep"

\* Nothing leads back to a token.
Forgotten(t) ==
    /\ jar # t /\ \A u \in Tokens : result[u] # t
    /\ \A p \in Requests : req[p].token # t /\ req[p].pair # t

Shown(p, t) == req[p].token = t /\ req[p].step \in {"call", "release"}

Keeping(t) == \E p \in Requests : req[p].token = t /\ req[p].step = "keep"

IsKept(t) ==
    /\ result[t] # 0
    /\ \A p \in Requests : req[p].token = t /\ req[p].step = "lock" => t \in lock

\* Nobody shows the SSO a token that has been traded: its pair is about to be
\* kept, or is kept, or nobody has the token any more.
Spent ==
    \A t \in Tokens \ excused :
      t < sso.token => /\ \A p \in Requests : ~ Shown(p, t)
                       /\ Keeping(t) \/ IsKept(t) \/ Forgotten(t)

Thrifty == ShownOnce /\ OneBuyer /\ NotYetSpent /\ Spent

SpentInv == SpentOnce /\ (sso.state = "live" => Thrifty)

\* Whoever was refused, is about to clear the cookie or has told the SSO, knows
\* that the session is over.
OverInv ==
    /\ OutageKeepsCookie
    /\ \A p \in Requests :
         /\ req[p].refused => sso.state # "live"
         /\ req[p].step = "drop" => out # "no"
         /\ req[p].step = "clear" => sso.state # "live" \/ out # "no"

-----------------------------------------------------------------------------
(* The ring, the record and signing out *)

Someone(step) == \E p \in Requests : req[p].step = step

RingInv ==
    /\ checked = "after" => Published \subseteq ring
    /\ fetch # {} => ring = {} \/ Someone("checking")
    /\ "rotation" \in cooling => checked # "never" \/ (fetch # {} /\ Someone("checking"))
    /\ \A p \in Requests : /\ req[p].step = "checking" => fetch # {}
                           /\ req[p].step = "last" => checked # "never"

\* What a request is about to write was read from the record as it is, unless
\* another write came between.
CopyInv ==
    \A p \in Requests \ raced :
      /\ req[p].step = "rebuild" => ~ record.exists
      /\ req[p].step \in {"write", "learn"} => ~ record.exists \/ record = req[p].copy

Empty(data) == data.orgs = {} /\ data.grants = {}

\* After the sign-out the record opens nothing, and neither does any copy of it
\* that a later request has.
ShutInv ==
    /\ out \in {"told", "gone"} => sso.state \in {"ended", "stolen"}
    /\ out \in {"no", "here", "told"} => \A p \in Requests : ~ req[p].after
    /\ out = "gone" =>
         /\ Empty(record)
         /\ \A p \in Requests :
              req[p].after =>
                /\ req[p].step \notin {"record", "write", "learn", "entered"}
                /\ req[p].step \in {"rebuild", "resolve"} => Empty(req[p].copy)

-----------------------------------------------------------------------------
(* What a step does to the requests *)

\* Only p moves.
Others(p) == req' \in [Requests -> Request] /\ \A q \in Requests \ {p} : req'[q] = req[q]

\* What a request is and belongs to does not change under way.
Same(p) ==
    /\ req'[p].kind = req[p].kind /\ req'[p].token = req[p].token /\ req'[p].kid = req[p].kid
    /\ req'[p].org = req[p].org /\ req'[p].after = req[p].after

Moved(p, step, pair, refused, copy) ==
    /\ Others(p) /\ Same(p)
    /\ req'[p].step = step /\ req'[p].pair = pair /\ req'[p].refused = refused
    /\ req'[p].copy = copy

LEMMA IdleIsRequest == Idle \in Request /\ Fits(Idle)
BY ConstantsAssumption DEF Idle, Request, Steps, Kinds, Record, NoRecord, Fits, Buying

LEMMA Becomes ==
  ASSUME TypeOK, NEW p \in Requests, NEW r \in Request, req' = [req EXCEPT ![p] = r]
  PROVE  Others(p) /\ req'[p] = r
BY DEF TypeOK, Others

LEMMA Updates ==
  ASSUME TypeOK, NEW p \in Requests, NEW step \in Steps, NEW pair \in 0..MaxToken,
         NEW refused \in BOOLEAN, NEW copy \in Record,
         req' = [req EXCEPT ![p] = [req[p] EXCEPT !.step = step, !.pair = pair,
                                                  !.refused = refused, !.copy = copy]]
  PROVE  Moved(p, step, pair, refused, copy)
<1> DEFINE r == [req[p] EXCEPT !.step = step, !.pair = pair, !.refused = refused, !.copy = copy]
<1>1. req[p] \in Request
  BY DEF TypeOK
<1>2. /\ r \in Request /\ r.step = step /\ r.pair = pair /\ r.refused = refused /\ r.copy = copy
      /\ r.kind = req[p].kind /\ r.token = req[p].token /\ r.kid = req[p].kid
      /\ r.org = req[p].org /\ r.after = req[p].after
  BY <1>1 DEF Request
<1> QED BY <1>2, Becomes DEF Moved, Same

LEMMA Goings ==
  ASSUME TypeOK, NEW p \in Requests, NEW step \in Steps, Goes(p, step)
  PROVE  Moved(p, step, req[p].pair, req[p].refused, req[p].copy)
<1>1. req[p] \in Request
  BY DEF TypeOK
<1>2. /\ req[p].pair \in 0..MaxToken /\ req[p].refused \in BOOLEAN /\ req[p].copy \in Record
  BY <1>1 DEF Request
<1>3. req' = [req EXCEPT ![p] = [req[p] EXCEPT !.step = step, !.pair = req[p].pair,
                                   !.refused = req[p].refused, !.copy = req[p].copy]]
  BY <1>1 DEF Goes, Request
<1> QED BY <1>2, <1>3, Updates

LEMMA Endings ==
  ASSUME TypeOK, NEW p \in Requests, Ends(p)
  PROVE  Others(p) /\ req'[p] = Idle
BY IdleIsRequest, Becomes DEF Ends

LEMMA Pairings ==
  ASSUME TypeOK, NEW p \in Requests, NEW step \in Steps, NEW pair \in 0..MaxToken,
         req' = [req EXCEPT ![p].step = step, ![p].pair = pair]
  PROVE  Moved(p, step, pair, req[p].refused, req[p].copy)
<1>1. req[p] \in Request /\ req \in [Requests -> Request]
  BY DEF TypeOK
<1>2. req[p].refused \in BOOLEAN /\ req[p].copy \in Record
  BY <1>1 DEF Request
<1>3. req' = [req EXCEPT ![p] = [req[p] EXCEPT !.step = step, !.pair = pair,
                                   !.refused = req[p].refused, !.copy = req[p].copy]]
  BY <1>1 DEF Request
<1> QED BY ONLY TypeOK, p \in Requests, step \in Steps, pair \in 0..MaxToken, <1>2, <1>3,
                 Updates

LEMMA Refusals ==
  ASSUME TypeOK, NEW p \in Requests, NEW step \in Steps, NEW refused \in BOOLEAN,
         req' = [req EXCEPT ![p].step = step, ![p].refused = refused]
  PROVE  Moved(p, step, req[p].pair, refused, req[p].copy)
<1>1. req[p] \in Request /\ req \in [Requests -> Request]
  BY DEF TypeOK
<1>2. req[p].pair \in 0..MaxToken /\ req[p].copy \in Record
  BY <1>1 DEF Request
<1>3. req' = [req EXCEPT ![p] = [req[p] EXCEPT !.step = step, !.pair = req[p].pair,
                                   !.refused = refused, !.copy = req[p].copy]]
  BY <1>1 DEF Request
<1> QED BY ONLY TypeOK, p \in Requests, step \in Steps, refused \in BOOLEAN, <1>2, <1>3,
                 Updates

LEMMA Copyings ==
  ASSUME TypeOK, NEW p \in Requests, NEW step \in Steps, NEW copy \in Record,
         req' = [req EXCEPT ![p].step = step, ![p].copy = copy]
  PROVE  Moved(p, step, req[p].pair, req[p].refused, copy)
<1>1. req[p] \in Request /\ req \in [Requests -> Request]
  BY DEF TypeOK
<1>2. req[p].pair \in 0..MaxToken /\ req[p].refused \in BOOLEAN
  BY <1>1 DEF Request
<1>3. req' = [req EXCEPT ![p] = [req[p] EXCEPT !.step = step, !.pair = req[p].pair,
                                   !.refused = req[p].refused, !.copy = copy]]
  BY <1>1 DEF Request
<1> QED BY ONLY TypeOK, p \in Requests, step \in Steps, copy \in Record, <1>2, <1>3,
                 Updates

\* A request comes in.
Began(p, r) == Others(p) /\ req[p].step = "idle" /\ req'[p] = r /\ r \in Request /\ Fits(r)

LEMMA RefreshArrives ==
  ASSUME Shape, NEW p \in Requests, Refresh(p)
  PROVE  \E r \in Request : /\ Began(p, r) /\ r.step = "result" /\ r.token = jar /\ r.pair = 0
                            /\ ~ r.refused /\ ~ r.after
<1>t. TypeOK /\ Idle \in Request /\ jar \in 0..MaxToken
  BY IdleIsRequest DEF Shape, TypeOK
<1> DEFINE r == [Idle EXCEPT !.step = "result", !.kind = "refresh", !.token = jar]
<1>1. jar \in Tokens
  BY <1>t, ConstantsAssumption DEF Refresh, Tokens
<1>2. /\ r \in Request /\ r.step = "result" /\ r.kind = "refresh" /\ r.token = jar /\ r.pair = 0
      /\ r.refused = FALSE /\ r.after = FALSE
  BY <1>t DEF Idle, Request, Steps, Kinds
<1>3. Fits(r)
  BY <1>1, <1>2 DEF Fits, Buying
<1>4. req' = [req EXCEPT ![p] = r] /\ req[p].step = "idle"
  BY DEF Refresh, Starts, At
<1>5. Others(p) /\ req'[p] = r
  BY <1>t, <1>2, <1>4, Becomes
<1> HIDE DEF r
<1> QED BY <1>2, <1>3, <1>4, <1>5 DEF Began

LEMMA AccessArrives ==
  ASSUME Shape, NEW p \in Requests, req[p].step = "idle", NEW r \in Request,
         r.step = "key", r.kind \in {"enter", "create", "logout"},
         r.kind # "logout" => r.org \in Orgs, req' = [req EXCEPT ![p] = r]
  PROVE  Began(p, r)
BY Becomes DEF Began, Fits, Buying, Shape

LEMMA EnterArrives ==
  ASSUME Shape, NEW p \in Requests, NEW kid \in issued, NEW o \in Orgs,
         Enter(p, kid, o) \/ Create(p, kid)
  PROVE  \E r \in Request : /\ Began(p, r) /\ r.step = "key" /\ r.token = 0 /\ r.pair = 0
                            /\ ~ r.refused /\ r.after = (out \in {"gone", "revived"})
<1>t. Idle \in Request /\ kid \in 0..MaxKid /\ New \in Orgs
  BY IdleIsRequest, ConstantsAssumption DEF Shape, TypeOK, Kids
<1>0. (out \in {"gone", "revived"}) \in BOOLEAN
  OBVIOUS
<1>1. PICK after \in BOOLEAN : after = (out \in {"gone", "revived"})
  BY <1>0, Zenon
<1>2. CASE Enter(p, kid, o)
  <2> DEFINE r == [Idle EXCEPT !.step = "key", !.kid = kid, !.org = o, !.after = after]
  <2>1. /\ r \in Request /\ r.step = "key" /\ r.kind = "enter" /\ r.token = 0 /\ r.pair = 0
        /\ r.refused = FALSE /\ r.after = after /\ r.org = o
    BY <1>t DEF Idle, Request, Steps, Kinds
  <2>2. req[p].step = "idle" /\ req' = [req EXCEPT ![p] = r]
    BY <1>1, <1>2 DEF Enter, Starts, At
  <2> HIDE DEF r
  <2>3. Began(p, r)
    BY <2>1, <2>2, AccessArrives
  <2> QED BY <1>1, <2>1, <2>3
<1>3. CASE Create(p, kid)
  <2> DEFINE r == [Idle EXCEPT !.step = "key", !.kind = "create", !.kid = kid, !.org = New,
                               !.after = after]
  <2>1. /\ r \in Request /\ r.step = "key" /\ r.kind = "create" /\ r.token = 0 /\ r.pair = 0
        /\ r.refused = FALSE /\ r.after = after /\ r.org = New
    BY <1>t DEF Idle, Request, Steps, Kinds
  <2>2. req[p].step = "idle" /\ req' = [req EXCEPT ![p] = r]
    BY <1>1, <1>3 DEF Create, Starts, At
  <2> HIDE DEF r
  <2>3. Began(p, r)
    BY <1>t, <2>1, <2>2, AccessArrives
  <2> QED BY <1>1, <2>1, <2>3
<1> QED BY <1>2, <1>3

LEMMA LogoutArrives ==
  ASSUME Shape, NEW p \in Requests, NEW kid \in issued, Logout(p, kid)
  PROVE  \E r \in Request : /\ Began(p, r) /\ r.step = "key" /\ r.token = 0 /\ r.pair = 0
                            /\ ~ r.refused /\ ~ r.after
<1>t. Idle \in Request /\ kid \in 0..MaxKid
  BY IdleIsRequest, ConstantsAssumption DEF Shape, TypeOK, Kids
<1> DEFINE r == [Idle EXCEPT !.step = "key", !.kind = "logout", !.kid = kid]
<1>1. /\ r \in Request /\ r.step = "key" /\ r.kind = "logout" /\ r.token = 0 /\ r.pair = 0
      /\ r.refused = FALSE /\ r.after = FALSE
  BY <1>t DEF Idle, Request, Steps, Kinds
<1>2. req[p].step = "idle" /\ req' = [req EXCEPT ![p] = r]
  BY DEF Logout, Starts, At
<1> HIDE DEF r
<1>3. Began(p, r)
  BY <1>1, <1>2, AccessArrives
<1> QED BY <1>1, <1>3

Went(p, step) == Moved(p, step, req[p].pair, req[p].refused, req[p].copy)

Ended(p) == Others(p) /\ req'[p] = Idle

LEMMA RefreshMoves ==
  ASSUME Shape, NEW p \in Requests, NEW t, t = req[p].token
  PROVE  /\ GetRefreshResult(p) =>
              Moved(p, IF result[t] # 0 THEN "issue" ELSE "lock", result[t], req[p].refused,
                    req[p].copy)
         /\ TakeRefreshLock(p) => Went(p, IF t \in lock THEN "wait" ELSE "call")
         /\ WaitForRefresh(p) =>
              \/ result[t] # 0 /\ Moved(p, "issue", result[t], req[p].refused, req[p].copy)
              \/ Ended(p)
         /\ Trade(p) =>
              \/ excused' = excused /\ Moved(p, "keep", t + 1, req[p].refused, req[p].copy)
              \/ excused' = excused \cup {t} /\ Went(p, "release")
         /\ Refuse(p) => Moved(p, "release", req[p].pair, TRUE, req[p].copy)
         /\ Unreachable(p) => Went(p, "release")
         /\ SetRefreshResult(p) => Went(p, "issue")
         /\ ReleaseRefreshLock(p) => Ended(p) \/ (Went(p, "clear") /\ req[p].refused)
         /\ Issue(p) \/ ClearRefreshCookie(p) \/ Die(p) => Ended(p)
<1>t. /\ TypeOK /\ req[p] \in Request /\ Fits(req[p]) /\ result \in [Tokens -> 0..MaxToken]
  BY DEF Shape, TypeOK, RequestsFit
<1>s. {"issue", "lock", "wait", "call", "keep", "release", "clear"} \subseteq Steps
  BY DEF Steps
<1>1. ASSUME GetRefreshResult(p)
      PROVE  Moved(p, IF result[t] # 0 THEN "issue" ELSE "lock", result[t], req[p].refused,
                   req[p].copy)
  <2>1. req' = [req EXCEPT ![p].step = IF result[t] # 0 THEN "issue" ELSE "lock",
                           ![p].pair = result[t]] /\ req[p].step = "result"
    BY <1>1 DEF GetRefreshResult, At
  <2>2. result[t] \in 0..MaxToken /\ (IF result[t] # 0 THEN "issue" ELSE "lock") \in Steps
    BY <1>t, <1>s, <2>1 DEF Fits, Buying
  <2> QED BY <1>t, <2>1, <2>2, Pairings
<1>2. ASSUME TakeRefreshLock(p) PROVE Went(p, IF t \in lock THEN "wait" ELSE "call")
  <2>1. Goes(p, IF t \in lock THEN "wait" ELSE "call")
    BY <1>2 DEF TakeRefreshLock
  <2>2. (IF t \in lock THEN "wait" ELSE "call") \in Steps
    BY <1>s
  <2> QED BY <1>t, <2>1, <2>2, Goings DEF Went
<1>3. ASSUME WaitForRefresh(p)
      PROVE  \/ result[t] # 0 /\ Moved(p, "issue", result[t], req[p].refused, req[p].copy)
             \/ Ended(p)
  <2>1. CASE /\ result[t] # 0
             /\ req' = [req EXCEPT ![p].step = "issue", ![p].pair = result[t]]
    <3>1. result[t] \in 0..MaxToken
      BY <1>t, <1>3 DEF Fits, Buying, WaitForRefresh, At
    <3> QED BY <1>t, <1>s, <2>1, <3>1, Pairings
  <2>2. CASE Ends(p)
    BY <1>t, <2>2, Endings DEF Ended
  <2> QED BY <1>3, <2>1, <2>2 DEF WaitForRefresh
<1>4. ASSUME Trade(p)
      PROVE  \/ excused' = excused /\ Moved(p, "keep", t + 1, req[p].refused, req[p].copy)
             \/ excused' = excused \cup {t} /\ Went(p, "release")
  <2>1. CASE /\ req' = [req EXCEPT ![p].step = "keep", ![p].pair = t + 1] /\ excused' = excused
    <3>1. t + 1 \in 0..MaxToken
      BY <1>t, <1>4, ConstantsAssumption DEF Fits, Buying, Trade, At, Tokens
    <3> QED BY <1>t, <1>s, <2>1, <3>1, Pairings
  <2>2. CASE Goes(p, "release") /\ excused' = excused \cup {t}
    BY <1>t, <1>s, <2>2, Goings DEF Went
  <2> QED BY <1>4, <2>1, <2>2 DEF Trade
<1>5. ASSUME Refuse(p) PROVE Moved(p, "release", req[p].pair, TRUE, req[p].copy)
  <2>1. req' = [req EXCEPT ![p].step = "release", ![p].refused = TRUE]
    BY <1>5 DEF Refuse
  <2> QED BY <1>t, <1>s, <2>1, Refusals
<1>6. ASSUME Unreachable(p) PROVE Went(p, "release")
  BY <1>t, <1>s, <1>6, Goings DEF Went, Unreachable
<1>7. ASSUME SetRefreshResult(p) PROVE Went(p, "issue")
  BY <1>t, <1>s, <1>7, Goings DEF Went, SetRefreshResult
<1>8. ASSUME ReleaseRefreshLock(p) PROVE Ended(p) \/ (Went(p, "clear") /\ req[p].refused)
  <2>1. Ends(p) \/ (Goes(p, "clear") /\ req[p].refused)
    BY <1>8 DEF ReleaseRefreshLock, AfterError
  <2> QED BY <1>t, <1>s, <2>1, Goings, Endings DEF Went, Ended
<1>9. ASSUME Issue(p) \/ ClearRefreshCookie(p) \/ Die(p) PROVE Ended(p)
  <2>1. Ends(p)
    BY <1>9 DEF Issue, ClearRefreshCookie, Die
  <2> QED BY <1>t, <2>1, Endings DEF Ended
<1> QED BY <1>1, <1>2, <1>3, <1>4, <1>5, <1>6, <1>7, <1>8, <1>9

LEMMA Verified ==
  ASSUME Shape, NEW p \in Requests,
         req[p].step \in {"key", "loading", "rotation", "checking", "last"}
  PROVE  /\ AfterVerify(p) \in {"session", "create", "told"}
         /\ AfterVerify(p) # "told" => req[p].kind \in {"enter", "create"}
<1>1. req[p].kind \in {"enter", "create", "logout"}
  BY DEF Shape, RequestsFit, Fits
<1> QED BY <1>1 DEF AfterVerify

\* Where a request whose token is being verified can go.
Onward(p) == {AfterVerify(p), "rotation", "loading", "checking", "last"}

LEMMA VerifyMoves ==
  ASSUME Shape, NEW p \in Requests
  PROVE  /\ KeyFor(p) \/ LookAgain(p) => \E step \in Onward(p) : Went(p, step)
         /\ LookUp(p) => Went(p, AfterVerify(p)) \/ Ended(p)
<1>t. TypeOK
  BY DEF Shape
<1>1. ASSUME KeyFor(p) \/ LookAgain(p) PROVE \E step \in Onward(p) : Went(p, step)
  <2>1. req[p].step \in {"key", "rotation"}
    BY <1>1 DEF KeyFor, LookAgain, At
  <2>2. PICK step \in Onward(p) : Goes(p, step)
    BY <1>1 DEF KeyFor, LookAgain, LoadKeys, Onward
  <2>3. step \in Steps
    BY <2>1, Verified DEF Onward, Steps
  <2> QED BY <1>t, <2>2, <2>3, Goings DEF Went
<1>2. ASSUME LookUp(p) PROVE Went(p, AfterVerify(p)) \/ Ended(p)
  <2>1. AfterVerify(p) \in Steps
    BY <1>2, Verified DEF LookUp, At, Steps
  <2>2. Goes(p, AfterVerify(p)) \/ Ends(p)
    BY <1>2 DEF LookUp
  <2> QED BY <1>t, <2>1, <2>2, Goings, Endings DEF Went, Ended
<1> QED BY <1>1, <1>2

\* The end of a fetch moves whoever waits for it, and nobody else.
LEMMA FetchMoves ==
  ASSUME Shape, FetchEnds
  PROVE  /\ req' \in [Requests -> Request]
         /\ \A p \in Requests :
              /\ Same(p) /\ req'[p].pair = req[p].pair /\ req'[p].refused = req[p].refused
              /\ req'[p].copy = req[p].copy
              /\ \/ req[p].step \notin {"loading", "checking"} /\ req'[p] = req[p]
                 \/ req[p].step = "loading" /\ req'[p].step \in {AfterVerify(p), "rotation"}
                 \/ req[p].step = "checking" /\ req'[p].step = "last"
<1> DEFINE To(p) == CASE At(p, "loading") /\ req[p].kid \in ring' -> AfterVerify(p)
                      [] At(p, "loading") /\ req[p].kid \notin ring' -> "rotation"
                      [] At(p, "checking") -> "last"
                      [] OTHER -> req[p].step
<1>1. ASSUME NEW p \in Requests
      PROVE  /\ \/ req[p].step \notin {"loading", "checking"} /\ To(p) = req[p].step
                \/ req[p].step = "loading" /\ To(p) \in {AfterVerify(p), "rotation"}
                \/ req[p].step = "checking" /\ To(p) = "last"
             /\ To(p) \in Steps /\ req[p] \in Request
  <2>1. req[p] \in Request /\ req[p].step \in Steps
    BY DEF Shape, TypeOK, Request
  <2>2. CASE req[p].step = "loading"
    <3>1. To(p) \in {AfterVerify(p), "rotation"}
      BY <2>2 DEF At
    <3>2. To(p) \in Steps
      BY <2>2, <3>1, Verified DEF Steps
    <3> QED BY <2>1, <2>2, <3>1, <3>2
  <2>3. CASE req[p].step = "checking"
    BY <2>1, <2>3 DEF At, Steps
  <2>4. CASE req[p].step \notin {"loading", "checking"}
    BY <2>1, <2>4 DEF At
  <2> QED BY <2>2, <2>3, <2>4
<1>2. req' = [p \in Requests |-> [req[p] EXCEPT !.step = To(p)]]
  BY DEF FetchEnds
<1> HIDE DEF To
<1>3. ASSUME NEW p \in Requests
      PROVE  LET r == [req[p] EXCEPT !.step = To(p)] IN
             /\ r \in Request /\ r.step = To(p) /\ r.pair = req[p].pair
             /\ r.refused = req[p].refused /\ r.copy = req[p].copy /\ r.kind = req[p].kind
             /\ r.token = req[p].token /\ r.kid = req[p].kid
             /\ r.org = req[p].org /\ r.after = req[p].after
  BY <1>1 DEF Request
<1>4. req' \in [Requests -> Request]
  BY <1>2, <1>3
<1>5. ASSUME NEW p \in Requests
      PROVE  /\ Same(p) /\ req'[p].pair = req[p].pair /\ req'[p].refused = req[p].refused
             /\ req'[p].copy = req[p].copy /\ req'[p].step = To(p)
  <2>1. req'[p] = [req[p] EXCEPT !.step = To(p)]
    BY <1>2
  <2> QED BY <1>3, <2>1 DEF Same
<1>6. ASSUME NEW p \in Requests, req[p].step \notin {"loading", "checking"} PROVE req'[p] = req[p]
  <2>1. req'[p] = [req[p] EXCEPT !.step = req[p].step] /\ req[p] \in Request
    BY <1>1, <1>2, <1>6
  <2> QED BY <2>1 DEF Request
<1> QED BY <1>1, <1>4, <1>5, <1>6

LEMMA AccessMoves ==
  ASSUME Shape, NEW p \in Requests
  PROVE  /\ Session(p) =>
              \/ record.exists /\ Moved(p, "resolve", req[p].pair, req[p].refused, record)
              \/ /\ ~ record.exists
                 /\ \E orgs \in Listed :
                      Moved(p, "rebuild", req[p].pair, req[p].refused,
                            [exists |-> TRUE, orgs |-> orgs, grants |-> {}])
         /\ Rebuild(p) => Went(p, "resolve")
         /\ GrantFor(p) =>
              \/ Went(p, "entered") /\ req[p].org \in req[p].copy.grants
              \/ Went(p, "record") /\ Granted(req[p].copy.orgs, req[p].org)
              \/ Ended(p)
         /\ RecordGrant(p) =>
              \/ record.exists /\ Moved(p, "write", req[p].pair, req[p].refused, record)
              \/ Went(p, "entered")
         /\ WriteGrant(p) => Went(p, "entered")
         /\ Served(p) => Ended(p)
         /\ CreateOrganization(p) =>
              \/ /\ sso.state = "live"
                 /\ Moved(p, IF record.exists THEN "learn" ELSE "record", req[p].pair,
                          req[p].refused, record)
              \/ Ended(p)
         /\ Learn(p) => Went(p, "record")
         /\ LogoutAtSso(p) => Went(p, "drop")
         /\ DeleteSsoSession(p) => Went(p, "clear")
<1>t. TypeOK /\ record \in Record /\ member \in SUBSET Orgs
  BY DEF Shape, TypeOK
<1>s. {"resolve", "rebuild", "entered", "record", "write", "learn", "drop", "clear"} \subseteq Steps
  BY DEF Steps
<1>1. ASSUME Session(p)
      PROVE  \/ record.exists /\ Moved(p, "resolve", req[p].pair, req[p].refused, record)
             \/ /\ ~ record.exists
                /\ \E orgs \in Listed :
                     Moved(p, "rebuild", req[p].pair, req[p].refused,
                           [exists |-> TRUE, orgs |-> orgs, grants |-> {}])
  <2>1. CASE record.exists /\ req' = [req EXCEPT ![p].step = "resolve", ![p].copy = record]
    BY <1>t, <1>s, <2>1, Copyings
  <2>2. ASSUME ~ record.exists, NEW orgs \in Listed,
               req' = [req EXCEPT ![p].step = "rebuild",
                                  ![p].copy = [exists |-> TRUE, orgs |-> orgs, grants |-> {}]]
        PROVE  Moved(p, "rebuild", req[p].pair, req[p].refused,
                     [exists |-> TRUE, orgs |-> orgs, grants |-> {}])
    <3>1. [exists |-> TRUE, orgs |-> orgs, grants |-> {}] \in Record
      BY <1>t DEF Record, Listed
    <3> QED BY <1>t, <1>s, <2>2, <3>1, Copyings
  <2> QED BY <1>1, <2>1, <2>2 DEF Session
<1>2. ASSUME GrantFor(p)
      PROVE  \/ Went(p, "entered") /\ req[p].org \in req[p].copy.grants
             \/ Went(p, "record") /\ Granted(req[p].copy.orgs, req[p].org)
             \/ Ended(p)
  <2>1. \/ Goes(p, "entered") /\ req[p].org \in req[p].copy.grants
        \/ Goes(p, "record") /\ Granted(req[p].copy.orgs, req[p].org)
        \/ Ends(p)
    BY <1>2 DEF GrantFor
  <2> QED BY <1>t, <1>s, <2>1, Goings, Endings DEF Went, Ended
<1>3. ASSUME RecordGrant(p)
      PROVE  \/ record.exists /\ Moved(p, "write", req[p].pair, req[p].refused, record)
             \/ Went(p, "entered")
  <2>1. CASE record.exists /\ req' = [req EXCEPT ![p].step = "write", ![p].copy = record]
    BY <1>t, <1>s, <2>1, Copyings
  <2>2. CASE Goes(p, "entered")
    BY <1>t, <1>s, <2>2, Goings DEF Went
  <2> QED BY <1>3, <2>1, <2>2 DEF RecordGrant, Reread
<1>4. ASSUME CreateOrganization(p)
      PROVE  \/ /\ sso.state = "live"
                /\ Moved(p, IF record.exists THEN "learn" ELSE "record", req[p].pair,
                         req[p].refused, record)
             \/ Ended(p)
  <2>1. CASE req' = [req EXCEPT ![p].step = IF record.exists THEN "learn" ELSE "record",
                                ![p].copy = record]
    <3>1. (IF record.exists THEN "learn" ELSE "record") \in Steps
      BY <1>s
    <3>2. Moved(p, IF record.exists THEN "learn" ELSE "record", req[p].pair, req[p].refused, record)
      BY <1>t, <2>1, <3>1, Copyings
    <3>3. sso.state = "live" \/ Ended(p)
      BY <1>t, <1>4, Endings DEF CreateOrganization, Ended
    <3> QED BY <3>2, <3>3
  <2>2. CASE Ends(p)
    BY <1>t, <2>2, Endings DEF Ended
  <2> QED BY <1>4, <2>1, <2>2 DEF CreateOrganization
<1>5. /\ Rebuild(p) => Went(p, "resolve")
      /\ WriteGrant(p) => Went(p, "entered")
      /\ Learn(p) => Went(p, "record")
      /\ LogoutAtSso(p) => Went(p, "drop")
      /\ DeleteSsoSession(p) => Went(p, "clear")
  BY <1>t, <1>s, Goings DEF Went, Rebuild, WriteGrant, Learn, LogoutAtSso, DeleteSsoSession
<1>6. Served(p) => Ended(p)
  BY <1>t, Endings DEF Served, Ended
<1> QED BY <1>1, <1>2, <1>3, <1>4, <1>5, <1>6

-----------------------------------------------------------------------------
(* Types and shape *)

\* A step that moves one request, by the name of what moves it.
RefreshStep(p) ==
    \/ GetRefreshResult(p) \/ TakeRefreshLock(p) \/ WaitForRefresh(p) \/ Trade(p) \/ Refuse(p)
    \/ Unreachable(p) \/ SetRefreshResult(p) \/ ReleaseRefreshLock(p) \/ Issue(p)
    \/ ClearRefreshCookie(p) \/ Die(p)

VerifyStep(p) == KeyFor(p) \/ LookAgain(p) \/ LookUp(p)

AccessStep(p) ==
    \/ Session(p) \/ Rebuild(p) \/ GrantFor(p) \/ RecordGrant(p) \/ WriteGrant(p) \/ Served(p)
    \/ CreateOrganization(p) \/ Learn(p) \/ LogoutAtSso(p) \/ DeleteSsoSession(p)

Arrival(p) ==
    \/ Refresh(p)
    \/ \E kid \in issued : \/ \E o \in Orgs : Enter(p, kid, o)
                           \/ Create(p, kid) \/ Logout(p, kid)

\* A step that moves none.
Elsewhere ==
    \/ SignIn \/ RotateKey \/ Restart \/ Evict \/ UNCHANGED vars
    \/ \E t \in Tokens : LockRunsOut(t) \/ ResultRunsOut(t)
    \/ \E why \in {"load", "rotation"} : CooldownEnds(why)
    \/ \E o \in Orgs : RemoveMember(o)

LEMMA Cases ==
  ASSUME [Next]_vars
  PROVE  \/ Elsewhere \/ FetchEnds
         \/ \E p \in Requests : Arrival(p) \/ RefreshStep(p) \/ VerifyStep(p) \/ AccessStep(p)
BY DEF Next, RefreshNext, VerifyNext, AccessNext, Elsewhere, Arrival, RefreshStep, VerifyStep,
       AccessStep

LEMMA NobodyMoves == ASSUME Elsewhere PROVE req' = req
BY DEF Elsewhere, SignIn, RotateKey, Restart, Evict, LockRunsOut, ResultRunsOut, CooldownEnds,
       RemoveMember, vars

\* What an arrival is, whatever it is for.
LEMMA Arrives ==
  ASSUME Shape, NEW p \in Requests, Arrival(p)
  PROVE  \E r \in Request :
           /\ Began(p, r) /\ r.pair = 0 /\ ~ r.refused
           /\ \/ Refresh(p) /\ r.step = "result" /\ r.token = jar /\ ~ r.after
              \/ r.step = "key" /\ r.token = 0 /\ (r.after => out \in {"gone", "revived"})
<1>1. CASE Refresh(p)
  BY <1>1, RefreshArrives
<1>2. ASSUME NEW kid \in issued, NEW o \in Orgs, Enter(p, kid, o) \/ Create(p, kid)
      PROVE  \E r \in Request : /\ Began(p, r) /\ r.pair = 0 /\ ~ r.refused /\ r.step = "key"
                                /\ r.token = 0 /\ (r.after => out \in {"gone", "revived"})
  BY <1>2, EnterArrives
<1>3. ASSUME NEW kid \in issued, Logout(p, kid)
      PROVE  \E r \in Request : /\ Began(p, r) /\ r.pair = 0 /\ ~ r.refused /\ r.step = "key"
                                /\ r.token = 0 /\ (r.after => out \in {"gone", "revived"})
  BY <1>3, LogoutArrives
<1>4. New \in Orgs
  BY ConstantsAssumption
<1> QED BY <1>1, <1>2, <1>3, <1>4 DEF Arrival

LEMMA RequestsStep ==
  ASSUME Shape, [Next]_vars
  PROVE  req' \in [Requests -> Request] /\ RequestsFit'
<1>t. req \in [Requests -> Request] /\ RequestsFit
  BY DEF Shape, TypeOK
<1>0. ASSUME NEW p \in Requests, Others(p), Fits(req'[p])
      PROVE  req' \in [Requests -> Request] /\ RequestsFit'
  <2>1. ASSUME NEW q \in Requests PROVE Fits(req'[q])
    <3>1. CASE q = p
      BY <1>0, <3>1
    <3>2. CASE q # p
      <4>1. req'[q] = req[q]
        BY <1>0, <3>2 DEF Others
      <4> QED BY <1>t, <4>1 DEF RequestsFit
    <3> QED BY <3>1, <3>2
  <2> QED BY <1>0, <2>1 DEF Others, RequestsFit
<1>1. ASSUME NEW p \in Requests, Ended(p) PROVE Others(p) /\ Fits(req'[p])
  <2>1. req'[p] = Idle
    BY <1>1 DEF Ended
  <2> QED BY <1>1, <2>1, IdleIsRequest DEF Ended
<1>2. ASSUME NEW p \in Requests, Arrival(p) PROVE Others(p) /\ Fits(req'[p])
  <2>1. PICK r \in Request : Began(p, r)
    BY <1>2, Arrives
  <2> QED BY <2>1 DEF Began
<1>f. \A p \in Requests : Fits(req[p])
  BY <1>t DEF RequestsFit
<1>3. ASSUME NEW p \in Requests, RefreshStep(p) PROVE Others(p) /\ Fits(req'[p])
  <2>1. CASE GetRefreshResult(p)
    <3>1. /\ req[p].step = "result"
          /\ Moved(p, IF result[req[p].token] # 0 THEN "issue" ELSE "lock", result[req[p].token],
                   req[p].refused, req[p].copy)
      BY <2>1, RefreshMoves DEF GetRefreshResult, At
    <3>2. /\ Others(p) /\ Same(p) /\ req'[p].pair = result[req[p].token]
          /\ req'[p].step = "lock" \/ (req'[p].step = "issue" /\ req'[p].pair # 0)
      BY <3>1 DEF Moved
    <3> QED BY <1>f, <3>1, <3>2 DEF Same, Fits, Buying
  <2>2. CASE TakeRefreshLock(p)
    BY <1>f, <2>2, RefreshMoves DEF TakeRefreshLock, At, Went, Moved, Same, Fits, Buying
  <2>3. CASE WaitForRefresh(p)
    <3>1. \/ /\ result[req[p].token] # 0
             /\ Moved(p, "issue", result[req[p].token], req[p].refused, req[p].copy)
          \/ Ended(p)
      BY <2>3, RefreshMoves
    <3>2. CASE Ended(p)
      BY <1>1, <3>2
    <3>3. CASE ~ Ended(p)
      <4>1. Others(p) /\ Same(p) /\ req'[p].pair # 0 /\ req'[p].step = "issue"
        BY <3>1, <3>3 DEF Moved
      <4> QED BY <1>f, <2>3, <4>1 DEF WaitForRefresh, At, Same, Fits, Buying
    <3> QED BY <3>2, <3>3
  <2>4. CASE Trade(p)
    <3>1. \/ Moved(p, "keep", req[p].token + 1, req[p].refused, req[p].copy)
          \/ Went(p, "release")
      BY <2>4, RefreshMoves
    <3>2. /\ Others(p) /\ Same(p)
          /\ req'[p].step = "release" \/ (req'[p].step = "keep" /\ req'[p].pair = req[p].token + 1)
      BY <3>1 DEF Moved, Went
    <3> QED BY <1>f, <2>4, <3>2 DEF Trade, At, Same, Fits, Buying
  <2>5. CASE Refuse(p)
    BY <1>f, <2>5, RefreshMoves DEF Refuse, At, Moved, Same, Fits, Buying
  <2>6. CASE Unreachable(p)
    BY <1>f, <2>6, RefreshMoves DEF Unreachable, At, Went, Moved, Same, Fits, Buying
  <2>7. CASE SetRefreshResult(p)
    <3>1. req[p].pair # 0
      BY <1>f, <2>7, ConstantsAssumption DEF SetRefreshResult, At, Fits, Buying, Tokens
    <3> QED BY <1>f, <2>7, <3>1, RefreshMoves
            DEF SetRefreshResult, At, Went, Moved, Same, Fits, Buying
  <2>8. CASE ReleaseRefreshLock(p)
    BY <1>f, <1>1, <2>8, RefreshMoves DEF ReleaseRefreshLock, At, Went, Moved, Same, Fits, Buying
  <2>9. CASE Issue(p) \/ ClearRefreshCookie(p) \/ Die(p)
    BY <1>1, <2>9, RefreshMoves
  <2> QED BY <1>3, <2>1, <2>2, <2>3, <2>4, <2>5, <2>6, <2>7, <2>8, <2>9 DEF RefreshStep
<1>4. ASSUME NEW p \in Requests, VerifyStep(p) PROVE Others(p) /\ Fits(req'[p])
  <2>1. req[p].step \in {"key", "rotation", "last"}
    BY <1>4 DEF VerifyStep, KeyFor, LookAgain, LookUp, At
  <2>2. /\ AfterVerify(p) \in {"session", "create", "told"}
        /\ AfterVerify(p) # "told" => req[p].kind \in {"enter", "create"}
    BY <2>1, Verified
  <2>3. ASSUME NEW step \in Onward(p), Went(p, step) PROVE Others(p) /\ Fits(req'[p])
    BY <1>f, <2>1, <2>2, <2>3 DEF Onward, Went, Moved, Same, Fits, Buying
  <2>4. AfterVerify(p) \in Onward(p)
    BY DEF Onward
  <2> QED BY <1>1, <1>4, <2>3, <2>4, VerifyMoves DEF VerifyStep
<1>5. ASSUME NEW p \in Requests, AccessStep(p) PROVE Others(p) /\ Fits(req'[p])
  <2>1. CASE Session(p)
    <3>1. CASE Moved(p, "resolve", req[p].pair, req[p].refused, record)
      BY <1>f, <2>1, <3>1 DEF Session, At, Moved, Same, Fits, Buying
    <3>2. ASSUME NEW orgs \in Listed,
                 Moved(p, "rebuild", req[p].pair, req[p].refused,
                       [exists |-> TRUE, orgs |-> orgs, grants |-> {}])
          PROVE  Others(p) /\ Fits(req'[p])
      <4>1. Others(p) /\ Same(p) /\ req'[p].step = "rebuild" /\ req'[p].copy.exists
        BY <3>2 DEF Moved
      <4> QED BY <1>f, <2>1, <4>1 DEF Session, At, Same, Fits, Buying
    <3> QED BY <2>1, <3>1, <3>2, AccessMoves
  <2>2. CASE Rebuild(p)
    BY <1>f, <2>2, AccessMoves DEF Rebuild, At, Went, Moved, Same, Fits, Buying
  <2>3. CASE GrantFor(p)
    BY <1>f, <1>1, <2>3, AccessMoves DEF GrantFor, At, Went, Moved, Same, Fits, Buying
  <2>4. CASE RecordGrant(p)
    BY <1>f, <2>4, AccessMoves DEF RecordGrant, At, Went, Moved, Same, Fits, Buying
  <2>5. CASE WriteGrant(p)
    BY <1>f, <2>5, AccessMoves DEF WriteGrant, At, Went, Moved, Same, Fits, Buying
  <2>6. CASE Served(p)
    BY <1>1, <2>6, AccessMoves
  <2>7. CASE CreateOrganization(p)
    BY <1>f, <1>1, <2>7, AccessMoves DEF CreateOrganization, At, Moved, Same, Fits, Buying
  <2>8. CASE Learn(p)
    BY <1>f, <2>8, AccessMoves DEF Learn, At, Went, Moved, Same, Fits, Buying
  <2>9. CASE LogoutAtSso(p)
    BY <1>f, <2>9, AccessMoves DEF LogoutAtSso, At, Went, Moved, Same, Fits, Buying
  <2>10. CASE DeleteSsoSession(p)
    BY <1>f, <2>10, AccessMoves DEF DeleteSsoSession, At, Went, Moved, Same, Fits, Buying
  <2> QED BY <1>5, <2>1, <2>2, <2>3, <2>4, <2>5, <2>6, <2>7, <2>8, <2>9, <2>10 DEF AccessStep
<1>6. CASE Elsewhere
  <2>1. req' = req
    BY <1>6, NobodyMoves
  <2> QED BY <1>t, <2>1 DEF RequestsFit
<1>7. CASE FetchEnds
  <2>1. ASSUME NEW q \in Requests PROVE Fits(req'[q])
    <3>1. /\ Same(q) /\ req'[q].pair = req[q].pair /\ req'[q].copy = req[q].copy
          /\ \/ req[q].step \notin {"loading", "checking"} /\ req'[q] = req[q]
             \/ req[q].step = "loading" /\ req'[q].step \in {AfterVerify(q), "rotation"}
             \/ req[q].step = "checking" /\ req'[q].step = "last"
      BY <1>7, FetchMoves
    <3>2. CASE req[q].step \notin {"loading", "checking"}
      <4>1. req'[q] = req[q]
        BY <3>1, <3>2
      <4> QED BY <1>f, <4>1
    <3>3. CASE req[q].step \in {"loading", "checking"}
      <4>1. /\ AfterVerify(q) \in {"session", "create", "told"}
            /\ AfterVerify(q) # "told" => req[q].kind \in {"enter", "create"}
        BY <3>3, Verified
      <4> QED BY <1>f, <3>1, <3>3, <4>1 DEF Same, Fits, Buying
    <3> QED BY <3>2, <3>3
  <2> QED BY <1>7, <2>1, FetchMoves DEF RequestsFit
<1> QED BY <1>0, <1>2, <1>3, <1>4, <1>5, <1>6, <1>7, Cases

LEMMA FaultType ==
  ASSUME TypeOK, Fault \/ UNCHANGED faults
  PROVE  faults' \in 0..MaxFaults
BY ConstantsAssumption DEF TypeOK, Fault

LEMMA ArrivalFrame ==
  ASSUME TypeOK, NEW p \in Requests, Arrival(p)
  PROVE  /\ UNCHANGED <<ssoVars, refreshVars, ringVars, recordVars, out, mix, faults>>
         /\ starts' \in 0..MaxStarts
<1>1. /\ UNCHANGED <<ssoVars, refreshVars, ringVars, recordVars, out>>
      /\ \E kind \in Kinds : Starts(p, kind)
  <2>1. CASE Refresh(p)
    BY <2>1 DEF Refresh, Kinds
  <2>2. CASE \E kid \in issued, o \in Orgs : Enter(p, kid, o)
    BY <2>2 DEF Enter, Kinds
  <2>3. CASE \E kid \in issued : Create(p, kid) \/ Logout(p, kid)
    BY <2>3 DEF Create, Logout, Kinds
  <2> QED BY <2>1, <2>2, <2>3 DEF Arrival
<1>2. UNCHANGED <<mix, faults>> /\ starts < MaxStarts /\ starts' = starts + 1
  BY <1>1 DEF Starts
<1> QED BY <1>1, <1>2, ConstantsAssumption DEF TypeOK

LEMMA RefreshTypes ==
  ASSUME Shape, NEW p \in Requests, RefreshStep(p)
  PROVE  /\ UNCHANGED <<member, signing, ringVars, recordVars, out, mix, starts>>
         /\ sso' \in [state: {"none", "live", "ended", "stolen"}, token: 0..MaxToken]
         /\ jar' \in 0..MaxToken /\ issued' \in SUBSET Kids
         /\ lock' \in SUBSET Tokens /\ result' \in [Tokens -> 0..MaxToken]
         /\ presented' \in [Tokens -> Nat] /\ excused' \in SUBSET Tokens
         /\ faults' \in 0..MaxFaults
         /\ \A t \in Tokens : result'[t] \in {0, t + 1}
<1>t. /\ TypeOK /\ Fits(req[p]) /\ req[p] \in Request /\ ResultsFit
      /\ sso \in [state: {"none", "live", "ended", "stolen"}, token: 0..MaxToken]
      /\ jar \in 0..MaxToken /\ issued \in SUBSET Kids /\ signing \in Kids
      /\ lock \in SUBSET Tokens /\ result \in [Tokens -> 0..MaxToken]
      /\ presented \in [Tokens -> Nat] /\ excused \in SUBSET Tokens
      /\ faults \in 0..MaxFaults
  BY DEF Shape, TypeOK, RequestsFit
<1>k. req[p].step \in Buying => req[p].token \in Tokens
  BY <1>t DEF Fits
<1>1. UNCHANGED <<member, signing, ringVars, recordVars, out, mix, starts>>
  BY DEF RefreshStep, GetRefreshResult, TakeRefreshLock, WaitForRefresh, Trade, Refuse, Unreachable,
         SetRefreshResult, ReleaseRefreshLock, Issue, ClearRefreshCookie, Die, NotRefresh
<1>2. faults' \in 0..MaxFaults
  <2>1. Fault \/ UNCHANGED faults
    BY DEF RefreshStep, GetRefreshResult, TakeRefreshLock, WaitForRefresh, Trade, Refuse,
           Unreachable, SetRefreshResult, ReleaseRefreshLock, Issue, ClearRefreshCookie, Die
  <2> QED BY <1>t, <2>1, FaultType
<1>3. CASE UNCHANGED <<sso, refreshVars>>
  BY <1>1, <1>2, <1>3, <1>t DEF refreshVars, ResultsFit
<1>4. CASE TakeRefreshLock(p)
  <2>1. UNCHANGED <<sso, jar, issued, result, presented, excused>> /\ lock' \in SUBSET Tokens
    BY <1>t, <1>k, <1>4 DEF TakeRefreshLock, At, Buying
  <2> QED BY <1>1, <1>2, <1>t, <2>1 DEF ResultsFit
<1>5. CASE Trade(p) \/ Refuse(p)
  <2>1. req[p].token \in Tokens
    BY <1>k, <1>5 DEF Trade, Refuse, At, Buying
  <2>2. sso' \in [state: {"none", "live", "ended", "stolen"}, token: 0..MaxToken]
    <3>1. CASE Trade(p)
      <4>1. req[p].token + 1 \in 0..MaxToken
        BY <2>1, <3>1, ConstantsAssumption DEF Trade, Tokens
      <4> QED BY <1>t, <3>1, <4>1 DEF Trade
    <3>2. CASE Refuse(p)
      BY <1>t, <3>2 DEF Refuse
    <3> QED BY <1>5, <3>1, <3>2
  <2>3. presented' \in [Tokens -> Nat] /\ excused' \in SUBSET Tokens
    BY <1>t, <1>5, <2>1 DEF Trade, Refuse
  <2>4. UNCHANGED <<jar, issued, lock, result>>
    BY <1>5 DEF Trade, Refuse
  <2> QED BY <1>1, <1>2, <1>t, <2>2, <2>3, <2>4 DEF ResultsFit
<1>6. CASE SetRefreshResult(p)
  <2>1. /\ req[p].token \in Tokens /\ req[p].pair = req[p].token + 1 /\ req[p].pair \in 0..MaxToken
    BY <1>k, <1>t, <1>6 DEF SetRefreshResult, At, Buying, Fits, Request
  <2>2. /\ UNCHANGED <<sso, jar, issued, lock, presented, excused>>
        /\ result' = [result EXCEPT ![req[p].token] = req[p].pair]
    BY <1>6 DEF SetRefreshResult
  <2>3. result' \in [Tokens -> 0..MaxToken] /\ \A t \in Tokens : result'[t] \in {0, t + 1}
    BY <1>t, <2>1, <2>2 DEF ResultsFit
  <2> QED BY <1>1, <1>2, <1>t, <2>2, <2>3
<1>7. CASE ReleaseRefreshLock(p) \/ ClearRefreshCookie(p) \/ Issue(p)
  <2>1. /\ UNCHANGED <<sso, result, presented, excused>> /\ lock' \in SUBSET Tokens
        /\ jar' \in 0..MaxToken /\ issued' \in SUBSET Kids
    BY <1>t, <1>7, ConstantsAssumption DEF ReleaseRefreshLock, ClearRefreshCookie, Issue, Request
  <2> QED BY <1>1, <1>2, <1>t, <2>1 DEF ResultsFit
<1>8. CASE Die(p)
  <2>1. UNCHANGED <<sso, jar, issued, lock, result, presented>> /\ excused' \in SUBSET Tokens
    BY <1>t, <1>k, <1>8 DEF Die, Holding, Buying
  <2> QED BY <1>1, <1>2, <1>t, <2>1 DEF ResultsFit
<1> QED BY <1>3, <1>4, <1>5, <1>6, <1>7, <1>8 DEF RefreshStep, GetRefreshResult, WaitForRefresh,
         Unreachable

LEMMA VerifyTypes ==
  ASSUME Shape, FetchEnds \/ \E p \in Requests : VerifyStep(p)
  PROVE  /\ UNCHANGED <<ssoVars, refreshVars, recordVars, out, mix, starts>>
         /\ ring' \in SUBSET Kids /\ fetch' \in SUBSET Kids
         /\ cooling' \in SUBSET {"load", "rotation"}
         /\ checked' \in {"never", "failed", "before", "after"} /\ faults' \in 0..MaxFaults
<1>t. /\ TypeOK /\ ring \in SUBSET Kids /\ fetch \in SUBSET Kids
      /\ cooling \in SUBSET {"load", "rotation"} /\ faults \in 0..MaxFaults
      /\ checked \in {"never", "failed", "before", "after"}
      /\ Published \in SUBSET Kids
  BY ConstantsAssumption DEF Shape, TypeOK, Published, Kids
<1>1. CASE FetchEnds
  <2>1. UNCHANGED <<ssoVars, refreshVars, recordVars, out, mix, starts, cooling>>
    BY <1>1 DEF FetchEnds, NotAccess
  <2>2. fetch' = {} /\ (Fault \/ UNCHANGED faults)
    BY <1>1 DEF FetchEnds
  <2>3. ring' \in SUBSET Kids
    BY <1>t, <1>1 DEF FetchEnds, Kept
  <2>4. checked' \in {"never", "failed", "before", "after"}
    BY <1>t, <1>1 DEF FetchEnds, Checked
  <2> QED BY <1>t, <2>1, <2>2, <2>3, <2>4, FaultType
<1>2. ASSUME NEW p \in Requests, VerifyStep(p)
      PROVE  /\ UNCHANGED <<ssoVars, refreshVars, recordVars, out, mix, starts, ring, checked,
                             faults>>
             /\ fetch' \in SUBSET Kids /\ cooling' \in SUBSET {"load", "rotation"}
  <2>1. CASE KeyFor(p) \/ LookAgain(p)
    <3>1. UNCHANGED <<ssoVars, refreshVars, recordVars, out, mix, starts, ring, checked, faults>>
      BY <2>1 DEF KeyFor, LookAgain, NotAccess
    <3>2. \/ UNCHANGED <<fetch, cooling>>
          \/ /\ fetch' = Published
             /\ \E why \in {"load", "rotation"} : cooling' = cooling \cup {why}
      BY <2>1 DEF KeyFor, LookAgain, LoadKeys, Cooldown
    <3> QED BY <1>t, <3>1, <3>2
  <2>2. CASE LookUp(p)
    BY <1>t, <2>2 DEF LookUp, NotAccess, ringVars
  <2> QED BY <1>2, <2>1, <2>2 DEF VerifyStep
<1> QED BY <1>1, <1>2, <1>t

LEMMA AccessTypes ==
  ASSUME Shape, NEW p \in Requests, AccessStep(p)
  PROVE  /\ UNCHANGED <<signing, refreshVars, ringVars, mix, starts>>
         /\ sso' \in [state: {"none", "live", "ended", "stolen"}, token: 0..MaxToken]
         /\ member' \in SUBSET Orgs
         /\ record' \in Record /\ (record'.exists \/ record' = NoRecord)
         /\ raced' \in SUBSET Requests /\ out' \in {"no", "here", "told", "gone", "revived"}
         /\ faults' \in 0..MaxFaults
<1>t. /\ TypeOK /\ Fits(req[p]) /\ req[p] \in Request
      /\ sso \in [state: {"none", "live", "ended", "stolen"}, token: 0..MaxToken]
      /\ member \in SUBSET Orgs /\ New \in Orgs /\ faults \in 0..MaxFaults
      /\ record \in Record /\ (record.exists \/ record = NoRecord)
      /\ raced \in SUBSET Requests /\ out \in {"no", "here", "told", "gone", "revived"}
  BY ConstantsAssumption DEF Shape, TypeOK, RequestsFit
<1>1. UNCHANGED <<signing, refreshVars, ringVars, mix, starts>>
  BY DEF AccessStep, Session, Rebuild, GrantFor, RecordGrant, WriteGrant, Served,
         CreateOrganization, Learn, LogoutAtSso, DeleteSsoSession, NotAccess, ssoVars
<1>2. faults' \in 0..MaxFaults
  <2>1. Fault \/ UNCHANGED faults
    BY DEF AccessStep, Session, Rebuild, GrantFor, RecordGrant, WriteGrant, Served,
           CreateOrganization, Learn, LogoutAtSso, DeleteSsoSession
  <2> QED BY <1>t, <2>1, FaultType
<1>3. CASE Session(p) \/ GrantFor(p) \/ RecordGrant(p)
  <2>1. UNCHANGED <<sso, member, record, raced, out>>
    BY <1>3 DEF Session, GrantFor, RecordGrant, NotStored, recordVars, ssoVars
  <2> QED BY <1>1, <1>2, <1>t, <2>1
<1>4. ASSUME NEW data \in Record, data.exists, Store(p, data), UNCHANGED <<sso, member>>
      PROVE  /\ record' \in Record /\ (record'.exists \/ record' = NoRecord)
             /\ raced' \in SUBSET Requests /\ out' \in {"no", "here", "told", "gone", "revived"}
  BY <1>t, <1>4 DEF Store, Overtaken
<1>5. CASE Rebuild(p)
  <2>1. req[p].copy \in Record /\ req[p].copy.exists
    BY <1>t, <1>5 DEF Rebuild, At, Request, Fits
  <2>2. Store(p, req[p].copy) /\ UNCHANGED <<sso, member>>
    BY <1>5 DEF Rebuild, ssoVars
  <2> QED BY <1>1, <1>2, <1>4, <1>t, <2>1, <2>2
<1>6. CASE WriteGrant(p)
  <2> DEFINE data == [req[p].copy EXCEPT !.grants = req[p].copy.grants \cup {req[p].org}]
  <2>1. req[p].copy \in Record /\ req[p].copy.exists /\ req[p].org \in Orgs
    BY <1>t, <1>6 DEF WriteGrant, At, Request, Fits
  <2>2. data \in Record /\ data.exists
    BY <2>1 DEF Record
  <2>3. Store(p, data) /\ UNCHANGED <<sso, member>>
    BY <1>6 DEF WriteGrant, ssoVars
  <2> HIDE DEF data
  <2> QED BY <1>1, <1>2, <1>4, <1>t, <2>2, <2>3
<1>7. CASE Learn(p)
  <2> DEFINE data == [req[p].copy EXCEPT !.orgs = req[p].copy.orgs \cup {New}]
  <2>1. req[p].copy \in Record /\ req[p].copy.exists
    BY <1>t, <1>7 DEF Learn, At, Request, Fits
  <2>2. data \in Record /\ data.exists
    BY <1>t, <2>1 DEF Record
  <2>3. Store(p, data) /\ UNCHANGED <<sso, member>>
    BY <1>7 DEF Learn, ssoVars
  <2> HIDE DEF data
  <2> QED BY <1>1, <1>2, <1>4, <1>t, <2>2, <2>3
<1>8. CASE Served(p)
  <2>1. UNCHANGED <<sso, member, record, out>> /\ raced' = raced \ {p}
    BY <1>8 DEF Served, ssoVars
  <2> QED BY <1>1, <1>2, <1>t, <2>1
<1>9. CASE CreateOrganization(p)
  <2>1. UNCHANGED <<sso, record, raced, out>> /\ member' \in {member, member \cup {New}}
    BY <1>9 DEF CreateOrganization, NotStored, recordVars
  <2> QED BY <1>1, <1>2, <1>t, <2>1
<1>10. CASE LogoutAtSso(p)
  <2>1. UNCHANGED <<member, record, raced>> /\ out' \in {"told", "here", out}
    BY <1>10 DEF LogoutAtSso, recordVars
  <2>2. sso' \in [state: {"none", "live", "ended", "stolen"}, token: 0..MaxToken]
    BY <1>t, <1>10 DEF LogoutAtSso
  <2> QED BY <1>1, <1>2, <1>t, <2>1, <2>2
<1>11. CASE DeleteSsoSession(p)
  <2>1. /\ UNCHANGED <<sso, member>> /\ out' \in {"gone", out} /\ record' = NoRecord
        /\ raced' \in SUBSET Requests
    BY <1>11 DEF DeleteSsoSession, Dropped, Overtaken, ssoVars
  <2>2. NoRecord \in Record
    BY DEF NoRecord, Record
  <2> QED BY <1>1, <1>2, <1>t, <2>1, <2>2
<1> QED BY <1>3, <1>5, <1>6, <1>7, <1>8, <1>9, <1>10, <1>11 DEF AccessStep

LEMMA ElsewhereTypes ==
  ASSUME Shape, Elsewhere
  PROVE  TypeOK' /\ ResultsFit'
<1>t. TypeOK /\ ResultsFit
  BY DEF Shape
<1>r. req' \in [Requests -> Request]
  BY <1>t, NobodyMoves DEF TypeOK
<1>1. CASE SignIn
  <2>1. /\ sso' = [state |-> "live", token |-> 1] /\ jar' = 1 /\ issued' = {signing}
        /\ ring' = Kids \cap 1..signing
        /\ UNCHANGED <<member, signing, lock, result, presented, excused, fetch, cooling, checked,
                       raced, out, bounds>>
    BY <1>1 DEF SignIn, ExchangeCode
  <2>2. record' \in Record /\ record'.exists
    <3>1. PICK orgs \in {member, {}} : record' = [exists |-> TRUE, orgs |-> orgs, grants |-> {}]
      BY <1>1 DEF SignIn
    <3> QED BY <1>t, <3>1 DEF Record, TypeOK
  <2>3. 1 \in 0..MaxToken
    BY ConstantsAssumption
  <2> QED BY <1>t, <1>r, <2>1, <2>2, <2>3 DEF TypeOK, ResultsFit, bounds
<1>2. CASE RotateKey
  <2>1. signing + 1 \in Kids
    BY <1>t, <1>2, ConstantsAssumption DEF RotateKey, TypeOK, Kids
  <2>2. /\ signing' = signing + 1 /\ issued' = issued \cup {signing + 1}
        /\ checked' \in {"before", checked}
        /\ UNCHANGED <<sso, member, jar, lock, result, presented, excused, ring, fetch, cooling,
                       record, raced, out, mix, starts, faults>>
    BY <1>2 DEF RotateKey, recordVars, bounds
  <2> QED BY <1>t, <1>r, <2>1, <2>2 DEF TypeOK, ResultsFit
<1>3. CASE Restart
  <2>1. /\ Fault /\ ring' = {} /\ fetch' = {} /\ cooling' = {} /\ checked' = "never"
        /\ UNCHANGED <<sso, member, signing, jar, issued, lock, result, presented, excused, record,
                       raced, out, mix, starts>>
    BY <1>3 DEF Restart, NotAccess, ssoVars, refreshVars, recordVars
  <2>2. faults' \in 0..MaxFaults
    BY <1>t, <2>1, FaultType
  <2> QED BY <1>t, <1>r, <2>1, <2>2 DEF TypeOK, ResultsFit
<1>4. CASE Evict
  <2>1. /\ Fault /\ record' = NoRecord
        /\ UNCHANGED <<sso, member, signing, jar, issued, lock, result, presented, excused, ring,
                       fetch, cooling, checked, raced, out, mix, starts>>
    BY <1>4 DEF Evict, NotAccess, ssoVars, refreshVars, ringVars
  <2>2. faults' \in 0..MaxFaults
    BY <1>t, <2>1, FaultType
  <2>3. NoRecord \in Record
    BY DEF NoRecord, Record
  <2> QED BY <1>t, <1>r, <2>1, <2>2, <2>3 DEF TypeOK, ResultsFit
<1>5. CASE UNCHANGED vars
  BY <1>t, <1>r, <1>5 DEF TypeOK, ResultsFit, vars, ssoVars, refreshVars, ringVars, recordVars,
                          bounds
<1>6. ASSUME NEW t \in Tokens, LockRunsOut(t) \/ ResultRunsOut(t) PROVE TypeOK' /\ ResultsFit'
  <2>1. /\ UNCHANGED <<sso, member, signing, jar, issued, presented, ring, fetch, cooling, checked,
                       record, raced, out, mix, starts, faults>>
        /\ lock' \in {lock, lock \ {t}} /\ excused' \in {excused, excused \cup {t}}
        /\ result' \in {result, [result EXCEPT ![t] = 0]}
    BY <1>6 DEF LockRunsOut, ResultRunsOut, NotRefresh, ringVars, recordVars
  <2>2. result' \in [Tokens -> 0..MaxToken] /\ \A u \in Tokens : result'[u] \in {0, u + 1}
    BY <1>t, <2>1, ConstantsAssumption DEF TypeOK, ResultsFit
  <2> QED BY <1>t, <1>r, <2>1, <2>2 DEF TypeOK, ResultsFit
<1>7. ASSUME NEW why \in {"load", "rotation"}, CooldownEnds(why) PROVE TypeOK' /\ ResultsFit'
  <2>1. /\ UNCHANGED <<sso, member, signing, jar, issued, lock, result, presented, excused, ring,
                       fetch, checked, record, raced, out, mix, starts, faults>>
        /\ cooling' \subseteq cooling
    BY <1>7 DEF CooldownEnds, NotAccess, ssoVars, refreshVars, recordVars
  <2> QED BY <1>t, <1>r, <2>1 DEF TypeOK, ResultsFit
<1>8. ASSUME NEW o \in Orgs, RemoveMember(o) PROVE TypeOK' /\ ResultsFit'
  <2>1. /\ UNCHANGED <<sso, signing, jar, issued, lock, result, presented, excused, ring, fetch,
                       cooling, checked, record, raced, out, mix, starts, faults>>
        /\ member' \subseteq member
    BY <1>8 DEF RemoveMember, refreshVars, ringVars, recordVars, bounds
  <2> QED BY <1>t, <1>r, <2>1 DEF TypeOK, ResultsFit
<1> QED BY <1>1, <1>2, <1>3, <1>4, <1>5, <1>6, <1>7, <1>8 DEF Elsewhere

\* Nothing happens before the person signs in.
LEMMA NothingBefore ==
  ASSUME Shape, [Next]_vars, sso.state = "none", ~ SignIn
  PROVE  UNCHANGED <<sso, jar, issued, lock, ring, fetch, record, out, result, presented, req>>
<1>f. /\ jar = 0 /\ issued = {} /\ lock = {} /\ ring = {} /\ fetch = {} /\ ~ record.exists
      /\ \A t \in Tokens : result[t] = 0
      /\ \A p \in Requests : req[p].step = "idle"
  BY DEF Shape, Fresh, Idle, NoRecord
<1>1. ~ FetchEnds /\ \A p \in Requests : ~ Arrival(p)
  BY <1>f DEF FetchEnds, Arrival, Refresh
<1>2. ASSUME NEW p \in Requests PROVE ~ RefreshStep(p) /\ ~ VerifyStep(p) /\ ~ AccessStep(p)
  BY <1>f DEF RefreshStep, GetRefreshResult, TakeRefreshLock, WaitForRefresh, Trade, Refuse,
         Unreachable, SetRefreshResult, ReleaseRefreshLock, Issue, ClearRefreshCookie, Die, Holding,
         VerifyStep, KeyFor, LookAgain, LookUp, AccessStep, Session, Rebuild, GrantFor, RecordGrant,
         WriteGrant, Served, CreateOrganization, Learn, LogoutAtSso, DeleteSsoSession, At
<1>3. Elsewhere
  BY <1>1, <1>2, Cases
<1>4. CASE UNCHANGED vars
  BY <1>4 DEF vars, ssoVars, refreshVars, ringVars, recordVars
<1>5. CASE \E why \in {"load", "rotation"} : CooldownEnds(why)
  BY <1>5 DEF CooldownEnds, NotAccess, ssoVars, refreshVars, recordVars
<1> QED BY <1>f, <1>3, <1>4, <1>5 DEF Elsewhere, RotateKey, Restart, Evict, LockRunsOut,
          ResultRunsOut, RemoveMember

\* The session is not taken back to before the sign-in.
LEMMA NeverBefore ==
  ASSUME Shape, [Next]_vars, sso'.state = "none"
  PROVE  sso.state = "none" /\ ~ SignIn
<1>t. sso \in [state: {"none", "live", "ended", "stolen"}, token: 0..MaxToken]
  BY DEF Shape, TypeOK
<1>0. ~ SignIn
  BY DEF SignIn, ExchangeCode
<1>1. CASE sso' = sso
  BY <1>0, <1>1
<1>2. ASSUME NEW p \in Requests, Trade(p) \/ Refuse(p) \/ LogoutAtSso(p)
      PROVE  sso.state = "none"
  BY <1>t, <1>2 DEF Trade, Refuse, LogoutAtSso
<1>3. \/ sso' = sso \/ SignIn \/ \E p \in Requests : Trade(p) \/ Refuse(p) \/ LogoutAtSso(p)
  <2>1. CASE \E p \in Requests : Arrival(p)
    BY <2>1, ArrivalFrame DEF Shape, ssoVars
  <2>2. CASE \E p \in Requests : RefreshStep(p)
    BY <2>2 DEF RefreshStep, GetRefreshResult, TakeRefreshLock, WaitForRefresh, Unreachable,
                SetRefreshResult, ReleaseRefreshLock, Issue, ClearRefreshCookie, Die
  <2>3. CASE FetchEnds \/ \E p \in Requests : VerifyStep(p)
    BY <2>3, VerifyTypes DEF ssoVars
  <2>4. CASE \E p \in Requests : AccessStep(p)
    BY <2>4 DEF AccessStep, Session, Rebuild, GrantFor, RecordGrant, WriteGrant, Served,
                CreateOrganization, Learn, DeleteSsoSession, ssoVars
  <2>5. CASE Elsewhere
    BY <2>5 DEF Elsewhere, RotateKey, Restart, Evict, LockRunsOut, ResultRunsOut, CooldownEnds,
                RemoveMember, vars, ssoVars
  <2> QED BY <2>1, <2>2, <2>3, <2>4, <2>5, Cases
<1> QED BY <1>0, <1>1, <1>2, <1>3

LEMMA ShapeInit == Init => Shape
<1> SUFFICES ASSUME Init PROVE Shape
    OBVIOUS
<1>1. /\ 0 \in 0..MaxToken /\ 1 \in Kids /\ 0 \in 0..MaxStarts /\ 0 \in 0..MaxFaults
      /\ Home \in SUBSET Orgs /\ NoRecord \in Record
  BY ConstantsAssumption DEF Kids, NoRecord, Record
<1>2. req \in [Requests -> Request] /\ \A p \in Requests : req[p] = Idle
  BY IdleIsRequest DEF Init
<1>3. TypeOK
  BY <1>1, <1>2 DEF Init, TypeOK
<1>4. RequestsFit
  BY <1>2, IdleIsRequest DEF RequestsFit
<1>5. ResultsFit /\ Fresh
  BY <1>2 DEF Init, ResultsFit, Fresh
<1> QED BY <1>3, <1>4, <1>5 DEF Shape

LEMMA ShapeStep == Shape /\ [Next]_vars => Shape'
<1> SUFFICES ASSUME Shape, [Next]_vars PROVE Shape'
    OBVIOUS
<1>t. TypeOK /\ ResultsFit /\ Fresh
  BY DEF Shape
<1>r. req' \in [Requests -> Request] /\ RequestsFit'
  BY RequestsStep
<1>1. ASSUME NEW p \in Requests, Arrival(p) PROVE TypeOK' /\ ResultsFit'
  BY <1>t, <1>r, <1>1, ArrivalFrame DEF TypeOK, ResultsFit, ssoVars, refreshVars, ringVars,
                                        recordVars
<1>2. ASSUME NEW p \in Requests, RefreshStep(p) PROVE TypeOK' /\ ResultsFit'
  BY <1>t, <1>r, <1>2, RefreshTypes DEF TypeOK, ResultsFit, ringVars, recordVars
<1>3. ASSUME FetchEnds \/ \E p \in Requests : VerifyStep(p) PROVE TypeOK' /\ ResultsFit'
  BY <1>t, <1>r, <1>3, VerifyTypes DEF TypeOK, ResultsFit, ssoVars, refreshVars, recordVars
<1>4. ASSUME NEW p \in Requests, AccessStep(p) PROVE TypeOK' /\ ResultsFit'
  BY <1>t, <1>r, <1>4, AccessTypes DEF TypeOK, ResultsFit, refreshVars, ringVars
<1>5. TypeOK' /\ ResultsFit'
  BY <1>1, <1>2, <1>3, <1>4, ElsewhereTypes, Cases
<1>6. Fresh'
  <2>1. CASE sso'.state # "none"
    BY <2>1 DEF Fresh
  <2>2. CASE sso'.state = "none"
    <3>1. /\ sso.state = "none"
          /\ UNCHANGED <<sso, jar, issued, lock, ring, fetch, record, out, result, presented, req>>
      BY <2>2, NeverBefore, NothingBefore
    <3> QED BY <1>t, <3>1 DEF Fresh
  <2> QED BY <2>1, <2>2
<1> QED BY <1>r, <1>5, <1>6 DEF Shape

-----------------------------------------------------------------------------
(* Which steps belong to which part of the code *)

Checking == {"key", "loading", "rotation", "checking", "last"}

Inside == {"rebuild", "resolve", "record", "write", "learn", "entered"}

Access == Inside \cup {"session", "create", "told", "drop"}

\* A request that is not refreshing keeps its token, its pair and its past, or ends.
Plain(p) ==
    /\ req'[p].after => req[p].after
    /\ req'[p].refused => req[p].refused
    /\ \/ req'[p].token = req[p].token /\ req'[p].pair = req[p].pair
       \/ req'[p].token = 0 /\ req'[p].pair = 0

LEMMA IdleFields ==
  /\ Idle.step = "idle" /\ Idle.token = 0 /\ Idle.pair = 0 /\ Idle.refused = FALSE
  /\ Idle.after = FALSE
BY DEF Idle

LEMMA RefreshRange ==
  ASSUME Shape, NEW p \in Requests, RefreshStep(p)
  PROVE  /\ Others(p) /\ req[p].step \in Buying \cup {"issue", "clear"}
         /\ req'[p].step \in Buying \cup {"issue", "clear", "idle"}
         /\ req'[p].after => req[p].after
<1>1. req[p].step \in Buying \cup {"issue", "clear"}
  BY DEF RefreshStep, GetRefreshResult, TakeRefreshLock, WaitForRefresh, Trade, Refuse, Unreachable,
         SetRefreshResult, ReleaseRefreshLock, Issue, ClearRefreshCookie, Die, Holding, At, Buying
<1>2. ASSUME Ended(p) PROVE Others(p) /\ req'[p].step = "idle" /\ req'[p].after = FALSE
  BY <1>2, IdleFields DEF Ended
<1>3. ASSUME NEW step, NEW pair, NEW refused, NEW copy, Moved(p, step, pair, refused, copy)
      PROVE  Others(p) /\ req'[p].step = step /\ req'[p].after = req[p].after
  BY <1>3 DEF Moved, Same
<1>4. CASE GetRefreshResult(p)
  <2>1. PICK step \in {"issue", "lock"} :
          Moved(p, step, result[req[p].token], req[p].refused, req[p].copy)
    BY <1>4, RefreshMoves
  <2> QED BY <1>1, <1>3, <2>1 DEF Buying
<1>5. CASE TakeRefreshLock(p) \/ Unreachable(p) \/ SetRefreshResult(p)
  <2>1. PICK step \in {"wait", "call", "release", "issue"} :
          Moved(p, step, req[p].pair, req[p].refused, req[p].copy)
    BY <1>5, RefreshMoves DEF Went
  <2> QED BY <1>1, <1>3, <2>1 DEF Buying
<1>6. CASE WaitForRefresh(p)
  <2>1. Ended(p) \/ Moved(p, "issue", result[req[p].token], req[p].refused, req[p].copy)
    BY <1>6, RefreshMoves
  <2> QED BY <1>1, <1>2, <1>3, <2>1 DEF Buying
<1>7. CASE Trade(p)
  <2>1. \/ Moved(p, "keep", req[p].token + 1, req[p].refused, req[p].copy)
        \/ Moved(p, "release", req[p].pair, req[p].refused, req[p].copy)
    BY <1>7, RefreshMoves DEF Went
  <2> QED BY <1>1, <1>3, <2>1 DEF Buying
<1>8. CASE Refuse(p)
  <2>1. Moved(p, "release", req[p].pair, TRUE, req[p].copy)
    BY <1>8, RefreshMoves
  <2> QED BY <1>1, <1>3, <2>1 DEF Buying
<1>9. CASE ReleaseRefreshLock(p)
  <2>1. Ended(p) \/ Moved(p, "clear", req[p].pair, req[p].refused, req[p].copy)
    BY <1>9, RefreshMoves DEF Went
  <2> QED BY <1>1, <1>2, <1>3, <2>1 DEF Buying
<1>10. CASE Issue(p) \/ ClearRefreshCookie(p) \/ Die(p)
  <2>1. Ended(p)
    BY <1>10, RefreshMoves
  <2> QED BY <1>1, <1>2, <2>1
<1> QED BY <1>4, <1>5, <1>6, <1>7, <1>8, <1>9, <1>10 DEF RefreshStep

LEMMA EndedPlain ==
  ASSUME NEW p \in Requests, Ended(p)
  PROVE  Others(p) /\ req'[p].step = "idle" /\ Plain(p)
BY IdleFields DEF Ended, Plain

LEMMA MovedPlain ==
  ASSUME NEW p \in Requests, NEW step, NEW copy,
         Moved(p, step, req[p].pair, req[p].refused, copy)
  PROVE  Others(p) /\ req'[p].step = step /\ Plain(p)
BY DEF Moved, Same, Plain

LEMMA VerifyRange ==
  ASSUME Shape, NEW p \in Requests, VerifyStep(p)
  PROVE  /\ Others(p) /\ Plain(p) /\ req[p].step \in {"key", "rotation", "last"}
         /\ req'[p].step \in Checking \cup {"session", "create", "told", "idle"}
<1>1. req[p].step \in {"key", "rotation", "last"}
  BY DEF VerifyStep, KeyFor, LookAgain, LookUp, At
<1>2. AfterVerify(p) \in {"session", "create", "told"}
  BY <1>1, Verified
<1>3. CASE Ended(p)
  BY <1>1, <1>3, EndedPlain
<1>4. CASE \E step \in Onward(p) : Went(p, step)
  <2>1. PICK step \in Onward(p) : Moved(p, step, req[p].pair, req[p].refused, req[p].copy)
    BY <1>4 DEF Went
  <2>2. step \in Checking \cup {"session", "create", "told"}
    BY <1>2 DEF Onward, Checking
  <2> QED BY <1>1, <2>1, <2>2, MovedPlain
<1>5. AfterVerify(p) \in Onward(p)
  BY DEF Onward
<1> QED BY <1>3, <1>4, <1>5, VerifyMoves DEF VerifyStep

LEMMA AccessRange ==
  ASSUME Shape, NEW p \in Requests, AccessStep(p)
  PROVE  /\ Others(p) /\ Plain(p) /\ req[p].step \in Access
         /\ req'[p].step \in Access \cup {"clear", "idle"}
<1>1. req[p].step \in Access
  BY DEF AccessStep, Session, Rebuild, GrantFor, RecordGrant, WriteGrant, Served,
         CreateOrganization, Learn, LogoutAtSso, DeleteSsoSession, At, Access, Inside
<1>2. CASE Ended(p)
  BY <1>1, <1>2, EndedPlain
<1>3. ASSUME NEW step \in Inside \cup {"drop", "clear"}, NEW copy,
             Moved(p, step, req[p].pair, req[p].refused, copy)
      PROVE  /\ Others(p) /\ Plain(p) /\ req[p].step \in Access
             /\ req'[p].step \in Access \cup {"clear", "idle"}
  BY <1>1, <1>3, MovedPlain DEF Access
<1>4. CASE Session(p)
  <2>1. CASE Moved(p, "resolve", req[p].pair, req[p].refused, record)
    BY <1>3, <2>1 DEF Inside
  <2>2. ASSUME NEW orgs \in Listed, Moved(p, "rebuild", req[p].pair, req[p].refused,
                                          [exists |-> TRUE, orgs |-> orgs, grants |-> {}])
        PROVE  /\ Others(p) /\ Plain(p) /\ req[p].step \in Access
               /\ req'[p].step \in Access \cup {"clear", "idle"}
    BY <1>3, <2>2 DEF Inside
  <2> QED BY <1>4, <2>1, <2>2, AccessMoves
<1>5. CASE \E step \in {"resolve", "entered", "record", "drop", "clear"} : Went(p, step)
  <2>1. PICK step \in {"resolve", "entered", "record", "drop", "clear"} : Went(p, step)
    BY <1>5
  <2> QED BY <1>3, <2>1 DEF Went, Inside
<1>6. CASE RecordGrant(p)
  <2>1. CASE Moved(p, "write", req[p].pair, req[p].refused, record)
    BY <1>3, <2>1 DEF Inside
  <2> QED BY <1>5, <1>6, <2>1, AccessMoves
<1>7. CASE CreateOrganization(p)
  <2>1. CASE Moved(p, IF record.exists THEN "learn" ELSE "record", req[p].pair, req[p].refused,
                   record)
    <3>1. (IF record.exists THEN "learn" ELSE "record") \in Inside
      BY DEF Inside
    <3> QED BY <1>3, <2>1, <3>1
  <2> QED BY <1>2, <1>7, <2>1, AccessMoves
<1> QED BY <1>2, <1>4, <1>5, <1>6, <1>7, AccessMoves DEF AccessStep

\* A step moves one request, or the ones that wait for a fetch, or none.
LEMMA Whose ==
  ASSUME Shape, [Next]_vars, NEW p \in Requests
  PROVE  \/ req'[p] = req[p]
         \/ Arrival(p) \/ RefreshStep(p) \/ VerifyStep(p) \/ AccessStep(p)
         \/ FetchEnds /\ req[p].step \in {"loading", "checking"}
<1>1. CASE Elsewhere
  BY <1>1, NobodyMoves
<1>2. CASE FetchEnds
  BY <1>2, FetchMoves
<1>3. ASSUME NEW q \in Requests, Others(q), q # p PROVE req'[p] = req[p]
  BY <1>3 DEF Others
<1>4. ASSUME NEW q \in Requests, Arrival(q) PROVE Others(q)
  BY <1>4, Arrives DEF Began
<1>5. ASSUME NEW q \in Requests, Arrival(q) \/ RefreshStep(q) \/ VerifyStep(q) \/ AccessStep(q)
      PROVE  Others(q)
  BY <1>4, <1>5, RefreshRange, VerifyRange, AccessRange
<1> QED BY <1>1, <1>2, <1>3, <1>5, Cases

\* Where a request comes to that no step on the organisations moves.
LEMMA AccessOnly ==
  ASSUME Shape, [Next]_vars, NEW p \in Requests, ~ AccessStep(p)
  PROVE  /\ req'[p].step \in Inside \cup {"drop"} => req'[p] = req[p]
         /\ req'[p].after => req[p].after \/ out \in {"gone", "revived"}
<1>1. CASE Arrival(p)
  <2>1. PICK r \in Request : /\ Began(p, r) /\ r.step \in {"result", "key"}
                             /\ (r.after => out \in {"gone", "revived"})
    BY <1>1, Arrives
  <2>2. req'[p] = r
    BY <2>1 DEF Began
  <2> QED BY <2>1, <2>2 DEF Inside
<1>2. CASE RefreshStep(p)
  BY <1>2, RefreshRange DEF Buying, Inside
<1>3. CASE VerifyStep(p)
  BY <1>3, VerifyRange DEF Plain, Checking, Inside
<1>4. CASE FetchEnds /\ req[p].step \in {"loading", "checking"}
  <2>1. /\ Same(p) /\ req'[p].step \in {AfterVerify(p), "rotation", "last"}
    BY <1>4, FetchMoves
  <2>2. AfterVerify(p) \in {"session", "create", "told"}
    BY <1>4, Verified
  <2> QED BY <2>1, <2>2 DEF Same, Inside
<1> QED BY <1>1, <1>2, <1>3, <1>4, Whose

\* Nobody but a refresh, or its arrival, spends a token or is refused.
LEMMA RefreshOnly ==
  ASSUME Shape, [Next]_vars, NEW p \in Requests, ~ RefreshStep(p), ~ Refresh(p)
  PROVE  /\ req'[p].step \in Buying \cup {"issue"} => req'[p] = req[p]
         /\ req[p].step \in Buying \cup {"issue"} => req'[p] = req[p]
         /\ req'[p].refused => req[p].refused
         /\ \/ req'[p].token = req[p].token /\ req'[p].pair = req[p].pair
            \/ req'[p].token = 0 /\ req'[p].pair = 0
<1>1. CASE Arrival(p)
  <2>1. PICK r \in Request : /\ Began(p, r) /\ r.step = "key" /\ r.token = 0 /\ r.pair = 0
                             /\ ~ r.refused
    BY <1>1, Arrives
  <2>2. req'[p] = r /\ req[p].step = "idle"
    BY <2>1 DEF Began
  <2> QED BY <2>1, <2>2 DEF Buying
<1>2. CASE VerifyStep(p)
  BY <1>2, VerifyRange DEF Plain, Checking, Buying
<1>3. CASE AccessStep(p)
  BY <1>3, AccessRange DEF Plain, Access, Inside, Buying
<1>4. CASE FetchEnds /\ req[p].step \in {"loading", "checking"}
  <2>1. /\ Same(p) /\ req'[p].pair = req[p].pair /\ req'[p].refused = req[p].refused
        /\ req'[p].step \in {AfterVerify(p), "rotation", "last"}
    BY <1>4, FetchMoves
  <2>2. AfterVerify(p) \in {"session", "create", "told"}
    BY <1>4, Verified
  <2> QED BY <1>4, <2>1, <2>2 DEF Same, Buying
<1> QED BY <1>1, <1>2, <1>3, <1>4, Whose

\* Nobody but a verification waits for a check of the ring.
LEMMA VerifyOnly ==
  ASSUME Shape, [Next]_vars, NEW p \in Requests, ~ VerifyStep(p), ~ FetchEnds
  PROVE  /\ req'[p].step \in {"checking", "last"} => req'[p] = req[p]
         /\ req[p].step \in {"checking", "last"} => req'[p] = req[p]
<1>1. CASE Arrival(p)
  <2>1. PICK r \in Request : Began(p, r) /\ r.step \in {"result", "key"}
    BY <1>1, Arrives
  <2>2. req'[p] = r /\ req[p].step = "idle"
    BY <2>1 DEF Began
  <2> QED BY <2>1, <2>2
<1>2. CASE RefreshStep(p)
  BY <1>2, RefreshRange DEF Buying
<1>3. CASE AccessStep(p)
  BY <1>3, AccessRange DEF Access, Inside
<1> QED BY <1>1, <1>2, <1>3, Whose

-----------------------------------------------------------------------------
(* Writers of the record *)

\* What the steps on the organisations do to the record.
LEMMA RecordOnly ==
  ASSUME Shape, [Next]_vars, ~ SignIn, ~ Evict, \A p \in Requests : ~ AccessStep(p)
  PROVE  UNCHANGED <<record, raced, out>>
<1>1. ASSUME NEW p \in Requests, Arrival(p) PROVE UNCHANGED <<record, raced, out>>
  BY <1>1, ArrivalFrame DEF Shape, recordVars
<1>2. ASSUME NEW p \in Requests, RefreshStep(p) PROVE UNCHANGED <<record, raced, out>>
  BY <1>2, RefreshTypes DEF recordVars
<1>3. CASE FetchEnds \/ \E p \in Requests : VerifyStep(p)
  BY <1>3, VerifyTypes DEF recordVars
<1>4. CASE Elsewhere
  BY <1>4 DEF Elsewhere, RotateKey, Restart, LockRunsOut, ResultRunsOut, CooldownEnds, RemoveMember,
              NotRefresh, recordVars, vars
<1> QED BY <1>1, <1>2, <1>3, <1>4, Cases

LEMMA StoreLeaves ==
  ASSUME Shape, NEW p \in Requests, Others(p), raced' = Overtaken(p),
         req'[p].step \notin {"rebuild", "write", "learn"}
  PROVE  CopyInv'
BY DEF CopyInv, Others, Overtaken

LEMMA CopyStep == Shape /\ CopyInv /\ [Next]_vars => CopyInv'
<1> SUFFICES ASSUME Shape, CopyInv, [Next]_vars PROVE CopyInv'
    OBVIOUS
<1> USE DEF CopyInv
<1>1. CASE SignIn
  <2>1. sso.state = "none" /\ req' = req
    BY <1>1 DEF SignIn
  <2>2. \A p \in Requests : req'[p].step = "idle"
    BY <2>1, IdleFields DEF Shape, Fresh
  <2> QED BY <2>2
<1>2. CASE Evict
  BY <1>2 DEF Evict, NoRecord
<1>3. CASE ~ SignIn /\ ~ Evict /\ \A p \in Requests : ~ AccessStep(p)
  <2>1. UNCHANGED <<record, raced>>
    BY <1>3, RecordOnly
  <2>2. \A p \in Requests : req'[p].step \in Inside => req'[p] = req[p]
    BY <1>3, AccessOnly
  <2> QED BY <2>1, <2>2 DEF Inside
<1>4. ASSUME NEW p \in Requests, AccessStep(p) PROVE CopyInv'
  <2>o. Others(p)
    BY <1>4, AccessRange
  <2>k. ASSUME UNCHANGED record, raced' \in {raced, raced \ {p}},
               req'[p].step = "rebuild" => ~ record.exists,
               req'[p].step \in {"write", "learn"} => req'[p].copy = record
        PROVE  CopyInv'
    BY <2>o, <2>k DEF Others
  <2>1. CASE Session(p)
    <3>1. UNCHANGED <<record, raced>>
      BY <2>1 DEF Session, NotStored, recordVars
    <3>2. \/ req'[p].step = "resolve"
          \/ req'[p].step = "rebuild" /\ ~ record.exists
      BY <2>1, AccessMoves DEF Moved
    <3> QED BY <2>k, <3>1, <3>2
  <2>2. CASE Rebuild(p)
    <3>1. raced' = Overtaken(p) /\ req'[p].step = "resolve"
      BY <2>2, AccessMoves DEF Rebuild, Store, Went, Moved
    <3> QED BY <2>o, <3>1, StoreLeaves
  <2>3. CASE GrantFor(p)
    <3>1. UNCHANGED <<record, raced>>
      BY <2>3 DEF GrantFor, NotStored, recordVars
    <3>2. req'[p].step \in {"entered", "record", "idle"}
      BY <2>3, AccessMoves, IdleFields DEF Went, Moved, Ended
    <3> QED BY <2>k, <3>1, <3>2
  <2>4. CASE RecordGrant(p)
    <3>1. UNCHANGED <<record, raced>>
      BY <2>4 DEF RecordGrant, NotStored, recordVars
    <3>2. \/ req'[p].step = "entered"
          \/ req'[p].step = "write" /\ req'[p].copy = record
      BY <2>4, AccessMoves DEF Went, Moved
    <3> QED BY <2>k, <3>1, <3>2
  <2>5. CASE WriteGrant(p)
    <3>1. raced' = Overtaken(p) /\ req'[p].step = "entered"
      BY <2>5, AccessMoves DEF WriteGrant, Store, Went, Moved
    <3> QED BY <2>o, <3>1, StoreLeaves
  <2>6. CASE Served(p)
    <3>1. UNCHANGED record /\ raced' = raced \ {p} /\ req'[p].step = "idle"
      BY <2>6, AccessMoves, IdleFields DEF Served, Ended
    <3> QED BY <2>k, <3>1
  <2>7. CASE CreateOrganization(p)
    <3>1. UNCHANGED <<record, raced>>
      BY <2>7 DEF CreateOrganization, NotStored, recordVars
    <3>2. req'[p].step = "idle" \/ (req'[p].step \in {"learn", "record"} /\ req'[p].copy = record)
      BY <2>7, AccessMoves, IdleFields DEF Ended, Moved
    <3> QED BY <2>k, <3>1, <3>2
  <2>8. CASE Learn(p)
    <3>1. raced' = Overtaken(p) /\ req'[p].step = "record"
      BY <2>8, AccessMoves DEF Learn, Store, Went, Moved
    <3> QED BY <2>o, <3>1, StoreLeaves
  <2>9. CASE LogoutAtSso(p)
    <3>1. UNCHANGED <<record, raced>> /\ req'[p].step = "drop"
      BY <2>9, AccessMoves DEF LogoutAtSso, recordVars, Went, Moved
    <3> QED BY <2>k, <3>1
  <2>10. CASE DeleteSsoSession(p)
    <3>1. raced' = Overtaken(p) /\ req'[p].step = "clear"
      BY <2>10, AccessMoves DEF DeleteSsoSession, Went, Moved
    <3> QED BY <2>o, <3>1, StoreLeaves
  <2> QED BY <1>4, <2>1, <2>2, <2>3, <2>4, <2>5, <2>6, <2>7, <2>8, <2>9, <2>10 DEF AccessStep
<1> QED BY <1>1, <1>2, <1>3, <1>4

\* A write of what was read keeps what is there, or was overtaken.
LEMMA WriteKeeps ==
  ASSUME Shape, CopyInv, [Next]_vars, record.exists, record'.exists
  PROVE  \/ record.orgs \subseteq record'.orgs /\ record.grants \subseteq record'.grants
         \/ raced \ raced' # {}
<1>1. CASE SignIn
  BY <1>1 DEF SignIn, Shape, Fresh, NoRecord
<1>2. CASE Evict
  BY <1>2 DEF Evict, NoRecord
<1>3. CASE record' = record
  BY <1>3
<1>4. ASSUME NEW p \in Requests, Rebuild(p) \/ WriteGrant(p) \/ Learn(p)
      PROVE  \/ record.orgs \subseteq record'.orgs /\ record.grants \subseteq record'.grants
             \/ raced \ raced' # {}
  <2>1. raced' = Overtaken(p) /\ req[p].step \in {"rebuild", "write", "learn"}
    BY <1>4 DEF Rebuild, WriteGrant, Learn, Store, At
  <2>2. CASE p \in raced
    BY <2>1, <2>2 DEF Overtaken
  <2>3. CASE p \notin raced
    <3>1. req[p].step # "rebuild" /\ record = req[p].copy
      BY <2>1, <2>3 DEF CopyInv
    <3>2. record \in Record
      BY DEF Shape, TypeOK
    <3>3. \/ record' = [record EXCEPT !.grants = record.grants \cup {req[p].org}]
          \/ record' = [record EXCEPT !.orgs = record.orgs \cup {New}]
      BY <1>4, <3>1 DEF Rebuild, WriteGrant, Learn, Store, At
    <3> QED BY <3>2, <3>3 DEF Record
  <2> QED BY <2>2, <2>3
<1>5. ASSUME NEW p \in Requests, AccessStep(p), ~ Rebuild(p), ~ WriteGrant(p), ~ Learn(p)
      PROVE  record' = record
  BY <1>5 DEF AccessStep, Session, GrantFor, RecordGrant, Served, CreateOrganization, LogoutAtSso,
              DeleteSsoSession, NotStored, recordVars, Dropped, NoRecord
<1> QED BY <1>1, <1>2, <1>3, <1>4, <1>5, RecordOnly

-----------------------------------------------------------------------------
(* The ring *)

LEMMA PublishedIsSome == Shape => Published # {} /\ Published \subseteq Kids
BY ConstantsAssumption DEF Shape, TypeOK, Published, Kids

\* A step that leaves the ring alone leaves whoever waits for it waiting.
LEMMA RingUntouched ==
  ASSUME Shape, RingInv, [Next]_vars, UNCHANGED <<ring, fetch, checked, signing>>,
         cooling' \subseteq cooling, ~ FetchEnds, \A p \in Requests : ~ VerifyStep(p)
  PROVE  RingInv'
<1>1. \A p \in Requests : /\ req'[p].step \in {"checking", "last"} => req'[p] = req[p]
                          /\ req[p].step \in {"checking", "last"} => req'[p] = req[p]
  BY VerifyOnly
<1>2. Someone("checking") => Someone("checking")'
  BY <1>1 DEF Someone
<1> QED BY <1>1, <1>2 DEF RingInv, Published

\* A step of one request's verification that does not go to wait for a check.
LEMMA RingAside ==
  ASSUME Shape, RingInv, UNCHANGED <<ring, checked, signing>>, NEW p \in Requests, Others(p),
         req[p].step # "checking", req'[p].step # "checking",
         req'[p].step = "last" => checked # "never",
         fetch' = fetch \/ (ring = {} /\ fetch = {}),
         "rotation" \in cooling' => "rotation" \in cooling
  PROVE  RingInv'
<1>1. \A q \in Requests \ {p} : req'[q] = req[q]
  BY DEF Others
<1>2. Someone("checking") => Someone("checking")'
  BY <1>1 DEF Someone
<1>3. CASE fetch' = fetch
  BY <1>1, <1>2, <1>3 DEF RingInv, Published
<1>4. CASE ring = {} /\ fetch = {}
  BY <1>1, <1>2, <1>4 DEF RingInv, Published
<1> QED BY <1>3, <1>4

LEMMA RingStep == Shape /\ RingInv /\ [Next]_vars => RingInv'
<1> SUFFICES ASSUME Shape, RingInv, [Next]_vars PROVE RingInv'
    OBVIOUS
<1>1. ASSUME NEW p \in Requests, KeyFor(p) PROVE RingInv'
  <2>1. /\ req[p].step = "key" /\ UNCHANGED <<ring, checked, signing>>
    BY <1>1 DEF KeyFor, At, ssoVars
  <2>2. AfterVerify(p) \in {"session", "create", "told"}
    BY <2>1, Verified
  <2>3. /\ fetch' = fetch \/ (ring = {} /\ fetch = {})
        /\ "rotation" \in cooling' => "rotation" \in cooling
    BY <1>1 DEF KeyFor, LoadKeys, Cooldown
  <2>4. PICK step \in {AfterVerify(p), "rotation", "loading"} : Goes(p, step)
    BY <1>1 DEF KeyFor, LoadKeys
  <2>5. step \in Steps /\ step \notin {"checking", "last"} /\ TypeOK
    BY <2>2 DEF Steps, Shape
  <2>6. Others(p) /\ req'[p].step = step
    BY <2>4, <2>5, Goings DEF Moved
  <2> QED BY <2>1, <2>3, <2>5, <2>6, RingAside
<1>2. ASSUME NEW p \in Requests, LookAgain(p) PROVE RingInv'
  <2>1. /\ req[p].step = "rotation" /\ UNCHANGED <<ring, checked, signing>>
    BY <1>2 DEF LookAgain, At, ssoVars
  <2>t. TypeOK /\ {"checking", "last"} \subseteq Steps
    BY DEF Steps, Shape
  <2>2. CASE fetch = {} /\ "rotation" \in cooling /\ Goes(p, "last") /\ UNCHANGED <<fetch, cooling>>
    <3>1. Others(p) /\ req'[p].step = "last"
      BY <2>t, <2>2, Goings DEF Moved
    <3>2. checked # "never"
      BY <2>2 DEF RingInv
    <3> QED BY <2>1, <2>2, <3>1, <3>2, RingAside
  <2>3. CASE /\ Goes(p, "checking") /\ fetch' # {}
             /\ fetch' = fetch \/ fetch = {}
    <3>1. Others(p) /\ req'[p].step = "checking"
      BY <2>t, <2>3, Goings DEF Moved
    <3>2. Someone("checking")'
      BY <3>1 DEF Someone
    <3>3. \A q \in Requests \ {p} : req'[q] = req[q]
      BY <3>1 DEF Others
    <3> QED BY <2>1, <2>3, <3>1, <3>2, <3>3 DEF RingInv, Published
  <2> QED BY <1>2, <2>2, <2>3, PublishedIsSome DEF LookAgain, LoadKeys, Cooldown
<1>3. ASSUME NEW p \in Requests, LookUp(p) PROVE RingInv'
  <2>1. req[p].step = "last" /\ UNCHANGED <<ring, checked, signing, fetch, cooling>>
    BY <1>3 DEF LookUp, At, ssoVars, ringVars
  <2>2. AfterVerify(p) \in {"session", "create", "told"}
    BY <2>1, Verified
  <2>3. Others(p) /\ req'[p].step \in {AfterVerify(p), "idle"}
    BY <1>3, VerifyMoves, IdleFields DEF Went, Moved, Ended
  <2> QED BY <2>1, <2>2, <2>3, RingAside
<1>4. CASE FetchEnds
  <2>1. /\ fetch # {} /\ fetch' = {} /\ UNCHANGED <<cooling, signing>>
    BY <1>4 DEF FetchEnds, ssoVars
  <2>2. ASSUME NEW p \in Requests
        PROVE  /\ req'[p].step # "checking"
               /\ req'[p].step = "last" => req[p].step \in {"checking", "last"}
    <3>1. CASE req[p].step \notin {"loading", "checking"}
      BY <1>4, <3>1, FetchMoves
    <3>2. CASE req[p].step = "loading"
      BY <1>4, <3>2, FetchMoves, Verified
    <3>3. CASE req[p].step = "checking"
      BY <1>4, <3>3, FetchMoves
    <3> QED BY <3>1, <3>2, <3>3
  <2>3. \/ /\ Someone("checking") /\ checked' # "never"
           /\ checked' = "after" => ring' = Published
        \/ ~ Someone("checking") /\ checked' = checked
    BY <1>4, PublishedIsSome DEF FetchEnds, Checked, Kept, Someone, At
  <2>4. CASE Someone("checking")
    BY <2>1, <2>2, <2>3, <2>4 DEF RingInv, Published
  <2>5. CASE ~ Someone("checking")
    <3>1. ring = {} /\ checked # "after"
      BY <2>1, <2>5, PublishedIsSome DEF RingInv
    <3>2. \A p \in Requests : req[p].step # "checking"
      BY <2>5 DEF Someone
    <3> QED BY <2>1, <2>2, <2>3, <2>5, <3>1, <3>2 DEF RingInv
  <2> QED BY <2>4, <2>5
<1>5. CASE SignIn
  <2>1. /\ sso.state = "none" /\ ring' = Kids \cap 1..signing
        /\ UNCHANGED <<signing, fetch, cooling, checked, req>>
    BY <1>5 DEF SignIn, bounds
  <2>2. fetch = {} /\ \A p \in Requests : req[p].step = "idle"
    BY <2>1, IdleFields DEF Shape, Fresh
  <2>3. Published' \subseteq ring'
    BY <2>1, PublishedIsSome DEF Published
  <2> QED BY <2>1, <2>2, <2>3 DEF RingInv
<1>6. CASE RotateKey
  <2>1. /\ UNCHANGED <<ring, fetch, cooling, req>> /\ checked' # "after"
        /\ checked' = "never" => checked = "never"
    BY <1>6 DEF RotateKey
  <2> QED BY <2>1 DEF RingInv, Someone
<1>7. CASE Restart
  <2>1. ring' = {} /\ fetch' = {} /\ cooling' = {} /\ checked' = "never" /\ req' = req
    BY <1>7 DEF Restart
  <2>2. \A p \in Requests : req[p].step = "idle"
    BY <1>7 DEF Restart, At
  <2> QED BY <2>1, <2>2 DEF RingInv
<1>8. CASE /\ ~ FetchEnds /\ (\A p \in Requests : ~ VerifyStep(p)) /\ ~ SignIn /\ ~ RotateKey
           /\ ~ Restart
  <2>1. UNCHANGED <<ring, fetch, checked, signing>> /\ cooling' \subseteq cooling
    <3>1. ASSUME NEW p \in Requests, Arrival(p)
          PROVE  UNCHANGED <<ring, fetch, checked, signing, cooling>>
      BY <3>1, ArrivalFrame DEF Shape, ssoVars, ringVars
    <3>2. ASSUME NEW p \in Requests, RefreshStep(p)
          PROVE  UNCHANGED <<ring, fetch, checked, signing, cooling>>
      BY <3>2, RefreshTypes DEF ringVars
    <3>3. ASSUME NEW p \in Requests, AccessStep(p)
          PROVE  UNCHANGED <<ring, fetch, checked, signing, cooling>>
      BY <3>3, AccessTypes DEF ringVars
    <3>4. CASE Elsewhere
      BY <1>8, <3>4 DEF Elsewhere, Evict, LockRunsOut, ResultRunsOut, CooldownEnds, RemoveMember,
                        NotRefresh, NotAccess, ssoVars, ringVars, vars
    <3> QED BY <1>8, <3>1, <3>2, <3>3, <3>4, Cases
  <2> QED BY <1>8, <2>1, RingUntouched
<1> QED BY <1>1, <1>2, <1>3, <1>4, <1>5, <1>6, <1>7, <1>8 DEF VerifyStep

\* Who is turned away was turned away by the last look into the ring.
LEMMA TurnedAway ==
  ASSUME Shape, RingInv, [Next]_vars, NEW p \in Requests, req[p].step = "last",
         req'[p].step = "idle", req[p].kid \in Published
  PROVE  checked \in {"failed", "before"}
<1>1. LookUp(p)
  <2>1. CASE FetchEnds
    BY <2>1, FetchMoves
  <2>2. CASE ~ VerifyStep(p) /\ ~ FetchEnds
    BY <2>2, VerifyOnly
  <2>3. CASE KeyFor(p) \/ LookAgain(p)
    BY <2>3 DEF KeyFor, LookAgain, At
  <2> QED BY <2>1, <2>2, <2>3 DEF VerifyStep
<1>2. req[p].kid \notin ring
  <2> SUFFICES ASSUME req[p].kid \in ring PROVE FALSE
    OBVIOUS
  <2>1. AfterVerify(p) \in {"session", "create", "told"} /\ TypeOK
    BY Verified DEF Shape
  <2>2. Goes(p, AfterVerify(p)) /\ AfterVerify(p) \in Steps
    BY <1>1, <2>1 DEF LookUp, Steps
  <2>3. req'[p].step = AfterVerify(p)
    BY <2>1, <2>2, Goings DEF Moved
  <2> QED BY <2>1, <2>3
<1>3. checked \in {"never", "failed", "before", "after"}
  BY DEF Shape, TypeOK
<1> QED BY <1>2, <1>3 DEF RingInv

-----------------------------------------------------------------------------
(* The cookie *)

\* A session that has ended, and a sign-out, stay.
LEMMA OverStays ==
  ASSUME Shape, [Next]_vars, ~ SignIn
  PROVE  /\ sso'.state = "live" => sso.state = "live"
         /\ out' = "no" => out = "no"
<1>t. sso \in [state: {"none", "live", "ended", "stolen"}, token: 0..MaxToken]
  BY DEF Shape, TypeOK
<1>1. ASSUME NEW p \in Requests, Arrival(p) PROVE UNCHANGED <<sso, out>>
  BY <1>1, ArrivalFrame DEF Shape, ssoVars
<1>2. ASSUME NEW p \in Requests, RefreshStep(p)
      PROVE  UNCHANGED out /\ (sso'.state = "live" => sso.state = "live")
  <2>1. UNCHANGED out
    BY <1>2, RefreshTypes
  <2>2. CASE Trade(p) \/ Refuse(p)
    BY <1>t, <2>1, <2>2 DEF Trade, Refuse
  <2>3. CASE ~ Trade(p) /\ ~ Refuse(p)
    BY <1>2, <2>1, <2>3 DEF RefreshStep, GetRefreshResult, TakeRefreshLock, WaitForRefresh,
         Unreachable, SetRefreshResult, ReleaseRefreshLock, Issue, ClearRefreshCookie, Die
  <2> QED BY <2>2, <2>3
<1>3. CASE FetchEnds \/ \E p \in Requests : VerifyStep(p)
  BY <1>3, VerifyTypes DEF ssoVars
<1>4. ASSUME NEW p \in Requests, AccessStep(p)
      PROVE  /\ sso'.state = "live" => sso.state = "live"
             /\ out' = "no" => out = "no"
  <2>1. CASE LogoutAtSso(p)
    BY <1>t, <2>1 DEF LogoutAtSso
  <2>2. CASE ~ LogoutAtSso(p)
    BY <1>4, <2>2 DEF AccessStep, Session, Rebuild, GrantFor, RecordGrant, WriteGrant, Served,
         CreateOrganization, Learn, DeleteSsoSession, Store, NotStored, ssoVars
  <2> QED BY <2>1, <2>2
<1>5. CASE Elsewhere
  BY <1>5 DEF Elsewhere, RotateKey, Restart, Evict, LockRunsOut, ResultRunsOut, CooldownEnds,
              RemoveMember, NotRefresh, ssoVars, vars
<1> QED BY <1>1, <1>2, <1>3, <1>4, <1>5, Cases

\* Who clears the cookie, and who comes to.
LEMMA CookieSteps ==
  ASSUME Shape, [Next]_vars, ~ SignIn
  PROVE  /\ jar' = 0 => jar = 0 \/ \E p \in Requests : req[p].step = "clear"
         /\ \A p \in Requests : req'[p].refused => req[p].refused \/ sso'.state # "live"
         /\ \A p \in Requests : req'[p].step = "drop" => req[p].step = "drop" \/ out' # "no"
         /\ \A p \in Requests :
              req'[p].step = "clear" =>
                req[p].step \in {"clear", "drop"} \/ (req[p].step = "release" /\ req[p].refused)
<1>t. sso \in [state: {"none", "live", "ended", "stolen"}, token: 0..MaxToken]
  BY DEF Shape, TypeOK
<1>1. jar' = 0 => jar = 0 \/ \E p \in Requests : req[p].step = "clear"
  <2>1. ASSUME NEW p \in Requests, Arrival(p) PROVE UNCHANGED jar
    BY <2>1, ArrivalFrame DEF Shape, refreshVars
  <2>2. CASE FetchEnds \/ \E p \in Requests : VerifyStep(p)
    BY <2>2, VerifyTypes DEF refreshVars
  <2>3. ASSUME NEW p \in Requests, AccessStep(p) PROVE UNCHANGED jar
    BY <2>3, AccessTypes DEF refreshVars
  <2>4. CASE Elsewhere
    BY <2>4 DEF Elsewhere, RotateKey, Restart, Evict, LockRunsOut, ResultRunsOut, CooldownEnds,
                RemoveMember, NotAccess, refreshVars, vars
  <2>5. ASSUME NEW p \in Requests, RefreshStep(p)
        PROVE  jar' = 0 => jar = 0 \/ req[p].step = "clear"
    <3>1. CASE Issue(p)
      <4>1. req[p].pair # 0
        BY <3>1 DEF Issue, At, Shape, RequestsFit, Fits
      <4> QED BY <3>1, <4>1 DEF Issue
    <3>2. CASE ~ Issue(p)
      BY <2>5, <3>2 DEF RefreshStep, GetRefreshResult, TakeRefreshLock, WaitForRefresh, Trade,
           Refuse, Unreachable, SetRefreshResult, ReleaseRefreshLock, ClearRefreshCookie, Die, At,
           refreshVars
    <3> QED BY <3>1, <3>2
  <2> QED BY <2>1, <2>2, <2>3, <2>4, <2>5, Cases
<1>2. ASSUME NEW p \in Requests, RefreshStep(p)
      PROVE  /\ req'[p].refused => req[p].refused \/ sso'.state # "live"
             /\ req'[p].step = "clear" =>
                  req[p].step \in {"clear", "drop"} \/ (req[p].step = "release" /\ req[p].refused)
  <2> DEFINE t == req[p].token
  <2>1. CASE Refuse(p)
    <3>1. sso'.state # "live"
      BY <1>t, <2>1 DEF Refuse
    <3>2. req'[p].step = "release"
      BY <2>1, RefreshMoves DEF Moved
    <3> QED BY <3>1, <3>2
  <2>2. CASE ReleaseRefreshLock(p)
    BY <2>2, RefreshMoves, IdleFields DEF ReleaseRefreshLock, At, Went, Moved, Ended
  <2>3. CASE GetRefreshResult(p)
    BY <2>3, RefreshMoves DEF Moved
  <2>4. CASE TakeRefreshLock(p) \/ Unreachable(p) \/ SetRefreshResult(p)
    BY <2>4, RefreshMoves DEF Went, Moved
  <2>5. CASE WaitForRefresh(p)
    BY <2>5, RefreshMoves, IdleFields DEF Moved, Ended
  <2>6. CASE Trade(p)
    BY <2>6, RefreshMoves DEF Went, Moved
  <2>7. CASE Issue(p) \/ ClearRefreshCookie(p) \/ Die(p)
    BY <2>7, RefreshMoves, IdleFields DEF Ended
  <2> QED BY <1>2, <2>1, <2>2, <2>3, <2>4, <2>5, <2>6, <2>7 DEF RefreshStep
<1>3. ASSUME NEW p \in Requests, AccessStep(p)
      PROVE  /\ req'[p].step = "drop" => out' # "no"
             /\ req'[p].step = "clear" => req[p].step = "drop"
  <2>1. CASE LogoutAtSso(p)
    BY <2>1, AccessMoves DEF LogoutAtSso, Went, Moved
  <2>2. CASE DeleteSsoSession(p)
    BY <2>2, AccessMoves DEF DeleteSsoSession, At, Went, Moved
  <2>3. CASE Session(p)
    BY <2>3, AccessMoves DEF Moved
  <2>4. CASE Rebuild(p) \/ WriteGrant(p) \/ Learn(p)
    BY <2>4, AccessMoves DEF Went, Moved
  <2>5. CASE GrantFor(p) \/ RecordGrant(p)
    BY <2>5, AccessMoves, IdleFields DEF Went, Moved, Ended
  <2>6. CASE CreateOrganization(p) \/ Served(p)
    BY <2>6, AccessMoves, IdleFields DEF Moved, Ended
  <2> QED BY <1>3, <2>1, <2>2, <2>3, <2>4, <2>5, <2>6 DEF AccessStep
<1>4. ASSUME NEW p \in Requests
      PROVE  /\ req'[p].refused => req[p].refused \/ sso'.state # "live"
             /\ req'[p].step = "drop" => req[p].step = "drop" \/ out' # "no"
             /\ req'[p].step = "clear" =>
                  req[p].step \in {"clear", "drop"} \/ (req[p].step = "release" /\ req[p].refused)
  <2>1. CASE Arrival(p)
    <3>1. PICK r \in Request : Began(p, r) /\ r.step \in {"result", "key"} /\ ~ r.refused
      BY <2>1, Arrives
    <3> QED BY <3>1 DEF Began
  <2>2. CASE RefreshStep(p)
    BY <1>2, <2>2, RefreshRange DEF Buying
  <2>3. CASE VerifyStep(p)
    BY <2>3, VerifyRange DEF Plain, Checking
  <2>4. CASE AccessStep(p)
    BY <1>3, <2>4, AccessRange DEF Plain
  <2>5. CASE FetchEnds /\ req[p].step \in {"loading", "checking"}
    BY <2>5, FetchMoves, Verified
  <2> QED BY <2>1, <2>2, <2>3, <2>4, <2>5, Whose
<1> QED BY <1>1, <1>4

LEMMA OverStep == Shape /\ OverInv /\ [Next]_vars => OverInv'
<1> SUFFICES ASSUME Shape, OverInv, [Next]_vars PROVE OverInv'
    OBVIOUS
<1>1. CASE SignIn
  <2>1. jar' = 1 /\ \A p \in Requests : req'[p].step = "idle" /\ ~ req'[p].refused
    BY <1>1, IdleFields DEF SignIn, Shape, Fresh
  <2> QED BY <2>1 DEF OverInv, OutageKeepsCookie
<1>2. CASE ~ SignIn
  <2>1. OutageKeepsCookie'
    BY <1>2, OverStays, CookieSteps DEF OverInv, OutageKeepsCookie
  <2>2. \A p \in Requests :
          /\ req'[p].refused => sso'.state # "live"
          /\ req'[p].step = "drop" => out' # "no"
          /\ req'[p].step = "clear" => sso'.state # "live" \/ out' # "no"
    BY <1>2, OverStays, CookieSteps DEF OverInv
  <2> QED BY <2>1, <2>2 DEF OverInv
<1> QED BY <1>1, <1>2

-----------------------------------------------------------------------------
(* Signing out *)

\* A session that the SSO ended stays ended, and only a write revives what was shut.
LEMMA StaysEnded ==
  ASSUME Shape, [Next]_vars, ~ SignIn, sso.state \in {"ended", "stolen"}
  PROVE  sso'.state \in {"ended", "stolen"}
<1>1. sso'.state \in {"none", "live", "ended", "stolen"}
  BY ShapeStep DEF Shape, TypeOK
<1> QED BY <1>1, OverStays, NeverBefore

\* What an access step of p may do to what is shut, when out stays as it is.
LEMMA ShutByOne ==
  ASSUME Shape, ShutInv, NEW p \in Requests, Others(p), Plain(p), out' = out,
         sso.state \in {"ended", "stolen"} => sso'.state \in {"ended", "stolen"},
         out = "gone" => Empty(record'),
         out = "gone" /\ req'[p].after =>
           /\ req'[p].step \notin {"record", "write", "learn", "entered"}
           /\ req'[p].step \in {"rebuild", "resolve"} => Empty(req'[p].copy)
  PROVE  ShutInv'
<1>1. \A q \in Requests \ {p} : req'[q] = req[q]
  BY DEF Others
<1>2. (out \in {"told", "gone"} => sso.state \in {"ended", "stolen"})'
  BY DEF ShutInv
<1>3. (out \in {"no", "here", "told"} => \A q \in Requests : ~ req[q].after)'
  BY <1>1 DEF ShutInv, Plain
<1>4. ASSUME out = "gone", NEW q \in Requests, req'[q].after
      PROVE  /\ req'[q].step \notin {"record", "write", "learn", "entered"}
             /\ req'[q].step \in {"rebuild", "resolve"} => Empty(req'[q].copy)
  BY <1>1, <1>4 DEF ShutInv
<1> QED BY <1>2, <1>3, <1>4 DEF ShutInv

\* A write through Store leaves it shut, or counts as reviving it.
LEMMA ShutByStore ==
  ASSUME Shape, ShutInv, NEW p \in Requests, Others(p), Plain(p), NEW data \in Record,
         Store(p, data), UNCHANGED sso,
         out = "gone" /\ req[p].after => Empty(data),
         req'[p].copy = req[p].copy, req'[p].after = req[p].after,
         req'[p].step \in {"rebuild", "resolve"} => req[p].step \in {"rebuild", "resolve"},
         req'[p].step \in {"record", "write", "learn", "entered"} =>
           req[p].step \in {"record", "write", "learn", "entered"}
  PROVE  ShutInv'
<1>1. CASE out' = out
  <2>1. record' = data /\ (out = "gone" => Empty(data))
    BY <1>1 DEF Store, Empty
  <2> QED BY <1>1, <2>1, ShutByOne DEF ShutInv
<1>2. CASE out' # out
  BY <1>2 DEF Store, ShutInv
<1> QED BY <1>1, <1>2

LEMMA ShutStep == Shape /\ ShutInv /\ [Next]_vars => ShutInv'
<1> SUFFICES ASSUME Shape, ShutInv, [Next]_vars PROVE ShutInv'
    OBVIOUS
<1>t. /\ TypeOK /\ sso \in [state: {"none", "live", "ended", "stolen"}, token: 0..MaxToken]
      /\ req \in [Requests -> Request] /\ out \in {"no", "here", "told", "gone", "revived"}
      /\ record \in Record
  BY DEF Shape, TypeOK
<1>1. CASE SignIn
  <2>1. out' = "no" /\ \A p \in Requests : ~ req'[p].after
    BY <1>1, IdleFields DEF SignIn, Shape, Fresh
  <2> QED BY <2>1 DEF ShutInv
<1>e. ASSUME ~ SignIn, sso.state \in {"ended", "stolen"} PROVE sso'.state \in {"ended", "stolen"}
  BY <1>e, StaysEnded
<1>2. CASE ~ SignIn /\ \A p \in Requests : ~ AccessStep(p)
  <2>1. out' = out /\ (record' = record \/ record' = NoRecord)
    BY <1>2, RecordOnly DEF Evict
  <2>2. \A p \in Requests :
          /\ req'[p].step \in Inside => req'[p] = req[p]
          /\ req'[p].after => req[p].after \/ out \in {"gone", "revived"}
    BY <1>2, AccessOnly
  <2>3. out = "gone" => Empty(record')
    BY <2>1 DEF ShutInv, Empty, NoRecord
  <2>4. ASSUME NEW p \in Requests, out = "gone", req'[p].after
        PROVE  /\ req'[p].step \notin {"record", "write", "learn", "entered"}
               /\ req'[p].step \in {"rebuild", "resolve"} => Empty(req'[p].copy)
    <3>1. CASE req'[p].step \in Inside
      <4>1. req'[p] = req[p]
        BY <2>2, <3>1
      <4> QED BY <2>4, <4>1 DEF ShutInv
    <3>2. CASE req'[p].step \notin Inside
      BY <3>2 DEF Inside
    <3> QED BY <3>1, <3>2
  <2> QED BY <1>2, <1>e, <2>1, <2>2, <2>3, <2>4 DEF ShutInv
<1>3. ASSUME NEW p \in Requests, AccessStep(p), ~ SignIn PROVE ShutInv'
  <2>o. Others(p) /\ Plain(p)
    BY <1>3, AccessRange
  <2>e. sso.state \in {"ended", "stolen"} => sso'.state \in {"ended", "stolen"}
    BY <1>3, <1>e
  <2>g. out = "gone" => sso.state # "live" /\ Empty(record)
    BY DEF ShutInv
  <2>a. req'[p].after => req[p].after
    BY <2>o DEF Plain
  <2>c. req[p] \in Request /\ req[p].copy \in Record /\ req[p].org \in Orgs \cup {None}
    BY <1>t DEF Request
  <2>1. CASE Session(p)
    <3>1. UNCHANGED <<record, out>>
      BY <2>1 DEF Session, NotStored, recordVars
    <3>2. CASE Moved(p, "resolve", req[p].pair, req[p].refused, record)
      <4>1. req'[p].step = "resolve" /\ req'[p].copy = record
        BY <3>2 DEF Moved
      <4> QED BY <2>o, <2>e, <2>g, <3>1, <4>1, ShutByOne
    <3>3. ASSUME NEW orgs \in Listed, Moved(p, "rebuild", req[p].pair, req[p].refused,
                                            [exists |-> TRUE, orgs |-> orgs, grants |-> {}])
          PROVE  ShutInv'
      <4>1. req'[p].step = "rebuild" /\ req'[p].copy.orgs = orgs /\ req'[p].copy.grants = {}
        BY <3>3 DEF Moved
      <4>2. out = "gone" => orgs = {}
        BY <2>g DEF Listed
      <4> QED BY <2>o, <2>e, <2>g, <3>1, <4>1, <4>2, ShutByOne DEF Empty
    <3> QED BY <2>1, <3>2, <3>3, AccessMoves
  <2>2. CASE Rebuild(p)
    <3>1. /\ Store(p, req[p].copy) /\ UNCHANGED sso /\ req[p].step = "rebuild"
      BY <2>2 DEF Rebuild, At, ssoVars
    <3>2. /\ req'[p].step = "resolve" /\ req'[p].copy = req[p].copy /\ req'[p].after = req[p].after
      BY <2>2, AccessMoves DEF Went, Moved, Same
    <3>3. out = "gone" /\ req[p].after => Empty(req[p].copy)
      BY <3>1 DEF ShutInv
    <3> QED BY <2>o, <2>c, <3>1, <3>2, <3>3, ShutByStore
  <2>3. CASE GrantFor(p)
    <3>1. UNCHANGED <<record, out>> /\ req[p].step = "resolve"
      BY <2>3 DEF GrantFor, NotStored, recordVars, At
    <3>2. CASE Ended(p)
      <4>1. req'[p].step = "idle"
        BY <3>2, IdleFields DEF Ended
      <4> QED BY <2>o, <2>e, <2>g, <3>1, <4>1, ShutByOne
    <3>3. CASE ~ Ended(p)
      <4>1. ~ Empty(req[p].copy)
        BY <2>3, <3>3, AccessMoves DEF Empty, Granted
      <4>2. out = "gone" => ~ req[p].after
        BY <3>1, <4>1 DEF ShutInv
      <4> QED BY <2>o, <2>e, <2>g, <2>a, <3>1, <4>2, ShutByOne
    <3> QED BY <3>2, <3>3
  <2>4. CASE RecordGrant(p)
    <3>1. UNCHANGED <<record, out>> /\ req[p].step = "record"
      BY <2>4 DEF RecordGrant, NotStored, recordVars, At
    <3>2. out = "gone" => ~ req[p].after
      BY <3>1 DEF ShutInv
    <3> QED BY <2>o, <2>e, <2>g, <2>a, <3>1, <3>2, ShutByOne
  <2>5. CASE WriteGrant(p)
    <3> DEFINE data == [req[p].copy EXCEPT !.grants = req[p].copy.grants \cup {req[p].org}]
    <3>1. /\ Store(p, data) /\ UNCHANGED sso /\ req[p].step = "write"
      BY <2>5 DEF WriteGrant, At, ssoVars
    <3>2. data \in Record
      <4>1. req[p].org \in Orgs
        BY <3>1 DEF Shape, RequestsFit, Fits
      <4> QED BY <2>c, <4>1 DEF Record
    <3>3. /\ req'[p].step = "entered" /\ req'[p].copy = req[p].copy
          /\ req'[p].after = req[p].after
      BY <2>5, AccessMoves DEF Went, Moved, Same
    <3>4. ~ (out = "gone" /\ req[p].after)
      BY <3>1 DEF ShutInv
    <3> HIDE DEF data
    <3> QED BY <2>o, <3>1, <3>2, <3>3, <3>4, ShutByStore
  <2>6. CASE Served(p)
    <3>1. UNCHANGED <<record, out>> /\ req'[p].step = "idle"
      BY <2>6, AccessMoves, IdleFields DEF Served, Ended
    <3> QED BY <2>o, <2>e, <2>g, <3>1, ShutByOne
  <2>7. CASE CreateOrganization(p)
    <3>1. UNCHANGED <<record, out>>
      BY <2>7 DEF CreateOrganization, NotStored, recordVars
    <3>2. out = "gone" => req'[p].step = "idle"
      BY <2>g, <2>7, AccessMoves, IdleFields DEF Ended
    <3> QED BY <2>o, <2>e, <2>g, <3>1, <3>2, ShutByOne
  <2>8. CASE Learn(p)
    <3> DEFINE data == [req[p].copy EXCEPT !.orgs = req[p].copy.orgs \cup {New}]
    <3>1. /\ Store(p, data) /\ UNCHANGED sso /\ req[p].step = "learn"
      BY <2>8 DEF Learn, At, ssoVars
    <3>2. data \in Record
      BY <2>c, ConstantsAssumption DEF Record
    <3>3. /\ req'[p].step = "record" /\ req'[p].copy = req[p].copy
          /\ req'[p].after = req[p].after
      BY <2>8, AccessMoves DEF Went, Moved, Same
    <3>4. ~ (out = "gone" /\ req[p].after)
      BY <3>1 DEF ShutInv
    <3> HIDE DEF data
    <3> QED BY <2>o, <3>1, <3>2, <3>3, <3>4, ShutByStore
  <2>9. CASE LogoutAtSso(p)
    <3>1. record' = record /\ req'[p].step = "drop" /\ req[p].step = "told"
      BY <2>9, AccessMoves DEF LogoutAtSso, recordVars, At, Went, Moved
    <3>2. CASE out' = out
      BY <2>o, <2>e, <2>g, <3>1, <3>2, ShutByOne
    <3>3. CASE out' # out
      <4>1. sso.state # "none"
        BY <3>1, IdleFields DEF Shape, Fresh
      <4>2. /\ out \in {"no", "here"} /\ out' \in {"here", "told"}
            /\ out' = "told" => sso'.state \in {"ended", "stolen"}
        BY <1>t, <2>9, <3>3, <4>1 DEF LogoutAtSso
      <4>3. \A q \in Requests : ~ req'[q].after
        BY <2>o, <2>a, <4>2 DEF ShutInv, Others
      <4> QED BY <4>2, <4>3 DEF ShutInv
    <3> QED BY <3>2, <3>3
  <2>10. CASE DeleteSsoSession(p)
    <3>1. /\ record' = NoRecord /\ req'[p].step = "clear" /\ UNCHANGED sso
          /\ out' = IF out = "told" THEN "gone" ELSE out
      BY <2>10, AccessMoves DEF DeleteSsoSession, Dropped, Went, Moved, ssoVars
    <3>2. Empty(record')
      BY <3>1 DEF Empty, NoRecord
    <3>3. CASE out # "told"
      BY <2>o, <2>e, <3>1, <3>2, <3>3, ShutByOne
    <3>4. CASE out = "told"
      <4>1. \A q \in Requests : ~ req'[q].after
        BY <2>o, <2>a, <3>4 DEF ShutInv, Others
      <4> QED BY <3>1, <3>2, <3>4, <4>1 DEF ShutInv
    <3> QED BY <3>3, <3>4
  <2> QED BY <1>3, <2>1, <2>2, <2>3, <2>4, <2>5, <2>6, <2>7, <2>8, <2>9, <2>10 DEF AccessStep
<1> QED BY <1>1, <1>2, <1>3

LEMMA ShutMeansOut == Shape /\ ShutInv => SignedOutStaysOut
BY DEF Shape, TypeOK, ShutInv, SignedOutStaysOut, At

-----------------------------------------------------------------------------
(* Refresh tokens *)

\* Whoever is not refreshing does not disturb whoever is.
LEMMA ThriftyAside ==
  ASSUME Shape, Thrifty, UNCHANGED <<jar, lock, result, presented, excused>>,
         sso'.token = sso.token,
         \A p \in Requests :
           /\ req'[p].step \in Buying \cup {"issue"} => req'[p] = req[p]
           /\ req[p].step \in Buying \cup {"issue"} => req'[p] = req[p]
           /\ \/ req'[p].token = req[p].token /\ req'[p].pair = req[p].pair
              \/ req'[p].token = 0 /\ req'[p].pair = 0
  PROVE  Thrifty'
<1>1. \A t \in Tokens : t # 0
  BY ConstantsAssumption DEF Tokens
<1>2. \A p \in Requests, t \in Tokens :
        /\ Has(p, t)' <=> Has(p, t)
        /\ \A step \in {"keep", "lock", "call", "release"} :
             (req'[p].token = t /\ req'[p].step = step) <=> (req[p].token = t /\ req[p].step = step)
  BY DEF Has, Buying
<1>3. ShownOnce'
  BY DEF Thrifty, ShownOnce
<1>4. OneBuyer'
  BY <1>2 DEF Thrifty, OneBuyer
<1>5. NotYetSpent'
  BY <1>2 DEF Thrifty, NotYetSpent
<1>6. ASSUME NEW t \in Tokens, Forgotten(t) PROVE Forgotten(t)'
  BY <1>1, <1>6 DEF Forgotten
<1>7. Spent'
  BY <1>2, <1>6 DEF Thrifty, Spent, Shown, Keeping, IsKept
<1> QED BY <1>3, <1>4, <1>5, <1>7 DEF Thrifty

LEMMA TokensAreTokens ==
  ASSUME Shape
  PROVE  /\ \A t \in Tokens : t # 0 /\ t \in Nat
         /\ sso.token \in Nat
         /\ \A p \in Requests : req[p].step \in Buying => req[p].token \in Tokens
BY ConstantsAssumption DEF Tokens, Shape, TypeOK, RequestsFit, Fits

LEMMA ThriftyRefresh ==
  ASSUME Shape, Thrifty, NEW p \in Requests, Refresh(p)
  PROVE  Thrifty'
<1>1. PICK r \in Request : Began(p, r) /\ r.step = "result" /\ r.token = jar /\ r.pair = 0
  BY RefreshArrives
<1>2. /\ req[p].step = "idle" /\ req'[p].step = "result" /\ req'[p].token = jar /\ req'[p].pair = 0
      /\ \A q \in Requests \ {p} : req'[q] = req[q]
  BY <1>1 DEF Began, Others
<1>3. UNCHANGED <<sso, jar, lock, result, presented, excused>>
  BY DEF Refresh, ssoVars, refreshVars
<1>4. ShownOnce' /\ OneBuyer' /\ NotYetSpent'
  BY <1>2, <1>3 DEF Thrifty, ShownOnce, OneBuyer, NotYetSpent, Has
<1>5. ASSUME NEW t \in Tokens, Forgotten(t) PROVE Forgotten(t)'
  BY <1>2, <1>3, <1>5, TokensAreTokens DEF Forgotten
<1>6. \A t \in Tokens :
        /\ \A q \in Requests : Shown(q, t)' => Shown(q, t)
        /\ Keeping(t) => Keeping(t)'
        /\ IsKept(t) => IsKept(t)'
  BY <1>2, <1>3 DEF Shown, Keeping, IsKept
<1>7. Spent'
  BY <1>3, <1>5, <1>6 DEF Thrifty, Spent
<1> QED BY <1>4, <1>7 DEF Thrifty

LEMMA ThriftyGet ==
  ASSUME Shape, Thrifty, NEW p \in Requests, GetRefreshResult(p)
  PROVE  Thrifty'
<1>1. PICK t \in Tokens : t = req[p].token
  BY TokensAreTokens DEF GetRefreshResult, At, Buying
<1>2. /\ req[p].step = "result" /\ req'[p].token = t /\ req'[p].pair = result[t]
      /\ req'[p].step = "issue" \/ (req'[p].step = "lock" /\ result[t] = 0)
      /\ \A q \in Requests \ {p} : req'[q] = req[q]
  <2>1. Moved(p, IF result[t] # 0 THEN "issue" ELSE "lock", result[t], req[p].refused, req[p].copy)
    BY <1>1, RefreshMoves
  <2> QED BY <1>1, <2>1 DEF GetRefreshResult, At, Moved, Same, Others
<1>3. UNCHANGED <<sso, jar, lock, result, presented, excused>>
  BY DEF GetRefreshResult, refreshVars
<1>4. ShownOnce' /\ OneBuyer' /\ NotYetSpent'
  BY <1>2, <1>3 DEF Thrifty, ShownOnce, OneBuyer, NotYetSpent, Has
<1>5. \A u \in Tokens :
        /\ \A q \in Requests : Shown(q, u)' => Shown(q, u)
        /\ Keeping(u) => Keeping(u)'
        /\ IsKept(u) => IsKept(u)'
        /\ Forgotten(u) => Forgotten(u)'
  BY <1>1, <1>2, <1>3 DEF Shown, Keeping, IsKept, Forgotten
<1>6. Spent'
  BY <1>3, <1>5 DEF Thrifty, Spent
<1> QED BY <1>4, <1>6 DEF Thrifty

LEMMA ThriftyTakeLock ==
  ASSUME Shape, Thrifty, NEW p \in Requests, TakeRefreshLock(p)
  PROVE  Thrifty'
<1>1. PICK t \in Tokens : t = req[p].token
  BY TokensAreTokens DEF TakeRefreshLock, At, Buying
<1>2. /\ req[p].step = "lock" /\ req'[p].token = t /\ req'[p].pair = req[p].pair
      /\ (t \in lock /\ req'[p].step = "wait") \/ (t \notin lock /\ req'[p].step = "call")
      /\ \A q \in Requests \ {p} : req'[q] = req[q]
  BY <1>1, RefreshMoves DEF TakeRefreshLock, At, Went, Moved, Same, Others
<1>3. UNCHANGED <<sso, jar, result, presented, excused>> /\ lock' = lock \cup {t}
  BY <1>1 DEF TakeRefreshLock
<1>4. ShownOnce' /\ NotYetSpent'
  BY <1>2, <1>3 DEF Thrifty, ShownOnce, NotYetSpent
<1>5. OneBuyer'
  BY <1>1, <1>2, <1>3 DEF Thrifty, OneBuyer, Has
<1>6. ASSUME NEW u \in Tokens
      PROVE  /\ Keeping(u) => Keeping(u)'
             /\ IsKept(u) => IsKept(u)'
             /\ Forgotten(u) => Forgotten(u)'
  BY <1>1, <1>2, <1>3 DEF Keeping, IsKept, Forgotten
<1>7. ASSUME t \notin excused, t < sso.token PROVE t \in lock
  <2>1. CASE Keeping(t)
    BY <1>7, <2>1 DEF Keeping, Thrifty, OneBuyer, Has
  <2>2. CASE IsKept(t)
    BY <1>1, <1>2, <2>2 DEF IsKept
  <2>3. CASE Forgotten(t)
    BY <1>1, <2>3 DEF Forgotten
  <2> QED BY <1>7, <2>1, <2>2, <2>3 DEF Thrifty, Spent
<1>8. ASSUME NEW u \in Tokens \ excused, u < sso.token, NEW q \in Requests PROVE ~ Shown(q, u)'
  <2>1. ~ Shown(q, u)
    BY <1>8 DEF Thrifty, Spent
  <2> QED BY <1>1, <1>2, <1>7, <1>8, <2>1 DEF Shown
<1>9. Spent'
  BY <1>3, <1>6, <1>8 DEF Thrifty, Spent
<1> QED BY <1>4, <1>5, <1>9 DEF Thrifty

LEMMA ThriftyWait ==
  ASSUME Shape, Thrifty, NEW p \in Requests, WaitForRefresh(p)
  PROVE  Thrifty'
<1>1. PICK t \in Tokens : t = req[p].token
  BY TokensAreTokens DEF WaitForRefresh, At, Buying
<1>2. /\ req[p].step = "wait" /\ req'[p].step \in {"issue", "idle"}
      /\ req'[p].token \in {t, 0} /\ req'[p].pair \in {result[t], 0}
      /\ \A q \in Requests \ {p} : req'[q] = req[q]
  BY <1>1, RefreshMoves, IdleFields DEF WaitForRefresh, At, Moved, Same, Ended, Others
<1>3. UNCHANGED <<sso, jar, lock, result, presented, excused>>
  BY DEF WaitForRefresh, refreshVars
<1>4. ShownOnce' /\ OneBuyer' /\ NotYetSpent'
  BY <1>2, <1>3 DEF Thrifty, ShownOnce, OneBuyer, NotYetSpent, Has
<1>5. \A u \in Tokens :
        /\ \A q \in Requests : Shown(q, u)' => Shown(q, u)
        /\ Keeping(u) => Keeping(u)'
        /\ IsKept(u) => IsKept(u)'
        /\ Forgotten(u) => Forgotten(u)'
  BY <1>1, <1>2, <1>3, TokensAreTokens DEF Shown, Keeping, IsKept, Forgotten
<1>6. Spent'
  BY <1>3, <1>5 DEF Thrifty, Spent
<1> QED BY <1>4, <1>6 DEF Thrifty

LEMMA ThriftyTrade ==
  ASSUME Shape, Thrifty, NEW p \in Requests, Trade(p)
  PROVE  Thrifty'
<1>1. PICK t \in Tokens : t = req[p].token
  BY TokensAreTokens DEF Trade, At, Buying
<1>2. /\ req[p].step = "call" /\ req'[p].token = t
      /\ \/ excused' = excused /\ req'[p].step = "keep" /\ req'[p].pair = t + 1
         \/ excused' = excused \cup {t} /\ req'[p].step = "release" /\ req'[p].pair = req[p].pair
      /\ \A q \in Requests \ {p} : req'[q] = req[q]
  BY <1>1, RefreshMoves DEF Trade, At, Went, Moved, Same, Others
<1>t. /\ sso \in [state: {"none", "live", "ended", "stolen"}, token: 0..MaxToken]
      /\ presented \in [Tokens -> Nat] /\ MaxToken \in Nat
  BY ConstantsAssumption DEF Shape, TypeOK
<1>3. /\ t = sso.token /\ t < MaxToken /\ sso'.token = t + 1 /\ UNCHANGED <<jar, lock, result>>
      /\ presented' = [presented EXCEPT ![t] = presented[t] + 1]
  BY <1>1, <1>t DEF Trade
<1>4. ShownOnce'
  <2>1. t + 1 \in Tokens
    BY <1>1, <1>3, <1>t DEF Tokens
  <2>2. ASSUME NEW u \in Tokens PROVE presented'[u] = IF u < t + 1 THEN 1 ELSE 0
    BY <1>1, <1>3, <1>t, <2>2 DEF Thrifty, ShownOnce, Tokens
  <2> QED BY <1>3, <2>1, <2>2 DEF ShownOnce
<1>5. OneBuyer'
  <2>1. \A q \in Requests, u \in Tokens : Has(q, u)' <=> Has(q, u)
    BY <1>1, <1>2 DEF Has
  <2>2. excused \subseteq excused'
    BY <1>2
  <2> QED BY <1>3, <2>1, <2>2 DEF Thrifty, OneBuyer
<1>6. NotYetSpent'
  BY <1>1, <1>2, <1>3, TokensAreTokens DEF Thrifty, NotYetSpent
<1>7. Spent'
  <2> SUFFICES ASSUME NEW u \in Tokens \ excused', u < t + 1
               PROVE  /\ \A q \in Requests : ~ Shown(q, u)'
                      /\ Keeping(u)' \/ IsKept(u)' \/ Forgotten(u)'
    BY <1>3 DEF Spent
  <2>1. u \notin excused
    BY <1>2
  <2>2. CASE u = t
    <3>1. req'[p].step = "keep"
      BY <1>2, <2>2
    <3>2. ASSUME NEW q \in Requests PROVE ~ Shown(q, u)'
      <4>1. q # p => ~ Has(q, t)
        BY <1>1, <1>2, <2>1, <2>2 DEF Thrifty, OneBuyer, Has
      <4> QED BY <1>2, <2>2, <3>1, <4>1 DEF Shown, Has
    <3>3. Keeping(u)'
      BY <1>2, <2>2, <3>1 DEF Keeping
    <3> QED BY <3>2, <3>3
  <2>3. CASE u # t
    <3>1. u < sso.token
      BY <1>1, <1>3, <2>3, TokensAreTokens
    <3>2. /\ \A q \in Requests : ~ Shown(q, u)
          /\ Keeping(u) \/ IsKept(u) \/ Forgotten(u)
      BY <2>1, <3>1 DEF Thrifty, Spent
    <3>3. \A q \in Requests : Shown(q, u)' => Shown(q, u)
      BY <1>2, <2>3 DEF Shown
    <3>4. Keeping(u) => Keeping(u)'
      BY <1>1, <1>2, <2>3 DEF Keeping
    <3>5. IsKept(u) => IsKept(u)'
      BY <1>2, <1>3, <2>3 DEF IsKept
    <3>6. u # t + 1
      BY <1>1, TokensAreTokens
    <3>7. Forgotten(u) => Forgotten(u)'
      BY <1>2, <1>3, <2>3, <3>6 DEF Forgotten
    <3> QED BY <3>2, <3>3, <3>4, <3>5, <3>7
  <2> QED BY <2>2, <2>3
<1> QED BY <1>4, <1>5, <1>6, <1>7 DEF Thrifty

LEMMA ThriftyUnreachable ==
  ASSUME Shape, Thrifty, NEW p \in Requests, Unreachable(p)
  PROVE  Thrifty'
<1>1. PICK t \in Tokens : t = req[p].token
  BY TokensAreTokens DEF Unreachable, At, Buying
<1>2. /\ req[p].step = "call" /\ req'[p].step = "release"
      /\ req'[p].token = t /\ req'[p].pair = req[p].pair
      /\ \A q \in Requests \ {p} : req'[q] = req[q]
  BY <1>1, RefreshMoves DEF Unreachable, At, Went, Moved, Same, Others
<1>3. UNCHANGED <<sso, jar, lock, result, presented, excused>>
  BY DEF Unreachable, refreshVars
<1>4. ShownOnce' /\ OneBuyer' /\ NotYetSpent'
  BY <1>1, <1>2, <1>3 DEF Thrifty, ShownOnce, OneBuyer, NotYetSpent, Has
<1>5. \A u \in Tokens :
        /\ \A q \in Requests : Shown(q, u)' => Shown(q, u)
        /\ Keeping(u) => Keeping(u)'
        /\ IsKept(u) => IsKept(u)'
        /\ Forgotten(u) => Forgotten(u)'
  BY <1>1, <1>2, <1>3 DEF Shown, Keeping, IsKept, Forgotten
<1>6. Spent'
  BY <1>3, <1>5 DEF Thrifty, Spent
<1> QED BY <1>4, <1>6 DEF Thrifty

LEMMA ThriftyKeep ==
  ASSUME Shape, Thrifty, NEW p \in Requests, SetRefreshResult(p)
  PROVE  Thrifty'
<1>1. PICK t \in Tokens : t = req[p].token
  BY TokensAreTokens DEF SetRefreshResult, At, Buying
<1>2. /\ req[p].step = "keep" /\ req'[p].step = "issue"
      /\ req'[p].token = t /\ req'[p].pair = req[p].pair
      /\ \A q \in Requests \ {p} : req'[q] = req[q]
  BY <1>1, RefreshMoves DEF SetRefreshResult, At, Went, Moved, Same, Others
<1>t. result \in [Tokens -> 0..MaxToken] /\ req[p].pair = t + 1
  BY <1>1, <1>2 DEF Shape, TypeOK, RequestsFit, Fits
<1>3. /\ UNCHANGED <<sso, jar, lock, presented, excused>>
      /\ result' = [result EXCEPT ![t] = req[p].pair]
  BY <1>1 DEF SetRefreshResult
<1>4. ShownOnce' /\ OneBuyer'
  BY <1>1, <1>2, <1>3 DEF Thrifty, ShownOnce, OneBuyer, Has
<1>5. NotYetSpent'
  <2>1. t \notin excused => ~ (t >= sso.token)
    BY <1>1, <1>2 DEF Thrifty, NotYetSpent
  <2> QED BY <1>2, <1>3, <1>t, <2>1 DEF Thrifty, NotYetSpent
<1>6. Spent'
  <2> SUFFICES ASSUME NEW u \in Tokens \ excused, u < sso.token
               PROVE  /\ \A q \in Requests : ~ Shown(q, u)'
                      /\ Keeping(u)' \/ IsKept(u)' \/ Forgotten(u)'
    BY <1>3 DEF Spent
  <2>1. \A q \in Requests : Shown(q, u)' => Shown(q, u)
    BY <1>1, <1>2 DEF Shown
  <2>2. /\ \A q \in Requests : ~ Shown(q, u)
        /\ Keeping(u) \/ IsKept(u) \/ Forgotten(u)
    BY DEF Thrifty, Spent
  <2>3. CASE u = t
    <3>1. t \in lock
      BY <1>1, <1>2, <2>3 DEF Thrifty, OneBuyer, Has
    <3>2. result'[t] # 0
      BY <1>1, <1>3, <1>t, TokensAreTokens
    <3>3. IsKept(u)'
      BY <1>3, <2>3, <3>1, <3>2 DEF IsKept
    <3> QED BY <2>1, <2>2, <3>3
  <2>4. CASE u # t
    <3>1. Keeping(u) => Keeping(u)'
      BY <1>1, <1>2, <2>4 DEF Keeping
    <3>2. IsKept(u) => IsKept(u)'
      BY <1>2, <1>3, <1>t, <2>4 DEF IsKept
    <3>3. Forgotten(u) => Forgotten(u)'
      BY <1>1, <1>2, <1>3, <1>t, <2>4 DEF Forgotten
    <3> QED BY <2>1, <2>2, <3>1, <3>2, <3>3
  <2> QED BY <2>3, <2>4
<1> QED BY <1>4, <1>5, <1>6 DEF Thrifty

LEMMA ThriftyRelease ==
  ASSUME Shape, Thrifty, NEW p \in Requests, ReleaseRefreshLock(p)
  PROVE  Thrifty'
<1>1. PICK t \in Tokens : t = req[p].token
  BY TokensAreTokens DEF ReleaseRefreshLock, At, Buying
<1>2. /\ req[p].step = "release" /\ req'[p].step \in {"clear", "idle"}
      /\ req'[p].token \in {t, 0} /\ req'[p].pair \in {req[p].pair, 0}
      /\ \A q \in Requests \ {p} : req'[q] = req[q]
  BY <1>1, RefreshMoves, IdleFields DEF ReleaseRefreshLock, At, Went, Moved, Same, Ended, Others
<1>3. UNCHANGED <<sso, jar, result, presented, excused>> /\ lock' = lock \ {t}
  BY <1>1 DEF ReleaseRefreshLock
<1>4. ShownOnce' /\ NotYetSpent'
  BY <1>2, <1>3 DEF Thrifty, ShownOnce, NotYetSpent
<1>5. OneBuyer'
  BY <1>1, <1>2, <1>3 DEF Thrifty, OneBuyer, Has
<1>6. Spent'
  <2> SUFFICES ASSUME NEW u \in Tokens \ excused, u < sso.token
               PROVE  /\ \A q \in Requests : ~ Shown(q, u)'
                      /\ Keeping(u)' \/ IsKept(u)' \/ Forgotten(u)'
    BY <1>3 DEF Spent
  <2>1. /\ \A q \in Requests : ~ Shown(q, u)
        /\ Keeping(u) \/ IsKept(u) \/ Forgotten(u)
    BY DEF Thrifty, Spent
  <2>2. u # t
    BY <1>1, <1>2, <2>1 DEF Shown
  <2>3. /\ \A q \in Requests : Shown(q, u)' => Shown(q, u)
        /\ Keeping(u) => Keeping(u)'
        /\ IsKept(u) => IsKept(u)'
    BY <1>2, <1>3, <2>2 DEF Shown, Keeping, IsKept
  <2>4. Forgotten(u) => Forgotten(u)'
    BY <1>2, <1>3, <2>2, TokensAreTokens DEF Forgotten
  <2> QED BY <2>1, <2>3, <2>4
<1> QED BY <1>4, <1>5, <1>6 DEF Thrifty

LEMMA ThriftyAnswer ==
  ASSUME Shape, Thrifty, NEW p \in Requests, Issue(p) \/ ClearRefreshCookie(p) \/ Die(p)
  PROVE  Thrifty'
<1>1. /\ req'[p].step = "idle" /\ req'[p].token = 0 /\ req'[p].pair = 0
      /\ \A q \in Requests \ {p} : req'[q] = req[q]
  BY RefreshMoves, IdleFields DEF Ended, Others
<1>2. /\ UNCHANGED <<sso, lock, result, presented>> /\ jar' \in {jar, 0, req[p].pair}
      /\ excused \subseteq excused'
      /\ req[p].step = "keep" => req[p].token \in excused'
  BY DEF Issue, ClearRefreshCookie, Die, At
<1>3. ShownOnce'
  BY <1>2 DEF Thrifty, ShownOnce
<1>4. OneBuyer'
  BY <1>1, <1>2 DEF Thrifty, OneBuyer, Has
<1>5. NotYetSpent'
  BY <1>1, <1>2 DEF Thrifty, NotYetSpent
<1>6. Spent'
  <2> SUFFICES ASSUME NEW u \in Tokens \ excused', u < sso.token
               PROVE  /\ \A q \in Requests : ~ Shown(q, u)'
                      /\ Keeping(u)' \/ IsKept(u)' \/ Forgotten(u)'
    BY <1>2 DEF Spent
  <2>1. /\ \A q \in Requests : ~ Shown(q, u)
        /\ Keeping(u) \/ IsKept(u) \/ Forgotten(u)
    BY <1>2 DEF Thrifty, Spent
  <2>2. /\ \A q \in Requests : Shown(q, u)' => Shown(q, u)
        /\ IsKept(u) => IsKept(u)'
    BY <1>1, <1>2 DEF Shown, IsKept
  <2>3. Keeping(u) => Keeping(u)'
    BY <1>1, <1>2 DEF Keeping
  <2>4. Forgotten(u) => Forgotten(u)'
    BY <1>1, <1>2, TokensAreTokens DEF Forgotten
  <2> QED BY <2>1, <2>2, <2>3, <2>4
<1> QED BY <1>3, <1>4, <1>5, <1>6 DEF Thrifty

LEMMA ThriftyLockRunsOut ==
  ASSUME Shape, Thrifty, NEW t \in Tokens, LockRunsOut(t)
  PROVE  Thrifty'
<1>1. /\ UNCHANGED <<sso, jar, result, presented, req>> /\ lock' = lock \ {t}
      /\ excused \subseteq excused'
      /\ t \notin excused' => \A p \in Requests : req[p].token = t => req[p].step \notin Holding
  BY DEF LockRunsOut
<1>2. ShownOnce' /\ NotYetSpent'
  BY <1>1 DEF Thrifty, ShownOnce, NotYetSpent
<1>3. OneBuyer'
  BY <1>1 DEF Thrifty, OneBuyer, Has, Holding
<1>4. ASSUME NEW u \in Tokens \ excused'
      PROVE  /\ \A p \in Requests : Shown(p, u)' => Shown(p, u)
             /\ Keeping(u) => Keeping(u)'
             /\ IsKept(u) => IsKept(u)'
             /\ Forgotten(u) => Forgotten(u)'
  BY <1>1, <1>4 DEF Shown, Keeping, IsKept, Forgotten, Holding
<1>5. Spent'
  BY <1>1, <1>4 DEF Thrifty, Spent
<1> QED BY <1>2, <1>3, <1>5 DEF Thrifty

LEMMA ThriftyResultRunsOut ==
  ASSUME Shape, Thrifty, NEW t \in Tokens, ResultRunsOut(t)
  PROVE  Thrifty'
<1>t. /\ result \in [Tokens -> 0..MaxToken] /\ \A u \in Tokens : result[u] \in {0, u + 1}
  BY DEF Shape, TypeOK, ResultsFit
<1>1. /\ UNCHANGED <<sso, jar, lock, presented, req>> /\ result' = [result EXCEPT ![t] = 0]
      /\ excused \subseteq excused' /\ \A u \in 1..(t - 1) : result[u] = 0
      /\ t \notin excused' =>
           /\ jar # t
           /\ \A p \in Requests : req[p].step # "idle" => req[p].token # t /\ req[p].pair # t
  BY DEF ResultRunsOut
<1>2. ShownOnce' /\ OneBuyer'
  BY <1>1 DEF Thrifty, ShownOnce, OneBuyer, Has
<1>3. NotYetSpent'
  BY <1>1, <1>t DEF Thrifty, NotYetSpent
<1>4. ASSUME NEW u \in Tokens, u # t
      PROVE  /\ \A p \in Requests : Shown(p, u)' => Shown(p, u)
             /\ Keeping(u) => Keeping(u)'
             /\ IsKept(u) => IsKept(u)'
             /\ Forgotten(u) => Forgotten(u)'
  <2>1. \A v \in Tokens : result'[v] \in {0, result[v]}
    BY <1>1, <1>t
  <2> QED BY <1>1, <1>4, <1>t, <2>1, TokensAreTokens DEF Shown, Keeping, IsKept, Forgotten
<1>5. ASSUME t \notin excused' PROVE Forgotten(t)'
  <2>1. ASSUME NEW p \in Requests PROVE req[p].token # t /\ req[p].pair # t
    <3>1. CASE req[p].step = "idle"
      <4>1. req[p] = Idle
        BY <3>1 DEF Shape, RequestsFit, Fits
      <4> QED BY <4>1, IdleFields, TokensAreTokens
    <3> QED BY <1>1, <1>5, <3>1
  <2>2. ASSUME NEW v \in Tokens PROVE result'[v] # t
    <3>1. CASE v = t
      BY <1>1, <1>t, <3>1, TokensAreTokens
    <3>2. CASE v # t
      <4>1. result'[v] = result[v]
        BY <1>1, <1>t, <3>2
      <4>2. CASE v + 1 = t
        <5>1. v \in 1..(t - 1)
          BY <4>2, ConstantsAssumption DEF Tokens
        <5> QED BY <1>1, <4>1, <5>1, TokensAreTokens
      <4> QED BY <1>t, <4>1, <4>2, TokensAreTokens
    <3> QED BY <3>1, <3>2
  <2> QED BY <1>1, <1>5, <2>1, <2>2 DEF Forgotten
<1>6. Spent'
  <2> SUFFICES ASSUME NEW u \in Tokens \ excused', u < sso.token
               PROVE  /\ \A q \in Requests : ~ Shown(q, u)'
                      /\ Keeping(u)' \/ IsKept(u)' \/ Forgotten(u)'
    BY <1>1 DEF Spent
  <2>1. /\ \A q \in Requests : ~ Shown(q, u)
        /\ Keeping(u) \/ IsKept(u) \/ Forgotten(u)
    BY <1>1 DEF Thrifty, Spent
  <2>2. \A q \in Requests : Shown(q, u)' => Shown(q, u)
    BY <1>1 DEF Shown
  <2> QED BY <1>4, <1>5, <2>1, <2>2
<1> QED BY <1>2, <1>3, <1>6 DEF Thrifty

\* A token that is shown a second time is one that somebody lost hold of.
LEMMA RefusedOnce ==
  ASSUME Shape, SpentInv, NEW p \in Requests, Refuse(p)
  PROVE  SpentOnce' /\ sso'.state # "live"
<1>t. /\ sso \in [state: {"none", "live", "ended", "stolen"}, token: 0..MaxToken]
      /\ presented \in [Tokens -> Nat]
  BY DEF Shape, TypeOK
<1>1. PICK t \in Tokens : t = req[p].token
  BY TokensAreTokens DEF Refuse, At, Buying
<1>2. sso'.state # "live" /\ UNCHANGED excused /\ req[p].step = "call"
  BY <1>t DEF Refuse, At
<1>3. CASE sso.state # "live"
  BY <1>2, <1>3 DEF Refuse, SpentInv, SpentOnce
<1>4. CASE sso.state = "live"
  <2>1. t # sso.token /\ presented' = [presented EXCEPT ![t] = presented[t] + 1]
    BY <1>1, <1>4 DEF Refuse
  <2>2. Thrifty
    BY <1>4 DEF SpentInv
  <2>3. presented[t] = 0 \/ t \in excused
    <3>1. Shown(p, t)
      BY <1>1, <1>2 DEF Shown
    <3> QED BY <2>1, <2>2, <3>1 DEF Thrifty, ShownOnce, Spent
  <2>4. ASSUME NEW u \in Tokens, presented'[u] > 1 PROVE u \in excused
    BY <1>t, <2>1, <2>3, <2>4 DEF SpentInv, SpentOnce
  <2> QED BY <1>2, <2>4 DEF SpentOnce
<1> QED BY <1>2, <1>3, <1>4

\* Nobody else shows the SSO a token, and nobody takes an excuse back.
LEMMA PresentedOnly ==
  ASSUME Shape, [Next]_vars, \A p \in Requests : ~ Refuse(p) /\ ~ Trade(p)
  PROVE  UNCHANGED presented /\ excused \subseteq excused'
<1>1. ASSUME NEW p \in Requests, Arrival(p) PROVE UNCHANGED <<presented, excused>>
  BY <1>1, ArrivalFrame DEF Shape, refreshVars
<1>2. CASE FetchEnds \/ \E p \in Requests : VerifyStep(p)
  BY <1>2, VerifyTypes DEF refreshVars
<1>3. ASSUME NEW p \in Requests, AccessStep(p) PROVE UNCHANGED <<presented, excused>>
  BY <1>3, AccessTypes DEF refreshVars
<1>4. CASE Elsewhere
  BY <1>4 DEF Elsewhere, SignIn, RotateKey, Restart, Evict, LockRunsOut, ResultRunsOut,
              CooldownEnds, RemoveMember, NotAccess, refreshVars, vars
<1>5. ASSUME NEW p \in Requests, RefreshStep(p)
      PROVE  UNCHANGED presented /\ excused \subseteq excused'
  BY <1>5 DEF RefreshStep, GetRefreshResult, TakeRefreshLock, WaitForRefresh, Unreachable,
              SetRefreshResult, ReleaseRefreshLock, Issue, ClearRefreshCookie, Die, refreshVars
<1> QED BY <1>1, <1>2, <1>3, <1>4, <1>5, Cases

\* A step that is no refresh leaves the tokens alone.
LEMMA TokensAlone ==
  ASSUME Shape, [Next]_vars, ~ SignIn, \A p \in Requests : ~ RefreshStep(p) /\ ~ Refresh(p),
         \A t \in Tokens : ~ LockRunsOut(t) /\ ~ ResultRunsOut(t)
  PROVE  UNCHANGED <<jar, lock, result, presented, excused>> /\ sso'.token = sso.token
<1>t. sso \in [state: {"none", "live", "ended", "stolen"}, token: 0..MaxToken]
  BY DEF Shape, TypeOK
<1>1. ASSUME NEW p \in Requests, Arrival(p)
      PROVE  UNCHANGED <<jar, lock, result, presented, excused, sso>>
  BY <1>1, ArrivalFrame DEF Shape, refreshVars, ssoVars
<1>2. CASE FetchEnds \/ \E p \in Requests : VerifyStep(p)
  BY <1>2, VerifyTypes DEF refreshVars, ssoVars
<1>3. ASSUME NEW p \in Requests, AccessStep(p)
      PROVE  UNCHANGED <<jar, lock, result, presented, excused>> /\ sso'.token = sso.token
  <2>1. UNCHANGED <<jar, lock, result, presented, excused>>
    BY <1>3, AccessTypes DEF refreshVars
  <2>2. CASE LogoutAtSso(p)
    BY <1>t, <2>1, <2>2 DEF LogoutAtSso
  <2>3. CASE ~ LogoutAtSso(p)
    BY <1>3, <2>1, <2>3 DEF AccessStep, Session, Rebuild, GrantFor, RecordGrant, WriteGrant, Served,
         CreateOrganization, Learn, DeleteSsoSession, ssoVars
  <2> QED BY <2>2, <2>3
<1>4. CASE Elsewhere
  BY <1>4 DEF Elsewhere, RotateKey, Restart, Evict, CooldownEnds, RemoveMember, NotAccess,
              refreshVars, ssoVars, vars
<1> QED BY <1>1, <1>2, <1>3, <1>4, Cases

LEMMA SpentStep == Shape /\ SpentInv /\ [Next]_vars => SpentInv'
<1> SUFFICES ASSUME Shape, SpentInv, [Next]_vars PROVE SpentInv'
    OBVIOUS
<1>1. CASE SignIn
  <2>1. /\ sso'.token = 1 /\ UNCHANGED <<presented, result, req, excused>>
        /\ \A t \in Tokens : presented[t] = 0 /\ result[t] = 0
        /\ \A p \in Requests : req[p].step = "idle"
    BY <1>1, IdleFields DEF SignIn, ExchangeCode, Shape, Fresh
  <2>2. 1 \in Tokens /\ \A t \in Tokens : ~ (t < 1)
    BY ConstantsAssumption DEF Tokens
  <2>3. Thrifty'
    BY <2>1, <2>2 DEF Thrifty, ShownOnce, OneBuyer, NotYetSpent, Spent, Has
  <2>4. SpentOnce'
    BY <2>1 DEF SpentOnce
  <2> QED BY <2>3, <2>4 DEF SpentInv
<1>2. ASSUME NEW p \in Requests, Refuse(p) PROVE SpentInv'
  BY <1>2, RefusedOnce DEF SpentInv
<1>3. ASSUME NEW p \in Requests, Trade(p) PROVE SpentInv'
  <2>1. Thrifty'
    BY <1>3, ThriftyTrade DEF Trade, SpentInv
  <2>2. SpentOnce'
    BY <2>1 DEF Thrifty, ShownOnce, SpentOnce
  <2> QED BY <2>1, <2>2 DEF SpentInv
<1>4. CASE ~ SignIn /\ \A p \in Requests : ~ Refuse(p) /\ ~ Trade(p)
  <2>1. SpentOnce'
    BY <1>4, PresentedOnly DEF SpentInv, SpentOnce
  <2>2. ASSUME sso'.state = "live" PROVE Thrifty'
    <3>1. Thrifty
      BY <1>4, <2>2, OverStays DEF SpentInv
    <3>2. ASSUME NEW p \in Requests, RefreshStep(p) \/ Refresh(p) PROVE Thrifty'
      BY <1>4, <3>1, <3>2, ThriftyRefresh, ThriftyGet, ThriftyTakeLock, ThriftyWait,
         ThriftyUnreachable, ThriftyKeep, ThriftyRelease, ThriftyAnswer DEF RefreshStep
    <3>3. ASSUME NEW t \in Tokens, LockRunsOut(t) \/ ResultRunsOut(t) PROVE Thrifty'
      BY <3>1, <3>3, ThriftyLockRunsOut, ThriftyResultRunsOut
    <3>4. CASE /\ \A p \in Requests : ~ RefreshStep(p) /\ ~ Refresh(p)
               /\ \A t \in Tokens : ~ LockRunsOut(t) /\ ~ ResultRunsOut(t)
      <4>1. UNCHANGED <<jar, lock, result, presented, excused>> /\ sso'.token = sso.token
        BY <1>4, <3>4, TokensAlone
      <4>2. \A p \in Requests :
              /\ req'[p].step \in Buying \cup {"issue"} => req'[p] = req[p]
              /\ req[p].step \in Buying \cup {"issue"} => req'[p] = req[p]
              /\ \/ req'[p].token = req[p].token /\ req'[p].pair = req[p].pair
                 \/ req'[p].token = 0 /\ req'[p].pair = 0
        BY <3>4, RefreshOnly
      <4> QED BY <3>1, <4>1, <4>2, ThriftyAside
    <3> QED BY <3>2, <3>3, <3>4
  <2> QED BY <2>1, <2>2 DEF SpentInv
<1> QED BY <1>1, <1>2, <1>3, <1>4

-----------------------------------------------------------------------------
(* Theorems *)

\* What every other proof rests on: variables keep their types, a request knows
\* what its step needs, and before the person signs in there is nothing.
THEOREM ShapeHolds == Spec => []Shape
<1>1. Shape /\ UNCHANGED vars => Shape'
  BY ShapeStep
<1> QED BY <1>1, ShapeInit, ShapeStep, PTL DEF Spec

\* The variables of the model keep their types.
THEOREM TypeCorrect == Spec => []TypeOK
<1>1. Shape => TypeOK
  BY DEF Shape
<1> QED BY <1>1, ShapeHolds, PTL

\* Whatever the tabs do (AuthService.refresh with its lock and its kept pair):
\* a refresh token is shown to the SSO twice only after somebody lost hold of
\* it, and the cookie goes only when the session is over.
THEOREM SessionKept == Spec => []SessionIsKept
<1>1. Init => SpentInv /\ OverInv
  <2>1. ASSUME Init PROVE SpentInv
    BY <2>1 DEF Init, SpentInv, SpentOnce
  <2>2. ASSUME Init PROVE OverInv
    BY <2>2, IdleFields DEF Init, OverInv, OutageKeepsCookie
  <2> QED BY <2>1, <2>2
<1>2. Shape /\ SpentInv /\ OverInv /\ [Next]_vars => (SpentInv /\ OverInv)'
  BY SpentStep, OverStep
<1>3. SpentInv /\ OverInv => SessionIsKept
  BY DEF SpentInv, OverInv, SessionIsKept
<1> QED BY <1>1, <1>2, <1>3, ShapeHolds, PTL DEF Spec

\* SsoTokenService.verify(): a token signed with a published key is turned away only
\* after a check of the ring that failed or came before the key.
THEOREM RotationSeen == Spec => RotationSeenAtOnce
<1>1. Init => RingInv
  BY IdleFields DEF Init, RingInv
<1>2. Shape /\ RingInv /\ [Next]_vars =>
        [\A p \in Requests :
           At(p, "last") /\ req'[p].step = "idle" /\ req[p].kid \in Published
             => checked \in {"failed", "before"}]_vars
  BY TurnedAway DEF At
<1> QED BY <1>1, <1>2, ShapeHolds, RingStep, PTL DEF Spec, RotationSeenAtOnce

\* OrgAccessService.record() and AuthService.createOrganisation(): the record
\* loses an organisation or a grant only to a write that another write overtook.
THEOREM GrantsAreKept == Spec => WritersKeepOthers
<1>1. Init => CopyInv
  BY IdleFields DEF Init, CopyInv
<1>2. Shape /\ CopyInv /\ [Next]_vars =>
        [record.exists /\ record'.exists =>
           \/ record.orgs \subseteq record'.orgs /\ record.grants \subseteq record'.grants
           \/ raced \ raced' # {}]_vars
  BY WriteKeeps
<1> QED BY <1>1, <1>2, ShapeHolds, CopyStep, PTL DEF Spec, WritersKeepOthers

\* AuthService.logout(): once the SSO was told and the record dropped, a request
\* that arrives later enters no organisation, unless an older one wrote its copy
\* of the record back.
THEOREM SignedOut == Spec => []SignedOutStaysOut
<1>1. Init => ShutInv
  BY IdleFields DEF Init, ShutInv
<1> QED BY <1>1, ShapeHolds, ShutStep, ShutMeansOut, PTL DEF Spec

=============================================================================
