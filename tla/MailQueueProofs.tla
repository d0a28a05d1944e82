-------------------------- MODULE MailQueueProofs --------------------------
(***************************************************************************)
(* Proofs about outgoing mail, for any number of users, messages, workers  *)
(* and retries.  StoppedMeansStopped and FailedIsScheduled hold of every   *)
(* deployment, SecondCopyNeedsACrash of those whose retry sweeps end       *)
(* within the lease (SweepsFit).                                           *)
(***************************************************************************)
EXTENDS MailQueue, FiniteSetTheorems, TLAPS

\* Messages are numbered from 1 as they are composed.
Numbered == \E n \in 0..MaxMessages : Issued = 1..n

Sending == {"checking", "posting", "recording", "settling"}

\* A worker that is sending has a message; its outcome is known once SES or a
\* check has answered, and tells a first send from a retry.
HasMessage ==
    \A w \in Workers :
      /\ pc[w] \in Sending => current[w] \in Issued /\ attempts[w] \in 1..(MaxRetries + 1)
      /\ pc[w] \notin Sending => current[w] = 0
      /\ pc[w] \in {"recording", "settling"} <=> outcome[w] # "none"
      /\ pc[w] = "recording" => attempts[w] = 1
      /\ pc[w] = "settling" => attempts[w] > 1

\* What a sweep has read is a row that had retries left, on a date past 0.
SweepReads ==
    \A w \in Workers :
      /\ \A row \in due[w] : row.id \in Issued /\ row.attempts \in 1..MaxRetries
      /\ pc[w] = "rows" => now[w] > 0
      /\ pc[w] \in Sending /\ attempts[w] > 1 => now[w] > 0

\* A row is of a message, and a failed one has a retry left and a date for it.
RowsAreDue ==
    \A m \in Ids :
      /\ log[m].status # "absent" => m \in Issued
      /\ log[m].status = "failed" => log[m].attempts \in 1..MaxRetries /\ log[m].retryAt > 0
      /\ log[m].attempts <= MaxRetries + 1

Shape == TypeOK /\ Numbered /\ HasMessage /\ SweepReads /\ RowsAreDue

\* Those past the check with a message to an address.
Posting(u) == {w \in Workers : pc[w] = "posting" /\ UserOf(current[w]) = u}

\* The attempts that may still go out to a suppressed address are those past
\* the check when it was suppressed.
GraceCovers ==
    \A u \in Users :
      IF u \in suppressed THEN Cardinality(Posting(u)) <= grace[u] ELSE grace[u] >= 0

\* A sweep that has claimed a row is running, and no older than SweepSpan.
SweepAge ==
    \A w \in Workers : now[w] > 0 => now[w] <= clock /\ clock <= now[w] + SweepSpan

\* A first send has no row yet; a retry's row still carries the sweep's lease.
RowHeld ==
    \A w \in Workers :
      pc[w] \in Sending =>
        /\ attempts[w] = 1 => log[current[w]].status = "absent"
        /\ attempts[w] > 1 => /\ log[current[w]].status = "failed"
                              /\ log[current[w]].retryAt = now[w] + Lease

OneSender ==
    \A v, w \in Workers : pc[v] \in Sending /\ current[v] = current[w] => v = w

\* SES may yet be asked for another copy of a message: not composed, in hand
\* and not taken, or waiting for a retry.
Open(m) ==
    \/ m \notin Issued
    \/ \E w \in Workers : current[w] = m /\ outcome[w] \in {"none", "failed"}
    \/ log[m].status = "failed" /\ \A w \in Workers : current[w] # m

CopiesCounted == \A m \in Ids : copies[m] <= (IF Open(m) THEN 0 ELSE 1) + faults

FitInv == Shape /\ SweepAge /\ RowHeld /\ OneSender /\ CopiesCounted

-----------------------------------------------------------------------------
(* Types *)

\* The next number is one nobody has.
LEMMA NextNumber ==
  ASSUME Numbered
  PROVE  /\ Cardinality(Issued) \in Nat
         /\ Issued = 1..Cardinality(Issued)
<1>1. PICK n \in 0..MaxMessages : Issued = 1..n
  BY DEF Numbered
<1>2. n \in Nat
  BY <1>1, ConstantsAssumption
<1>3. Cardinality(1..n) = n
  BY <1>2, FS_Interval
<1> QED BY <1>1, <1>2, <1>3

\* What sendTo() begins with: a message of its own, not sent before.
LEMMA ComposeFacts ==
  ASSUME Shape, NEW w \in Workers, NEW u \in Users, NEW topic \in Topics, Compose(w, u, topic)
  PROVE  \E m \in Ids \ Issued :
           /\ Issued' = Issued \cup {m} /\ Numbered'
           /\ message' \in [Issued' -> [user: Users, topic: Topics]]
           /\ \A i \in Issued : message'[i] = message[i]
           /\ current' = [current EXCEPT ![w] = m]
           /\ attempts' = [attempts EXCEPT ![w] = 1]
           /\ pc' = [pc EXCEPT ![w] = "checking"]
<1> DEFINE n == Cardinality(Issued)
           m == n + 1
<1>1. n \in Nat /\ Issued = 1..n /\ Issued \in SUBSET Ids
  BY NextNumber DEF Shape, TypeOK
<1>2. m \in Ids \ Issued /\ 1..m = 1..n \cup {m}
  BY <1>1 DEF Compose, Ids
<1>3. message' = [i \in 1..m |-> IF i = m THEN [user |-> u, topic |-> topic] ELSE message[i]]
  BY DEF Compose
<1>4. Issued' = 1..m
  BY <1>3 DEF Issued
<1>5. message \in [Issued -> [user: Users, topic: Topics]]
  BY DEF Shape, TypeOK
<1>6. message' \in [Issued' -> [user: Users, topic: Topics]]
  BY <1>1, <1>2, <1>3, <1>4, <1>5
<1>7. \A i \in Issued : message'[i] = message[i]
  BY <1>1, <1>2, <1>3
<1>8. Numbered'
  <2>1. m \in 0..MaxMessages
    BY <1>1, <1>2, ConstantsAssumption DEF Ids
  <2> QED BY <1>4, <2>1 DEF Numbered
<1> QED BY <1>1, <1>2, <1>4, <1>6, <1>7, <1>8 DEF Compose

\* A worker that has returned holds nothing.
LEMMA IdleType ==
  ASSUME TypeOK, NEW w \in Workers, Idle(w)
  PROVE  /\ pc' \in [Workers -> Pc] /\ job' \in [Workers -> Topics]
         /\ todo' \in [Workers -> SUBSET Users] /\ now' \in [Workers -> Nat]
         /\ due' \in [Workers -> SUBSET Snapshot] /\ current' \in [Workers -> Ids \cup {0}]
         /\ attempts' \in [Workers -> Nat] /\ outcome' \in [Workers -> Status \cup {"none"}]
BY DEF TypeOK, Idle, Pc, Topics

\* Nor does one between two messages, but for its list.
LEMMA OnwardType ==
  ASSUME TypeOK, NEW w \in Workers, NEW label \in Pc, Onward(w, label)
  PROVE  /\ pc' \in [Workers -> Pc] /\ UNCHANGED listVars
         /\ current' \in [Workers -> Ids \cup {0}]
         /\ attempts' \in [Workers -> Nat] /\ outcome' \in [Workers -> Status \cup {"none"}]
BY DEF TypeOK, Onward

\* The next wait, where there is one.
LEMMA NextRetryAtType ==
  ASSUME NEW tries \in Nat, NEW at \in Nat
  PROVE  /\ NextRetryAt(tries, at) \in Nat \cup {Never}
         /\ tries \in 1..MaxRetries => NextRetryAt(tries, at) > 0 /\ NextRetryAt(tries, at) \in Nat
         /\ NextRetryAt(tries, at) # Never => tries \in 1..MaxRetries
BY ConstantsAssumption DEF NextRetryAt, Never

\* How a retried row is left is a row.
LEMMA SettledType ==
  ASSUME Shape, NEW w \in Workers, pc[w] = "settling"
  PROVE  /\ Settled(w).status \in Status
         /\ Settled(w).retryAt \in Nat \cup {Never}
         /\ Settled(w).status = "failed" <=> outcome[w] = "failed" /\ attempts[w] <= MaxRetries
         /\ Settled(w).status = "failed" => attempts[w] \in 1..MaxRetries /\ Settled(w).retryAt > 0
         /\ outcome[w] # "failed" => Settled(w).status = outcome[w]
<1>1. /\ attempts[w] \in Nat /\ now[w] \in Nat /\ outcome[w] \in Status
      /\ attempts[w] > 1 /\ attempts[w] \in 1..(MaxRetries + 1) /\ MaxRetries \in Nat
  BY ConstantsAssumption DEF Shape, TypeOK, HasMessage, Sending
<1>2. CASE outcome[w] # "failed"
  BY <1>1, <1>2 DEF Settled
<1>3. CASE outcome[w] = "failed" /\ attempts[w] > MaxRetries
  BY <1>1, <1>3 DEF Settled, Status, Never
<1>4. CASE outcome[w] = "failed" /\ attempts[w] <= MaxRetries
  <2> DEFINE at == NextRetryAt(attempts[w], now[w])
  <2>1. at \in Nat /\ at > 0 /\ at # Never
    BY <1>1, <1>4, NextRetryAtType DEF Never
  <2>2. Settled(w) = [status |-> "failed", retryAt |-> at]
    BY <1>1, <1>4, <2>1 DEF Settled
  <2> QED BY <1>1, <1>4, <2>1, <2>2 DEF Status
<1> QED BY <1>1, <1>2, <1>3, <1>4

\* What the checks say is an outcome.
LEMMA RefusalType ==
  ASSUME NEW m
  PROVE  Refusal(m) \in {"suppressed", "skipped", "none"}
         /\ (Refusal(m) = "none" => UserOf(m) \notin suppressed)
BY DEF Refusal

\* Nothing has been composed.
LEMMA ShapeInit == Init => Shape
<1> SUFFICES ASSUME Init PROVE Shape
    OBVIOUS
<1>1. Issued = {} /\ message \in [Issued -> [user: Users, topic: Topics]]
  BY DEF Init, Issued
<1>2. Numbered
  <2>1. 0 \in 0..MaxMessages /\ 1..0 = {}
    BY ConstantsAssumption
  <2> QED BY <1>1, <2>1 DEF Numbered
<1>3. TypeOK
  BY <1>1 DEF Init, TypeOK, Defaults, Kinds, Row, NoRow, Pc, Topics, Never
<1>4. HasMessage /\ SweepReads
  BY DEF Init, HasMessage, SweepReads, Sending
<1>5. RowsAreDue
  BY ConstantsAssumption DEF Init, RowsAreDue, NoRow
<1> QED BY <1>2, <1>3, <1>4, <1>5 DEF Shape

-----------------------------------------------------------------------------
(* Every step keeps the shape *)

\* All senders begin in one of three ways, and mail to an address stops in one
\* of three.
LEMMA Forms ==
  ASSUME [Next]_vars
  PROVE  \/ \E w \in Workers :
              \/ \E u \in Users : SendOne(w, u) \/ SupportRequest(w, u)
              \/ \E topic \in Topics, users \in SUBSET Users : StartList(w, topic, users)
              \/ JobNext(w) \/ Check(w) \/ SesSend(w) \/ LogWrite(w)
              \/ StartSweep(w) \/ Claim(w) \/ Settle(w) \/ SweepOver(w) \/ Crash(w)
         \/ \E u \in Users : Suppress(u) \/ \E k \in Kinds : SwitchOff(u, k)
         \/ \E u \in Members, k \in Kinds : SwitchOn(u, k)
         \/ Tick \/ UNCHANGED vars
<1>1. Members \subseteq Users
  BY DEF Members
<1>2. ASSUME NEW w \in Workers, Begin(w)
      PROVE  \/ \E u \in Users : SendOne(w, u) \/ SupportRequest(w, u)
             \/ \E topic \in Topics, users \in SUBSET Users : StartList(w, topic, users)
  <2>1. CASE \E u \in Members : MailOwner(w, u) \/ MailSubscriber(w, u) \/ MailInvoice(w, u)
                               \/ SupportRequest(w, u)
    BY <1>1, <2>1 DEF MailOwner, MailSubscriber, MailInvoice
  <2>2. CASE MailConnections(w) \/ MailDecision(w) \/ Broadcast(w)
    BY <1>1, <2>2 DEF MailConnections, MailDecision, Broadcast, Topics
  <2>3. CASE MailOnboarding(w)
    <3>1. {u \in Members : \A m \in Issued :
             ~(message[m] = [user |-> u, topic |-> "onboarding"] /\ log[m] # NoRow)}
            \in SUBSET Users
      BY <1>1
    <3> QED BY <2>3, <3>1 DEF MailOnboarding, Topics
  <2>4. CASE DailySummary(w) \/ WeeklySummary(w)
    BY <1>1, <2>4 DEF DailySummary, WeeklySummary, MailSummary, Topics
  <2> QED BY <1>2, <2>1, <2>2, <2>3, <2>4 DEF Begin
<1>3. ASSUME NEW u \in Members, NEW k \in Kinds \cup {"all"}, ApplyUnsubscribe(u, k)
      PROVE  Suppress(u) \/ \E j \in Kinds : SwitchOff(u, j)
  BY <1>3 DEF ApplyUnsubscribe
<1> QED BY <1>1, <1>2, <1>3 DEF Next, Step, SesEvents, UpdatePreferences

\* Columns and locals that a worker does not touch.
LEMMA Untouched ==
  ASSUME TypeOK, NEW w \in Workers, NEW v \in Workers, v # w,
         \/ \E u \in Users : SendOne(w, u) \/ SupportRequest(w, u)
         \/ \E topic \in Topics, users \in SUBSET Users : StartList(w, topic, users)
         \/ JobNext(w) \/ Check(w) \/ SesSend(w) \/ LogWrite(w)
         \/ StartSweep(w) \/ Claim(w) \/ Settle(w) \/ SweepOver(w) \/ Crash(w)
  PROVE  /\ pc'[v] = pc[v] /\ current'[v] = current[v] /\ attempts'[v] = attempts[v]
         /\ outcome'[v] = outcome[v] /\ now'[v] = now[v] /\ due'[v] = due[v]
<1> USE DEF TypeOK
<1>1. CASE (\E u \in Users : SendOne(w, u) \/ SupportRequest(w, u)) \/ JobNext(w)
  BY <1>1 DEF SendOne, SupportRequest, JobNext, Compose, listVars
<1>2. CASE (\E topic \in Topics, users \in SUBSET Users : StartList(w, topic, users))
           \/ StartSweep(w) \/ Claim(w)
  BY <1>2 DEF StartList, StartSweep, Claim
<1>3. CASE Check(w) \/ SesSend(w)
  BY <1>3 DEF Check, SesSend, Conclude, listVars
<1>4. CASE LogWrite(w) \/ Settle(w) \/ SweepOver(w) \/ Crash(w)
  BY <1>4 DEF LogWrite, Settle, SweepOver, Crash, Idle, Onward, listVars
<1> QED BY <1>1, <1>2, <1>3, <1>4

\* A message begun, a list begun, a list taken up.
LEMMA ShapeBegin ==
  ASSUME Shape, NEW w \in Workers,
         \/ \E u \in Users : SendOne(w, u) \/ SupportRequest(w, u)
         \/ \E topic \in Topics, users \in SUBSET Users : StartList(w, topic, users)
         \/ JobNext(w)
  PROVE  Shape'
<1>t. TypeOK /\ Numbered /\ HasMessage /\ SweepReads /\ RowsAreDue
  BY DEF Shape
<1>o. \A v \in Workers \ {w} :
        /\ pc'[v] = pc[v] /\ current'[v] = current[v] /\ attempts'[v] = attempts[v]
        /\ outcome'[v] = outcome[v] /\ now'[v] = now[v] /\ due'[v] = due[v]
  BY <1>t, Untouched
<1>1. ASSUME NEW topic \in Topics, NEW users \in SUBSET Users, StartList(w, topic, users)
      PROVE  Shape'
  <2>1. TypeOK'
    BY <1>1, <1>t DEF TypeOK, StartList, Pc, Issued, stopVars, mailVars
  <2>2. Numbered' /\ RowsAreDue'
    BY <1>1, <1>t DEF StartList, Numbered, RowsAreDue, Issued, mailVars
  <2>3. HasMessage' /\ SweepReads'
    BY <1>1, <1>t, <1>o DEF StartList, HasMessage, SweepReads, Sending, Issued, mailVars, TypeOK
  <2> QED BY <2>1, <2>2, <2>3 DEF Shape
<1>2. ASSUME NEW u \in Users, NEW topic \in Topics, Compose(w, u, topic),
             UNCHANGED <<clock, stopVars, log, now, due, outcome, copies, grace, faults, changes>>,
             job' \in [Workers -> Topics], todo' \in [Workers -> SUBSET Users],
             pc[w] \in {"idle", "job"}
      PROVE  Shape'
  <2>1. PICK m \in Ids \ Issued :
           /\ Issued' = Issued \cup {m} /\ Numbered'
           /\ message' \in [Issued' -> [user: Users, topic: Topics]]
           /\ current' = [current EXCEPT ![w] = m]
           /\ attempts' = [attempts EXCEPT ![w] = 1]
           /\ pc' = [pc EXCEPT ![w] = "checking"]
    BY <1>2, ComposeFacts
  <2>2. TypeOK'
    BY <1>2, <1>t, <2>1 DEF TypeOK, Pc, stopVars
  <2>3. RowsAreDue'
    BY <1>2, <1>t, <2>1 DEF RowsAreDue
  <2>4. HasMessage'
    BY <1>2, <1>t, <1>o, <2>1, ConstantsAssumption DEF HasMessage, Sending, TypeOK
  <2>5. SweepReads'
    BY <1>2, <1>t, <1>o, <2>1 DEF SweepReads, Sending, TypeOK
  <2> QED BY <2>1, <2>2, <2>3, <2>4, <2>5 DEF Shape
<1>3. ASSUME NEW u \in Users, SendOne(w, u) PROVE Shape'
  BY <1>3, <1>2, <1>t DEF SendOne, Topics, TypeOK, listVars
<1>4. ASSUME NEW u \in Users, SupportRequest(w, u) PROVE Shape'
  <2>1. job' \in [Workers -> Topics] /\ todo' \in [Workers -> SUBSET Users]
    BY <1>4, <1>t DEF SupportRequest, Topics, TypeOK
  <2> QED BY <1>4, <1>2, <2>1, ConstantsAssumption DEF SupportRequest, Topics
<1>5. CASE JobNext(w)
  <2>1. PICK u \in todo[w] : Compose(w, u, job[w]) /\ todo' = [todo EXCEPT ![w] = @ \ {u}]
    BY <1>5 DEF JobNext
  <2>2. u \in Users /\ job[w] \in Topics /\ todo' \in [Workers -> SUBSET Users]
    BY <1>t, <2>1 DEF TypeOK
  <2>3. PICK topic \in Topics : topic = job[w]
    BY <2>2
  <2> QED BY <1>5, <1>2, <1>t, <2>1, <2>2, <2>3 DEF JobNext, TypeOK
<1> QED BY <1>1, <1>3, <1>4, <1>5

\* An attempt, and the row it leaves.
LEMMA ShapeAttempt ==
  ASSUME Shape, NEW w \in Workers, Check(w) \/ SesSend(w) \/ LogWrite(w) \/ Settle(w)
  PROVE  Shape'
<1>t. TypeOK /\ Numbered /\ HasMessage /\ SweepReads /\ RowsAreDue
  BY DEF Shape
<1>o. \A v \in Workers \ {w} :
        /\ pc'[v] = pc[v] /\ current'[v] = current[v] /\ attempts'[v] = attempts[v]
        /\ outcome'[v] = outcome[v] /\ now'[v] = now[v] /\ due'[v] = due[v]
  BY <1>t, Untouched
<1>i. UNCHANGED message /\ Issued' = Issued
  BY DEF Check, SesSend, LogWrite, Settle, Issued, mailVars
<1>c. pc[w] \in Sending /\ current[w] \in Ids /\ current[w] \in Issued
  BY <1>t DEF Check, SesSend, LogWrite, Settle, HasMessage, Sending, TypeOK
<1>1. CASE Check(w) \/ SesSend(w)
  <2>1. ASSUME \E result \in Status : Conclude(w, result)
        PROVE  /\ pc' \in [Workers -> Pc] /\ outcome' \in [Workers -> Status \cup {"none"}]
               /\ HasMessage' /\ SweepReads'
    <3>1. PICK result \in Status : Conclude(w, result)
      BY <2>1
    <3>2. /\ pc' \in [Workers -> Pc] /\ outcome' \in [Workers -> Status \cup {"none"}]
          /\ outcome'[w] # "none"
          /\ pc'[w] = IF attempts[w] = 1 THEN "recording" ELSE "settling"
      BY <1>t, <3>1 DEF Conclude, TypeOK, Pc, Status
    <3>3. HasMessage' /\ SweepReads'
      BY <1>1, <1>t, <1>o, <1>i, <1>c, <3>2 DEF Check, SesSend, HasMessage, SweepReads, Sending,
                                               listVars, TypeOK
    <3> QED BY <3>2, <3>3
  <2>2. ASSUME Check(w), pc' = [pc EXCEPT ![w] = "posting"], UNCHANGED outcome
        PROVE  /\ pc' \in [Workers -> Pc] /\ outcome' \in [Workers -> Status \cup {"none"}]
               /\ HasMessage' /\ SweepReads'
    <3>1. HasMessage' /\ SweepReads'
      BY <1>t, <1>o, <1>i, <1>c, <2>2 DEF Check, HasMessage, SweepReads, Sending, listVars, TypeOK
    <3> QED BY <1>t, <2>2, <3>1 DEF TypeOK, Pc
  <2>3. \/ \E result \in Status : Conclude(w, result)
        \/ Check(w) /\ pc' = [pc EXCEPT ![w] = "posting"] /\ UNCHANGED outcome
    <3>1. CASE Check(w)
      BY <3>1, RefusalType DEF Check, Status
    <3>2. CASE SesSend(w)
      BY <3>2 DEF SesSend, Status
    <3> QED BY <1>1, <3>1, <3>2
  <2>4. /\ pc' \in [Workers -> Pc] /\ outcome' \in [Workers -> Status \cup {"none"}]
        /\ HasMessage' /\ SweepReads'
    BY <2>1, <2>2, <2>3
  <2>5. copies' \in [Ids -> Nat] /\ grace' \in [Users -> Int]
    BY <1>1, <1>t, <1>c DEF Check, SesSend, TypeOK
  <2>6. TypeOK'
    BY <1>1, <1>t, <1>i, <2>4, <2>5 DEF Check, SesSend, TypeOK, stopVars, mailVars, listVars
  <2>7. Numbered' /\ RowsAreDue'
    BY <1>1, <1>t, <1>i DEF Check, SesSend, Numbered, RowsAreDue, mailVars
  <2> QED BY <2>4, <2>6, <2>7 DEF Shape
<1>2. CASE LogWrite(w) \/ Settle(w)
  <2>2. Idle(w) \/ \E label \in {"job", "rows"} : Onward(w, label)
    BY <1>2 DEF LogWrite, Settle
  <2>3. /\ pc' \in [Workers -> Pc] /\ job' \in [Workers -> Topics]
        /\ todo' \in [Workers -> SUBSET Users] /\ now' \in [Workers -> Nat]
        /\ due' \in [Workers -> SUBSET Snapshot] /\ current' \in [Workers -> Ids \cup {0}]
        /\ attempts' \in [Workers -> Nat] /\ outcome' \in [Workers -> Status \cup {"none"}]
        /\ pc'[w] \in {"idle", "job", "rows"} /\ current'[w] = 0 /\ outcome'[w] = "none"
        /\ due'[w] \in {{}, due[w]}
        /\ pc'[w] = "rows" => now'[w] = now[w]
    <3>1. /\ pc'[w] \in {"idle", "job", "rows"} /\ current'[w] = 0 /\ outcome'[w] = "none"
          /\ due'[w] \in {{}, due[w]}
          /\ pc'[w] = "rows" => now'[w] = now[w]
      BY <1>t, <2>2 DEF Idle, Onward, TypeOK, listVars
    <3>2. /\ pc' \in [Workers -> Pc] /\ job' \in [Workers -> Topics]
          /\ todo' \in [Workers -> SUBSET Users] /\ now' \in [Workers -> Nat]
          /\ due' \in [Workers -> SUBSET Snapshot] /\ current' \in [Workers -> Ids \cup {0}]
          /\ attempts' \in [Workers -> Nat] /\ outcome' \in [Workers -> Status \cup {"none"}]
      <4>1. CASE Idle(w)
        BY <1>t, <4>1, IdleType
      <4>2. ASSUME NEW label \in {"job", "rows"}, Onward(w, label)
            PROVE  /\ pc' \in [Workers -> Pc] /\ UNCHANGED listVars
                   /\ current' \in [Workers -> Ids \cup {0}] /\ attempts' \in [Workers -> Nat]
                   /\ outcome' \in [Workers -> Status \cup {"none"}]
        BY <1>t, <4>2, OnwardType DEF Pc
      <4> QED BY <1>t, <2>2, <4>1, <4>2 DEF TypeOK, listVars
    <3> QED BY <3>1, <3>2
  <2>4. PICK st \in Status, n \in 1..(MaxRetries + 1), at \in Nat \cup {Never} :
          /\ st = "failed" => n <= MaxRetries /\ at > 0
          /\ \/ log' = [log EXCEPT ![current[w]] = [status |-> st, attempts |-> n, retryAt |-> at]]
             \/ log' = log
    <3>1. CASE LogWrite(w)
      <4>1. /\ outcome[w] \in Status /\ clock \in Nat /\ 1 \in 1..(MaxRetries + 1)
            /\ 1 \in 1..MaxRetries /\ 1 <= MaxRetries /\ 1 \in Nat
        BY <1>t, <3>1, ConstantsAssumption DEF LogWrite, HasMessage, TypeOK
      <4>2. NextRetryAt(1, clock) \in Nat /\ NextRetryAt(1, clock) > 0
        BY <4>1, NextRetryAtType
      <4>3. PICK at \in Nat \cup {Never} :
              at = IF outcome[w] = "failed" THEN NextRetryAt(1, clock) ELSE Never
        BY <4>2
      <4> QED BY <3>1, <4>1, <4>2, <4>3 DEF LogWrite
    <3>2. CASE Settle(w)
      <4>1. attempts[w] \in 1..(MaxRetries + 1) /\ pc[w] = "settling"
        BY <1>t, <3>2 DEF Settle, HasMessage, Sending
      <4>2. /\ Settled(w).status \in Status /\ Settled(w).retryAt \in Nat \cup {Never}
            /\ Settled(w).status = "failed" =>
                 attempts[w] \in 1..MaxRetries /\ Settled(w).retryAt > 0
        BY <4>1, SettledType
      <4>3. /\ attempts[w] \in 1..MaxRetries => attempts[w] <= MaxRetries
            /\ MaxRetries \in Nat
        BY <4>1, ConstantsAssumption
      <4>4. PICK st \in Status, n \in 1..(MaxRetries + 1), at \in Nat \cup {Never} :
              st = Settled(w).status /\ n = attempts[w] /\ at = Settled(w).retryAt
        BY <4>1, <4>2
      <4>5. /\ st = "failed" => n <= MaxRetries /\ at > 0
            /\ log' = [log EXCEPT ![current[w]] = [status |-> st, attempts |-> n, retryAt |-> at]]
        BY <3>2, <4>2, <4>3, <4>4 DEF Settle
      <4> QED BY <4>5
    <3> QED BY <1>2, <3>1, <3>2
  <2>5. n \in Nat /\ MaxRetries \in Nat
    BY ConstantsAssumption
  <2>6. log' \in [Ids -> Row] /\ RowsAreDue'
    <3>1. [status |-> st, attempts |-> n, retryAt |-> at] \in Row
      BY <2>5 DEF Row
    <3> QED BY <1>t, <1>i, <1>c, <2>4, <2>5, <3>1 DEF TypeOK, RowsAreDue
  <2>7. faults' \in Nat /\ UNCHANGED <<clock, stopVars, copies, grace, changes>>
    BY <1>2, <1>t DEF LogWrite, Settle, TypeOK
  <2>8. TypeOK'
    BY <1>t, <1>i, <2>3, <2>6, <2>7 DEF TypeOK, stopVars
  <2>9. HasMessage' /\ Numbered'
    BY <1>t, <1>o, <1>i, <2>3 DEF HasMessage, Numbered, Sending
  <2>10. SweepReads'
    <3>1. pc'[w] = "rows" => now[w] > 0
      <4>1. CASE Settle(w)
        BY <1>t, <4>1 DEF Settle, SweepReads, HasMessage, Sending
      <4>2. CASE LogWrite(w)
        BY <1>t, <4>2 DEF LogWrite, Idle, Onward, TypeOK
      <4> QED BY <1>2, <4>1, <4>2
    <3> QED BY <1>t, <1>o, <1>i, <2>3, <3>1 DEF SweepReads, Sending
  <2> QED BY <2>6, <2>8, <2>9, <2>10 DEF Shape
<1> QED BY <1>1, <1>2

\* A sweep takes only rows that have fallen due.
LEMMA ShapeSweep ==
  ASSUME Shape, NEW w \in Workers, StartSweep(w) \/ Claim(w) \/ SweepOver(w) \/ Crash(w)
  PROVE  Shape'
<1>t. TypeOK /\ Numbered /\ HasMessage /\ SweepReads /\ RowsAreDue
  BY DEF Shape
<1>o. \A v \in Workers \ {w} :
        /\ pc'[v] = pc[v] /\ current'[v] = current[v] /\ attempts'[v] = attempts[v]
        /\ outcome'[v] = outcome[v] /\ now'[v] = now[v] /\ due'[v] = due[v]
  BY <1>t, Untouched
<1>i. UNCHANGED message /\ Issued' = Issued
  BY DEF StartSweep, Claim, SweepOver, Crash, Issued, mailVars
<1>n. Numbered'
  BY <1>t, <1>i DEF Numbered
<1>1. CASE StartSweep(w)
  <2>1. \A m \in Ids : DueBy(m, clock) =>
          /\ m \in Issued /\ log[m].attempts \in 1..MaxRetries /\ log[m].attempts \in Nat
          /\ clock > 0
    <3> SUFFICES ASSUME NEW m \in Ids, DueBy(m, clock)
                 PROVE  /\ m \in Issued /\ log[m].attempts \in 1..MaxRetries
                        /\ log[m].attempts \in Nat /\ clock > 0
      OBVIOUS
    <3>1. log[m].status = "failed" /\ log[m].retryAt <= clock /\ log[m] \in Row /\ clock \in Nat
      BY <1>t DEF DueBy, TypeOK
    <3>2. log[m].retryAt \in Int
      BY <3>1 DEF Row, NoRow, Never
    <3> QED BY <1>t, <3>1, <3>2, ConstantsAssumption DEF RowsAreDue
  <2>2. due'[w] = {[id |-> m, attempts |-> log[m].attempts] : m \in {i \in Ids : DueBy(i, clock)}}
    BY <1>1, <1>t DEF StartSweep, TypeOK
  <2>3. \A row \in due'[w] :
          row \in Snapshot /\ row.id \in Issued /\ row.attempts \in 1..MaxRetries
    BY <2>1, <2>2 DEF Snapshot
  <2>4. clock > 0
    BY <1>1, <2>1 DEF StartSweep
  <2>5. due' \in [Workers -> SUBSET Snapshot]
    BY <1>1, <1>t, <2>2, <2>3 DEF StartSweep, TypeOK
  <2>6. TypeOK'
    BY <1>1, <1>t, <1>i, <2>5 DEF StartSweep, TypeOK, Pc, stopVars, mailVars
  <2>7. HasMessage' /\ RowsAreDue'
    BY <1>1, <1>t, <1>i, <1>o DEF StartSweep, HasMessage, RowsAreDue, Sending, mailVars, TypeOK
  <2>8. SweepReads'
    BY <1>1, <1>t, <1>i, <1>o, <2>3, <2>4 DEF StartSweep, SweepReads, Sending, TypeOK
  <2> QED BY <1>n, <2>6, <2>7, <2>8 DEF Shape
<1>2. CASE Claim(w)
  <2>1. PICK row \in due[w] :
          /\ due' = [due EXCEPT ![w] = @ \ {row}]
          /\ IF CanClaim(w, row.id)
             THEN /\ log' = [log EXCEPT ![row.id].retryAt = now[w] + Lease]
                  /\ current' = [current EXCEPT ![w] = row.id]
                  /\ attempts' = [attempts EXCEPT ![w] = row.attempts + 1]
                  /\ pc' = [pc EXCEPT ![w] = "checking"]
             ELSE UNCHANGED <<log, current, attempts, pc>>
    BY <1>2 DEF Claim
  <2>2. /\ row \in Snapshot /\ row.id \in Issued /\ row.id \in Ids
        /\ row.attempts \in 1..MaxRetries /\ MaxRetries \in Nat
        /\ row.attempts \in Nat /\ row.attempts + 1 \in Nat
        /\ row.attempts + 1 \in 1..(MaxRetries + 1) /\ row.attempts + 1 > 1
    <3>1. row \in Snapshot /\ row.id \in Issued /\ row.attempts \in 1..MaxRetries
      BY <1>t, <2>1 DEF SweepReads, TypeOK
    <3> QED BY <1>t, <3>1, ConstantsAssumption DEF Snapshot, TypeOK
  <2>3. now[w] > 0 /\ now[w] \in Nat /\ now[w] + Lease \in Nat /\ now[w] + Lease > 0
    BY <1>2, <1>t, ConstantsAssumption DEF Claim, SweepReads, TypeOK
  <2>4. due' \in [Workers -> SUBSET Snapshot] /\ due'[w] \subseteq due[w]
    BY <1>t, <2>1 DEF TypeOK
  <2>5. log' \in [Ids -> Row] /\ RowsAreDue'
    <3>1. CASE CanClaim(w, row.id)
      <4>1. log[row.id] \in Row /\ log[row.id].status = "failed"
        BY <1>t, <2>2, <3>1 DEF TypeOK, CanClaim, DueBy
      <4>2. log[row.id] \in [status: Status, attempts: Nat, retryAt: Nat \cup {Never}]
        BY <4>1 DEF Row, NoRow
      <4>3. [log[row.id] EXCEPT !.retryAt = now[w] + Lease] \in Row
        BY <2>3, <4>2 DEF Row
      <4>4. log' = [log EXCEPT ![row.id] = [log[row.id] EXCEPT !.retryAt = now[w] + Lease]]
        BY <2>1, <3>1
      <4>5. log' \in [Ids -> Row]
        BY <1>t, <4>3, <4>4 DEF TypeOK
      <4>6. /\ log'[row.id].status = "failed" /\ log'[row.id].attempts = log[row.id].attempts
            /\ log'[row.id].retryAt = now[w] + Lease
        BY <1>t, <2>2, <4>1, <4>2, <4>4 DEF TypeOK
      <4>7. \A m \in Ids \ {row.id} : log'[m] = log[m]
        BY <1>t, <4>4 DEF TypeOK
      <4> QED BY <1>t, <1>i, <2>3, <4>1, <4>5, <4>6, <4>7 DEF RowsAreDue
    <3>2. CASE ~CanClaim(w, row.id)
      BY <1>t, <1>i, <2>1, <3>2 DEF TypeOK, RowsAreDue
    <3> QED BY <3>1, <3>2
  <2>6. TypeOK'
    <3>1. /\ pc' \in [Workers -> Pc] /\ current' \in [Workers -> Ids \cup {0}]
          /\ attempts' \in [Workers -> Nat]
      BY <1>t, <2>1, <2>2 DEF TypeOK, Pc
    <3> QED BY <1>2, <1>t, <1>i, <2>4, <2>5, <3>1 DEF Claim, TypeOK, stopVars
  <2>7. HasMessage'
    BY <1>2, <1>t, <1>i, <1>o, <2>1, <2>2 DEF Claim, HasMessage, Sending, TypeOK
  <2>8. SweepReads'
    <3>1. \A v \in Workers : now'[v] = now[v] /\ due'[v] \subseteq due[v]
      BY <1>2, <1>o, <2>4 DEF Claim
    <3> QED BY <1>2, <1>t, <1>i, <1>o, <2>3, <3>1 DEF Claim, SweepReads, Sending
  <2> QED BY <1>n, <2>5, <2>6, <2>7, <2>8 DEF Shape
<1>3. CASE SweepOver(w) \/ Crash(w)
  <2>1. Idle(w) /\ faults' \in Nat
    BY <1>3, <1>t DEF SweepOver, Crash, TypeOK
  <2>2. TypeOK'
    BY <1>3, <1>t, <1>i, <2>1, IdleType DEF SweepOver, Crash, TypeOK, stopVars, mailVars
  <2>3. RowsAreDue'
    BY <1>3, <1>t, <1>i DEF SweepOver, Crash, RowsAreDue, mailVars
  <2>4. /\ pc'[w] = "idle" /\ current'[w] = 0 /\ outcome'[w] = "none" /\ due'[w] = {}
    BY <1>t, <2>1 DEF Idle, TypeOK
  <2>5. HasMessage'
    BY <1>t, <1>i, <1>o, <2>4 DEF HasMessage, Sending
  <2>6. SweepReads'
    BY <1>t, <1>i, <1>o, <2>4 DEF SweepReads, Sending
  <2> QED BY <1>n, <2>2, <2>3, <2>5, <2>6 DEF Shape
<1> QED BY <1>1, <1>2, <1>3

LEMMA ShapeStep == Shape /\ [Next]_vars => Shape'
<1> SUFFICES ASSUME Shape, [Next]_vars PROVE Shape'
    OBVIOUS
<1>1. ASSUME NEW w \in Workers,
             \/ \E u \in Users : SendOne(w, u) \/ SupportRequest(w, u)
             \/ \E topic \in Topics, users \in SUBSET Users : StartList(w, topic, users)
             \/ JobNext(w)
      PROVE  Shape'
  BY <1>1, ShapeBegin
<1>2. ASSUME NEW w \in Workers, Check(w) \/ SesSend(w) \/ LogWrite(w) \/ Settle(w)
      PROVE  Shape'
  BY <1>2, ShapeAttempt
<1>3. ASSUME NEW w \in Workers, StartSweep(w) \/ Claim(w) \/ SweepOver(w) \/ Crash(w)
      PROVE  Shape'
  BY <1>3, ShapeSweep
<1>4. ASSUME UNCHANGED <<mailVars, localVars, copies, faults>>,
             clock' \in Nat, suppressed' \in SUBSET Users, wanted' \in SUBSET (Members \X Kinds),
             grace' \in [Users -> Int], changes' \in Nat
      PROVE  Shape'
  BY <1>4 DEF Shape, TypeOK, Numbered, HasMessage, SweepReads, RowsAreDue, Issued, mailVars,
              localVars, listVars
<1>5. ASSUME NEW u \in Users, Suppress(u) PROVE Shape'
  <2>1. Cardinality(Posting(u)) \in Nat
    BY ConstantsAssumption, FS_Subset, FS_CardinalityType DEF Posting
  <2> QED BY <1>4, <1>5, <2>1 DEF Suppress, Change, Posting, Shape, TypeOK
<1>6. ASSUME NEW u \in Users, NEW k \in Kinds, SwitchOff(u, k) PROVE Shape'
  BY <1>4, <1>6 DEF SwitchOff, Change, Shape, TypeOK
<1>7. ASSUME NEW u \in Members, NEW k \in Kinds, SwitchOn(u, k) PROVE Shape'
  BY <1>4, <1>7 DEF SwitchOn, Change, Shape, TypeOK
<1>8. CASE Tick
  BY <1>4, <1>8 DEF Tick, Shape, TypeOK, stopVars
<1>9. CASE UNCHANGED vars
  BY <1>4, <1>9 DEF vars, Shape, TypeOK, stopVars
<1> QED BY Forms, <1>1, <1>2, <1>3, <1>5, <1>6, <1>7, <1>8, <1>9

-----------------------------------------------------------------------------
(* Suppressed addresses *)

\* A message keeps its address.
LEMMA MessagesStay ==
  ASSUME Shape, [Next]_vars, NEW m \in Issued
  PROVE  m \in Issued' /\ message'[m] = message[m]
<1>1. ASSUME NEW w \in Workers, NEW u \in Users, NEW topic \in Topics, Compose(w, u, topic)
      PROVE  m \in Issued' /\ message'[m] = message[m]
  BY <1>1, ComposeFacts
<1>2. ASSUME NEW w \in Workers, NEW u \in Users, SendOne(w, u) \/ SupportRequest(w, u)
      PROVE  m \in Issued' /\ message'[m] = message[m]
  BY <1>1, <1>2, ConstantsAssumption DEF SendOne, SupportRequest, Topics
<1>3. ASSUME NEW w \in Workers, JobNext(w)
      PROVE  m \in Issued' /\ message'[m] = message[m]
  <2>1. PICK u \in todo[w] : Compose(w, u, job[w])
    BY <1>3 DEF JobNext
  <2>2. PICK topic \in Topics : topic = job[w] /\ u \in Users
    BY <2>1 DEF Shape, TypeOK
  <2> QED BY <1>1, <2>1, <2>2
<1>4. CASE UNCHANGED message
  BY <1>4 DEF Issued
<1>5. \/ \E w \in Workers :
           JobNext(w) \/ \E u \in Users : SendOne(w, u) \/ SupportRequest(w, u)
      \/ UNCHANGED message
  BY Forms DEF StartList, Check, SesSend, LogWrite, StartSweep, Claim, Settle, SweepOver, Crash,
               Suppress, SwitchOff, SwitchOn, Tick, vars, mailVars
<1> QED BY <1>2, <1>3, <1>4, <1>5

LEMMA PostingFinite ==
  ASSUME NEW u
  PROVE  IsFiniteSet(Posting(u)) /\ Cardinality(Posting(u)) \in Nat
BY ConstantsAssumption, FS_Subset, FS_CardinalityType DEF Posting

\* Nobody new is past the check with mail to a suppressed address.
LEMMA GraceKept ==
  ASSUME Shape, GraceCovers, suppressed' = suppressed, grace' = grace,
         \A u \in suppressed : Posting(u)' \subseteq Posting(u)
  PROVE  GraceCovers'
<1> SUFFICES ASSUME NEW u \in Users
             PROVE  IF u \in suppressed THEN Cardinality(Posting(u)') <= grace[u]
                    ELSE grace[u] >= 0
  BY DEF GraceCovers
<1>1. grace[u] \in Int
  BY DEF Shape, TypeOK
<1>2. CASE u \notin suppressed
  BY <1>2 DEF GraceCovers
<1>3. CASE u \in suppressed
  <2>1. Posting(u)' \subseteq Posting(u) /\ IsFiniteSet(Posting(u))
        /\ Cardinality(Posting(u)) \in Nat
    BY <1>3, PostingFinite
  <2>2. Cardinality(Posting(u)') \in Nat /\ Cardinality(Posting(u)') <= Cardinality(Posting(u))
    BY <2>1, FS_Subset, FS_CardinalityType
  <2> QED BY <1>1, <1>3, <2>1, <2>2 DEF GraceCovers
<1> QED BY <1>2, <1>3

\* Whoever is posting after a step that sends nothing was posting before it.
LEMMA PostingKept ==
  ASSUME Shape, [Next]_vars, NEW u \in Users,
         \A v \in Workers : pc'[v] = "posting" => pc[v] = "posting" /\ current'[v] = current[v]
  PROVE  Posting(u)' \subseteq Posting(u)
<1> SUFFICES ASSUME NEW v \in Workers, pc'[v] = "posting", message'[current'[v]].user = u
             PROVE  pc[v] = "posting" /\ message[current[v]].user = u
  BY DEF Posting, UserOf
<1>1. pc[v] = "posting" /\ current'[v] = current[v]
  OBVIOUS
<1>2. PICK m \in Issued : m = current[v]
  BY <1>1 DEF Shape, HasMessage, Sending
<1> QED BY <1>1, <1>2, MessagesStay

LEMMA GraceStep == Shape /\ GraceCovers /\ [Next]_vars => GraceCovers'
<1> SUFFICES ASSUME Shape, GraceCovers, [Next]_vars PROVE GraceCovers'
    OBVIOUS
<1>t. TypeOK /\ HasMessage
  BY DEF Shape
<1>1. CASE /\ suppressed' = suppressed /\ grace' = grace
           /\ \A v \in Workers : pc'[v] = "posting" => pc[v] = "posting" /\ current'[v] = current[v]
  <2>1. \A u \in suppressed : Posting(u)' \subseteq Posting(u)
    BY <1>1, <1>t, PostingKept DEF TypeOK
  <2> QED BY <1>1, <2>1, GraceKept
<1>2. ASSUME NEW w \in Workers, Check(w) PROVE GraceCovers'
  <2>1. \A v \in Workers \ {w} : pc'[v] = pc[v] /\ current'[v] = current[v]
    BY <1>2, <1>t, Untouched
  <2>2. suppressed' = suppressed /\ grace' = grace /\ message' = message /\ current' = current
    BY <1>2 DEF Check, stopVars, mailVars
  <2>3. CASE pc'[w] # "posting"
    BY <1>1, <2>1, <2>2, <2>3
  <2>4. CASE pc'[w] = "posting"
    <3>1. Refusal(current[w]) = "none"
      BY <1>2, <1>t, <2>4 DEF Check, Conclude, TypeOK
    <3>2. UserOf(current[w]) \notin suppressed
      BY <3>1, RefusalType
    <3>3. \A u \in suppressed : Posting(u)' \subseteq Posting(u)
      BY <2>1, <2>2, <3>2 DEF Posting, UserOf
    <3> QED BY <2>2, <3>3, GraceKept
  <2> QED BY <2>3, <2>4
<1>3. ASSUME NEW w \in Workers, SesSend(w) PROVE GraceCovers'
  <2>1. \A v \in Workers \ {w} : pc'[v] = pc[v] /\ current'[v] = current[v]
    BY <1>3, <1>t, Untouched
  <2>2. /\ suppressed' = suppressed /\ message' = message /\ current' = current
        /\ pc[w] = "posting" /\ pc'[w] # "posting"
    BY <1>3, <1>t DEF SesSend, Conclude, TypeOK, stopVars, mailVars
  <2>3. CASE grace' = grace
    BY <1>1, <2>1, <2>2, <2>3
  <2>4. PICK u \in Users : u = UserOf(current[w])
    <3>1. current[w] \in Issued
      BY <1>t, <2>2 DEF HasMessage, Sending
    <3> QED BY <1>t, <3>1 DEF TypeOK, UserOf
  <2>5. CASE grace' = [grace EXCEPT ![u] = IF u \in suppressed THEN @ - 1 ELSE @]
    <3> SUFFICES ASSUME NEW x \in Users
                 PROVE  IF x \in suppressed THEN Cardinality(Posting(x)') <= grace'[x]
                        ELSE grace'[x] >= 0
      BY <2>2 DEF GraceCovers
    <3>1. /\ IsFiniteSet(Posting(x)) /\ Cardinality(Posting(x)) \in Nat /\ grace[x] \in Int
          /\ IF x \in suppressed THEN Cardinality(Posting(x)) <= grace[x] ELSE grace[x] >= 0
      BY <1>t, PostingFinite DEF GraceCovers, TypeOK
    <3>2. Posting(x)' = Posting(x) \ {w}
      BY <2>1, <2>2 DEF Posting, UserOf
    <3>3. CASE x # u
      <4>1. w \notin Posting(x)
        BY <2>4, <3>3 DEF Posting
      <4>2. Posting(x)' = Posting(x) /\ grace'[x] = grace[x]
        BY <1>t, <2>5, <3>2, <3>3, <4>1 DEF TypeOK
      <4> QED BY <3>1, <4>2
    <3>4. CASE x = u
      <4>1. w \in Posting(x)
        BY <2>2, <2>4, <3>4 DEF Posting
      <4>2. Cardinality(Posting(x)') = Cardinality(Posting(x)) - 1
        BY <3>1, <3>2, <4>1, FS_RemoveElement
      <4>3. grace'[x] = IF x \in suppressed THEN grace[x] - 1 ELSE grace[x]
        BY <1>t, <2>5, <3>4 DEF TypeOK
      <4> QED BY <3>1, <4>2, <4>3
    <3> QED BY <3>3, <3>4
  <2> QED BY <1>3, <2>3, <2>4, <2>5 DEF SesSend
<1>4. ASSUME NEW u \in Users, Suppress(u) PROVE GraceCovers'
  <2>1. \A x \in Users : Posting(x)' = Posting(x)
    BY <1>4 DEF Suppress, Posting, UserOf, mailVars, localVars
  <2>2. /\ suppressed' = suppressed \cup {u} /\ u \notin suppressed
        /\ grace' = [grace EXCEPT ![u] = Cardinality(Posting(u))]
    BY <1>4 DEF Suppress, Posting
  <2> SUFFICES ASSUME NEW x \in Users
               PROVE  IF x \in suppressed' THEN Cardinality(Posting(x)') <= grace'[x]
                      ELSE grace'[x] >= 0
    BY DEF GraceCovers
  <2>3. Cardinality(Posting(x)) \in Nat /\ grace[x] \in Int /\ Posting(x)' = Posting(x)
    BY <1>t, <2>1, PostingFinite DEF TypeOK
  <2> QED BY <1>t, <2>2, <2>3 DEF GraceCovers, TypeOK
<1>5. ASSUME NEW w \in Workers,
             \/ \E u \in Users : SendOne(w, u) \/ SupportRequest(w, u)
             \/ \E topic \in Topics, users \in SUBSET Users : StartList(w, topic, users)
             \/ JobNext(w) \/ LogWrite(w) \/ StartSweep(w) \/ Claim(w) \/ Settle(w)
             \/ SweepOver(w) \/ Crash(w)
      PROVE  GraceCovers'
  <2>1. \A v \in Workers \ {w} : pc'[v] = pc[v] /\ current'[v] = current[v]
    BY <1>5, <1>t, Untouched
  <2>2. suppressed' = suppressed /\ grace' = grace
    BY <1>5 DEF SendOne, SupportRequest, StartList, JobNext, LogWrite, StartSweep, Claim, Settle,
                SweepOver, Crash, stopVars
  <2>3. pc'[w] # "posting"
    BY <1>5, <1>t DEF SendOne, SupportRequest, StartList, JobNext, LogWrite, StartSweep, Claim,
                      Settle, SweepOver, Crash, Compose, Idle, Onward, TypeOK
  <2> QED BY <1>1, <2>1, <2>2, <2>3
<1>6. CASE (\E u \in Users, k \in Kinds : SwitchOff(u, k))
           \/ (\E u \in Members, k \in Kinds : SwitchOn(u, k)) \/ Tick \/ UNCHANGED vars
  BY <1>1, <1>6 DEF SwitchOff, SwitchOn, Tick, vars, localVars, stopVars
<1> QED BY Forms, <1>2, <1>3, <1>4, <1>5, <1>6

-----------------------------------------------------------------------------
(* One sender of a message at a time *)

\* A row a sweep can claim is in nobody's hands: its holder's lease outlasts
\* the holder's sweep, so it cannot have run out.
LEMMA ClaimedIsFree ==
  ASSUME SweepsFit, Shape, SweepAge, RowHeld, NEW w \in Workers, pc[w] = "rows",
         NEW m \in Ids, CanClaim(w, m)
  PROVE  \A v \in Workers : current[v] # m
<1> SUFFICES ASSUME NEW v \in Workers, current[v] = m PROVE FALSE
    OBVIOUS
<1>1. pc[v] \in Sending
  BY DEF Shape, HasMessage, Ids
<1>2. log[m].status = "failed" /\ log[m].retryAt <= now[w]
  BY DEF CanClaim, DueBy
<1>3. attempts[v] \in 1..(MaxRetries + 1)
  BY <1>1 DEF Shape, HasMessage
<1>4. attempts[v] > 1 /\ log[m].retryAt = now[v] + Lease
  BY <1>1, <1>2, <1>3 DEF RowHeld
<1>5. now[v] > 0 /\ now[w] > 0
  BY <1>1, <1>4 DEF Shape, SweepReads
<1>6. now[w] <= clock /\ clock <= now[v] + SweepSpan
  BY <1>5 DEF SweepAge
<1>7. now[v] \in Nat /\ now[w] \in Nat /\ clock \in Nat
  BY DEF Shape, TypeOK
<1> QED BY <1>2, <1>4, <1>6, <1>7, ConstantsAssumption DEF SweepsFit

LEMMA SweepAgeStep == Shape /\ SweepAge /\ [Next]_vars => SweepAge'
<1> SUFFICES ASSUME Shape, SweepAge, [Next]_vars PROVE SweepAge'
    OBVIOUS
<1>t. TypeOK
  BY DEF Shape
<1>1. CASE clock' = clock /\ \A v \in Workers : now'[v] = now[v] \/ now'[v] = 0
  BY <1>1 DEF SweepAge
<1>2. ASSUME NEW w \in Workers, StartSweep(w) PROVE SweepAge'
  <2>1. clock' = clock /\ now'[w] = clock /\ \A v \in Workers \ {w} : now'[v] = now[v]
    BY <1>2, <1>t DEF StartSweep, TypeOK
  <2>2. clock \in Nat /\ SweepSpan \in Nat
    BY <1>t, ConstantsAssumption DEF TypeOK
  <2>3. clock <= clock /\ clock <= clock + SweepSpan
    BY <2>2
  <2> QED BY <2>1, <2>3 DEF SweepAge
<1>3. CASE Tick
  <2>1. now' = now /\ clock' = clock + 1
    BY <1>3 DEF Tick, localVars, listVars
  <2> SUFFICES ASSUME NEW v \in Workers, now[v] > 0
               PROVE  now[v] <= clock + 1 /\ clock + 1 <= now[v] + SweepSpan
    BY <2>1 DEF SweepAge
  <2>2. clock < now[v] + SweepSpan /\ now[v] <= clock
    BY <1>3 DEF Tick, Sweeping, SweepAge
  <2> QED BY <1>t, <2>2, ConstantsAssumption DEF TypeOK
<1>4. ASSUME NEW w \in Workers, LogWrite(w) \/ SweepOver(w) \/ Crash(w) PROVE SweepAge'
  <2>1. clock' = clock /\ \A v \in Workers : now'[v] = now[v] \/ now'[v] = 0
    BY <1>4, <1>t DEF LogWrite, SweepOver, Crash, Idle, Onward, TypeOK, listVars
  <2> QED BY <1>1, <2>1
<1>5. \/ clock' = clock /\ now' = now
      \/ Tick
      \/ \E w \in Workers : StartSweep(w) \/ LogWrite(w) \/ SweepOver(w) \/ Crash(w)
  BY Forms DEF SendOne, SupportRequest, JobNext, StartList, Check, SesSend, Claim, Settle, Onward,
               Suppress, SwitchOff, SwitchOn, vars, localVars, listVars
<1> QED BY <1>1, <1>2, <1>3, <1>4, <1>5

\* A step that sends nothing and opens nothing keeps the count.
LEMMA CopiesKept ==
  ASSUME Shape, CopiesCounted, copies' = copies,
         \/ faults' = faults + 1
         \/ faults' = faults /\ \A m \in Ids : Open(m)' => Open(m)
  PROVE  CopiesCounted'
<1> SUFFICES ASSUME NEW m \in Ids
             PROVE  copies[m] <= (IF Open(m)' THEN 0 ELSE 1) + faults'
  BY DEF CopiesCounted
<1>1. copies[m] \in Nat /\ faults \in Nat
  BY DEF Shape, TypeOK
<1>2. copies[m] <= (IF Open(m) THEN 0 ELSE 1) + faults
  BY DEF CopiesCounted
<1> QED BY <1>1, <1>2

\* A step of w that leaves every row alone, and takes up nothing.
LEMMA HeldKept ==
  ASSUME Shape, RowHeld, OneSender, NEW w \in Workers,
         \A v \in Workers \ {w} :
           /\ pc'[v] = pc[v] /\ current'[v] = current[v] /\ attempts'[v] = attempts[v]
           /\ now'[v] = now[v],
         \/ pc'[w] \notin Sending /\ current'[w] = 0
         \/ /\ pc[w] \in Sending /\ pc'[w] \in Sending /\ current'[w] = current[w]
            /\ attempts'[w] = attempts[w] /\ now'[w] = now[w],
         \A v \in Workers : pc'[v] \in Sending => log'[current[v]] = log[current[v]]
  PROVE  RowHeld' /\ OneSender'
<1>1. \A v \in Workers : pc[v] \in Sending => current[v] # 0
  BY DEF Shape, HasMessage, TypeOK, Ids
<1> QED BY <1>1 DEF RowHeld, OneSender

\* sendTo() begins with a message that is in nobody's hands and has no row.
LEMMA FitCompose ==
  ASSUME FitInv, NEW w \in Workers, NEW u \in Users, NEW topic \in Topics, Compose(w, u, topic),
         pc[w] \in {"idle", "job"}, UNCHANGED <<log, now, outcome, copies, faults>>
  PROVE  RowHeld' /\ OneSender' /\ CopiesCounted'
<1>t. Shape /\ TypeOK /\ HasMessage /\ RowsAreDue /\ RowHeld /\ OneSender /\ CopiesCounted
  BY DEF FitInv, Shape
<1>1. PICK m \in Ids \ Issued :
         /\ Issued' = Issued \cup {m}
         /\ current' = [current EXCEPT ![w] = m]
         /\ attempts' = [attempts EXCEPT ![w] = 1]
         /\ pc' = [pc EXCEPT ![w] = "checking"]
  BY <1>t, ComposeFacts
<1>2. \A v \in Workers \ {w} :
        pc'[v] = pc[v] /\ current'[v] = current[v] /\ attempts'[v] = attempts[v]
  BY <1>t, <1>1 DEF TypeOK
<1>3. pc'[w] = "checking" /\ current'[w] = m /\ attempts'[w] = 1 /\ current[w] = 0
  BY <1>t, <1>1 DEF TypeOK, HasMessage, Sending
<1>4. \A v \in Workers : current[v] # m
  BY <1>t, <1>1 DEF HasMessage, Ids
<1>5. log[m].status = "absent"
  BY <1>t, <1>1 DEF RowsAreDue
<1>6. RowHeld'
  BY <1>t, <1>2, <1>3, <1>5 DEF RowHeld
<1>7. OneSender'
  BY <1>t, <1>2, <1>3, <1>4 DEF OneSender
<1>8. \A x \in Ids : Open(x)' => Open(x)
  <2> SUFFICES ASSUME NEW x \in Ids, Open(x)' PROVE Open(x)
      OBVIOUS
  <2>1. CASE x = m
    BY <1>1, <2>1 DEF Open
  <2>2. CASE x # m
    <3>1. \A v \in Workers : current'[v] = x <=> current[v] = x
      BY <1>2, <1>3, <2>2 DEF Ids
    <3> QED BY <1>1, <2>2, <3>1 DEF Open
  <2> QED BY <2>1, <2>2
<1> QED BY <1>t, <1>6, <1>7, <1>8, CopiesKept

\* SES takes the one copy of an attempt that is still open.
LEMMA FitAttempt ==
  ASSUME FitInv, NEW w \in Workers, Check(w) \/ SesSend(w)
  PROVE  RowHeld' /\ OneSender' /\ CopiesCounted'
<1>t. Shape /\ TypeOK /\ HasMessage /\ RowHeld /\ OneSender /\ CopiesCounted
  BY DEF FitInv, Shape
<1>o. \A v \in Workers \ {w} :
        /\ pc'[v] = pc[v] /\ current'[v] = current[v] /\ attempts'[v] = attempts[v]
        /\ outcome'[v] = outcome[v] /\ now'[v] = now[v]
  BY <1>t, Untouched
<1>1. /\ pc[w] \in {"checking", "posting"} /\ pc'[w] \in Sending /\ outcome[w] = "none"
      /\ UNCHANGED <<message, log, current, attempts, now, faults>> /\ Issued' = Issued
  BY <1>t DEF Check, SesSend, Conclude, HasMessage, Sending, TypeOK, mailVars, listVars, Issued
<1>2. RowHeld' /\ OneSender'
  BY <1>t, <1>o, <1>1, HeldKept DEF Sending
<1>3. PICK m \in Ids : m = current[w] /\ m \in Issued
  BY <1>t, <1>1 DEF HasMessage, Sending, TypeOK
<1>4. \A x \in Ids : Open(x)' => Open(x)
  BY <1>o, <1>1 DEF Open
<1>5. CASE copies' = copies
  BY <1>t, <1>1, <1>2, <1>4, <1>5, CopiesKept
<1>6. CASE SesSend(w) /\ copies' # copies
  <2>1. Conclude(w, "sent") /\ copies' = [copies EXCEPT ![m] = @ + 1]
    BY <1>3, <1>6 DEF SesSend
  <2>2. outcome'[w] = "sent"
    BY <1>t, <2>1 DEF Conclude, TypeOK
  <2>3. Open(m)
    BY <1>1, <1>3 DEF Open
  <2>4. ~Open(m)'
    <3>1. \A v \in Workers : current[v] = m => v = w
      BY <1>t, <1>1, <1>3 DEF OneSender, Sending
    <3> QED BY <1>1, <1>3, <2>2, <3>1 DEF Open
  <2> SUFFICES ASSUME NEW x \in Ids
               PROVE  copies'[x] <= (IF Open(x)' THEN 0 ELSE 1) + faults
    BY <1>1, <1>2 DEF CopiesCounted
  <2>5. /\ copies[x] \in Nat /\ faults \in Nat
        /\ copies[x] <= (IF Open(x) THEN 0 ELSE 1) + faults
    BY <1>t DEF CopiesCounted, TypeOK
  <2>6. copies'[x] = IF x = m THEN copies[x] + 1 ELSE copies[x]
    BY <1>t, <2>1 DEF TypeOK
  <2>7. CASE x = m
    BY <2>3, <2>4, <2>5, <2>6, <2>7
  <2>8. CASE x # m
    BY <1>4, <2>5, <2>6, <2>8
  <2> QED BY <2>7, <2>8
<1>7. Check(w) => copies' = copies
  BY DEF Check
<1> QED BY <1>5, <1>6, <1>7

\* The row says what became of the attempt, and a failed one is open again.
LEMMA FitRecord ==
  ASSUME FitInv, NEW w \in Workers, LogWrite(w) \/ Settle(w)
  PROVE  RowHeld' /\ OneSender' /\ CopiesCounted'
<1>t. Shape /\ TypeOK /\ HasMessage /\ RowHeld /\ OneSender /\ CopiesCounted
  BY DEF FitInv, Shape
<1>o. \A v \in Workers \ {w} :
        /\ pc'[v] = pc[v] /\ current'[v] = current[v] /\ attempts'[v] = attempts[v]
        /\ outcome'[v] = outcome[v] /\ now'[v] = now[v]
  BY <1>t, Untouched
<1>1. /\ pc[w] \in Sending /\ pc'[w] \notin Sending /\ current'[w] = 0
      /\ UNCHANGED <<message, copies>> /\ Issued' = Issued
  BY <1>t DEF LogWrite, Settle, Idle, Onward, Sending, TypeOK, Issued
<1>2. PICK m \in Ids : m = current[w] /\ m \in Issued
  BY <1>t, <1>1 DEF HasMessage, TypeOK
<1>3. \A v \in Workers : current[v] = m => v = w
  BY <1>t, <1>1, <1>2 DEF OneSender
<1>4. \/ faults' = faults + 1 /\ log' = log
      \/ /\ faults' = faults
         /\ \A x \in Ids \ {m} : log'[x] = log[x]
         /\ log'[m].status = "failed" => outcome[w] = "failed"
  <2>1. CASE LogWrite(w)
    BY <1>t, <1>2, <2>1 DEF LogWrite, TypeOK
  <2>2. CASE Settle(w)
    <3>1. Settled(w).status = "failed" => outcome[w] = "failed"
      BY <1>t, <2>2, SettledType DEF Settle
    <3> QED BY <1>t, <1>2, <2>2, <3>1 DEF Settle, TypeOK
  <2> QED BY <2>1, <2>2
<1>5. \A v \in Workers : pc'[v] \in Sending => log'[current[v]] = log[current[v]]
  BY <1>t, <1>o, <1>1, <1>3, <1>4 DEF HasMessage, TypeOK
<1>6. RowHeld' /\ OneSender'
  BY <1>t, <1>o, <1>1, <1>5, HeldKept
<1>7. ASSUME faults' = faults, NEW x \in Ids, Open(x)' PROVE Open(x)
  <2>1. /\ \A y \in Ids \ {m} : log'[y] = log[y]
        /\ log'[m].status = "failed" => outcome[w] = "failed"
    BY <1>t, <1>4, <1>7 DEF TypeOK
  <2>2. CASE x # m
    <3>1. \A v \in Workers : current'[v] = x => v # w /\ current[v] = x
      BY <1>o, <1>1 DEF Ids
    <3>2. \A v \in Workers : current[v] = x => current'[v] = x
      BY <1>o, <1>1, <1>2, <2>2
    <3> QED BY <1>o, <1>1, <1>7, <2>1, <2>2, <3>1, <3>2 DEF Open
  <2>3. CASE x = m
    <3>1. \A v \in Workers : current'[v] # m
      BY <1>o, <1>1, <1>3 DEF Ids
    <3> QED BY <1>1, <1>2, <1>7, <2>1, <2>3, <3>1 DEF Open
  <2> QED BY <2>2, <2>3
<1> QED BY <1>t, <1>1, <1>4, <1>6, <1>7, CopiesKept

\* A claim takes a row from nobody.
LEMMA FitClaim ==
  ASSUME SweepsFit, FitInv, NEW w \in Workers, Claim(w)
  PROVE  RowHeld' /\ OneSender' /\ CopiesCounted'
<1>t. /\ Shape /\ TypeOK /\ HasMessage /\ SweepReads /\ SweepAge /\ RowHeld /\ OneSender
      /\ CopiesCounted
  BY DEF FitInv, Shape
<1>o. \A v \in Workers \ {w} :
        /\ pc'[v] = pc[v] /\ current'[v] = current[v] /\ attempts'[v] = attempts[v]
        /\ outcome'[v] = outcome[v] /\ now'[v] = now[v]
  BY <1>t, Untouched
<1>u. /\ pc[w] = "rows" /\ current[w] = 0 /\ outcome' = outcome /\ now' = now
      /\ UNCHANGED <<message, copies, faults>> /\ Issued' = Issued
  BY <1>t DEF Claim, HasMessage, Sending, Issued
<1>1. PICK row \in due[w] :
        IF CanClaim(w, row.id)
        THEN /\ log' = [log EXCEPT ![row.id].retryAt = now[w] + Lease]
             /\ current' = [current EXCEPT ![w] = row.id]
             /\ attempts' = [attempts EXCEPT ![w] = row.attempts + 1]
             /\ pc' = [pc EXCEPT ![w] = "checking"]
        ELSE UNCHANGED <<log, current, attempts, pc>>
  BY DEF Claim
<1>2. CASE ~CanClaim(w, row.id)
  <2>1. UNCHANGED <<log, current, attempts, pc>>
    BY <1>1, <1>2
  <2>2. RowHeld' /\ OneSender'
    BY <1>t, <1>u, <2>1 DEF RowHeld, OneSender
  <2>3. \A x \in Ids : Open(x)' => Open(x)
    BY <1>u, <2>1 DEF Open
  <2> QED BY <1>t, <1>u, <2>2, <2>3, CopiesKept
<1>3. CASE CanClaim(w, row.id)
  <2>1. PICK m \in Ids : m = row.id /\ row.attempts + 1 > 1 /\ row.attempts + 1 # 1
    <3>1. row \in Snapshot /\ row.attempts \in 1..MaxRetries
      BY <1>t DEF SweepReads, TypeOK
    <3> QED BY <3>1 DEF Snapshot
  <2>2. \A v \in Workers : current[v] # m
    BY <1>t, <1>u, <1>3, <2>1, ClaimedIsFree
  <2>3. log[m].status = "failed" /\ log[m] \in Row
    BY <1>t, <1>3, <2>1 DEF CanClaim, DueBy, TypeOK
  <2>4. /\ pc'[w] = "checking" /\ current'[w] = m /\ attempts'[w] > 1 /\ attempts'[w] # 1
    BY <1>t, <1>1, <1>3, <2>1 DEF TypeOK
  <2>5. /\ log'[m].status = "failed" /\ log'[m].retryAt = now[w] + Lease
        /\ \A x \in Ids \ {m} : log'[x] = log[x]
    BY <1>t, <1>1, <1>3, <2>1, <2>3 DEF TypeOK, Row, NoRow
  <2>6. RowHeld'
    <3> SUFFICES ASSUME NEW v \in Workers, pc'[v] \in Sending
                 PROVE  /\ attempts'[v] = 1 => log'[current'[v]].status = "absent"
                        /\ attempts'[v] > 1 => /\ log'[current'[v]].status = "failed"
                                               /\ log'[current'[v]].retryAt = now'[v] + Lease
      BY DEF RowHeld
    <3>1. CASE v = w
      BY <1>u, <2>4, <2>5, <3>1
    <3>2. CASE v # w
      <4>1. current[v] \in Ids \ {m}
        BY <1>t, <1>o, <2>2, <3>2 DEF HasMessage, TypeOK
      <4> QED BY <1>t, <1>o, <2>5, <3>2, <4>1 DEF RowHeld
    <3> QED BY <3>1, <3>2
  <2>7. OneSender'
    BY <1>t, <1>o, <2>2, <2>4 DEF OneSender
  <2>8. \A x \in Ids : Open(x)' => Open(x)
    <3> SUFFICES ASSUME NEW x \in Ids, Open(x)' PROVE Open(x)
        OBVIOUS
    <3>1. CASE x = m
      BY <2>2, <2>3, <3>1 DEF Open
    <3>2. CASE x # m
      <4>1. \A v \in Workers : current'[v] = x <=> current[v] = x
        BY <1>o, <1>u, <2>4, <3>2 DEF Ids
      <4> QED BY <1>u, <2>5, <3>2, <4>1 DEF Open
    <3> QED BY <3>1, <3>2
  <2> QED BY <1>t, <1>u, <2>6, <2>7, <2>8, CopiesKept
<1> QED BY <1>2, <1>3

\* Everything else takes up nothing.
LEMMA FitRest ==
  ASSUME FitInv, NEW w \in Workers,
         \/ \E topic \in Topics, users \in SUBSET Users : StartList(w, topic, users)
         \/ StartSweep(w) \/ SweepOver(w) \/ Crash(w)
  PROVE  RowHeld' /\ OneSender' /\ CopiesCounted'
<1>t. Shape /\ TypeOK /\ HasMessage /\ RowHeld /\ OneSender /\ CopiesCounted
  BY DEF FitInv, Shape
<1>o. \A v \in Workers \ {w} :
        /\ pc'[v] = pc[v] /\ current'[v] = current[v] /\ attempts'[v] = attempts[v]
        /\ outcome'[v] = outcome[v] /\ now'[v] = now[v]
  BY <1>t, Untouched
<1>1. /\ UNCHANGED <<message, log, copies>> /\ Issued' = Issued
      /\ pc'[w] \notin Sending /\ current'[w] = 0
  BY <1>t DEF StartList, StartSweep, SweepOver, Crash, Idle, HasMessage, Sending, TypeOK, mailVars,
              Issued
<1>2. RowHeld' /\ OneSender'
  BY <1>t, <1>o, <1>1, HeldKept
<1>3. CASE faults' = faults + 1
  BY <1>t, <1>1, <1>2, <1>3, CopiesKept
<1>4. CASE faults' = faults /\ current[w] = 0
  <2>1. \A x \in Ids : Open(x)' => Open(x)
    <3> SUFFICES ASSUME NEW x \in Ids, Open(x)' PROVE Open(x)
        OBVIOUS
    <3>1. \A v \in Workers : /\ current'[v] = x <=> current[v] = x
                             /\ current[v] = x => outcome'[v] = outcome[v]
      BY <1>o, <1>1, <1>4 DEF Ids
    <3> QED BY <1>1, <3>1 DEF Open
  <2> QED BY <1>t, <1>1, <1>2, <1>4, <2>1, CopiesKept
<1>5. faults' = faults + 1 \/ (faults' = faults /\ current[w] = 0)
  BY <1>t DEF StartList, StartSweep, SweepOver, Crash, HasMessage, Sending
<1> QED BY <1>3, <1>4, <1>5

LEMMA FitStep == SweepsFit /\ FitInv /\ [Next]_vars => FitInv'
<1> SUFFICES ASSUME SweepsFit, FitInv, [Next]_vars PROVE FitInv'
    OBVIOUS
<1>0. Shape' /\ SweepAge'
  BY ShapeStep, SweepAgeStep DEF FitInv
<1> SUFFICES RowHeld' /\ OneSender' /\ CopiesCounted'
  BY <1>0 DEF FitInv
<1>1. ASSUME NEW w \in Workers, NEW u \in Users, SendOne(w, u) \/ SupportRequest(w, u)
      PROVE  RowHeld' /\ OneSender' /\ CopiesCounted'
  BY <1>1, FitCompose, ConstantsAssumption DEF SendOne, SupportRequest, Topics, listVars
<1>2. ASSUME NEW w \in Workers, JobNext(w)
      PROVE  RowHeld' /\ OneSender' /\ CopiesCounted'
  <2>1. PICK u \in todo[w] : Compose(w, u, job[w])
    BY <1>2 DEF JobNext
  <2>2. PICK topic \in Topics : topic = job[w] /\ u \in Users
    BY <2>1 DEF FitInv, Shape, TypeOK
  <2>3. pc[w] \in {"idle", "job"} /\ UNCHANGED <<log, now, outcome, copies, faults>>
    BY <1>2 DEF JobNext
  <2> QED BY <2>1, <2>2, <2>3, FitCompose
<1>3. ASSUME NEW w \in Workers, Check(w) \/ SesSend(w)
      PROVE  RowHeld' /\ OneSender' /\ CopiesCounted'
  BY <1>3, FitAttempt
<1>4. ASSUME NEW w \in Workers, LogWrite(w) \/ Settle(w)
      PROVE  RowHeld' /\ OneSender' /\ CopiesCounted'
  BY <1>4, FitRecord
<1>5. ASSUME NEW w \in Workers, Claim(w)
      PROVE  RowHeld' /\ OneSender' /\ CopiesCounted'
  BY <1>5, FitClaim
<1>6. ASSUME NEW w \in Workers,
             \/ \E topic \in Topics, users \in SUBSET Users : StartList(w, topic, users)
             \/ StartSweep(w) \/ SweepOver(w) \/ Crash(w)
      PROVE  RowHeld' /\ OneSender' /\ CopiesCounted'
  BY <1>6, FitRest
<1>7. ASSUME UNCHANGED <<mailVars, localVars, copies, faults>>
      PROVE  RowHeld' /\ OneSender' /\ CopiesCounted'
  <2>1. RowHeld' /\ OneSender'
    BY <1>7 DEF FitInv, RowHeld, OneSender, mailVars, localVars, listVars
  <2>2. \A x \in Ids : Open(x)' => Open(x)
    BY <1>7 DEF Open, Issued, mailVars, localVars
  <2> QED BY <1>7, <2>1, <2>2, CopiesKept DEF FitInv
<1>8. CASE (\E u \in Users : Suppress(u) \/ \E k \in Kinds : SwitchOff(u, k))
           \/ (\E u \in Members, k \in Kinds : SwitchOn(u, k)) \/ Tick \/ UNCHANGED vars
  BY <1>7, <1>8 DEF Suppress, SwitchOff, SwitchOn, Tick, vars
<1> QED BY Forms, <1>1, <1>2, <1>3, <1>4, <1>5, <1>6, <1>8

-----------------------------------------------------------------------------
(* Theorems *)

\* Every reachable state has the shape: types, numbered messages, and the rows
\* and reads a retry rests on.
THEOREM ShapeHolds == Spec => []Shape
<1>1. Init => Shape
  BY ShapeInit
<1>2. Shape /\ [Next]_vars => Shape'
  BY ShapeStep
<1> QED BY <1>1, <1>2, PTL DEF Spec

\* The mail queue's variables keep their types.
THEOREM TypeCorrect == Spec => []TypeOK
<1>1. Shape => TypeOK
  BY DEF Shape
<1> QED BY <1>1, ShapeHolds, PTL

\* A row left as failed always carries the date of its next retry, and is not
\* tried more often than retryRow() allows.
THEOREM FailedRowsAreScheduled == Spec => []FailedIsScheduled
<1>1. Shape => FailedIsScheduled
  BY ConstantsAssumption DEF Shape, RowsAreDue, FailedIsScheduled, Never
<1> QED BY <1>1, ShapeHolds, PTL

\* Nothing goes to a bounced or complaining address except what was already
\* past isSuppressed() when the suppression landed.
THEOREM StoppedAddresses == Spec => []StoppedMeansStopped
<1>1. Init => GraceCovers
  <2>1. Init => \A u \in Users : Posting(u) = {}
    BY DEF Init, Posting
  <2> QED BY <2>1, FS_EmptySet DEF Init, GraceCovers
<1>2. Shape /\ GraceCovers /\ [Next]_vars => GraceCovers'
  BY GraceStep
<1>3. Shape /\ GraceCovers => StoppedMeansStopped
  <2> SUFFICES ASSUME Shape, GraceCovers, NEW u \in Users PROVE grace[u] >= 0
    BY DEF StoppedMeansStopped
  <2>1. Cardinality(Posting(u)) \in Nat /\ grace[u] \in Int
    BY PostingFinite DEF Shape, TypeOK
  <2> QED BY <2>1 DEF GraceCovers
<1> QED BY <1>1, <1>2, <1>3, ShapeHolds, PTL DEF Spec

\* Where a retry sweep ends within LEASE_MINUTES, the claim of retryRow() keeps
\* two replicas from sending one message twice: a second copy costs a fault.
THEOREM SecondCopies ==
  ASSUME SweepsFit
  PROVE  Spec => []SecondCopyNeedsACrash
<1>1. Init => FitInv
  <2> SUFFICES ASSUME Init PROVE FitInv
      OBVIOUS
  <2>1. Shape
    BY ShapeInit
  <2>2. SweepAge /\ RowHeld /\ OneSender
    BY DEF Init, SweepAge, RowHeld, OneSender, Sending
  <2>3. CopiesCounted
    <3>1. \A m \in Ids : Open(m)
      BY DEF Init, Open, Issued
    <3> QED BY <3>1 DEF Init, CopiesCounted
  <2> QED BY <2>1, <2>2, <2>3 DEF FitInv
<1>2. FitInv /\ [Next]_vars => FitInv'
  BY FitStep
<1>3. FitInv => SecondCopyNeedsACrash
  <2> SUFFICES ASSUME FitInv, NEW m \in Ids PROVE copies[m] <= 1 + faults
    BY DEF SecondCopyNeedsACrash
  <2>1. copies[m] \in Nat /\ faults \in Nat
    BY DEF FitInv, Shape, TypeOK
  <2> QED BY <2>1 DEF FitInv, CopiesCounted
<1> QED BY <1>1, <1>2, <1>3, PTL DEF Spec

=============================================================================
