----------------------------- MODULE MailQueue -----------------------------
(***************************************************************************)
(* Outgoing mail: MailService (one attempt, its log row, the retry sweep), *)
(* the scheduler's mailings, support requests, and what stops mail to an   *)
(* address: bounces, complaints, unsubscribes and preferences.             *)
(*                                                                         *)
(* A worker is a request, a webhook or a cron job on either replica that   *)
(* is sending mail.  The checks, the call to SES and the write of the      *)
(* outcome are steps of their own.  A message is one call of sendTo(); its *)
(* row in MailLog has the message's id.                                    *)
(***************************************************************************)
EXTENDS Integers, FiniteSets

CONSTANTS
    Users,          \* addresses
    Mailbox,        \* the support mailbox, one of them
    Workers,
    MaxMessages,    \* bound: calls of sendTo()
    MaxRetries,     \* MAX_MAIL_RETRIES
    Backoff,        \* BACKOFF_MINUTES, indexed by the attempt that failed
    Lease,          \* LEASE_MINUTES
    SweepSpan,      \* the longest a retry sweep may run
    MaxFaults,      \* bound: log writes that fail and workers that die
    MaxChanges      \* bound: addresses suppressed and preferences changed

ASSUME ConstantsAssumption ==
    /\ Mailbox \in Users /\ IsFiniteSet(Workers)
    /\ MaxMessages \in Nat /\ MaxRetries \in Nat \ {0} /\ MaxFaults \in Nat
    /\ Backoff \in [1..MaxRetries -> Nat \ {0}]
    /\ Lease \in Nat /\ SweepSpan \in Nat /\ MaxChanges \in Nat

VARIABLES
    clock,
    suppressed,     \* MailSuppression
    wanted,         \* NotificationPreference: <<user, kind>> switched on
    message,        \* [user, topic] of every call of sendTo() so far
    log,            \* MailLog: [status, attempts, retryAt], or NoRow
    pc, job, todo, now, due, current, attempts, outcome,    \* locals of each worker
    copies,         \* history: times SES took a message
    grace,          \* history: copies that may still go out to a suppressed user
    faults, changes

mailVars == <<message, log>>
stopVars == <<suppressed, wanted>>
listVars == <<job, todo, now, due>>
localVars == <<pc, listVars, current, attempts, outcome>>
vars == <<clock, stopVars, mailVars, localVars, copies, grace, faults, changes>>

-----------------------------------------------------------------------------

\* MailKind; the first needs nobody's consent.
Kinds == {"transactional", "templateStatus", "daily", "weekly", "productNews"}

\* What a message is about, as far as sending it depends on that.
Topics == {"account", "decision", "support", "ack", "daily", "weekly", "onboarding"}

KindOf(topic) ==
    CASE topic = "decision" -> "templateStatus"
      [] topic = "onboarding" -> "productNews"
      [] topic \in {"daily", "weekly"} -> topic
      [] OTHER -> "transactional"

\* Those with an account, and so with preferences.
Members == Users \ {Mailbox}

\* The schema's defaults, which a user without a row has.
Defaults == {"templateStatus", "daily"}

\* A null date.
Never == -1

Status == {"sent", "failed", "suppressed", "skipped", "abandoned"}

NoRow == [status |-> "absent", attempts |-> 0, retryAt |-> Never]

Row == [status: Status, attempts: Nat, retryAt: Nat \cup {Never}] \cup {NoRow}

Ids == 1..MaxMessages

Issued == DOMAIN message

UserOf(m) == message[m].user

Kind(m) == KindOf(message[m].topic)

Pc == {"idle", "job", "rows", "checking", "posting", "recording", "settling"}

\* A row as the sweep read it.
Snapshot == [id: Ids, attempts: Nat]

TypeOK ==
    /\ clock \in Nat
    /\ suppressed \in SUBSET Users
    /\ wanted \in SUBSET (Members \X Kinds)
    /\ Issued \in SUBSET Ids
    /\ message \in [Issued -> [user: Users, topic: Topics]]
    /\ log \in [Ids -> Row]
    /\ pc \in [Workers -> Pc]
    /\ job \in [Workers -> Topics]
    /\ todo \in [Workers -> SUBSET Users]
    /\ now \in [Workers -> Nat]
    /\ due \in [Workers -> SUBSET Snapshot]
    /\ current \in [Workers -> Ids \cup {0}]
    /\ attempts \in [Workers -> Nat]
    /\ outcome \in [Workers -> Status \cup {"none"}]
    /\ copies \in [Ids -> Nat]
    /\ grace \in [Users -> Int]
    /\ faults \in Nat /\ changes \in Nat

Init ==
    /\ clock = 0
    /\ suppressed = {}
    /\ wanted = Members \X Defaults
    /\ message = <<>>
    /\ log = [m \in Ids |-> NoRow]
    /\ pc = [w \in Workers |-> "idle"]
    /\ job = [w \in Workers |-> "account"]
    /\ todo = [w \in Workers |-> {}]
    /\ now = [w \in Workers |-> 0]
    /\ due = [w \in Workers |-> {}]
    /\ current = [w \in Workers |-> 0]
    /\ attempts = [w \in Workers |-> 0]
    /\ outcome = [w \in Workers |-> "none"]
    /\ copies = [m \in Ids |-> 0]
    /\ grace = [u \in Users |-> 0]
    /\ faults = 0 /\ changes = 0

-----------------------------------------------------------------------------
(* What stops mail *)

Change == changes < MaxChanges /\ changes' = changes + 1

\* Attempts already past the check are not called back.
Suppress(u) ==
    /\ u \notin suppressed
    /\ suppressed' = suppressed \cup {u}
    /\ grace' = [grace EXCEPT ![u] = Cardinality(
                   {w \in Workers : pc[w] = "posting" /\ UserOf(current[w]) = u})]
    /\ Change
    /\ UNCHANGED <<clock, wanted, mailVars, localVars, copies, faults>>

SwitchOff(u, k) ==
    /\ <<u, k>> \in wanted
    /\ wanted' = wanted \ {<<u, k>>}
    /\ Change
    /\ UNCHANGED <<clock, suppressed, mailVars, localVars, copies, grace, faults>>

SwitchOn(u, k) ==
    /\ k # "transactional" /\ <<u, k>> \notin wanted
    /\ wanted' = wanted \cup {<<u, k>>}
    /\ Change
    /\ UNCHANGED <<clock, suppressed, mailVars, localVars, copies, grace, faults>>

\* SES reports a permanent bounce or a complaint.
SesEvents(u) == Suppress(u)

\* The link in a mail: one kind, or all of them.
ApplyUnsubscribe(u, k) ==
    \/ k = "all" /\ Suppress(u)
    \/ k # "all" /\ SwitchOff(u, k)

UpdatePreferences(u, k) == SwitchOff(u, k) \/ SwitchOn(u, k)

Wants(u, k) == k = "transactional" \/ <<u, k>> \in wanted

-----------------------------------------------------------------------------
(* One attempt: isSuppressed(), wants(), SES *)

\* sendTo() begins: the next message is this worker's.
Compose(w, u, topic) ==
    LET m == Cardinality(Issued) + 1
    IN  /\ m \in Ids
        /\ message' = [i \in 1..m |-> IF i = m THEN [user |-> u, topic |-> topic]
                                      ELSE message[i]]
        /\ current' = [current EXCEPT ![w] = m]
        /\ attempts' = [attempts EXCEPT ![w] = 1]
        /\ pc' = [pc EXCEPT ![w] = "checking"]

\* The outcome is known: a first send is recorded, a retry settled.
Conclude(w, result) ==
    /\ outcome' = [outcome EXCEPT ![w] = result]
    /\ pc' = [pc EXCEPT ![w] = IF attempts[w] = 1 THEN "recording" ELSE "settling"]

\* What the checks before a send say: isSuppressed(), then wants().
Refusal(m) ==
    CASE UserOf(m) \in suppressed -> "suppressed"
      [] UserOf(m) \notin suppressed /\ ~Wants(UserOf(m), Kind(m)) -> "skipped"
      [] OTHER -> "none"

\* Mutant: a retry trusts the check of the first attempt.
Check_FirstOnly(w) ==
    /\ pc[w] = "checking"
    /\ \/ /\ Refusal(current[w]) # "none" /\ attempts[w] = 1
          /\ Conclude(w, Refusal(current[w]))
       \/ /\ Refusal(current[w]) = "none" \/ attempts[w] > 1
          /\ pc' = [pc EXCEPT ![w] = "posting"]
          /\ UNCHANGED outcome
    /\ UNCHANGED <<clock, stopVars, mailVars, listVars, current, attempts, copies, grace,
                   faults, changes>>

\* attempt() up to the call of SES.
Check(w) ==
    /\ pc[w] = "checking"
    /\ \/ /\ Refusal(current[w]) # "none"
          /\ Conclude(w, Refusal(current[w]))
       \/ /\ Refusal(current[w]) = "none"
          /\ pc' = [pc EXCEPT ![w] = "posting"]
          /\ UNCHANGED outcome
    /\ UNCHANGED <<clock, stopVars, mailVars, listVars, current, attempts, copies, grace,
                   faults, changes>>

SesSend(w) ==
    LET m == current[w]
        u == UserOf(m)
    IN  /\ pc[w] = "posting"
        /\ \/ /\ Conclude(w, "sent")
              /\ copies' = [copies EXCEPT ![m] = @ + 1]
              /\ grace' = [grace EXCEPT ![u] = IF u \in suppressed THEN @ - 1 ELSE @]
           \/ Conclude(w, "failed") /\ UNCHANGED <<copies, grace>>
        /\ UNCHANGED <<clock, stopVars, mailVars, listVars, current, attempts, faults, changes>>

-----------------------------------------------------------------------------
(* A first send and its log row *)

\* nextRetryAt(): null once there are no waits left.
NextRetryAt(tries, at) == IF tries \in DOMAIN Backoff THEN at + Backoff[tries] ELSE Never

Idle(w) ==
    /\ pc' = [pc EXCEPT ![w] = "idle"]
    /\ job' = [job EXCEPT ![w] = "account"]
    /\ todo' = [todo EXCEPT ![w] = {}]
    /\ now' = [now EXCEPT ![w] = 0]
    /\ due' = [due EXCEPT ![w] = {}]
    /\ current' = [current EXCEPT ![w] = 0]
    /\ attempts' = [attempts EXCEPT ![w] = 0]
    /\ outcome' = [outcome EXCEPT ![w] = "none"]

\* On to the rest of the list, if there is any.
Onward(w, label) ==
    /\ pc' = [pc EXCEPT ![w] = label]
    /\ current' = [current EXCEPT ![w] = 0]
    /\ attempts' = [attempts EXCEPT ![w] = 0]
    /\ outcome' = [outcome EXCEPT ![w] = "none"]
    /\ UNCHANGED listVars

\* Who is left to write to: a support request that was not delivered is not
\* acknowledged, anything else goes on to the next recipient.
Rest(w) ==
    IF message[current[w]].topic = "support" /\ outcome[w] # "sent" THEN {} ELSE todo[w]

\* log(). A row that cannot be written is only warned about.
LogWrite(w) ==
    /\ pc[w] = "recording"
    /\ \/ /\ log' = [log EXCEPT ![current[w]] =
               [status |-> outcome[w], attempts |-> 1,
                retryAt |-> IF outcome[w] = "failed" THEN NextRetryAt(1, clock) ELSE Never]]
          /\ UNCHANGED faults
       \/ /\ faults < MaxFaults /\ faults' = faults + 1
          /\ UNCHANGED log
    /\ IF Rest(w) = {} THEN Idle(w) ELSE Onward(w, "job")
    /\ UNCHANGED <<clock, stopVars, message, copies, grace, changes>>

-----------------------------------------------------------------------------
(* What sends mail *)

\* The bound on messages leaves room for n more than are already listed.
Room(n) ==
    Cardinality(Issued) + Cardinality({p \in Workers \X Users : p[2] \in todo[p[1]]}) + n
        <= MaxMessages

\* A list of people is about to be sent one message each.
StartList(w, topic, users) ==
    /\ pc[w] = "idle"
    /\ users # {} /\ Room(Cardinality(users))
    /\ pc' = [pc EXCEPT ![w] = "job"]
    /\ job' = [job EXCEPT ![w] = topic]
    /\ todo' = [todo EXCEPT ![w] = users]
    /\ UNCHANGED <<clock, stopVars, mailVars, now, due, current, attempts, outcome, copies, grace,
                   faults, changes>>

SendOne(w, u) ==
    /\ pc[w] = "idle" /\ Room(1)
    /\ Compose(w, u, "account")
    /\ UNCHANGED <<clock, stopVars, log, listVars, outcome, copies, grace, faults, changes>>

\* A key was made or revoked, an endpoint switched off, a WABA connected.
MailOwner(w, u) == SendOne(w, u)

\* A WABA was disconnected, deleted or banned, or its token refused: everyone
\* who connected it, with each sent the same message.
MailConnections(w) == StartList(w, "account", Members)

\* Meta decided on a template, a number or a name: the same people.
MailDecision(w) == StartList(w, "decision", Members)

\* A subscription was charged, not paid or cancelled.
MailSubscriber(w, u) == SendOne(w, u)

\* An invoice, to the address on it.
MailInvoice(w, u) == SendOne(w, u)

\* An operator's notice to everyone.
Broadcast(w) == StartList(w, "account", Members)

\* sendDailySummary() and sendWeeklySummary() read who has them switched on, and
\* pass over those with nothing to report.
MailSummary(w, k) ==
    \E active \in SUBSET {u \in Members : <<u, k>> \in wanted} : StartList(w, k, active)

DailySummary(w) == MailSummary(w, "daily")

WeeklySummary(w) == MailSummary(w, "weekly")

\* sendStalledOnboarding(): MailLog is the record of who had it.
MailOnboarding(w) ==
    StartList(w, "onboarding",
      {u \in Members : \A m \in Issued :
         ~(message[m] = [user |-> u, topic |-> "onboarding"] /\ log[m] # NoRow)})

\* support(): to the mailbox first, and an acknowledgement once it is there.
SupportRequest(w, u) ==
    /\ pc[w] = "idle" /\ Room(2)
    /\ Compose(w, Mailbox, "support")
    /\ job' = [job EXCEPT ![w] = "ack"]
    /\ todo' = [todo EXCEPT ![w] = {u}]
    /\ UNCHANGED <<clock, stopVars, log, now, due, outcome, copies, grace, faults, changes>>

JobNext(w) ==
    /\ pc[w] = "job"
    /\ \E u \in todo[w] :
         /\ Compose(w, u, job[w])
         /\ todo' = [todo EXCEPT ![w] = @ \ {u}]
    /\ UNCHANGED <<clock, stopVars, log, job, now, due, outcome, copies, grace, faults, changes>>

-----------------------------------------------------------------------------
(* retryFailed() *)

DueBy(m, t) == log[m].status = "failed" /\ log[m].retryAt # Never /\ log[m].retryAt <= t

StartSweep(w) ==
    /\ pc[w] = "idle"
    /\ \E m \in Ids : DueBy(m, clock)
    /\ pc' = [pc EXCEPT ![w] = "rows"]
    /\ now' = [now EXCEPT ![w] = clock]
    /\ due' = [due EXCEPT ![w] =
         {[id |-> m, attempts |-> log[m].attempts] : m \in {i \in Ids : DueBy(i, clock)}}]
    /\ UNCHANGED <<clock, stopVars, mailVars, job, todo, current, attempts, outcome, copies, grace,
                   faults, changes>>

\* Mutant: the claim does not look at the date.
CanClaim_StatusOnly(w, m) == log[m].status = "failed"

\* The compare-and-set of retryRow(), on the date the sweep began with.
CanClaim(w, m) == DueBy(m, now[w])

Claim(w) ==
    /\ pc[w] = "rows"
    /\ \E row \in due[w] :
         /\ due' = [due EXCEPT ![w] = @ \ {row}]
         /\ IF CanClaim(w, row.id)
            THEN /\ log' = [log EXCEPT ![row.id].retryAt = now[w] + Lease]
                 /\ current' = [current EXCEPT ![w] = row.id]
                 /\ attempts' = [attempts EXCEPT ![w] = row.attempts + 1]
                 /\ pc' = [pc EXCEPT ![w] = "checking"]
            ELSE UNCHANGED <<log, current, attempts, pc>>
    /\ UNCHANGED <<clock, stopVars, message, job, todo, now, outcome, copies, grace,
                   faults, changes>>

\* Mutant: a row out of retries is left waiting.
Settled_Waits(w) ==
    LET at == NextRetryAt(attempts[w], now[w])
    IN  CASE outcome[w] # "failed" -> [status |-> outcome[w], retryAt |-> Never]
          [] outcome[w] = "failed" -> [status |-> "failed", retryAt |-> at]

\* How a retried row is left: settled, given up on, or put back.
Settled(w) ==
    LET at == IF attempts[w] > MaxRetries THEN Never ELSE NextRetryAt(attempts[w], now[w])
    IN  CASE outcome[w] # "failed" -> [status |-> outcome[w], retryAt |-> Never]
          [] outcome[w] = "failed" /\ at = Never -> [status |-> "abandoned", retryAt |-> Never]
          [] OTHER -> [status |-> "failed", retryAt |-> at]

Settle(w) ==
    /\ pc[w] = "settling"
    /\ log' = [log EXCEPT ![current[w]] =
         [status |-> Settled(w).status, attempts |-> attempts[w], retryAt |-> Settled(w).retryAt]]
    /\ Onward(w, "rows")
    /\ UNCHANGED <<clock, stopVars, message, copies, grace, faults, changes>>

SweepOver(w) ==
    /\ pc[w] = "rows" /\ due[w] = {}
    /\ Idle(w)
    /\ UNCHANGED <<clock, stopVars, mailVars, copies, grace, faults, changes>>

-----------------------------------------------------------------------------

\* The pod dies in the middle of a send, a job or a sweep.
Crash(w) ==
    /\ pc[w] # "idle"
    /\ faults < MaxFaults /\ faults' = faults + 1
    /\ Idle(w)
    /\ UNCHANGED <<clock, stopVars, mailVars, copies, grace, changes>>

Sweeping(w) == now[w] # 0

\* Minutes pass, while some row waits for its date, in calls of SES and between
\* sends; a sweep is no longer than SweepSpan.
Tick ==
    /\ \A w \in Workers : pc[w] \in {"idle", "posting"}
    /\ \E m \in Ids : log[m].status = "failed" /\ log[m].retryAt > clock
    /\ \A w \in Workers : Sweeping(w) => clock < now[w] + SweepSpan
    /\ clock' = clock + 1
    /\ UNCHANGED <<stopVars, mailVars, localVars, copies, grace, faults, changes>>

Begin(w) ==
    \/ \E u \in Members :
         MailOwner(w, u) \/ MailSubscriber(w, u) \/ MailInvoice(w, u) \/ SupportRequest(w, u)
    \/ MailConnections(w) \/ MailDecision(w) \/ Broadcast(w) \/ MailOnboarding(w)
    \/ DailySummary(w) \/ WeeklySummary(w)

Step(w) ==
    \/ JobNext(w)
    \/ Check(w) \/ SesSend(w) \/ LogWrite(w)
    \/ Claim(w) \/ Settle(w) \/ SweepOver(w)

Next ==
    \/ \E w \in Workers : Begin(w) \/ StartSweep(w) \/ Step(w) \/ Crash(w)
    \/ \E u \in Users : SesEvents(u)
    \/ \E u \in Members, k \in Kinds \cup {"all"} : ApplyUnsubscribe(u, k)
    \/ \E u \in Members, k \in Kinds : UpdatePreferences(u, k)
    \/ Tick

Spec == Init /\ [][Next]_vars

-----------------------------------------------------------------------------
(* Properties *)

\* A retry sweep ends before the first row it claimed falls due again.
SweepsFit == SweepSpan < Lease

\* "A retry cannot skip a suppression that landed in between": once an address
\* has bounced or complained, only attempts already past the check still go out.
StoppedMeansStopped == \A u \in Users : grace[u] >= 0

\* "Two pods pick up the same failed row in the same tick and the recipient
\* gets it twice" is what the claim is for: a second copy costs a crash.
SecondCopyNeedsACrash == \A m \in Ids : copies[m] <= 1 + faults

\* Every failed message is retried until it is given up on: whatever dies or
\* refuses, a row left as failed carries the date on which a sweep takes it up,
\* and no row is tried more often than retryRow() allows.
FailedIsScheduled ==
    \A m \in Ids :
      /\ log[m].status = "failed" => log[m].retryAt # Never
      /\ log[m].attempts <= MaxRetries + 1

=============================================================================
