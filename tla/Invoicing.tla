----------------------------- MODULE Invoicing -----------------------------
(***************************************************************************)
(* What a charge leaves behind: the second half of handleWebhook()         *)
(* (payment row, invoice and receipt, overage) and the sweep that mails    *)
(* the documents nobody was sent.                                          *)
(*                                                                         *)
(* A worker is a webhook being handled, a sweep or an operator's resend,   *)
(* on any replica.  Every statement is a step.  The transaction that       *)
(* raises a document holds the row of its year's counter from the draw to  *)
(* the commit; what it writes is seen by the others only then.             *)
(***************************************************************************)
EXTENDS Integers, FiniteSets

CONSTANTS
    Events,         \* ids of webhook events that carry a payment
    Charged,        \* those that are subscription.charged on a mandate of the
                    \* organisation's own (an agency's mandate bills no overage)
    Payments,       \* captured debits
    PaymentOf,      \* the payment each event carries
    PaidAt,         \* when each was taken, in months since January of a year 0
    Undeliverable,  \* payments of customers whose address is on the suppression list
    Workers,
    Nil,
    Limit,          \* deliverPending()'s limit
    MaxFaults       \* bound: how many statements, sends and processes fail

ASSUME ConstantsAssumption ==
    /\ Nil \notin Events /\ Nil \notin Payments /\ Nil \notin Workers
    /\ Charged \subseteq Events
    /\ PaymentOf \in [Events -> Payments]
    /\ \A e, f \in Charged : PaymentOf[e] = PaymentOf[f] => e = f
    /\ PaidAt \in [Payments -> Nat]
    /\ Undeliverable \subseteq Payments
    /\ Limit \in Nat \ {0} /\ MaxFaults \in Nat

VARIABLES
    seen,               \* SubscriptionEvent
    recorded,           \* SubscriptionPayment
    counter,            \* InvoiceCounter.nextSequence; 1 where there is no row
    receiptCounter,     \* ReceiptCounter.nextSequence
    locked,             \* the worker whose transaction holds a year's counter
    invoice, receipt,   \* the sequence number raised for a payment, or 0
    emailed,            \* invoices with an emailedAt
    receiptEmailed,     \* receipts with an emailedAt
    addons,             \* times overage was billed on the back of a payment
    pc, event, payment, sequence, todo,     \* locals of each worker
    faults

bookVars == <<counter, receiptCounter, locked, invoice, receipt>>
mailVars == <<emailed, receiptEmailed>>
localVars == <<pc, event, payment, sequence, todo>>
vars == <<seen, recorded, bookVars, mailVars, addons, localVars, faults>>

-----------------------------------------------------------------------------

\* financialYear(): January to March belong to the year begun the April before.
FinancialYear(month) ==
    IF month % 12 >= 3 THEN month \div 12 ELSE month \div 12 - 1

YearOf == [p \in Payments |-> FinancialYear(PaidAt[p])]

Years == {YearOf[p] : p \in Payments}

Pc == {"idle", "recorded", "looking", "drawing", "writing", "committing",
       "mailing", "stamping", "receipting", "charging", "sweeping"}

TypeOK ==
    /\ seen \in SUBSET Events
    /\ recorded \in SUBSET Payments
    /\ counter \in [Years -> Nat \ {0}]
    /\ receiptCounter \in [Years -> Nat \ {0}]
    /\ locked \in [Years -> Workers \cup {Nil}]
    /\ invoice \in [Payments -> Nat]
    /\ receipt \in [Payments -> Nat]
    /\ emailed \in SUBSET Payments
    /\ receiptEmailed \in SUBSET Payments
    /\ addons \in [Payments -> Nat]
    /\ pc \in [Workers -> Pc]
    /\ event \in [Workers -> Events \cup {Nil}]
    /\ payment \in [Workers -> Payments \cup {Nil}]
    /\ sequence \in [Workers -> Nat]
    /\ todo \in [Workers -> SUBSET Payments]
    /\ faults \in Nat

Init ==
    /\ seen = {} /\ recorded = {}
    /\ counter = [y \in Years |-> 1]
    /\ receiptCounter = [y \in Years |-> 1]
    /\ locked = [y \in Years |-> Nil]
    /\ invoice = [p \in Payments |-> 0]
    /\ receipt = [p \in Payments |-> 0]
    /\ emailed = {} /\ receiptEmailed = {}
    /\ addons = [p \in Payments |-> 0]
    /\ pc = [w \in Workers |-> "idle"]
    /\ event = [w \in Workers |-> Nil]
    /\ payment = [w \in Workers |-> Nil]
    /\ sequence = [w \in Workers |-> 0]
    /\ todo = [w \in Workers |-> {}]
    /\ faults = 0

-----------------------------------------------------------------------------

Goto(w, label) ==
    /\ pc' = [pc EXCEPT ![w] = label]
    /\ UNCHANGED <<event, payment, sequence, todo>>

Done(w) ==
    /\ pc' = [pc EXCEPT ![w] = "idle"]
    /\ event' = [event EXCEPT ![w] = Nil]
    /\ payment' = [payment EXCEPT ![w] = Nil]
    /\ sequence' = [sequence EXCEPT ![w] = 0]
    /\ todo' = [todo EXCEPT ![w] = {}]

\* issueFor() and deliver() catch what goes wrong in them, and their caller
\* goes on: handleWebhook() to the overage, deliverPending() to the next row.
\* (An operator's resend ends like a pass with no row left.)
AfterMail(w) == IF event[w] = Nil THEN "sweeping" ELSE "charging"

Fault == faults < MaxFaults /\ faults' = faults + 1

\* The counter's row is let go at the end of the transaction, however it ends.
Unlock(w) == locked' = [y \in Years |-> IF locked[y] = w THEN Nil ELSE locked[y]]

\* Mutant: a repeat delivery is handled again.
WebhookRecord_Repeats(w, e) ==
    /\ pc[w] = "idle"
    /\ addons[PaymentOf[e]] < 2
    /\ seen' = seen \cup {e}
    /\ pc' = [pc EXCEPT ![w] = "recorded"]
    /\ event' = [event EXCEPT ![w] = e]
    /\ payment' = [payment EXCEPT ![w] = PaymentOf[e]]
    /\ UNCHANGED <<sequence, todo, recorded, bookVars, mailVars, addons, faults>>

\* handleWebhook(): the event id is written first, a duplicate stops there.
WebhookRecord(w, e) ==
    /\ pc[w] = "idle"
    /\ e \notin seen
    /\ seen' = seen \cup {e}
    /\ pc' = [pc EXCEPT ![w] = "recorded"]
    /\ event' = [event EXCEPT ![w] = e]
    /\ payment' = [payment EXCEPT ![w] = PaymentOf[e]]
    /\ UNCHANGED <<sequence, todo, recorded, bookVars, mailVars, addons, faults>>

\* recordPayment(): an upsert by payment id.
RecordPayment(w) ==
    /\ pc[w] = "recorded"
    /\ recorded' = recorded \cup {payment[w]}
    /\ Goto(w, "looking")
    /\ UNCHANGED <<seen, bookVars, mailVars, addons, faults>>

\* A payment that cannot be recorded is not invoiced either.
PaymentRefused(w) ==
    /\ pc[w] = "recorded"
    /\ Fault
    /\ Goto(w, "charging")
    /\ UNCHANGED <<seen, recorded, bookVars, mailVars, addons>>

-----------------------------------------------------------------------------
(* InvoiceService.record() *)

LookUp(w) ==
    /\ pc[w] = "looking"
    /\ Goto(w, IF invoice[payment[w]] = 0 THEN "drawing" ELSE "mailing")
    /\ UNCHANGED <<seen, recorded, bookVars, mailVars, addons, faults>>

\* Mutant: the counter is read without being locked.
Draw_Unlocked(w) ==
    LET y == YearOf[payment[w]]
    IN  /\ pc[w] = "drawing"
        /\ sequence' = [sequence EXCEPT ![w] = counter[y]]
        /\ pc' = [pc EXCEPT ![w] = "writing"]
        /\ UNCHANGED <<locked, counter, receiptCounter, invoice, receipt, event, payment, todo>>
        /\ UNCHANGED <<seen, recorded, mailVars, addons, faults>>

\* nextSequence(): one statement that increments and returns, and locks the
\* row for anyone arriving behind until the transaction ends.
Draw(w) ==
    LET y == YearOf[payment[w]]
    IN  /\ pc[w] = "drawing"
        /\ locked[y] = Nil
        /\ locked' = [locked EXCEPT ![y] = w]
        /\ sequence' = [sequence EXCEPT ![w] = counter[y]]
        /\ pc' = [pc EXCEPT ![w] = "writing"]
        /\ UNCHANGED <<counter, receiptCounter, invoice, receipt, event, payment, todo>>
        /\ UNCHANGED <<seen, recorded, mailVars, addons, faults>>

WriteInvoice(w) ==
    /\ pc[w] = "writing"
    /\ invoice[payment[w]] = 0
    /\ Goto(w, "committing")
    /\ UNCHANGED <<seen, recorded, bookVars, mailVars, addons, faults>>

\* The payment id is unique: the transaction that comes second rolls back, and
\* its caller goes on with the invoice the first one wrote.
InvoiceExists(w) ==
    /\ pc[w] = "writing"
    /\ invoice[payment[w]] # 0
    /\ Unlock(w)
    /\ Goto(w, "mailing")
    /\ UNCHANGED <<counter, receiptCounter, invoice, receipt>>
    /\ UNCHANGED <<seen, recorded, mailVars, addons, faults>>

\* receipts.recordIn() in the same transaction, and the commit.
Commit(w) ==
    LET p == payment[w]
        y == YearOf[p]
    IN  /\ pc[w] = "committing"
        /\ invoice' = [invoice EXCEPT ![p] = sequence[w]]
        /\ receipt' = [receipt EXCEPT ![p] = receiptCounter[y]]
        /\ counter' = [counter EXCEPT ![y] = sequence[w] + 1]
        /\ receiptCounter' = [receiptCounter EXCEPT ![y] = receiptCounter[y] + 1]
        /\ Unlock(w)
        /\ Goto(w, "mailing")
        /\ UNCHANGED <<seen, recorded, mailVars, addons, faults>>

\* A statement fails or the transaction times out: issueFor() logs it.
Rollback(w) ==
    /\ pc[w] \in {"looking", "drawing", "writing", "committing"}
    /\ Fault
    /\ Unlock(w)
    /\ Goto(w, "charging")
    /\ UNCHANGED <<counter, receiptCounter, invoice, receipt>>
    /\ UNCHANGED <<seen, recorded, mailVars, addons>>

-----------------------------------------------------------------------------
(* deliver() and deliverPending() *)

Send(w) ==
    /\ pc[w] = "mailing"
    /\ payment[w] \notin Undeliverable
    /\ Goto(w, "stamping")
    /\ UNCHANGED <<seen, recorded, bookVars, mailVars, addons, faults>>

\* The address is suppressed; or mail is disabled, SES refuses, a stamp cannot
\* be written: what is not stamped yet stays so.
NotSent(w) ==
    /\ pc[w] \in {"mailing", "stamping", "receipting"}
    /\ Goto(w, AfterMail(w))
    /\ \/ pc[w] = "mailing" /\ payment[w] \in Undeliverable /\ UNCHANGED faults
       \/ payment[w] \notin Undeliverable /\ Fault
    /\ UNCHANGED <<seen, recorded, bookVars, mailVars, addons>>

Stamp(w) ==
    /\ pc[w] = "stamping"
    /\ emailed' = emailed \cup {payment[w]}
    /\ Goto(w, "receipting")
    /\ UNCHANGED <<seen, recorded, bookVars, receiptEmailed, addons, faults>>

StampReceipt(w) ==
    /\ pc[w] = "receipting"
    /\ receiptEmailed' = receiptEmailed \cup {payment[w]}
    /\ Goto(w, AfterMail(w))
    /\ UNCHANGED <<seen, recorded, bookVars, emailed, addons, faults>>

\* billOverage(), on subscription.charged only. It never throws.
BillOverage(w) ==
    /\ pc[w] = "charging"
    /\ \/ event[w] \in Charged
          /\ addons' = [addons EXCEPT ![payment[w]] = @ + 1]
          /\ UNCHANGED faults
       \/ event[w] \in Charged /\ Fault /\ UNCHANGED addons
       \/ event[w] \notin Charged /\ UNCHANGED <<addons, faults>>
    /\ Done(w)
    /\ UNCHANGED <<seen, recorded, bookVars, mailVars>>

\* Mutant: the condition on emailedAt is the wrong way round.
Unsent_Sent == {p \in Payments : invoice[p] # 0 /\ p \in emailed}

\* Invoices raised and not sent.
Unsent == {p \in Payments : invoice[p] # 0 /\ p \notin emailed}

\* The oldest of them, as many as one pass takes.
IsBatch(batch) ==
    /\ Cardinality(batch) <= Limit
    /\ Cardinality(batch) = Limit \/ batch = Unsent
    /\ \A p \in batch, q \in Unsent \ batch : PaidAt[p] <= PaidAt[q]

SweepStart(w) ==
    /\ pc[w] = "idle"
    /\ Unsent # {}
    /\ \E batch \in SUBSET Unsent :
         IsBatch(batch) /\ todo' = [todo EXCEPT ![w] = batch]
    /\ pc' = [pc EXCEPT ![w] = "sweeping"]
    /\ UNCHANGED <<event, payment, sequence>>
    /\ UNCHANGED <<seen, recorded, bookVars, mailVars, addons, faults>>

\* An operator sends one invoice again, sent before or not.
ResendInvoice(w, p) ==
    /\ pc[w] = "idle"
    /\ invoice[p] # 0
    /\ pc' = [pc EXCEPT ![w] = "mailing"]
    /\ payment' = [payment EXCEPT ![w] = p]
    /\ UNCHANGED <<event, sequence, todo>>
    /\ UNCHANGED <<seen, recorded, bookVars, mailVars, addons, faults>>

SweepNext(w) ==
    /\ pc[w] = "sweeping"
    /\ \E p \in todo[w] :
         /\ \A q \in todo[w] : PaidAt[p] <= PaidAt[q]
         /\ payment' = [payment EXCEPT ![w] = p]
         /\ todo' = [todo EXCEPT ![w] = @ \ {p}]
    /\ pc' = [pc EXCEPT ![w] = "mailing"]
    /\ UNCHANGED <<event, sequence>>
    /\ UNCHANGED <<seen, recorded, bookVars, mailVars, addons, faults>>

SweepOver(w) ==
    /\ pc[w] = "sweeping"
    /\ todo[w] = {}
    /\ Done(w)
    /\ UNCHANGED <<seen, recorded, bookVars, mailVars, addons, faults>>

-----------------------------------------------------------------------------

\* The process dies between two statements, and its transaction with it; or
\* applyRemote() throws, and the webhook ends there.
Crash(w) ==
    /\ pc[w] # "idle"
    /\ Fault
    /\ Unlock(w)
    /\ Done(w)
    /\ UNCHANGED <<counter, receiptCounter, invoice, receipt>>
    /\ UNCHANGED <<seen, recorded, mailVars, addons>>

Step(w) ==
    \/ RecordPayment(w) \/ PaymentRefused(w)
    \/ LookUp(w) \/ Draw(w) \/ WriteInvoice(w) \/ InvoiceExists(w)
    \/ Commit(w) \/ Rollback(w)
    \/ Send(w) \/ NotSent(w) \/ Stamp(w) \/ StampReceipt(w)
    \/ BillOverage(w) \/ SweepNext(w) \/ SweepOver(w)

Arrive(w) ==
    \/ \E e \in Events : WebhookRecord(w, e)
    \/ SweepStart(w)
    \/ \E p \in Payments : ResendInvoice(w, p)

Next == \E w \in Workers : Arrive(w) \/ Step(w) \/ Crash(w)

Spec == Init /\ [][Next]_vars

\* The sweep runs every hour, a worker that has started keeps running, and one
\* kept waiting for a counter gets it in turn.
Fairness ==
    \A w \in Workers : SF_vars(SweepStart(w)) /\ WF_vars(Step(w)) /\ SF_vars(Draw(w))

FairSpec == Spec /\ Fairness

-----------------------------------------------------------------------------
(* Properties *)

InvoiceBook == INSTANCE DocumentLedger
               WITH Books <- Years, BookOf <- YearOf, number <- invoice, next <- counter

ReceiptBook == INSTANCE DocumentLedger
               WITH Books <- Years, BookOf <- YearOf, number <- receipt,
                    next <- receiptCounter

\* "No gaps, no reuse", "One invoice per debit": whatever webhooks race and
\* whatever transactions roll back, invoices are numbered as an audit expects,
\* and so are receipts in a book of their own.
BooksAreKept == InvoiceBook!Spec /\ ReceiptBook!Spec

\* "A webhook Razorpay retries cannot bill the same cycle twice".
OverageBilledOnce == \A p \in Payments : addons[p] <= 1

\* "Send again the invoices that were raised but never went out": once mail
\* works again, a document that can be delivered is.
EventuallyMailed ==
    \A p \in Payments \ Undeliverable : (invoice[p] # 0) ~> (p \in emailed)

=============================================================================
