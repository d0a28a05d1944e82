------------------------------ MODULE Reports ------------------------------
(***************************************************************************)
(* What the dashboards count: AnalyticsService and MessagingService        *)
(* .analytics() over an organisation's messages and contacts, and          *)
(* AdminService.revenue() and .analytics() over the payments captured.     *)
(*                                                                         *)
(* Time is in parts of a day and goes on while rows are written.  The pod  *)
(* has a time zone, the keys of the charts are days of UTC, and money is   *)
(* counted in days of the billing zone.  The calendar has twelve months of *)
(* DaysPerMonth days.                                                      *)
(***************************************************************************)
EXTENDS Integers, FiniteSets, FiniteSetsExt

CONSTANTS
    Nothing,            \* null
    DayLength,          \* parts of a day
    PodOffsets,         \* zones the pod may be in: parts of a day ahead of UTC
    BillingOffset,      \* INVOICE_TIMEZONE
    DaysPerMonth,
    Beginnings,         \* when a run begins
    MAX_DAYS,           \* 90 in the code: the longest range
    Spans,              \* `days` a dashboard asks for
    Names, Numbers,     \* templates and phone numbers
    MaxRows,            \* bound: messages, contacts, payments
    MaxTime             \* bound: parts of a day that go by

ASSUME ReportsAssumption ==
    /\ DayLength \in Nat \ {0} /\ DaysPerMonth \in Nat \ {0}
    /\ PodOffsets \subseteq Int /\ BillingOffset \in Int
    /\ MAX_DAYS \in Nat \ {0} /\ Beginnings \subseteq Nat /\ MaxRows \in Nat /\ MaxTime \in Nat

VARIABLES
    podOffset, began, now,
    topic,              \* which rows the run writes
    messages,           \* Message
    replies,            \* InboundMessage
    people,             \* Contact
    captured            \* SubscriptionPayment with status captured

reportVars == <<podOffset, began, now, topic, messages, replies, people, captured>>

-----------------------------------------------------------------------------
(* Rows *)

Ranked == [sent |-> 0, delivered |-> 1, read |-> 2, failed |-> 3]

Ids == 1 .. MaxRows

Next1(used) == Cardinality(used) + 1

WriteMessage(name, number) ==
    /\ topic = "messages" /\ Cardinality(messages) < MaxRows
    /\ messages' = messages \cup
         {[id |-> Next1(messages), at |-> now, status |-> "sent", template |-> name,
           number |-> number]}
    /\ UNCHANGED <<podOffset, began, now, topic, replies, people, captured>>

\* StatusUpdateHandler.handle(), one report after the other
StatusArrives(m, status) ==
    /\ m \in messages /\ Ranked[status] > Ranked[m.status]
    /\ messages' = (messages \ {m}) \cup {[m EXCEPT !.status = status]}
    /\ UNCHANGED <<podOffset, began, now, topic, replies, people, captured>>

\* InboundMessageHandler.handle()
WriteReply(number) ==
    /\ topic = "replies" /\ Cardinality(replies) < MaxRows
    /\ replies' = replies \cup {[id |-> Next1(replies), at |-> now, number |-> number]}
    /\ UNCHANGED <<podOffset, began, now, topic, messages, people, captured>>

WriteContact ==
    /\ topic = "contacts" /\ Cardinality(people) < MaxRows
    /\ people' = people \cup
         {[id |-> Next1(people), at |-> now, optedOut |-> FALSE, optedOutAt |-> Nothing]}
    /\ UNCHANGED <<podOffset, began, now, topic, messages, replies, captured>>

\* A row that was opted out before the date was kept has none.
OptOut(c, dated) ==
    /\ c \in people /\ ~ c.optedOut
    /\ people' = (people \ {c}) \cup
         {[c EXCEPT !.optedOut = TRUE, !.optedOutAt = IF dated THEN now ELSE Nothing]}
    /\ UNCHANGED <<podOffset, began, now, topic, messages, replies, captured>>

\* The webhook of a charge: the money moved now or a little earlier, and the
\* provider may not have said when.
CapturePayment(paidAt, amount) ==
    /\ topic = "money" /\ Cardinality(captured) < MaxRows
    /\ captured' = captured \cup
         {[id |-> Next1(captured), createdAt |-> now, paidAt |-> paidAt, amount |-> amount]}
    /\ UNCHANGED <<podOffset, began, now, topic, messages, replies, people>>

Later ==
    /\ now < began + MaxTime
    /\ now' = now + 1
    /\ UNCHANGED <<podOffset, began, topic, messages, replies, people, captured>>

-----------------------------------------------------------------------------
(* AnalyticsService *)

\* dayKey(): toISOString(), so a day of UTC
dayKey(t) == t \div DayLength

Clamped(days) == IF days < 1 THEN 1 ELSE IF days > MAX_DAYS THEN MAX_DAYS ELSE days

\* resolveRange(): setHours(0, 0, 0, 0) is midnight where the pod is.
resolveRange(days) ==
    LET span == Clamped(days)
        midnight == ((now + podOffset) \div DayLength) * DayLength - podOffset
        from == midnight - (span - 1) * DayLength
    IN  [days |-> span, from |-> from, previousFrom |-> from - span * DayLength]

eachDay(range) == {dayKey(range.from + i * DayLength) : i \in 0 .. range.days - 1}

\* messagesIn(), narrowed to the numbers scopeNumbers() gives; Nothing is all.
messagesIn(from, to, numbers) ==
    {m \in messages : /\ m.at >= from /\ (to # Nothing => m.at < to)
                      /\ numbers # Nothing => m.number \in numbers}

\* scopeNumbers(): one number, or all of them
scopeNumbers(number) == IF number # Nothing THEN {number} ELSE Nothing

\* inboundIn()
inboundIn(from, number) ==
    {m \in replies : m.at >= from /\ (number # Nothing => m.number = number)}

OfStatus(rows, statuses) == Cardinality({m \in rows : m.status \in statuses})

countStatuses(rows) ==
    LET reached == OfStatus(rows, {"delivered"}) + OfStatus(rows, {"read"})
    IN  [read |-> OfStatus(rows, {"read"}), failed |-> OfStatus(rows, {"failed"}),
         delivered |-> reached,
         sent |-> OfStatus(rows, {"sent"}) + reached + OfStatus(rows, {"failed"})]

\* What a loop over rows adds to a bucket.  A read counts for its own bar only.
Bucket_Exclusive(rows) ==
    [sent |-> Cardinality(rows), delivered |-> OfStatus(rows, {"delivered"}),
     read |-> OfStatus(rows, {"read"}), failed |-> OfStatus(rows, {"failed"})]

\* "A read message was also delivered."
Bucket(rows) ==
    [sent |-> Cardinality(rows), delivered |-> OfStatus(rows, {"delivered", "read"}),
     read |-> OfStatus(rows, {"read"}), failed |-> OfStatus(rows, {"failed"})]

OnDay(rows, day) == {m \in rows : dayKey(m.at) = day}

\* dailySeries(): a message whose day is no key of the map is left out.
dailySeries(range, rows, inbound) ==
    [day \in eachDay(range) |->
       [bars |-> Bucket(OnDay(rows, day)), inbound |-> Cardinality(OnDay(inbound, day))]]

\* templates(): what names a template, by name
byTemplate(rows) == [name \in Names |-> Bucket({m \in rows : m.template = name})]

\* phoneNumbers()
perNumber(range) ==
    [n \in Numbers |-> Bucket({m \in messagesIn(range.from, Nothing, Numbers) : m.number = n})]

\* rate(), in thousandths
rate(part, whole) == IF whole = 0 THEN 0 ELSE (2000 * part + whole) \div (2 * whole)

\* overview()
overview(days, number) ==
    LET range == resolveRange(days)
        rows == messagesIn(range.from, Nothing, scopeNumbers(number))
        inbound == inboundIn(range.from, number)
        totals == countStatuses(rows)
    IN  [totals |-> totals, series |-> dailySeries(range, rows, inbound),
         inbound |-> Cardinality(inbound),
         previous |-> countStatuses(
            messagesIn(range.previousFrom, range.from, scopeNumbers(number))),
         deliveryRate |-> rate(totals.delivered, totals.sent),
         readRate |-> rate(totals.read, totals.delivered)]

\* contacts(): the running total starts from what was there before the window.
contacts(days) ==
    LET range == resolveRange(days)
        earlier == Cardinality({c \in people : c.at < range.from})
        added(day) == Cardinality({c \in people : c.at >= range.from /\ dayKey(c.at) = day})
    IN  [total |-> Cardinality(people), earlier |-> earlier,
         optedOut |-> Cardinality({c \in people : c.optedOut}),
         undated |-> Cardinality({c \in people : c.optedOut /\ c.optedOutAt = Nothing}),
         series |-> [day \in eachDay(range) |->
            [added |-> added(day),
             total |-> earlier + MapThenSumSet(added, {d \in eachDay(range) : d <= day}),
             optedOut |-> Cardinality({c \in people :
                 /\ c.optedOut /\ c.optedOutAt # Nothing /\ c.optedOutAt >= range.from
                 /\ dayKey(c.optedOutAt) = day})]]]

\* MessagingService.analytics(), of the same rows with code of its own
analytics(days) ==
    LET range == resolveRange(days)
        rows == {m \in messages : m.at >= range.from}
    IN  [sent |-> Cardinality(rows), read |-> OfStatus(rows, {"read"}),
         failed |-> OfStatus(rows, {"failed"}),
         delivered |-> OfStatus(rows, {"delivered"}) + OfStatus(rows, {"read"}),
         series |-> [day \in eachDay(range) |->
            [delivered |-> OfStatus(OnDay(rows, day), {"delivered", "read"}),
             failed |-> OfStatus(OnDay(rows, day), {"failed"})]]]

-----------------------------------------------------------------------------
(* AdminService *)

\* dayKey() of the billing zone, as a number of days
billingDay(t) == (t + BillingOffset) \div DayLength

\* zoned(): the instant a day begins in the billing zone
zoned(day) == day * DayLength - BillingOffset

dayStart(t) == zoned(billingDay(t))

MonthNumber(day) == day \div DaysPerMonth

monthStart(t) == zoned(MonthNumber(billingDay(t)) * DaysPerMonth)

\* 1 January
financialYearStart_January(t) ==
    zoned((MonthNumber(billingDay(t)) \div 12) * 12 * DaysPerMonth)

\* 1 April
financialYearStart(t) ==
    LET month == MonthNumber(billingDay(t))
        startYear == IF (month % 12) + 1 >= 4 THEN month \div 12 ELSE (month \div 12) - 1
    IN  zoned((startYear * 12 + 3) * DaysPerMonth)

MovedAt(p) == IF p.paidAt # Nothing THEN p.paidAt ELSE p.createdAt

Amount(rows) == MapThenSumSet(LAMBDA p : p.amount, rows)

\* revenue(): one query for the year, summed into three windows
revenue ==
    LET year == {p \in captured : MovedAt(p) >= financialYearStart(now)}
    IN  [year |-> Amount(year),
         month |-> Amount({p \in year : MovedAt(p) >= monthStart(now)}),
         day |-> Amount({p \in year : MovedAt(p) >= dayStart(now)})]

emptyDays(from, span) == {billingDay(from + i * DayLength) : i \in 0 .. span - 1}

\* analytics(): the revenue series
revenueSeries(span) ==
    LET from == dayStart(now) - (span - 1) * DayLength
    IN  [day \in emptyDays(from, span) |->
           Amount({p \in captured : MovedAt(p) >= from /\ billingDay(MovedAt(p)) = day})]

-----------------------------------------------------------------------------

ReportsInit ==
    /\ podOffset \in PodOffsets /\ began \in Beginnings /\ now = began
    /\ topic \in {"messages", "replies", "contacts", "money"}
    /\ messages = {} /\ replies = {} /\ people = {} /\ captured = {}

\* Nothing is reported on.
NoReports ==
    /\ podOffset = 0 /\ began = 0 /\ now = 0 /\ topic = "none"
    /\ messages = {} /\ replies = {} /\ people = {} /\ captured = {}

ReportsNext ==
    \/ \E name \in Names \cup {Nothing}, number \in Numbers : WriteMessage(name, number)
    \/ \E m \in messages, status \in DOMAIN Ranked : StatusArrives(m, status)
    \/ \E number \in Numbers : WriteReply(number)
    \/ WriteContact
    \/ \E c \in people, dated \in BOOLEAN : OptOut(c, dated)
    \/ \E paidAt \in {now, now - 1, Nothing}, amount \in {1, 2} : CapturePayment(paidAt, amount)
    \/ Later

-----------------------------------------------------------------------------
(* Properties *)

\* Types
ReportsTypeOK ==
    /\ podOffset \in PodOffsets \cup {0} /\ began \in Beginnings \cup {0}
    /\ now \in began .. began + MaxTime
    /\ \A m \in messages : /\ m.id \in Ids /\ m.at \in began .. now
                           /\ m.status \in DOMAIN Ranked
                           /\ m.template \in Names \cup {Nothing} /\ m.number \in Numbers
    /\ \A m \in replies : m.id \in Ids /\ m.at \in began .. now /\ m.number \in Numbers
    /\ \A c \in people : c.id \in Ids /\ c.at \in began .. now
    /\ \A p \in captured : p.id \in Ids /\ p.createdAt \in began .. now

Total(series, column(_)) == MapThenSumSet(LAMBDA day : column(series[day]), DOMAIN series)

\* Days that are over where the keys are made, but not where the pod is, or the
\* other way round: rows whose key is past the last bucket
Uncharted(rows, range) ==
    {m \in rows : \A day \in eachDay(range) : day < dayKey(m.at)}

\* Each column of the chart of `rows` adds up to the headline, but for the rows
\* past its last day.
ChartAddsUp(days, number) ==
    LET range == resolveRange(days)
        report == overview(days, number)
        rows == messagesIn(range.from, Nothing, scopeNumbers(number))
        off == countStatuses(Uncharted(rows, range))
        late == Uncharted(inboundIn(range.from, number), range)
    IN  /\ Total(report.series, LAMBDA b : b.bars.sent) + off.sent = report.totals.sent
        /\ Total(report.series, LAMBDA b : b.bars.delivered) + off.delivered =
             report.totals.delivered
        /\ Total(report.series, LAMBDA b : b.bars.read) + off.read = report.totals.read
        /\ Total(report.series, LAMBDA b : b.bars.failed) + off.failed = report.totals.failed
        /\ Total(report.series, LAMBDA b : b.inbound) + Cardinality(late) = report.inbound
        /\ podOffset = 0 => off.sent = 0 /\ late = {}

\* Which financial year a day is in, said without its first day
FinancialYearOf(day) == (MonthNumber(day) - 3) \div 12

\* Money: each payment is in the windows of its own day, month and financial year,
\* wherever the zone and the turn of the year fall, and the chart has its day.
RevenueAddsUp ==
    LET in(period(_)) == Amount({p \in captured :
                            period(billingDay(MovedAt(p))) = period(billingDay(now))})
    IN  /\ revenue.year = in(FinancialYearOf) /\ revenue.month = in(MonthNumber)
        /\ revenue.day = in(LAMBDA day : day)
        /\ \A span \in Spans \cap 1 .. 365 :
             /\ revenueSeries(span)[billingDay(now)] = revenue.day
             /\ Total(revenueSeries(span), LAMBDA v : v) =
                  Amount({p \in captured : billingDay(MovedAt(p)) > billingDay(now) - span})

\* The reports agree with the rows and with each other, whenever they are asked
\* for (AnalyticsService, MessagingService.analytics, AdminService.revenue): the
\* bars add up to the headline figures; what was read had arrived and what arrived
\* had been sent, so no rate is above one; the comparison is with the rows just
\* before the window and with none of it; tables by template and by number split
\* the same messages; the contact line ends at the number of contacts.  Exact for
\* a pod that keeps UTC; elsewhere the rows past the chart's last day are missing
\* from it, as ChartAddsUp says.
ReportsAgree ==
    topic # "none" =>
    /\ \A days \in Spans, number \in Numbers \cup {Nothing} :
         LET range == resolveRange(days)
             report == overview(days, number)
         IN  /\ ChartAddsUp(days, number)
             /\ \A b \in {report.series[d].bars : d \in DOMAIN report.series} :
                  b.read <= b.delivered /\ b.delivered + b.failed <= b.sent
             /\ {report.deliveryRate, report.readRate} \subseteq 0 .. 1000
             /\ report.totals.sent + report.previous.sent =
                  Cardinality(messagesIn(range.previousFrom, Nothing, scopeNumbers(number)))
    /\ \A days \in Spans :
         LET range == resolveRange(days)
             report == overview(days, Nothing)
             other == analytics(days)
             rows == messagesIn(range.from, Nothing, Nothing)
             line == contacts(days)
         IN  /\ [c \in {"sent", "delivered", "read", "failed"} |-> other[c]] = report.totals
             /\ \A d \in DOMAIN other.series :
                  other.series[d].delivered = report.series[d].bars.delivered
             /\ Total(perNumber(range), LAMBDA b : b.delivered) = report.totals.delivered
             /\ Total(byTemplate(rows), LAMBDA b : b.sent) =
                  Cardinality({m \in rows : m.template # Nothing})
             /\ podOffset = 0 =>
                  line.series[dayKey(now)].total = line.total
             /\ Total(line.series, LAMBDA p : p.optedOut) + line.undated <= line.optedOut
    /\ RevenueAddsUp

=============================================================================
