----------------------------- MODULE Retention -----------------------------
(***************************************************************************)
(* How long a tier keeps an organisation's messages: the half of           *)
(* RetentionService.sweep() that follows the price list.  Every replica    *)
(* runs it at night.  The organisations of this module hold one account    *)
(* together: each has messages of its own that it sent, and the account    *)
(* has one set of messages it received.                                    *)
(*                                                                         *)
(* PLAN_RETENTION_ENFORCED is set; without it a pass only counts.          *)
(***************************************************************************)
EXTENDS PriceList

CONSTANTS
    Holders,        \* organisations that hold the account
    MaxDays         \* bound

ASSUME HoldersAssumption == Holders \subseteq Orgs /\ MaxDays \in Nat

VARIABLES
    today,
    stored,         \* Message and InboundMessage: [of, day]
    least           \* history: the shortest window each organisation has had

retentionVars == <<today, stored, least>>

-----------------------------------------------------------------------------

\* A message an organisation sent, or, of None, one the account received
Of(day) == [of : Holders \cup {None}, day : {day}]

\* `historyDays`, as the tier read for the organisation has it
Windows(o) == toLimits("history", forOrg(o))

\* A window of no days that is not read as none
Endless_NullOnly(window) == window = None

\* "No window on the plan means keep it."
Endless(window) == window \in {None, 0}

Prune(r) ==
    /\ Starts(r, "retention")
    /\ Begin(r, [at |-> "pruning", todo |-> Holders])
    /\ UNCHANGED <<listVars, sub, held, admins, mix, history, today, stored>>

\* The cutoff is worked out when the tier is read.
ReadWindow(r, o) ==
    /\ At(r, "pruning") /\ o \in req[r].todo
    /\ \E window \in Windows(o) :
         Begin(r, IF Endless(window)
                  THEN [req[r] EXCEPT !.todo = @ \ {o}]
                  ELSE [at |-> "dropping sent", org |-> o, before |-> today - window,
                        todo |-> req[r].todo \ {o}])
    /\ UNCHANGED <<listVars, sub, held, admins, mix, history, today, stored>>

Before(r, of) == {m \in stored : m.of = of /\ m.day < req[r].before}

DropSent(r) ==
    /\ At(r, "dropping sent")
    /\ stored' = stored \ Before(r, req[r].org)
    /\ Begin(r, [req[r] EXCEPT !.at = "dropping received"])
    /\ UNCHANGED <<listVars, sub, held, admins, mix, history, today>>

\* What the account received, whoever else holds it
DropReceived(r) ==
    /\ At(r, "dropping received")
    /\ stored' = stored \ Before(r, None)
    /\ Begin(r, [at |-> "pruning", todo |-> req[r].todo])
    /\ UNCHANGED <<listVars, sub, held, admins, mix, history, today>>

PruneEnds(r) ==
    /\ At(r, "pruning") /\ req[r].todo = {}
    /\ End(r)
    /\ UNCHANGED <<listVars, sub, held, admins, mix, history, today, stored>>

\* Another day, with its messages
NextDay ==
    /\ "retention" \in mix /\ today < MaxDays
    /\ today' = today + 1
    /\ stored' = stored \cup Of(today')
    /\ UNCHANGED listAll

-----------------------------------------------------------------------------

\* What the price list means by it
ForEver(window) == window \in {None, 0}

ShorterOf(a, b) == IF ForEver(a) THEN b ELSE IF ForEver(b) THEN a ELSE IF a < b THEN a ELSE b

\* The shortest of a set of windows; 0 and None are for ever.
Shortest(windows) ==
    IF \A w \in windows : ForEver(w) THEN None
    ELSE CHOOSE w \in windows : ~ForEver(w) /\ \A v \in windows : ForEver(v) \/ w <= v

\* The history variable, whatever step changed the tier
Remember ==
    least' = IF "retention" \in mix
             THEN [o \in Holders |-> ShorterOf(least[o], Shortest(Windows(o)'))]
             ELSE least

RetentionInit ==
    /\ today = 0
    /\ stored = Of(0)
    /\ least = [o \in Holders |-> Shortest(Windows(o))]

RetentionNext ==
    \/ \E r \in Requests :
         \/ Prune(r) \/ DropSent(r) \/ DropReceived(r) \/ PruneEnds(r)
         \/ \E o \in Holders : ReadWindow(r, o)
    \/ NextDay

RetentionTypeOK ==
    /\ today \in 0 .. MaxDays
    /\ stored \subseteq UNION {Of(d) : d \in 0 .. MaxDays}
    /\ \A o \in Holders : least[o] \in Nat \cup {None}

\* A message an organisation sent is there for as long as the shortest window
\* it has had, however its tier changes while passes are under way; one the
\* account received is there for the shortest any holder has had, since each
\* holder's pass drops it (sweepMessageHistory(), retention.service.ts).
HistoryKept ==
    \A d \in 0 .. today, of \in Holders \cup {None} :
       LET whose == IF of = None THEN Holders ELSE {of}
       IN  (\A o \in whose : ForEver(least[o]) \/ today - d <= least[o])
             => [of |-> of, day |-> d] \in stored

=============================================================================
