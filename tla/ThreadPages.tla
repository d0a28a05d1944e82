---------------------------- MODULE ThreadPages ----------------------------
(***************************************************************************)
(* Reading a conversation backwards, page by page, while it grows:         *)
(* InboxService.thread().  Each page asks two tables for what is older     *)
(* than the cursor, merges the answers and cuts them back to one page.     *)
(***************************************************************************)
EXTENDS Integers, FiniteSets

CONSTANTS
    Instants,       \* the times messages carry
    Copies,         \* how many messages of one direction may carry one time
    PageSizes,      \* the `limit` a reader asks for
    MaxThread       \* bound: messages

ASSUME ThreadAssumption ==
    /\ Instants \subseteq Nat \ {0} /\ PageSizes \subseteq Nat \ {0}
    /\ Copies \in Nat /\ MaxThread \in Nat

VARIABLES
    box,            \* Message and InboundMessage rows of the conversation
    reader          \* a client that scrolls, and what it was given

threadPageVars == <<box, reader>>

-----------------------------------------------------------------------------

Directions == {"outbound", "inbound"}

\* The two tables number their rows apart, so a direction is part of the name.
\* Meta's timestamps are whole seconds: two messages may have the same.
ThreadMessage == [direction : Directions, at : Instants, id : 1 .. Copies]

\* `before` 0 is no cursor; `got` is what the tables have answered.
Reader(step, limit, before) ==
    [step |-> step, limit |-> limit, before |-> before, got |-> {}, asked |-> {},
     there |-> {}, shown |-> {}, cuts |-> {}, twice |-> FALSE]

NoReader == Reader("away", 1, 0)

\* The order of the merge: newest first, and the sort keeps the outbound rows,
\* which come first, before the inbound ones of the same time.
Precedes(m, n) ==
    \/ m.at > n.at
    \/ m.at = n.at /\ m.direction = "outbound" /\ n.direction = "inbound"

\* The first `k` of a list ordered so.  Which of two rows of one table with one
\* time is first, the database leaves open.
FirstOf(rows, k) ==
    {top \in SUBSET rows :
       /\ Cardinality(top) = IF Cardinality(rows) < k THEN Cardinality(rows) ELSE k
       /\ \A m \in top, n \in rows \ top : ~ Precedes(n, m)}

\* A message is stored: ours as it is sent, the customer's whenever the webhook
\* gets through, with the time it was written.
MessageArrives(m) ==
    /\ m \notin box /\ Cardinality(box) < MaxThread
    /\ m.direction = "outbound" =>
         \A n \in box : n.direction = "outbound" => n.at <= m.at
    /\ box' = box \cup {m}
    /\ UNCHANGED reader

OpenThread(limit) ==
    /\ reader.step = "away"
    /\ reader' = [Reader("asking", limit, 0) EXCEPT !.there = box]
    /\ UNCHANGED box

\* One of the two queries, which are sent together and answered apart
Fetch(direction) ==
    /\ reader.step = "asking" /\ direction \notin reader.asked
    /\ \E rows \in FirstOf({m \in box : /\ m.direction = direction
                                        /\ reader.before # 0 => m.at < reader.before},
                           reader.limit) :
         reader' = [reader EXCEPT !.got = @ \cup rows, !.asked = @ \cup {direction}]
    /\ UNCHANGED box

Oldest(page) == CHOOSE t \in {m.at : m \in page} : \A m \in page : t <= m.at

\* The page that shows the merge whole
PagesOf_Uncut(merged, limit) == {merged}

PagesOf(merged, limit) == FirstOf(merged, limit)

\* The page is shown, and `nextCursor` is its oldest message, if there may be more.
ShowPage ==
    /\ reader.step = "asking" /\ reader.asked = Directions
    /\ \E page \in PagesOf(reader.got, reader.limit) :
         LET more == \/ Cardinality(reader.got) > reader.limit
                     \/ Cardinality(page) = reader.limit
             goes == more /\ page # {}
         IN  reader' = [reader EXCEPT !.got = {}, !.asked = {}, !.shown = @ \cup page,
                          !.twice = @ \/ page \cap reader.shown # {},
                          !.before = IF goes THEN Oldest(page) ELSE @,
                          !.cuts = IF goes THEN @ \cup {Oldest(page)} ELSE @,
                          !.step = IF goes THEN "asking" ELSE "at the top"]
    /\ UNCHANGED box

LeaveThread ==
    /\ reader.step # "away"
    /\ reader' = NoReader
    /\ UNCHANGED box

-----------------------------------------------------------------------------

ThreadInit == box = {} /\ reader = NoReader

ThreadNext ==
    \/ \E m \in ThreadMessage : MessageArrives(m)
    \/ \E limit \in PageSizes : OpenThread(limit)
    \/ \E direction \in Directions : Fetch(direction)
    \/ ShowPage \/ LeaveThread

-----------------------------------------------------------------------------
(* Properties *)

\* Types
ThreadTypeOK ==
    /\ box \subseteq ThreadMessage
    /\ reader.step \in {"away", "asking", "at the top"}
    /\ reader.limit \in Nat \ {0} /\ reader.before \in Nat
    /\ reader.got \subseteq ThreadMessage /\ reader.asked \subseteq Directions
    /\ reader.there \subseteq ThreadMessage /\ reader.shown \subseteq ThreadMessage
    /\ reader.cuts \subseteq Instants /\ reader.twice \in BOOLEAN

\* "An offset into a list that is being prepended to skips or repeats messages; a
\* cursor ... stays true however much arrives meanwhile": scrolling back shows no
\* message twice, and every message that was there when it began and is newer
\* than the cursor has been shown, or carries the very time a page was cut at
\* (the next page asks for what is strictly older).
NothingSkipped ==
    /\ ~ reader.twice
    /\ \A m \in reader.there \ reader.shown :
         \/ reader.step # "at the top" /\ (reader.before = 0 \/ m.at < reader.before)
         \/ m.at \in reader.cuts

=============================================================================
