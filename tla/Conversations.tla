--------------------------- MODULE Conversations ---------------------------
(***************************************************************************)
(* The conversation with one customer on one number that several           *)
(* organisations hold: replies and status reports from Meta's webhook, the *)
(* thread and the feed of each organisation, and the messages it sends.    *)
(*                                                                         *)
(* A webhook request is a worker that has been answered before it starts,  *)
(* and a send is a request of its own; both stop at every statement.  Meta *)
(* delivers in any order and more than once.                               *)
(***************************************************************************)
EXTENDS Integers, FiniteSets

CONSTANTS
    Orgs,           \* the organisations that hold the account
    Replies,        \* messages of the customer
    Sends,          \* messages to the customer
    Workers,
    None,
    Window,         \* WINDOW_MS
    MaxEvents,      \* bound: webhook requests
    MaxEdits,       \* bound: threads read, closed or opened by hand
    MaxClock,       \* bound
    MaxFaults       \* bound: statements that fail, requests that die

ASSUME ConstantsAssumption ==
    /\ Window \in Nat /\ MaxEvents \in Nat /\ MaxEdits \in Nat
    /\ MaxClock \in Nat \ {0} /\ MaxFaults \in Nat
    /\ None \notin Replies \cup Sends \cup Orgs /\ Replies \cap Sends = {}

VARIABLES
    writtenAt,      \* Meta: when the customer wrote each reply, or 0
    reached,        \* Meta: the states each message has been in
    inbound,        \* InboundMessage rows
    thread,         \* per organisation, its Conversation
    feed,           \* per organisation, the replies its Notification rows are about
    row,            \* Message rows
    optedOut,       \* organisations whose Contact row of the customer says so
    req,            \* locals of each webhook request
    send,           \* locals of each send
    clock, events, edits, faults,
    unseen,         \* history: per organisation, replies recorded since it read the thread
    fresh,          \* history: per organisation, replies recorded since it closed the thread
    past,           \* history: sends that had been checked when an opt-out was recorded
    slipped,        \* history: sends Meta took for an organisation the customer has left
    handled         \* history: replies a request took all the way with nothing failing

metaVars == <<writtenAt, reached>>
threadVars == <<thread, unseen, fresh>>
consent == <<optedOut, past, slipped>>
bounds == <<clock, events, edits, faults>>
vars == <<metaVars, threadVars, inbound, feed, row, consent, req, send, handled, bounds>>

-----------------------------------------------------------------------------

Statuses == {"sent", "delivered", "read", "failed"}

StatusOrder == [sent |-> 0, delivered |-> 1, read |-> 2, failed |-> 3]

NoThread == [inboundAt |-> 0, unread |-> 0, status |-> "none"]

Thread == [inboundAt: Nat, unread: Nat, status: {"none", "open", "closed"}]

NoRow == [status |-> "none", stamps |-> {}]

NoRequest == [step |-> "idle", about |-> None, status |-> "none", left |-> {}, clean |-> TRUE,
              seen |-> NoRow]

Request == [step: {"idle", "store", "thread", "feed", "read", "write", "finish"},
            about: Replies \cup Sends \cup {None}, status: Statuses \cup {"none"},
            left: SUBSET Orgs, clean: BOOLEAN,
            seen: [status: Statuses \cup {"none"}, stamps: SUBSET Statuses]]

\* How the number is spelt: `contactPhone` and `Contact.phone` are digits, and a
\* caller of the API may write a plus.
Spellings == {"digits", "plus"}

NoSend == [step |-> "idle", org |-> None, to |-> "digits"]

SendStep == {"idle", "checked", "posted", "stored", "done"}

TypeOK ==
    /\ writtenAt \in [Replies -> 0..MaxClock] /\ reached \in [Sends -> SUBSET Statuses]
    /\ inbound \in SUBSET Replies /\ handled \in SUBSET Replies
    /\ thread \in [Orgs -> Thread]
    /\ feed \in [Orgs -> SUBSET Replies] /\ unseen \in [Orgs -> SUBSET Replies]
    /\ fresh \in [Orgs -> SUBSET Replies]
    /\ row \in [Sends -> [status: Statuses \cup {"none"}, stamps: SUBSET Statuses]]
    /\ req \in [Workers -> Request]
    /\ send \in [Sends -> [step: SendStep, org: Orgs \cup {None}, to: Spellings]]
    /\ optedOut \in SUBSET Orgs /\ past \in SUBSET Sends /\ slipped \in SUBSET Sends
    /\ clock \in 1..MaxClock /\ events \in 0..MaxEvents /\ edits \in 0..MaxEdits
    /\ faults \in 0..MaxFaults

Init ==
    /\ writtenAt = [r \in Replies |-> 0] /\ reached = [s \in Sends |-> {}]
    /\ inbound = {} /\ handled = {}
    /\ thread = [o \in Orgs |-> NoThread]
    /\ feed = [o \in Orgs |-> {}] /\ unseen = [o \in Orgs |-> {}] /\ fresh = [o \in Orgs |-> {}]
    /\ row = [s \in Sends |-> NoRow]
    /\ optedOut \in {{}, Orgs} /\ past = {} /\ slipped = {}
    /\ req = [w \in Workers |-> NoRequest] /\ send = [s \in Sends |-> NoSend]
    /\ clock = 1 /\ events = 0 /\ edits = 0 /\ faults = 0

-----------------------------------------------------------------------------
(* Meta *)

CustomerWrites(r) ==
    /\ writtenAt[r] = 0
    /\ writtenAt' = [writtenAt EXCEPT ![r] = clock]
    /\ UNCHANGED <<consent, reached, threadVars, inbound, feed, row, req, send, handled, bounds>>

\* A message that was accepted is sent, delivered and read, or fails on the way.
MessageReaches(s, status) ==
    /\ send[s].step \in {"posted", "stored", "done"} /\ "sent" \in reached[s]
    /\ status \notin reached[s] /\ "failed" \notin reached[s]
    /\ status = "read" => "delivered" \in reached[s]
    /\ status = "failed" => "delivered" \notin reached[s]
    /\ reached' = [reached EXCEPT ![s] = @ \cup {status}]
    /\ UNCHANGED <<consent, writtenAt, threadVars, inbound, feed, row, req, send, handled, bounds>>

\* A webhook request: processPayload() stores the event and routeChange() picks
\* the handler.  Nothing says that a report comes once, or in order.
Receive(w, about, status) ==
    /\ req[w].step = "idle" /\ events < MaxEvents
    /\ events' = events + 1
    /\ req' = [req EXCEPT ![w] = [NoRequest EXCEPT !.about = about, !.status = status,
                 !.step = IF about \in Replies THEN "store" ELSE "read"]]
    /\ UNCHANGED <<consent, metaVars, threadVars, inbound, feed, row, send, handled, clock, edits,
                   faults>>

ReceiveReply(w, r) == writtenAt[r] # 0 /\ Receive(w, r, "none")

ReceiveStatus(w, s, status) == status \in reached[s] /\ Receive(w, s, status)

At(w, step) == req[w].step = step

Fault == faults < MaxFaults /\ faults' = faults + 1

-----------------------------------------------------------------------------
(* A reply *)

\* InboundMessageHandler.handle(): an upsert that changes nothing the second time.
\* A row that cannot be written is logged, and the handler goes on.
StoreReply(w) ==
    /\ At(w, "store")
    /\ \/ /\ inbound' = inbound \cup {req[w].about} /\ UNCHANGED faults
          /\ req' = [req EXCEPT ![w].step = "thread", ![w].left = Orgs]
       \/ /\ Fault /\ UNCHANGED inbound
          /\ req' = [req EXCEPT ![w].step = "thread", ![w].left = Orgs, ![w].clean = FALSE]
    /\ UNCHANGED <<consent, metaVars, threadVars, feed, row, send, handled, clock, events, edits>>

\* Mutant: a thread that somebody closed stays closed.
Reopened_Not(t, at) ==
    [t EXCEPT !.inboundAt = at, !.unread = @ + 1, !.status = IF @ = "none" THEN "open" ELSE @]

\* The thread after a reply: one more unread, the window moved, and open again.
Reopened(t, at) ==
    [inboundAt |-> at, unread |-> t.unread + 1, status |-> "open"]

\* recordInbound(): one organisation's thread, by an upsert that is atomic.
RecordInbound(w, o) ==
    /\ At(w, "thread") /\ o \in req[w].left
    /\ thread' = [thread EXCEPT ![o] = Reopened(@, writtenAt[req[w].about])]
    /\ unseen' = [unseen EXCEPT ![o] = @ \cup {req[w].about}]
    /\ fresh' = [fresh EXCEPT ![o] = @ \cup {req[w].about}]
    /\ req' = [req EXCEPT ![w].left = @ \ {o}]
    /\ UNCHANGED <<consent, metaVars, inbound, feed, row, send, handled, bounds>>

\* A thread that cannot be written ends the loop; the rest are not told.
RecordInboundFails(w) ==
    /\ At(w, "thread") /\ req[w].left # {}
    /\ Fault
    /\ req' = [req EXCEPT ![w].left = {}, ![w].clean = FALSE]
    /\ UNCHANGED <<consent, metaVars, threadVars, inbound, feed, row, send, handled, clock, events,
                   edits>>

\* Mutant: an organisation with more than this reply waiting is not told again.
Recipients_Waiting == {o \in Orgs : thread[o].unread <= 1}

Recipients == Orgs

\* notifyWaba(): the memberships are read, after the threads are done.
ReadMemberships(w) ==
    /\ At(w, "thread") /\ req[w].left = {}
    /\ req' = [req EXCEPT ![w].step = "feed", ![w].left = Recipients]
    /\ UNCHANGED <<consent, metaVars, threadVars, inbound, feed, row, send, handled, bounds>>

\* record(): never throws, so a row that fails does not stop the others.
Notify(w, o) ==
    /\ At(w, "feed") /\ o \in req[w].left
    /\ \/ /\ feed' = [feed EXCEPT ![o] = @ \cup {req[w].about}] /\ UNCHANGED faults
          /\ req' = [req EXCEPT ![w].left = @ \ {o}]
       \/ /\ Fault /\ UNCHANGED feed
          /\ req' = [req EXCEPT ![w].left = @ \ {o}, ![w].clean = FALSE]
    /\ UNCHANGED <<consent, metaVars, threadVars, inbound, row, send, handled, clock, events,
                   edits>>

\* The event is marked processed and forwarded.
Finish(w) ==
    /\ \/ At(w, "feed") /\ req[w].left = {}
       \/ At(w, "finish")
    /\ handled' = IF At(w, "feed") /\ req[w].clean THEN handled \cup {req[w].about} ELSE handled
    /\ req' = [req EXCEPT ![w] = NoRequest]
    /\ UNCHANGED <<consent, metaVars, threadVars, inbound, feed, row, send, bounds>>

\* The process stops; Meta has had its 200 and does not ask again.
Die(w) ==
    /\ ~ At(w, "idle")
    /\ Fault
    /\ req' = [req EXCEPT ![w] = NoRequest]
    /\ UNCHANGED <<consent, metaVars, threadVars, inbound, feed, row, send, handled, clock, events,
                   edits>>

-----------------------------------------------------------------------------
(* A status *)

\* Mutant: anything that is not the same is taken.
Advances_Differs(from, to) == from # to

Advances(from, to) == StatusOrder[to] > StatusOrder[from]

\* StatusUpdateHandler.handle(): the row as it is, which may not be there yet.
ReadRow(w) ==
    LET now == row[req[w].about]
    IN  /\ At(w, "read")
        /\ req' = [req EXCEPT ![w].seen = now,
                     ![w].step = IF now.status # "none" /\ Advances(now.status, req[w].status)
                                 THEN "write" ELSE "finish"]
        /\ UNCHANGED <<consent, metaVars, threadVars, inbound, feed, row, send, handled, bounds>>

\* A read implies a delivery that may never be reported.
Stamp(status) ==
    CASE status = "read" -> {"delivered", "read"}
      [] status = "sent" -> {}
      [] OTHER -> {status}

\* The update is by id, whatever the row has become.
WriteRow(w) ==
    /\ At(w, "write")
    /\ row' = [row EXCEPT ![req[w].about] = [status |-> req[w].status,
                                             stamps |-> @.stamps \cup Stamp(req[w].status)]]
    /\ req' = [req EXCEPT ![w].step = "finish"]
    /\ UNCHANGED <<consent, metaVars, threadVars, inbound, feed, send, handled, bounds>>

\* It is caught and logged; the event counts as processed.
WriteRowFails(w) ==
    /\ At(w, "write")
    /\ Fault
    /\ req' = [req EXCEPT ![w].step = "finish"]
    /\ UNCHANGED <<consent, metaVars, threadVars, inbound, feed, row, send, handled, clock, events,
                   edits>>

-----------------------------------------------------------------------------
(* Sending *)

\* windowFor()
WindowOpen(t) == t.inboundAt # 0 /\ t.inboundAt + Window > clock

\* Mutant: a customer who has just written has opted in again.
isOptedOut_Consented(o, to) == to = "digits" /\ o \in optedOut /\ ~ WindowOpen(thread[o])

\* The contact is looked up by the number as it is spelt.
isOptedOut(o, to) == to = "digits" /\ o \in optedOut

\* sendMessage(), as far as Meta.  Whether the number, the membership, the key's
\* scope and the subscription allow it is left open.
StartSend(s, o, to) ==
    /\ send[s].step = "idle"
    /\ ~ isOptedOut(o, to)
    /\ send' = [send EXCEPT ![s] = [step |-> "checked", org |-> o, to |-> to]]
    /\ UNCHANGED <<consent, metaVars, threadVars, inbound, feed, row, req, handled, bounds>>

\* reply(): free-form, in a thread whose window is open.
Reply(s, o) ==
    /\ thread[o] # NoThread
    /\ WindowOpen(thread[o])
    /\ StartSend(s, o, "digits")

\* Meta takes the message, or refuses it and nothing is stored.
Post(s) ==
    /\ send[s].step = "checked"
    /\ \/ /\ send' = [send EXCEPT ![s].step = "posted"]
          /\ reached' = [reached EXCEPT ![s] = {"sent"}]
          /\ slipped' = IF send[s].org \in optedOut THEN slipped \cup {s} ELSE slipped
       \/ /\ send' = [send EXCEPT ![s].step = "done"]
          /\ UNCHANGED <<reached, slipped>>
    /\ UNCHANGED <<optedOut, past, writtenAt, threadVars, inbound, feed, row, req, handled, bounds>>

StoreSend(s) ==
    /\ send[s].step = "posted"
    /\ \/ /\ row' = [row EXCEPT ![s] = [status |-> "sent", stamps |-> {}]]
          /\ send' = [send EXCEPT ![s].step = "stored"]
          /\ UNCHANGED faults
       \/ /\ Fault
          /\ send' = [send EXCEPT ![s].step = "done"]
          /\ UNCHANGED row
    /\ UNCHANGED <<consent, metaVars, threadVars, inbound, feed, req, handled, clock, events,
                   edits>>

\* Mutant: the window is measured from our own message.
Answered_Extends(t) ==
    [t EXCEPT !.inboundAt = clock, !.status = IF @ = "none" THEN "open" ELSE @]

\* The thread after a send: neither read nor a longer window.
Answered(t) ==
    [t EXCEPT !.status = IF @ = "none" THEN "open" ELSE @]

\* recordOutbound(), which may fail and then is only logged.
RecordOutbound(s) ==
    LET o == send[s].org
    IN  /\ send[s].step = "stored"
        /\ \/ thread' = [thread EXCEPT ![o] = Answered(@)] /\ UNCHANGED faults
           \/ Fault /\ UNCHANGED thread
        /\ send' = [send EXCEPT ![s].step = "done"]
        /\ UNCHANGED <<consent, metaVars, unseen, fresh, inbound, feed, row, req, handled, clock,
                       events, edits>>

-----------------------------------------------------------------------------
(* People *)

Edit == edits < MaxEdits /\ edits' = edits + 1

MarkRead(o) ==
    /\ thread[o] # NoThread /\ Edit
    /\ thread' = [thread EXCEPT ![o].unread = 0]
    /\ unseen' = [unseen EXCEPT ![o] = {}]
    /\ UNCHANGED <<consent, metaVars, fresh, inbound, feed, row, req, send, handled, clock, events,
                   faults>>

\* update(), with a status.
SetStatus(o, status) ==
    /\ thread[o] # NoThread /\ Edit
    /\ thread' = [thread EXCEPT ![o].status = status]
    /\ fresh' = IF status = "closed" THEN [fresh EXCEPT ![o] = {}] ELSE fresh
    /\ UNCHANGED <<consent, metaVars, unseen, inbound, feed, row, req, send, handled, clock, events,
                   faults>>

\* ContactsService.update() with the flag; remove() forgets it with the contact.
UpdateContact(o, flag) ==
    /\ (o \in optedOut) # flag /\ Edit
    /\ optedOut' = IF flag THEN optedOut \cup {o} ELSE optedOut \ {o}
    /\ past' = IF flag THEN past \cup {s \in Sends : send[s].step = "checked" /\ send[s].org = o}
               ELSE past
    /\ UNCHANGED <<slipped, metaVars, threadVars, inbound, feed, row, req, send, handled, clock,
                   events, faults>>

Tick ==
    /\ clock < MaxClock
    /\ clock' = clock + 1
    /\ UNCHANGED <<consent, metaVars, threadVars, inbound, feed, row, req, send, handled, events,
                   edits, faults>>

-----------------------------------------------------------------------------

Webhook(w) ==
    \/ \E r \in Replies : ReceiveReply(w, r)
    \/ \E s \in Sends, status \in Statuses : ReceiveStatus(w, s, status)
    \/ StoreReply(w) \/ RecordInboundFails(w) \/ ReadMemberships(w) \/ Finish(w) \/ Die(w)
    \/ \E o \in Orgs : RecordInbound(w, o) \/ Notify(w, o)
    \/ ReadRow(w) \/ WriteRow(w) \/ WriteRowFails(w)

Sending(s) ==
    \/ \E o \in Orgs : Reply(s, o) \/ \E to \in Spellings : StartSend(s, o, to)
    \/ Post(s) \/ StoreSend(s) \/ RecordOutbound(s)
    \/ \E status \in Statuses : MessageReaches(s, status)

People ==
    \E o \in Orgs :
      \/ MarkRead(o)
      \/ \E status \in {"open", "closed"} : SetStatus(o, status)
      \/ \E flag \in BOOLEAN : UpdateContact(o, flag)

Next ==
    \/ \E w \in Workers : Webhook(w)
    \/ \E s \in Sends : Sending(s)
    \/ \E r \in Replies : CustomerWrites(r)
    \/ People
    \/ Tick

Spec == Init /\ [][Next]_vars

-----------------------------------------------------------------------------
(* Properties *)

\* "Every organisation holding the account": a reply that was handled without a
\* failure is stored, in the thread of each of them and in the feed of each.
EveryHolderHears ==
    \A r \in handled : r \in inbound /\ \A o \in Orgs : thread[o] # NoThread /\ r \in feed[o]

\* No reply is hidden: the badge counts every reply recorded since the thread was
\* read, and a thread with a reply recorded since it was closed is not closed.
ThreadShowsReplies ==
    \A o \in Orgs :
      /\ thread[o].unread >= Cardinality(unseen[o])
      /\ thread[o].status = "closed" => fresh[o] = {}

\* A reply reaches the people of every organisation that holds the account.
NoReplyIsLost == EveryHolderHears /\ ThreadShowsReplies

\* "Only advance status forward": a status goes back only when another request
\* changed the row between the read and the update of this one.
BackOnlyWhenOvertaken ==
    [][\A s \in Sends : row'[s].status # row[s].status /\ row[s].status # "none"
         /\ StatusOrder[row'[s].status] < StatusOrder[row[s].status] =>
         \E w \in Workers : At(w, "write") /\ req[w].about = s /\ req[w].seen # row[s]]_vars

\* "Our own sends must not extend it": a free-form reply is offered only while the
\* window of something the customer wrote is open, whatever was sent or reported
\* since and in whatever order.
WindowIsTheCustomers ==
    \A o \in Orgs :
      WindowOpen(thread[o]) => \E r \in Replies : writtenAt[r] # 0 /\ writtenAt[r] + Window > clock

\* An organisation that records an opt-out sends the customer nothing more, in the
\* inbox or through the API, but what had passed the check before (sendMessage()
\* asks isOptedOut() and calls Meta later).  A number spelt with a plus is not the
\* contact's, and gets past.
OptOutStops ==
    \A s \in slipped : s \in past \/ send[s].to = "plus"

=============================================================================
