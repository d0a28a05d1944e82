------------------------ MODULE ConversationsProofs ------------------------
(***************************************************************************)
(* Proofs about the inbox, for any number of organisations, replies,       *)
(* messages, webhook requests, faults and repeated or reordered reports:   *)
(* no reply is lost, the window is the customer's, an opt-out stops what   *)
(* had not been checked, and a status goes back only behind another write. *)
(***************************************************************************)
EXTENDS Conversations, FiniteSetTheorems, TLAPS

\* What the steps of a webhook request know of its subject.
RequestsFit ==
    \A w \in Workers :
      /\ req[w].step \in {"store", "thread", "feed"} =>
           req[w].about \in Replies /\ writtenAt[req[w].about] # 0
      /\ req[w].step \in {"read", "write"} => req[w].about \in Sends /\ req[w].status \in Statuses

\* A thread that exists has a status.
ThreadsAreNamed == \A o \in Orgs : thread[o].status = "none" => thread[o] = NoThread

SendsFit == \A s \in Sends : send[s].step # "idle" => send[s].org \in Orgs

Shape == TypeOK /\ RequestsFit /\ ThreadsAreNamed /\ SendsFit

\* The replies in a thread since it was read are finitely many, and counted.
Counted ==
    \A o \in Orgs :
      IsFiniteSet(unseen[o]) /\ Cardinality(unseen[o]) <= thread[o].unread

\* What a request that met no failure has done so far.
CleanSoFar ==
    \A w \in Workers :
      /\ req[w].step = "thread" /\ req[w].clean =>
           /\ req[w].about \in inbound
           /\ \A o \in Orgs \ req[w].left : thread[o] # NoThread
      /\ req[w].step = "feed" /\ req[w].clean =>
           /\ req[w].about \in inbound
           /\ \A o \in Orgs : thread[o] # NoThread
           /\ \A o \in Orgs \ req[w].left : req[w].about \in feed[o]

HeardInv == CleanSoFar /\ EveryHolderHears

ShownInv == Counted /\ \A o \in Orgs : thread[o].status = "closed" => fresh[o] = {}

\* A thread's window was opened by a reply.
WindowFrom ==
    \A o \in Orgs :
      thread[o].inboundAt # 0 => \E r \in Replies : writtenAt[r] = thread[o].inboundAt

\* A send past the check, for an organisation that has been left since, is one
\* that had been checked, or whose number was spelt otherwise.
CheckedBefore ==
    /\ \A s \in Sends :
         send[s].step = "checked" /\ send[s].org \in optedOut => s \in past \/ send[s].to = "plus"
    /\ \A s \in slipped : send[s].step # "idle"

\* A row is there once it has been stored; a request about to write found it,
\* behind what it is about to write.
RowsFound ==
    /\ \A s \in Sends : send[s].step \in {"idle", "checked", "posted"} => row[s].status = "none"
    /\ \A w \in Workers :
         req[w].step = "write" =>
           /\ row[req[w].about].status # "none" /\ req[w].seen.status # "none"
           /\ Advances(req[w].seen.status, req[w].status)

-----------------------------------------------------------------------------
(* What a step does to a webhook request, and to a thread *)

LEMMA RequestSet ==
  ASSUME TypeOK, NEW w \in Workers, NEW r \in Request, req' = [req EXCEPT ![w] = r]
  PROVE  /\ req' \in [Workers -> Request] /\ req'[w] = r
         /\ \A v \in Workers \ {w} : req'[v] = req[v]
BY DEF TypeOK

LEMMA RequestMoves ==
  ASSUME Shape, NEW w \in Workers, Webhook(w)
  PROVE  /\ req' \in [Workers -> Request] /\ \A v \in Workers \ {w} : req'[v] = req[v]
         /\ \/ /\ req'[w].step = "store" /\ req'[w].about \in Replies
               /\ writtenAt[req'[w].about] # 0
            \/ req'[w].step = "read" /\ req'[w].about \in Sends /\ req'[w].status \in Statuses
            \/ /\ StoreReply(w) /\ req'[w].step = "thread" /\ req'[w].about = req[w].about
               /\ req'[w].left = Orgs
               /\ req'[w].clean => req[w].about \in inbound'
            \/ \E o \in Orgs :
                 /\ RecordInbound(w, o) /\ req'[w].step = "thread" /\ req'[w].about = req[w].about
                 /\ req'[w].left = req[w].left \ {o} /\ req'[w].clean = req[w].clean
            \/ /\ RecordInboundFails(w) /\ req'[w].step = "thread" /\ req'[w].about = req[w].about
               /\ ~ req'[w].clean
            \/ /\ ReadMemberships(w) /\ req'[w].step = "feed" /\ req'[w].about = req[w].about
               /\ req'[w].left = Orgs /\ req'[w].clean = req[w].clean
            \/ \E o \in Orgs :
                 /\ Notify(w, o) /\ req'[w].step = "feed" /\ req'[w].about = req[w].about
                 /\ req'[w].left = req[w].left \ {o}
                 /\ req'[w].clean => req[w].clean /\ req[w].about \in feed'[o]
            \/ /\ ReadRow(w) /\ req'[w].step \in {"write", "finish"}
               /\ req'[w].about = req[w].about /\ req'[w].status = req[w].status
               /\ req'[w].seen = row[req[w].about]
               /\ req'[w].step = "write" => /\ row[req[w].about].status # "none"
                                            /\ Advances(row[req[w].about].status, req[w].status)
            \/ /\ WriteRow(w) \/ WriteRowFails(w) \/ Finish(w) \/ Die(w)
               /\ req'[w].step \in {"finish", "idle"}
<1>t. TypeOK /\ RequestsFit /\ req[w] \in Request
  BY DEF Shape, TypeOK
<1>n. NoRequest \in Request /\ NoRequest.step = "idle"
  BY ConstantsAssumption DEF NoRequest, Request, NoRow
<1>1. ASSUME NEW about \in Replies \cup Sends, NEW status \in Statuses \cup {"none"},
             Receive(w, about, status)
      PROVE  /\ req' \in [Workers -> Request] /\ \A v \in Workers \ {w} : req'[v] = req[v]
             /\ req'[w].about = about /\ req'[w].status = status
             /\ req'[w].step = IF about \in Replies THEN "store" ELSE "read"
  <2> DEFINE r == [NoRequest EXCEPT !.about = about, !.status = status,
                     !.step = IF about \in Replies THEN "store" ELSE "read"]
  <2>1. /\ r \in Request /\ r.about = about /\ r.status = status
        /\ r.step = IF about \in Replies THEN "store" ELSE "read"
    BY <1>n DEF NoRequest, Request
  <2>2. req' = [req EXCEPT ![w] = r]
    BY <1>1 DEF Receive
  <2> QED BY <1>t, <2>1, <2>2, RequestSet
<1>2. ASSUME NEW r \in Replies, ReceiveReply(w, r)
      PROVE  /\ req' \in [Workers -> Request] /\ \A v \in Workers \ {w} : req'[v] = req[v]
             /\ req'[w].step = "store" /\ req'[w].about \in Replies
             /\ writtenAt[req'[w].about] # 0
  BY <1>1, <1>2 DEF ReceiveReply
<1>3. ASSUME NEW s \in Sends, NEW status \in Statuses, ReceiveStatus(w, s, status)
      PROVE  /\ req' \in [Workers -> Request] /\ \A v \in Workers \ {w} : req'[v] = req[v]
             /\ req'[w].step = "read" /\ req'[w].about \in Sends /\ req'[w].status \in Statuses
  BY <1>1, <1>3, ConstantsAssumption DEF ReceiveStatus
<1>4. CASE StoreReply(w)
  <2>1. PICK yes \in BOOLEAN :
          /\ req' = [req EXCEPT ![w] = [req[w] EXCEPT !.step = "thread", !.left = Orgs,
                                                      !.clean = yes]]
          /\ yes => req[w].about \in inbound'
    <3>1. req[w].clean \in BOOLEAN /\ req \in [Workers -> Request]
      BY <1>t DEF TypeOK, Request
    <3>2. CASE /\ inbound' = inbound \cup {req[w].about}
               /\ req' = [req EXCEPT ![w].step = "thread", ![w].left = Orgs]
      <4>1. req' = [req EXCEPT ![w] = [req[w] EXCEPT !.step = "thread", !.left = Orgs,
                                                     !.clean = req[w].clean]]
        BY <3>1, <3>2 DEF Request
      <4> QED BY <3>1, <3>2, <4>1
    <3>3. CASE req' = [req EXCEPT ![w].step = "thread", ![w].left = Orgs, ![w].clean = FALSE]
      <4>1. req' = [req EXCEPT ![w] = [req[w] EXCEPT !.step = "thread", !.left = Orgs,
                                                     !.clean = FALSE]]
        BY <3>1, <3>3 DEF Request
      <4> QED BY <4>1
    <3> QED BY <1>4, <3>2, <3>3 DEF StoreReply
  <2> DEFINE r == [req[w] EXCEPT !.step = "thread", !.left = Orgs, !.clean = yes]
  <2>2. /\ r \in Request /\ r.step = "thread" /\ r.left = Orgs /\ r.clean = yes
        /\ r.about = req[w].about
    BY <1>t DEF Request
  <2>3. /\ req' \in [Workers -> Request] /\ \A v \in Workers \ {w} : req'[v] = req[v]
        /\ req'[w] = r
    BY <1>t, <2>1, <2>2, RequestSet
  <2> QED BY <1>4, <2>1, <2>2, <2>3
<1>5. ASSUME NEW o \in Orgs, RecordInbound(w, o)
      PROVE  /\ req' \in [Workers -> Request] /\ \A v \in Workers \ {w} : req'[v] = req[v]
             /\ req'[w].step = "thread" /\ req'[w].about = req[w].about
             /\ req'[w].left = req[w].left \ {o} /\ req'[w].clean = req[w].clean
  <2>1. /\ req' = [req EXCEPT ![w] = [req[w] EXCEPT !.left = req[w].left \ {o}]]
        /\ req[w].step = "thread"
    BY <1>5 DEF RecordInbound, At
  <2> DEFINE r == [req[w] EXCEPT !.left = req[w].left \ {o}]
  <2>2. /\ r \in Request /\ r.step = req[w].step /\ r.about = req[w].about
        /\ r.left = req[w].left \ {o} /\ r.clean = req[w].clean
    BY <1>t DEF Request
  <2> QED BY <1>t, <2>1, <2>2, RequestSet
<1>6. CASE RecordInboundFails(w)
  <2>1. req' = [req EXCEPT ![w] = [req[w] EXCEPT !.left = {}, !.clean = FALSE]]
        /\ req[w].step = "thread"
    BY <1>6, <1>t DEF RecordInboundFails, At, TypeOK
  <2> DEFINE r == [req[w] EXCEPT !.left = {}, !.clean = FALSE]
  <2>2. /\ r \in Request /\ r.step = req[w].step /\ r.about = req[w].about /\ ~ r.clean
    BY <1>t DEF Request
  <2> QED BY <1>t, <1>6, <2>1, <2>2, RequestSet
<1>7. CASE ReadMemberships(w)
  <2>1. req' = [req EXCEPT ![w] = [req[w] EXCEPT !.step = "feed", !.left = Orgs]]
    BY <1>7, <1>t DEF ReadMemberships, Recipients, TypeOK
  <2> DEFINE r == [req[w] EXCEPT !.step = "feed", !.left = Orgs]
  <2>2. /\ r \in Request /\ r.step = "feed" /\ r.about = req[w].about /\ r.left = Orgs
        /\ r.clean = req[w].clean
    BY <1>t DEF Request
  <2> QED BY <1>t, <1>7, <2>1, <2>2, RequestSet
<1>8. ASSUME NEW o \in Orgs, Notify(w, o)
      PROVE  /\ req' \in [Workers -> Request] /\ \A v \in Workers \ {w} : req'[v] = req[v]
             /\ req'[w].step = "feed" /\ req'[w].about = req[w].about
             /\ req'[w].left = req[w].left \ {o}
             /\ req'[w].clean => req[w].clean /\ req[w].about \in feed'[o]
  <2>0. req[w].step = "feed" /\ req[w].clean \in BOOLEAN
    BY <1>t, <1>8 DEF Notify, At, Request
  <2>1. CASE /\ feed' = [feed EXCEPT ![o] = @ \cup {req[w].about}]
             /\ req' = [req EXCEPT ![w].left = @ \ {o}]
    <3>1. req' = [req EXCEPT ![w] = [req[w] EXCEPT !.left = req[w].left \ {o}]]
      BY <2>1
    <3> DEFINE r == [req[w] EXCEPT !.left = req[w].left \ {o}]
    <3>2. /\ r \in Request /\ r.step = req[w].step /\ r.about = req[w].about
          /\ r.left = req[w].left \ {o} /\ r.clean = req[w].clean
      BY <1>t DEF Request
    <3>3. req[w].about \in feed'[o]
      BY <1>t, <2>1 DEF TypeOK
    <3> QED BY <1>t, <2>0, <3>1, <3>2, <3>3, RequestSet
  <2>2. CASE req' = [req EXCEPT ![w].left = @ \ {o}, ![w].clean = FALSE]
    <3>1. req' = [req EXCEPT ![w] = [req[w] EXCEPT !.left = req[w].left \ {o}, !.clean = FALSE]]
      BY <1>t, <2>2 DEF TypeOK
    <3> DEFINE r == [req[w] EXCEPT !.left = req[w].left \ {o}, !.clean = FALSE]
    <3>2. /\ r \in Request /\ r.step = req[w].step /\ r.about = req[w].about
          /\ r.left = req[w].left \ {o} /\ ~ r.clean
      BY <1>t DEF Request
    <3> QED BY <1>t, <2>0, <3>1, <3>2, RequestSet
  <2> QED BY <1>8, <2>1, <2>2 DEF Notify
<1>9. CASE ReadRow(w)
  <2>1. PICK now \in [status: Statuses \cup {"none"}, stamps: SUBSET Statuses] :
          now = row[req[w].about]
    BY <1>9, <1>t DEF ReadRow, At, RequestsFit, TypeOK
  <2>2. PICK step \in {"write", "finish"} :
          /\ step = IF now.status # "none" /\ Advances(now.status, req[w].status)
                    THEN "write" ELSE "finish"
          /\ step = "write" => now.status # "none" /\ Advances(now.status, req[w].status)
    OBVIOUS
  <2>3. req' = [req EXCEPT ![w] = [req[w] EXCEPT !.seen = now, !.step = step]]
    BY <1>9, <1>t, <2>1, <2>2 DEF ReadRow, TypeOK
  <2> DEFINE r == [req[w] EXCEPT !.seen = now, !.step = step]
  <2>4. /\ r \in Request /\ r.step = step /\ r.about = req[w].about
        /\ r.status = req[w].status /\ r.seen = now
    BY <1>t DEF Request
  <2>5. /\ req' \in [Workers -> Request] /\ \A v \in Workers \ {w} : req'[v] = req[v]
        /\ req'[w] = r
    BY <1>t, <2>3, <2>4, RequestSet
  <2> QED BY <1>9, <2>1, <2>2, <2>4, <2>5
<1>10. CASE WriteRow(w) \/ WriteRowFails(w)
  <2>1. req' = [req EXCEPT ![w] = [req[w] EXCEPT !.step = "finish"]]
    BY <1>10 DEF WriteRow, WriteRowFails
  <2> DEFINE r == [req[w] EXCEPT !.step = "finish"]
  <2>2. /\ r \in Request /\ r.step = "finish"
    BY <1>t DEF Request
  <2> QED BY <1>t, <1>10, <2>1, <2>2, RequestSet
<1>11. CASE Finish(w) \/ Die(w)
  BY <1>t, <1>n, <1>11, RequestSet DEF Finish, Die
<1> QED BY <1>2, <1>3, <1>4, <1>5, <1>6, <1>7, <1>8, <1>9, <1>10, <1>11 DEF Webhook

\* The ways a thread changes: a reply, our own message, a reader, a status set
\* by hand.
LEMMA ThreadMoves ==
  ASSUME Shape, [Next]_vars
  PROVE  /\ thread' \in [Orgs -> Thread] /\ unseen' \in [Orgs -> SUBSET Replies]
         /\ fresh' \in [Orgs -> SUBSET Replies]
         /\ \A o \in Orgs :
              \/ thread'[o] = thread[o] /\ unseen'[o] = unseen[o] /\ fresh'[o] = fresh[o]
              \/ \E r \in Replies :
                   /\ writtenAt[r] # 0
                   /\ thread'[o] = [inboundAt |-> writtenAt[r], unread |-> thread[o].unread + 1,
                                    status |-> "open"]
                   /\ unseen'[o] = unseen[o] \cup {r}
              \/ /\ thread'[o].inboundAt = thread[o].inboundAt
                 /\ thread'[o].unread = thread[o].unread
                 /\ thread'[o].status =
                      IF thread[o].status = "none" THEN "open" ELSE thread[o].status
                 /\ unseen'[o] = unseen[o] /\ fresh'[o] = fresh[o]
              \/ /\ thread[o] # NoThread /\ thread'[o].inboundAt = thread[o].inboundAt
                 /\ thread'[o].unread = 0 /\ thread'[o].status = thread[o].status
                 /\ unseen'[o] = {} /\ fresh'[o] = fresh[o]
              \/ /\ thread[o] # NoThread /\ thread'[o].inboundAt = thread[o].inboundAt
                 /\ thread'[o].unread = thread[o].unread /\ unseen'[o] = unseen[o]
                 /\ \/ thread'[o].status = "open"
                    \/ thread'[o].status = "closed" /\ fresh'[o] = {}
<1>t. /\ thread \in [Orgs -> Thread] /\ unseen \in [Orgs -> SUBSET Replies]
      /\ fresh \in [Orgs -> SUBSET Replies]
      /\ \A r \in Replies : writtenAt[r] \in Nat
  BY ConstantsAssumption DEF Shape, TypeOK
<1>1. CASE UNCHANGED threadVars
  BY <1>t, <1>1 DEF threadVars
<1>2. ASSUME NEW w \in Workers, NEW x \in Orgs, RecordInbound(w, x)
      PROVE  /\ thread' \in [Orgs -> Thread] /\ unseen' \in [Orgs -> SUBSET Replies]
             /\ fresh' \in [Orgs -> SUBSET Replies]
             /\ \A o \in Orgs \ {x} :
                  thread'[o] = thread[o] /\ unseen'[o] = unseen[o] /\ fresh'[o] = fresh[o]
             /\ \E r \in Replies :
                   /\ writtenAt[r] # 0
                   /\ thread'[x] = [inboundAt |-> writtenAt[r], unread |-> thread[x].unread + 1,
                                    status |-> "open"]
                   /\ unseen'[x] = unseen[x] \cup {r}
  <2>1. PICK r \in Replies : r = req[w].about /\ writtenAt[r] # 0 /\ writtenAt[r] \in Nat
    BY <1>t, <1>2 DEF RecordInbound, At, Shape, RequestsFit
  <2>2. thread[x].unread + 1 \in Nat
    BY <1>t DEF Thread
  <2> DEFINE t == [inboundAt |-> writtenAt[r], unread |-> thread[x].unread + 1, status |-> "open"]
  <2>3. t \in Thread
    BY <2>1, <2>2 DEF Thread
  <2>4. /\ thread' = [thread EXCEPT ![x] = t]
        /\ unseen' = [unseen EXCEPT ![x] = @ \cup {r}]
        /\ fresh' = [fresh EXCEPT ![x] = @ \cup {r}]
    BY <1>2, <2>1 DEF RecordInbound, Reopened
  <2> HIDE DEF t
  <2>5. thread'[x] = t /\ unseen'[x] = unseen[x] \cup {r}
    BY <1>t, <2>4
  <2>6. /\ thread' \in [Orgs -> Thread] /\ unseen' \in [Orgs -> SUBSET Replies]
        /\ fresh' \in [Orgs -> SUBSET Replies]
        /\ \A o \in Orgs \ {x} :
             thread'[o] = thread[o] /\ unseen'[o] = unseen[o] /\ fresh'[o] = fresh[o]
    BY <1>t, <2>1, <2>3, <2>4
  <2> QED BY <2>1, <2>5, <2>6 DEF t
<1>3. ASSUME NEW s \in Sends, RecordOutbound(s), ~ UNCHANGED threadVars
      PROVE  \E x \in Orgs :
             /\ thread' \in [Orgs -> Thread] /\ unseen' = unseen /\ fresh' = fresh
             /\ \A o \in Orgs \ {x} : thread'[o] = thread[o]
             /\ thread'[x].inboundAt = thread[x].inboundAt
             /\ thread'[x].unread = thread[x].unread
             /\ thread'[x].status = IF thread[x].status = "none" THEN "open" ELSE thread[x].status
  <2>1. PICK x \in Orgs : x = send[s].org
    BY <1>3 DEF RecordOutbound, Shape, SendsFit
  <2>2. /\ thread' = [thread EXCEPT ![x] = Answered(thread[x])]
        /\ unseen' = unseen /\ fresh' = fresh
    BY <1>3, <1>t, <2>1 DEF RecordOutbound, threadVars
  <2>3. /\ Answered(thread[x]) \in Thread
        /\ Answered(thread[x]).inboundAt = thread[x].inboundAt
        /\ Answered(thread[x]).unread = thread[x].unread
        /\ Answered(thread[x]).status =
             IF thread[x].status = "none" THEN "open" ELSE thread[x].status
    BY <1>t DEF Answered, Thread
  <2> QED BY <1>t, <2>2, <2>3
<1>4. ASSUME NEW x \in Orgs, MarkRead(x)
      PROVE  /\ thread' \in [Orgs -> Thread] /\ unseen' \in [Orgs -> SUBSET Replies]
             /\ fresh' = fresh
             /\ \A o \in Orgs \ {x} : thread'[o] = thread[o] /\ unseen'[o] = unseen[o]
             /\ thread[x] # NoThread /\ thread'[x].inboundAt = thread[x].inboundAt
             /\ thread'[x].unread = 0 /\ thread'[x].status = thread[x].status
             /\ unseen'[x] = {}
  <2> DEFINE t == [thread[x] EXCEPT !.unread = 0]
  <2>1. /\ t \in Thread /\ t.inboundAt = thread[x].inboundAt /\ t.unread = 0
        /\ t.status = thread[x].status
    BY <1>t DEF Thread
  <2>2. thread' = [thread EXCEPT ![x] = t]
    BY <1>4 DEF MarkRead
  <2> QED BY <1>t, <1>4, <2>1, <2>2 DEF MarkRead
<1>5. ASSUME NEW x \in Orgs, NEW status \in {"open", "closed"}, SetStatus(x, status)
      PROVE  /\ thread' \in [Orgs -> Thread] /\ fresh' \in [Orgs -> SUBSET Replies]
             /\ unseen' = unseen
             /\ \A o \in Orgs \ {x} : thread'[o] = thread[o] /\ fresh'[o] = fresh[o]
             /\ thread[x] # NoThread /\ thread'[x].inboundAt = thread[x].inboundAt
             /\ thread'[x].unread = thread[x].unread
             /\ \/ thread'[x].status = "open"
                \/ thread'[x].status = "closed" /\ fresh'[x] = {}
  <2> DEFINE t == [thread[x] EXCEPT !.status = status]
  <2>1. /\ t \in Thread /\ t.inboundAt = thread[x].inboundAt /\ t.unread = thread[x].unread
        /\ t.status = status
    BY <1>t DEF Thread
  <2>2. thread' = [thread EXCEPT ![x] = t]
    BY <1>5 DEF SetStatus
  <2> QED BY <1>t, <1>5, <2>1, <2>2 DEF SetStatus
<1>6. \/ UNCHANGED threadVars
      \/ \E w \in Workers, x \in Orgs : RecordInbound(w, x)
      \/ \E s \in Sends : RecordOutbound(s)
      \/ \E x \in Orgs : MarkRead(x) \/ \E status \in {"open", "closed"} : SetStatus(x, status)
  BY DEF Next, Webhook, ReceiveReply, ReceiveStatus, Receive, StoreReply, RecordInboundFails,
         ReadMemberships, Finish, Die, Notify, ReadRow, WriteRow, WriteRowFails, Sending, Reply,
         StartSend, Post, StoreSend, MessageReaches, CustomerWrites, People, UpdateContact, Tick,
         vars
<1>7. CASE \E w \in Workers, x \in Orgs : RecordInbound(w, x)
  BY <1>2, <1>7
<1>8. CASE \E s \in Sends : RecordOutbound(s)
  BY <1>t, <1>1, <1>3, <1>8
<1>9. CASE \E x \in Orgs : MarkRead(x)
  BY <1>t, <1>4, <1>9
<1>10. CASE \E x \in Orgs, status \in {"open", "closed"} : SetStatus(x, status)
  BY <1>t, <1>5, <1>10
<1> QED BY <1>1, <1>6, <1>7, <1>8, <1>9, <1>10

\* What the customer wrote stays written.
LEMMA WrittenStays ==
  ASSUME Shape, [Next]_vars, NEW r \in Replies, writtenAt[r] # 0
  PROVE  writtenAt'[r] = writtenAt[r]
<1>1. CASE UNCHANGED writtenAt
  BY <1>1
<1>2. ASSUME NEW x \in Replies, CustomerWrites(x) PROVE writtenAt'[r] = writtenAt[r]
  BY <1>2 DEF CustomerWrites, Shape, TypeOK
<1>3. UNCHANGED writtenAt \/ \E x \in Replies : CustomerWrites(x)
  BY DEF Next, Webhook, ReceiveReply, ReceiveStatus, Receive, StoreReply, RecordInbound,
         RecordInboundFails, ReadMemberships, Finish, Die, Notify, ReadRow, WriteRow,
         WriteRowFails, Sending, Reply, StartSend, Post, StoreSend, RecordOutbound,
         MessageReaches, People, MarkRead, SetStatus, UpdateContact, Tick, vars, metaVars
<1> QED BY <1>1, <1>2, <1>3

-----------------------------------------------------------------------------
(* Types and shape *)

LEMMA ShapeInit == Init => Shape
<1> SUFFICES ASSUME Init PROVE Shape
    OBVIOUS
<1>1. /\ 0 \in 0..MaxClock /\ 1 \in 1..MaxClock /\ 0 \in 0..MaxEvents /\ 0 \in 0..MaxEdits
      /\ 0 \in 0..MaxFaults
  BY ConstantsAssumption
<1>2. TypeOK
  BY <1>1 DEF Init, TypeOK, NoThread, Thread, NoRow, NoRequest, Request, NoSend, SendStep,
              Spellings
<1>3. RequestsFit /\ ThreadsAreNamed /\ SendsFit
  BY DEF Init, RequestsFit, ThreadsAreNamed, SendsFit, NoRequest, NoSend
<1> QED BY <1>2, <1>3 DEF Shape

LEMMA FaultType ==
  ASSUME Shape, Fault \/ UNCHANGED faults
  PROVE  faults' \in 0..MaxFaults
BY ConstantsAssumption DEF Fault, Shape, TypeOK

\* A webhook request keeps the types of the rows it writes.
LEMMA WebhookTypes ==
  ASSUME Shape, NEW w \in Workers, Webhook(w)
  PROVE  /\ inbound' \in SUBSET Replies /\ handled' \in SUBSET Replies
         /\ feed' \in [Orgs -> SUBSET Replies]
         /\ row' \in [Sends -> [status: Statuses \cup {"none"}, stamps: SUBSET Statuses]]
         /\ events' \in 0..MaxEvents /\ faults' \in 0..MaxFaults
         /\ UNCHANGED <<consent, metaVars, send, clock, edits>>
<1>t. /\ inbound \in SUBSET Replies /\ handled \in SUBSET Replies
      /\ feed \in [Orgs -> SUBSET Replies]
      /\ row \in [Sends -> [status: Statuses \cup {"none"}, stamps: SUBSET Statuses]]
      /\ events \in 0..MaxEvents /\ faults \in 0..MaxFaults /\ MaxEvents \in Nat
  BY ConstantsAssumption DEF Shape, TypeOK
<1>r. /\ req[w].step \in {"store", "thread", "feed"} => req[w].about \in Replies
      /\ req[w].step \in {"read", "write"} => req[w].about \in Sends /\ req[w].status \in Statuses
  BY DEF Shape, RequestsFit
<1>1. ASSUME NEW about, NEW status, Receive(w, about, status)
      PROVE  /\ events' \in 0..MaxEvents
             /\ UNCHANGED <<inbound, handled, feed, row, faults, consent, metaVars, send, clock,
                            edits>>
  BY <1>t, <1>1 DEF Receive
<1>2. CASE \E r \in Replies : ReceiveReply(w, r)
  BY <1>t, <1>1, <1>2 DEF ReceiveReply
<1>3. CASE \E x \in Sends, status \in Statuses : ReceiveStatus(w, x, status)
  BY <1>t, <1>1, <1>3 DEF ReceiveStatus
<1>4. CASE StoreReply(w)
  <2>1. faults' \in 0..MaxFaults
    BY <1>4, FaultType DEF StoreReply
  <2> QED BY <1>t, <1>r, <1>4, <2>1 DEF StoreReply, At
<1>5. CASE RecordInboundFails(w) \/ Die(w) \/ WriteRowFails(w)
  <2>1. faults' \in 0..MaxFaults
    BY <1>5, FaultType DEF RecordInboundFails, Die, WriteRowFails
  <2> QED BY <1>t, <1>5, <2>1 DEF RecordInboundFails, Die, WriteRowFails
<1>6. CASE ReadMemberships(w) \/ ReadRow(w) \/ \E o \in Orgs : RecordInbound(w, o)
  BY <1>t, <1>6 DEF ReadMemberships, ReadRow, RecordInbound, bounds
<1>7. CASE Finish(w)
  BY <1>t, <1>r, <1>7 DEF Finish, At, bounds
<1>8. ASSUME NEW o \in Orgs, Notify(w, o)
      PROVE  /\ feed' \in [Orgs -> SUBSET Replies] /\ faults' \in 0..MaxFaults
             /\ UNCHANGED <<consent, metaVars, inbound, row, send, handled, clock, events, edits>>
  <2>1. faults' \in 0..MaxFaults
    BY <1>8, FaultType DEF Notify
  <2>2. feed' \in [Orgs -> SUBSET Replies]
    BY <1>t, <1>r, <1>8 DEF Notify, At
  <2> QED BY <1>8, <2>1, <2>2 DEF Notify
<1>9. CASE WriteRow(w)
  <2>1. PICK x \in Sends, status \in Statuses : x = req[w].about /\ status = req[w].status
    BY <1>r, <1>9 DEF WriteRow, At
  <2>2. Stamp(status) \in SUBSET Statuses
    BY DEF Stamp, Statuses
  <2>3. row' = [row EXCEPT ![x] = [status |-> status, stamps |-> row[x].stamps \cup Stamp(status)]]
    BY <1>t, <1>9, <2>1 DEF WriteRow
  <2>4. row' \in [Sends -> [status: Statuses \cup {"none"}, stamps: SUBSET Statuses]]
    BY <1>t, <2>2, <2>3
  <2> QED BY <1>t, <1>9, <2>4 DEF WriteRow, bounds
<1> QED BY <1>t, <1>2, <1>3, <1>4, <1>5, <1>6, <1>7, <1>8, <1>9 DEF Webhook

\* A send is checked, taken or refused, stored and recorded, for one
\* organisation and one spelling.
LEMMA SendMoves ==
  ASSUME Shape, NEW s \in Sends, Sending(s)
  PROVE  /\ send' \in [Sends -> [step: SendStep, org: Orgs \cup {None}, to: Spellings]]
         /\ \A x \in Sends \ {s} : send'[x] = send[x]
         /\ \/ \E o \in Orgs, to \in Spellings :
                 /\ send[s].step = "idle" /\ ~ isOptedOut(o, to)
                 /\ send'[s] = [step |-> "checked", org |-> o, to |-> to]
            \/ /\ send'[s].org = send[s].org /\ send'[s].to = send[s].to
               /\ \/ Post(s) /\ send'[s].step \in {"posted", "done"}
                  \/ StoreSend(s) /\ send'[s].step \in {"stored", "done"}
                  \/ RecordOutbound(s) /\ send'[s].step = "done"
                  \/ send'[s].step = send[s].step
         /\ UNCHANGED <<optedOut, past, writtenAt, inbound, handled, feed, req, clock, events,
                        edits>>
         /\ reached' \in [Sends -> SUBSET Statuses]
         /\ row' \in [Sends -> [status: Statuses \cup {"none"}, stamps: SUBSET Statuses]]
         /\ slipped' \in SUBSET Sends /\ faults' \in 0..MaxFaults
         /\ ~ StoreSend(s) => row' = row
         /\ ~ Post(s) => slipped' = slipped
<1> DEFINE SendRow == [step: SendStep, org: Orgs \cup {None}, to: Spellings]
<1>t. /\ send \in [Sends -> SendRow] /\ send[s] \in SendRow
      /\ reached \in [Sends -> SUBSET Statuses]
      /\ row \in [Sends -> [status: Statuses \cup {"none"}, stamps: SUBSET Statuses]]
      /\ slipped \in SUBSET Sends /\ faults \in 0..MaxFaults
  BY DEF Shape, TypeOK
<1>0. ASSUME NEW q \in SendRow, send' = [send EXCEPT ![s] = q]
      PROVE  /\ send' \in [Sends -> SendRow] /\ send'[s] = q
             /\ \A x \in Sends \ {s} : send'[x] = send[x]
  BY <1>t, <1>0
<1>1. ASSUME NEW step \in SendStep, send' = [send EXCEPT ![s].step = step]
      PROVE  /\ send' \in [Sends -> SendRow] /\ \A x \in Sends \ {s} : send'[x] = send[x]
             /\ send'[s].step = step /\ send'[s].org = send[s].org /\ send'[s].to = send[s].to
  <2> DEFINE q == [send[s] EXCEPT !.step = step]
  <2>1. q \in SendRow /\ q.step = step /\ q.org = send[s].org /\ q.to = send[s].to
    BY <1>t
  <2>2. send' = [send EXCEPT ![s] = q]
    BY <1>1
  <2> QED BY <1>0, <2>1, <2>2
<1>s. {"checked", "posted", "stored", "done"} \subseteq SendStep
  BY DEF SendStep
<1>2. ASSUME NEW o \in Orgs, NEW to \in Spellings, StartSend(s, o, to)
      PROVE  /\ send' \in [Sends -> SendRow] /\ \A x \in Sends \ {s} : send'[x] = send[x]
             /\ send[s].step = "idle" /\ ~ isOptedOut(o, to)
             /\ send'[s] = [step |-> "checked", org |-> o, to |-> to]
             /\ UNCHANGED <<consent, metaVars, inbound, handled, feed, row, req, bounds>>
  <2>1. [step |-> "checked", org |-> o, to |-> to] \in SendRow
    BY <1>s
  <2>2. send' = [send EXCEPT ![s] = [step |-> "checked", org |-> o, to |-> to]]
    BY <1>2 DEF StartSend
  <2>3. /\ send' \in [Sends -> SendRow] /\ \A x \in Sends \ {s} : send'[x] = send[x]
        /\ send'[s] = [step |-> "checked", org |-> o, to |-> to]
    BY <1>0, <2>1, <2>2
  <2> QED BY <1>2, <2>3 DEF StartSend
<1>3. CASE \E o \in Orgs, to \in Spellings : StartSend(s, o, to)
  <2>1. PICK o \in Orgs, to \in Spellings : StartSend(s, o, to)
    BY <1>3
  <2> QED BY <1>t, <1>2, <2>1 DEF consent, metaVars, bounds
<1>4. CASE Post(s)
  <2>1. PICK step \in {"posted", "done"} : send' = [send EXCEPT ![s].step = step]
    BY <1>4 DEF Post
  <2>2. reached' \in [Sends -> SUBSET Statuses] /\ slipped' \in SUBSET Sends
    BY <1>t, <1>4 DEF Post, Statuses
  <2>3. /\ send' \in [Sends -> SendRow] /\ \A x \in Sends \ {s} : send'[x] = send[x]
        /\ send'[s].step = step /\ send'[s].org = send[s].org /\ send'[s].to = send[s].to
    BY <1>1, <1>s, <2>1
  <2>4. UNCHANGED <<optedOut, past, writtenAt, inbound, handled, feed, row, req, bounds>>
    BY <1>4 DEF Post
  <2> QED BY <1>t, <1>4, <2>2, <2>3, <2>4 DEF bounds
<1>5. CASE StoreSend(s)
  <2>1. PICK step \in {"stored", "done"} : send' = [send EXCEPT ![s].step = step]
    BY <1>5 DEF StoreSend
  <2>2. row' \in [Sends -> [status: Statuses \cup {"none"}, stamps: SUBSET Statuses]]
    <3>1. [status |-> "sent", stamps |-> {}] \in
             [status: Statuses \cup {"none"}, stamps: SUBSET Statuses]
      BY DEF Statuses
    <3> QED BY <1>t, <1>5, <3>1 DEF StoreSend
  <2>3. /\ send' \in [Sends -> SendRow] /\ \A x \in Sends \ {s} : send'[x] = send[x]
        /\ send'[s].step = step /\ send'[s].org = send[s].org /\ send'[s].to = send[s].to
    BY <1>1, <1>s, <2>1
  <2>4. faults' \in 0..MaxFaults
    BY <1>5, FaultType DEF StoreSend
  <2>5. UNCHANGED <<consent, metaVars, inbound, handled, feed, req, clock, events, edits>>
    BY <1>5 DEF StoreSend
  <2> QED BY <1>t, <1>5, <2>2, <2>3, <2>4, <2>5 DEF consent, metaVars
<1>6. CASE RecordOutbound(s)
  <2>1. send' = [send EXCEPT ![s].step = "done"]
    BY <1>6 DEF RecordOutbound
  <2>2. /\ send' \in [Sends -> SendRow] /\ \A x \in Sends \ {s} : send'[x] = send[x]
        /\ send'[s].step = "done" /\ send'[s].org = send[s].org /\ send'[s].to = send[s].to
    BY <1>1, <1>s, <2>1
  <2>3. faults' \in 0..MaxFaults
    BY <1>6, FaultType DEF RecordOutbound
  <2>4. UNCHANGED <<consent, metaVars, inbound, handled, feed, row, req, clock, events, edits>>
    BY <1>6 DEF RecordOutbound
  <2> QED BY <1>t, <1>6, <2>2, <2>3, <2>4 DEF consent, metaVars
<1>7. CASE \E status \in Statuses : MessageReaches(s, status)
  <2>1. /\ reached' \in [Sends -> SUBSET Statuses]
        /\ UNCHANGED <<consent, writtenAt, inbound, handled, feed, row, req, send, bounds>>
    BY <1>t, <1>7 DEF MessageReaches
  <2> QED BY <1>t, <2>1 DEF consent, bounds
<1> QED BY <1>3, <1>4, <1>5, <1>6, <1>7 DEF Sending, Reply, Spellings

\* The same for the send itself: it passes the check, or goes on from there.
SendMove(s) ==
    \/ /\ send[s].step = "idle" /\ send'[s].step = "checked" /\ send'[s].org \in Orgs
       /\ send'[s].org \notin optedOut \/ send'[s].to = "plus"
       /\ ~ Post(s) /\ ~ StoreSend(s)
    \/ /\ send'[s].org = send[s].org /\ send'[s].to = send[s].to
       /\ \/ Post(s) /\ send[s].step = "checked" /\ send'[s].step \in {"posted", "done"}
          \/ /\ ~ Post(s) /\ send[s].step \in {"posted", "stored"}
             /\ send'[s].step \in {"stored", "done"}
          \/ ~ Post(s) /\ ~ StoreSend(s) /\ send'[s].step = send[s].step

LEMMA OneSendMoves ==
  ASSUME Shape, NEW s \in Sends, Sending(s)
  PROVE  SendMove(s)
<1>1. /\ Post(s) => send[s].step = "checked" /\ send'[s].step \in {"posted", "done"}
      /\ StoreSend(s) => send[s].step = "posted" /\ send'[s].step \in {"stored", "done"}
      /\ RecordOutbound(s) => send[s].step = "stored"
  BY DEF Post, StoreSend, RecordOutbound, Shape, TypeOK
<1>2. CASE \E o \in Orgs, to \in Spellings :
             /\ send[s].step = "idle" /\ ~ isOptedOut(o, to)
             /\ send'[s] = [step |-> "checked", org |-> o, to |-> to]
  <2>1. PICK o \in Orgs, to \in Spellings :
             /\ send[s].step = "idle" /\ ~ isOptedOut(o, to)
             /\ send'[s] = [step |-> "checked", org |-> o, to |-> to]
    BY <1>2
  <2>2. send'[s].step = "checked" /\ send'[s].org = o /\ send'[s].to = to
    BY <2>1
  <2>3. o \notin optedOut \/ to = "plus"
    BY <2>1 DEF isOptedOut, Spellings
  <2> QED BY <1>1, <2>1, <2>2, <2>3 DEF SendMove
<1>3. CASE /\ send'[s].org = send[s].org /\ send'[s].to = send[s].to
           /\ \/ Post(s) /\ send'[s].step \in {"posted", "done"}
              \/ StoreSend(s) /\ send'[s].step \in {"stored", "done"}
              \/ RecordOutbound(s) /\ send'[s].step = "done"
              \/ send'[s].step = send[s].step
  <2>1. ~ (StoreSend(s) /\ Post(s)) /\ ~ (RecordOutbound(s) /\ Post(s))
    BY <1>1
  <2> QED BY <1>1, <1>3, <2>1 DEF SendMove
<1> QED BY <1>2, <1>3, SendMoves

\* Everything that is neither a webhook request nor a send.
Elsewhere ==
    (\E r \in Replies : CustomerWrites(r)) \/ People \/ Tick \/ UNCHANGED vars

LEMMA ElsewhereTypes ==
  ASSUME Shape, Elsewhere
  PROVE  /\ UNCHANGED <<reached, inbound, handled, feed, row, req, send, slipped, events, faults>>
         /\ writtenAt' \in [Replies -> 0..MaxClock]
         /\ optedOut' \in SUBSET Orgs /\ past' \in SUBSET Sends
         /\ clock' \in 1..MaxClock /\ edits' \in 0..MaxEdits
<1>t. /\ writtenAt \in [Replies -> 0..MaxClock] /\ optedOut \in SUBSET Orgs
      /\ past \in SUBSET Sends /\ clock \in 1..MaxClock /\ edits \in 0..MaxEdits
      /\ MaxClock \in Nat /\ MaxEdits \in Nat
  BY ConstantsAssumption DEF Shape, TypeOK
<1>1. CASE \E r \in Replies : CustomerWrites(r)
  <2>1. clock \in 0..MaxClock
    BY <1>t
  <2> QED BY <1>t, <1>1, <2>1 DEF CustomerWrites, consent, bounds
<1>2. ASSUME Edit PROVE edits' \in 0..MaxEdits
  BY <1>t, <1>2 DEF Edit
<1>3. ASSUME NEW o \in Orgs, MarkRead(o) \/ \E status \in {"open", "closed"} : SetStatus(o, status)
      PROVE  /\ edits' \in 0..MaxEdits
             /\ UNCHANGED <<metaVars, consent, inbound, handled, feed, row, req, send, clock,
                            events, faults>>
  BY <1>2, <1>3 DEF MarkRead, SetStatus
<1>4. ASSUME NEW o \in Orgs, NEW flag \in BOOLEAN, UpdateContact(o, flag)
      PROVE  /\ edits' \in 0..MaxEdits /\ optedOut' \in SUBSET Orgs /\ past' \in SUBSET Sends
             /\ UNCHANGED <<slipped, metaVars, inbound, handled, feed, row, req, send, clock,
                            events, faults>>
  BY <1>t, <1>2, <1>4 DEF UpdateContact
<1>5. CASE People
  BY <1>t, <1>3, <1>4, <1>5 DEF People, metaVars, consent
<1>6. CASE Tick
  BY <1>t, <1>6 DEF Tick, metaVars, consent
<1>7. CASE UNCHANGED vars
  BY <1>t, <1>7 DEF vars, metaVars, consent, bounds
<1> QED BY <1>1, <1>5, <1>6, <1>7 DEF Elsewhere

LEMMA Cases ==
  ASSUME [Next]_vars
  PROVE  (\E w \in Workers : Webhook(w)) \/ (\E s \in Sends : Sending(s)) \/ Elsewhere
BY DEF Next, Elsewhere

\* The same for one thread, field by field.
ThreadMove(o) ==
    \/ thread'[o] = thread[o] /\ unseen'[o] = unseen[o] /\ fresh'[o] = fresh[o]
    \/ \E r \in Replies :
         /\ writtenAt[r] # 0 /\ thread'[o].inboundAt = writtenAt[r]
         /\ thread'[o].unread = thread[o].unread + 1 /\ thread'[o].status = "open"
         /\ unseen'[o] = unseen[o] \cup {r}
    \/ /\ thread'[o].inboundAt = thread[o].inboundAt /\ thread'[o].unread = thread[o].unread
       /\ thread'[o].status = IF thread[o].status = "none" THEN "open" ELSE thread[o].status
       /\ unseen'[o] = unseen[o] /\ fresh'[o] = fresh[o]
    \/ /\ thread[o] # NoThread /\ thread'[o].inboundAt = thread[o].inboundAt
       /\ thread'[o].unread = 0 /\ thread'[o].status = thread[o].status
       /\ unseen'[o] = {} /\ fresh'[o] = fresh[o]
    \/ /\ thread[o] # NoThread /\ thread'[o].inboundAt = thread[o].inboundAt
       /\ thread'[o].unread = thread[o].unread /\ unseen'[o] = unseen[o]
       /\ \/ thread'[o].status = "open"
          \/ thread'[o].status = "closed" /\ fresh'[o] = {}

LEMMA OneThreadMoves ==
  ASSUME Shape, [Next]_vars, NEW o \in Orgs
  PROVE  ThreadMove(o)
<1>1. CASE \E r \in Replies :
             /\ writtenAt[r] # 0
             /\ thread'[o] = [inboundAt |-> writtenAt[r], unread |-> thread[o].unread + 1,
                              status |-> "open"]
             /\ unseen'[o] = unseen[o] \cup {r}
  <2>1. PICK r \in Replies :
             /\ writtenAt[r] # 0
             /\ thread'[o] = [inboundAt |-> writtenAt[r], unread |-> thread[o].unread + 1,
                              status |-> "open"]
             /\ unseen'[o] = unseen[o] \cup {r}
    BY <1>1
  <2>2. /\ thread'[o].inboundAt = writtenAt[r] /\ thread'[o].unread = thread[o].unread + 1
        /\ thread'[o].status = "open"
    BY <2>1
  <2> QED BY <2>1, <2>2 DEF ThreadMove
<1>2. CASE ~ \E r \in Replies :
             /\ writtenAt[r] # 0
             /\ thread'[o] = [inboundAt |-> writtenAt[r], unread |-> thread[o].unread + 1,
                              status |-> "open"]
             /\ unseen'[o] = unseen[o] \cup {r}
  BY <1>2, ThreadMoves, Zenon DEF ThreadMove
<1> QED BY <1>1, <1>2

LEMMA ShapeStep == Shape /\ [Next]_vars => Shape'
<1> SUFFICES ASSUME Shape, [Next]_vars PROVE Shape'
    OBVIOUS
<1>t. TypeOK /\ RequestsFit /\ ThreadsAreNamed /\ SendsFit
  BY DEF Shape
<1>1. TypeOK'
  <2>1. /\ thread' \in [Orgs -> Thread] /\ unseen' \in [Orgs -> SUBSET Replies]
        /\ fresh' \in [Orgs -> SUBSET Replies]
    BY ThreadMoves
  <2>2. ASSUME NEW w \in Workers, Webhook(w) PROVE TypeOK'
    <3>1. req' \in [Workers -> Request]
      BY <2>2, RequestMoves
    <3> QED BY <1>t, <2>1, <2>2, <3>1, WebhookTypes DEF TypeOK, consent, metaVars
  <2>3. ASSUME NEW s \in Sends, Sending(s) PROVE TypeOK'
    BY <1>t, <2>1, <2>3, SendMoves DEF TypeOK
  <2>4. CASE Elsewhere
    BY <1>t, <2>1, <2>4, ElsewhereTypes DEF TypeOK
  <2> QED BY <2>2, <2>3, <2>4, Cases
<1>2. RequestsFit'
  <2>1. ASSUME NEW v \in Workers, req'[v] = req[v]
        PROVE  /\ req'[v].step \in {"store", "thread", "feed"} =>
                    req'[v].about \in Replies /\ writtenAt'[req'[v].about] # 0
               /\ req'[v].step \in {"read", "write"} =>
                    req'[v].about \in Sends /\ req'[v].status \in Statuses
    BY <1>t, <2>1, WrittenStays DEF RequestsFit
  <2>2. ASSUME NEW w \in Workers, Webhook(w)
        PROVE  /\ req'[w].step \in {"store", "thread", "feed"} =>
                    req'[w].about \in Replies /\ writtenAt[req'[w].about] # 0
               /\ req'[w].step \in {"read", "write"} =>
                    req'[w].about \in Sends /\ req'[w].status \in Statuses
    BY <1>t, <2>2, RequestMoves DEF RequestsFit, StoreReply, RecordInbound, RecordInboundFails,
                                    ReadMemberships, Notify, ReadRow, At
  <2>3. ASSUME NEW w \in Workers, Webhook(w) PROVE RequestsFit'
    <3>1. \A v \in Workers \ {w} : req'[v] = req[v]
      BY <2>3, RequestMoves
    <3> QED BY <2>1, <2>2, <2>3, <3>1, WrittenStays DEF RequestsFit
  <2>4. CASE (\E s \in Sends : Sending(s)) \/ Elsewhere
    <3>1. req' = req
      BY <2>4, SendMoves, ElsewhereTypes
    <3> QED BY <2>1, <3>1 DEF RequestsFit
  <2> QED BY <2>3, <2>4, Cases
<1>3. ThreadsAreNamed'
  <2> SUFFICES ASSUME NEW o \in Orgs, thread'[o].status = "none" PROVE thread'[o] = NoThread
    BY DEF ThreadsAreNamed
  <2>1. thread[o].status = "none" => thread[o] = NoThread
    BY <1>t DEF ThreadsAreNamed
  <2>2. ThreadMove(o)
    BY OneThreadMoves
  <2> QED BY <2>1, <2>2 DEF ThreadMove
<1>4. SendsFit'
  <2>1. ASSUME NEW s \in Sends, Sending(s) PROVE SendsFit'
    <3>1. \A x \in Sends \ {s} : send'[x] = send[x]
      BY <2>1, SendMoves
    <3>2. send[s].step # "idle" => send[s].org \in Orgs
      BY <1>t DEF SendsFit
    <3>3. SendMove(s)
      BY <2>1, OneSendMoves
    <3>4. send'[s].step # "idle" => send'[s].org \in Orgs
      BY <3>2, <3>3 DEF SendMove
    <3> QED BY <1>t, <3>1, <3>4 DEF SendsFit
  <2>2. CASE (\E w \in Workers : Webhook(w)) \/ Elsewhere
    <3>1. send' = send
      BY <2>2, WebhookTypes, ElsewhereTypes
    <3> QED BY <1>t, <3>1 DEF SendsFit
  <2> QED BY <2>1, <2>2, Cases
<1> QED BY <1>1, <1>2, <1>3, <1>4 DEF Shape

-----------------------------------------------------------------------------
(* Replies *)

\* A thread, once there, stays.
LEMMA ThreadStays ==
  ASSUME Shape, [Next]_vars, NEW o \in Orgs, thread[o] # NoThread
  PROVE  thread'[o] # NoThread
<1>1. thread[o].status # "none" /\ NoThread.status = "none"
  BY DEF Shape, ThreadsAreNamed, NoThread
<1>2. thread'[o].status # "none"
  <2>1. ThreadMove(o)
    BY OneThreadMoves
  <2> QED BY <1>1, <2>1 DEF ThreadMove
<1> QED BY <1>1, <1>2

\* Rows are only added.
LEMMA RowsStay ==
  ASSUME Shape, [Next]_vars
  PROVE  inbound \subseteq inbound' /\ \A o \in Orgs : feed[o] \subseteq feed'[o]
<1>1. ASSUME NEW w \in Workers, Webhook(w)
      PROVE  inbound \subseteq inbound' /\ \A o \in Orgs : feed[o] \subseteq feed'[o]
  <2>1. CASE StoreReply(w)
    BY <2>1 DEF StoreReply
  <2>2. CASE \E o \in Orgs : Notify(w, o)
    BY <2>2 DEF Notify, Shape, TypeOK
  <2>3. CASE UNCHANGED <<inbound, feed>>
    BY <2>3
  <2> QED BY <1>1, <2>1, <2>2, <2>3 DEF Webhook, ReceiveReply, ReceiveStatus, Receive,
          RecordInbound, RecordInboundFails, ReadMemberships, Finish, Die, ReadRow, WriteRow,
          WriteRowFails
<1>2. CASE (\E s \in Sends : Sending(s)) \/ Elsewhere
  BY <1>2, SendMoves, ElsewhereTypes
<1> QED BY <1>1, <1>2, Cases

LEMMA HeardStep == Shape /\ HeardInv /\ [Next]_vars => HeardInv'
<1> SUFFICES ASSUME Shape, HeardInv, [Next]_vars PROVE HeardInv'
    OBVIOUS
<1>i. CleanSoFar /\ EveryHolderHears
  BY DEF HeardInv
<1>s. /\ inbound \subseteq inbound' /\ \A o \in Orgs : feed[o] \subseteq feed'[o]
      /\ \A o \in Orgs : thread[o] # NoThread => thread'[o] # NoThread
  BY RowsStay, ThreadStays
<1> DEFINE Clean(w) ==
             /\ req'[w].step = "thread" /\ req'[w].clean =>
                  /\ req'[w].about \in inbound'
                  /\ \A o \in Orgs \ req'[w].left : thread'[o] # NoThread
             /\ req'[w].step = "feed" /\ req'[w].clean =>
                  /\ req'[w].about \in inbound'
                  /\ \A o \in Orgs : thread'[o] # NoThread
                  /\ \A o \in Orgs \ req'[w].left : req'[w].about \in feed'[o]
<1>1. ASSUME NEW w \in Workers, req'[w] = req[w] PROVE Clean(w)
  BY <1>i, <1>s, <1>1 DEF CleanSoFar
<1>2. ASSUME NEW w \in Workers, Webhook(w) PROVE Clean(w)
  <2>1. CASE req'[w].step \notin {"thread", "feed"}
    BY <2>1
  <2>2. CASE ~ req'[w].clean
    BY <2>2
  <2>3. CASE /\ req'[w].step = "thread" /\ req'[w].about = req[w].about /\ req'[w].left = Orgs
             /\ req'[w].clean => req[w].about \in inbound'
    BY <2>3
  <2>4. ASSUME NEW x \in Orgs, RecordInbound(w, x), req'[w].step = "thread",
               req'[w].about = req[w].about, req'[w].left = req[w].left \ {x},
               req'[w].clean = req[w].clean
        PROVE  Clean(w)
    <3>1. req[w].step = "thread" /\ thread'[x].status = "open"
      BY <2>4 DEF RecordInbound, At, Reopened, Shape, TypeOK
    <3>2. thread'[x] # NoThread
      BY <3>1 DEF NoThread
    <3> QED BY <1>i, <1>s, <2>4, <3>1, <3>2 DEF CleanSoFar
  <2>5. CASE /\ ReadMemberships(w) /\ req'[w].step = "feed" /\ req'[w].about = req[w].about
             /\ req'[w].left = Orgs /\ req'[w].clean = req[w].clean
    BY <1>i, <1>s, <2>5 DEF CleanSoFar, ReadMemberships, At
  <2>6. ASSUME NEW x \in Orgs, Notify(w, x), req'[w].step = "feed", req'[w].about = req[w].about,
               req'[w].left = req[w].left \ {x},
               req'[w].clean => req[w].clean /\ req[w].about \in feed'[x]
        PROVE  Clean(w)
    BY <1>i, <1>s, <2>6 DEF CleanSoFar, Notify, At
  <2> QED BY <1>2, <2>1, <2>2, <2>3, <2>4, <2>5, <2>6, RequestMoves
<1>3. CleanSoFar'
  <2>1. \A w \in Workers : Clean(w)
    <3>1. ASSUME NEW w \in Workers, Webhook(w), NEW v \in Workers PROVE Clean(v)
      BY <1>1, <1>2, <3>1, RequestMoves
    <3>2. CASE (\E s \in Sends : Sending(s)) \/ Elsewhere
      <4>1. req' = req
        BY <3>2, SendMoves, ElsewhereTypes
      <4> QED BY <1>1, <4>1
    <3> QED BY <3>1, <3>2, Cases
  <2> QED BY <2>1 DEF CleanSoFar
<1>4. EveryHolderHears'
  <2>1. ASSUME NEW r \in handled
        PROVE  r \in inbound' /\ \A o \in Orgs : thread'[o] # NoThread /\ r \in feed'[o]
    BY <1>i, <1>s, <2>1 DEF EveryHolderHears
  <2>2. ASSUME NEW w \in Workers, Finish(w)
        PROVE  \A r \in handled' \ handled :
                 r \in inbound' /\ \A o \in Orgs : thread'[o] # NoThread /\ r \in feed'[o]
    BY <1>i, <1>s, <2>2 DEF Finish, CleanSoFar, At
  <2>3. handled' = handled \/ \E w \in Workers : Finish(w)
    <3>1. CASE \E w \in Workers : Webhook(w)
      BY <3>1 DEF Webhook, ReceiveReply, ReceiveStatus, Receive, StoreReply, RecordInbound,
                  RecordInboundFails, ReadMemberships, Notify, Die, ReadRow, WriteRow, WriteRowFails
    <3>2. CASE (\E s \in Sends : Sending(s)) \/ Elsewhere
      BY <3>2, SendMoves, ElsewhereTypes
    <3> QED BY <3>1, <3>2, Cases
  <2> QED BY <2>1, <2>2, <2>3 DEF EveryHolderHears
<1> QED BY <1>3, <1>4 DEF HeardInv

LEMMA ShownStep == Shape /\ ShownInv /\ [Next]_vars => ShownInv'
<1> SUFFICES ASSUME Shape, ShownInv, [Next]_vars PROVE ShownInv'
    OBVIOUS
<1> SUFFICES ASSUME NEW o \in Orgs
             PROVE  /\ IsFiniteSet(unseen'[o]) /\ Cardinality(unseen'[o]) <= thread'[o].unread
                    /\ thread'[o].status = "closed" => fresh'[o] = {}
  BY DEF ShownInv, Counted
<1>1. /\ IsFiniteSet(unseen[o]) /\ Cardinality(unseen[o]) <= thread[o].unread
      /\ thread[o].status = "closed" => fresh[o] = {}
      /\ thread[o].unread \in Nat
  BY DEF ShownInv, Counted, Shape, TypeOK, Thread
<1>2. Cardinality(unseen[o]) \in Nat
  BY <1>1, FS_CardinalityType
<1>3. ASSUME NEW r \in Replies
      PROVE  /\ IsFiniteSet(unseen[o] \cup {r})
             /\ Cardinality(unseen[o] \cup {r}) <= thread[o].unread + 1
  <2>1. /\ IsFiniteSet(unseen[o] \cup {r})
        /\ \/ Cardinality(unseen[o] \cup {r}) = Cardinality(unseen[o])
           \/ Cardinality(unseen[o] \cup {r}) = Cardinality(unseen[o]) + 1
    BY <1>1, FS_AddElement
  <2> QED BY <1>1, <1>2, <2>1
<1>4. IsFiniteSet({}) /\ Cardinality({}) = 0
  BY FS_EmptySet
<1>5. ThreadMove(o)
  BY OneThreadMoves
<1> QED BY <1>1, <1>3, <1>4, <1>5 DEF ThreadMove

-----------------------------------------------------------------------------
(* The window, opt-outs and statuses *)

LEMMA WindowStep == Shape /\ WindowFrom /\ [Next]_vars => WindowFrom'
<1> SUFFICES ASSUME Shape, WindowFrom, [Next]_vars, NEW o \in Orgs, thread'[o].inboundAt # 0
             PROVE  \E r \in Replies : writtenAt'[r] = thread'[o].inboundAt
  BY DEF WindowFrom
<1>1. CASE thread'[o].inboundAt = thread[o].inboundAt
  <2>1. PICK r \in Replies : writtenAt[r] = thread[o].inboundAt
    BY <1>1 DEF WindowFrom
  <2> QED BY <1>1, <2>1, WrittenStays
<1>2. CASE \E r \in Replies : writtenAt[r] # 0 /\ thread'[o].inboundAt = writtenAt[r]
  BY <1>2, WrittenStays
<1>3. ThreadMove(o)
  BY OneThreadMoves
<1> QED BY <1>1, <1>2, <1>3 DEF ThreadMove

LEMMA OptOutStep ==
  Shape /\ CheckedBefore /\ OptOutStops /\ [Next]_vars => CheckedBefore' /\ OptOutStops'
<1> SUFFICES ASSUME Shape, CheckedBefore, OptOutStops, [Next]_vars
             PROVE  CheckedBefore' /\ OptOutStops'
    OBVIOUS
<1>t. slipped \in SUBSET Sends /\ optedOut \in SUBSET Orgs
  BY DEF Shape, TypeOK
<1>1. CASE \E w \in Workers : Webhook(w)
  <2>1. UNCHANGED <<optedOut, past, slipped, send>>
    BY <1>1, WebhookTypes DEF consent
  <2> QED BY <2>1 DEF CheckedBefore, OptOutStops
<1>2. ASSUME NEW s \in Sends, Sending(s) PROVE CheckedBefore' /\ OptOutStops'
  <2>1. /\ UNCHANGED <<optedOut, past>> /\ \A x \in Sends \ {s} : send'[x] = send[x]
    BY <1>2, SendMoves
  <2>2. SendMove(s) /\ (~ Post(s) => slipped' = slipped)
    BY <1>2, OneSendMoves, SendMoves
  <2>3. Post(s) => slipped' = slipped \/ (slipped' = slipped \cup {s} /\ send[s].org \in optedOut)
    BY DEF Post
  <2>4. CASE send[s].step = "idle" /\ ~ Post(s)
    <3>1. s \notin slipped
      BY <2>4 DEF CheckedBefore
    <3>2. send'[s].step = "checked" => send'[s].org \notin optedOut \/ send'[s].to = "plus"
      BY <2>2, <2>4 DEF SendMove
    <3> QED BY <1>t, <2>1, <2>2, <2>4, <3>1, <3>2 DEF CheckedBefore, OptOutStops
  <2>5. CASE Post(s)
    <3>1. /\ send[s].step = "checked" /\ send'[s].step \in {"posted", "done"}
          /\ send'[s].to = send[s].to
      BY <2>2, <2>5 DEF SendMove
    <3> QED BY <1>t, <2>1, <2>3, <2>5, <3>1 DEF CheckedBefore, OptOutStops
  <2>6. CASE send[s].step # "idle" /\ ~ Post(s)
    <3>1. /\ send'[s].to = send[s].to /\ send'[s].org = send[s].org
          /\ send'[s].step = send[s].step \/ send'[s].step \in {"stored", "done"}
      BY <2>2, <2>6 DEF SendMove
    <3> QED BY <1>t, <2>1, <2>2, <2>6, <3>1 DEF CheckedBefore, OptOutStops
  <2> QED BY <2>4, <2>5, <2>6
<1>3. CASE Elsewhere
  <2>1. UNCHANGED <<send, slipped>>
    BY <1>3, ElsewhereTypes
  <2>2. /\ past \subseteq past'
        /\ \A s \in Sends : send[s].step = "checked" /\ send[s].org \in optedOut' \ optedOut =>
                              s \in past'
    <3>1. CASE UNCHANGED <<optedOut, past>>
      BY <3>1
    <3>2. CASE \E o \in Orgs, flag \in BOOLEAN : UpdateContact(o, flag)
      BY <3>2 DEF UpdateContact
    <3> QED BY <1>3, <3>1, <3>2 DEF Elsewhere, CustomerWrites, People, MarkRead, SetStatus, Tick,
                                    vars, consent
  <2>3. CheckedBefore'
    BY <2>1, <2>2 DEF CheckedBefore
  <2>4. OptOutStops'
    BY <2>1, <2>2 DEF OptOutStops
  <2> QED BY <2>3, <2>4
<1> QED BY <1>1, <1>2, <1>3, Cases

\* A row changes when it is stored, which it is once, and when a status that a
\* request found behind its own is written.
LEMMA RowMoves ==
  ASSUME Shape, RowsFound, [Next]_vars, NEW s \in Sends
  PROVE  \/ row'[s] = row[s]
         \/ row[s].status = "none" /\ row'[s].status = "sent" /\ StoreSend(s)
         \/ \E w \in Workers : /\ WriteRow(w) /\ req[w].about = s
                               /\ row'[s].status = req[w].status /\ row[s].status # "none"
<1>t. row \in [Sends -> [status: Statuses \cup {"none"}, stamps: SUBSET Statuses]]
  BY DEF Shape, TypeOK
<1>1. ASSUME NEW w \in Workers, Webhook(w), row'[s] # row[s]
      PROVE  /\ WriteRow(w) /\ req[w].about = s
             /\ row'[s].status = req[w].status /\ row[s].status # "none"
  <2>1. WriteRow(w)
    BY <1>1 DEF Webhook, ReceiveReply, ReceiveStatus, Receive, StoreReply, RecordInbound,
                RecordInboundFails, ReadMemberships, Notify, Finish, Die, ReadRow, WriteRowFails
  <2> QED BY <1>t, <1>1, <2>1 DEF WriteRow, RowsFound, At
<1>2. ASSUME NEW x \in Sends, Sending(x), row'[s] # row[s]
      PROVE  row[s].status = "none" /\ row'[s].status = "sent" /\ StoreSend(s)
  <2>1. StoreSend(x)
    BY <1>2, SendMoves
  <2> QED BY <1>t, <1>2, <2>1 DEF StoreSend, RowsFound
<1>3. CASE Elsewhere
  BY <1>3, ElsewhereTypes
<1> QED BY <1>1, <1>2, <1>3, Cases

LEMMA RowsStep == Shape /\ RowsFound /\ [Next]_vars => RowsFound'
<1> SUFFICES ASSUME Shape, RowsFound, [Next]_vars PROVE RowsFound'
    OBVIOUS
<1>r. \A w \in Workers : req[w].step \in {"read", "write"} =>
        req[w].about \in Sends /\ req[w].status \in Statuses /\ req[w].status # "none"
  BY DEF Shape, RequestsFit, Statuses
<1>m. \A s \in Sends : row[s].status # "none" => row'[s].status # "none"
  <2> SUFFICES ASSUME NEW s \in Sends, row[s].status # "none" PROVE row'[s].status # "none"
    OBVIOUS
  <2>1. ASSUME NEW w \in Workers, WriteRow(w), row'[s].status = req[w].status
        PROVE  row'[s].status # "none"
    BY <1>r, <2>1 DEF WriteRow, At
  <2> QED BY <2>1, RowMoves
<1>1. ASSUME NEW s \in Sends, send'[s].step \in {"idle", "checked", "posted"}
      PROVE  row'[s].status = "none"
  <2>1. send[s].step \in {"idle", "checked", "posted"} /\ ~ StoreSend(s)
    <3>1. ASSUME NEW x \in Sends, Sending(x)
          PROVE  send[s].step \in {"idle", "checked", "posted"} /\ ~ StoreSend(s)
      <4>1. CASE x # s
        <5>1. send'[s] = send[s]
          BY <3>1, <4>1, SendMoves
        <5>2. StoreSend(s) => send'[s].step # send[s].step
          BY DEF StoreSend, Shape, TypeOK
        <5> QED BY <1>1, <5>1, <5>2
      <4>2. CASE x = s
        <5>1. StoreSend(s) => send'[s].step \in {"stored", "done"}
          BY DEF StoreSend, Shape, TypeOK
        <5> QED BY <1>1, <3>1, <4>2, <5>1, SendMoves DEF Post
      <4> QED BY <4>1, <4>2
    <3>2. CASE (\E w \in Workers : Webhook(w)) \/ Elsewhere
      <4>1. send' = send
        BY <3>2, WebhookTypes, ElsewhereTypes
      <4>2. StoreSend(s) => send'[s].step # send[s].step
        BY DEF StoreSend, Shape, TypeOK
      <4> QED BY <1>1, <4>1, <4>2
    <3> QED BY <3>1, <3>2, Cases
  <2>2. row[s].status = "none"
    BY <2>1 DEF RowsFound
  <2> QED BY <2>1, <2>2, RowMoves
<1>2. ASSUME NEW v \in Workers, req'[v].step = "write"
      PROVE  /\ row'[req'[v].about].status # "none" /\ req'[v].seen.status # "none"
             /\ Advances(req'[v].seen.status, req'[v].status)
  <2>1. CASE req'[v] = req[v]
    BY <1>2, <1>m, <1>r, <2>1 DEF RowsFound
  <2>2. CASE /\ ReadRow(v) /\ req'[v].about = req[v].about /\ req'[v].status = req[v].status
             /\ req'[v].seen = row[req[v].about] /\ row[req[v].about].status # "none"
             /\ Advances(row[req[v].about].status, req[v].status)
    BY <1>m, <1>r, <2>2 DEF ReadRow, At
  <2>3. CASE \E w \in Workers : Webhook(w)
    <3>1. PICK w \in Workers : Webhook(w)
      BY <2>3
    <3>2. CASE v # w
      BY <2>1, <3>1, <3>2, RequestMoves
    <3>3. CASE v = w
      BY <1>2, <2>2, <3>1, <3>3, RequestMoves
    <3> QED BY <3>2, <3>3
  <2>4. CASE (\E s \in Sends : Sending(s)) \/ Elsewhere
    <3>1. req' = req
      BY <2>4, SendMoves, ElsewhereTypes
    <3> QED BY <2>1, <3>1
  <2> QED BY <2>3, <2>4, Cases
<1> QED BY <1>1, <1>2 DEF RowsFound

-----------------------------------------------------------------------------
(* Theorems *)

\* In every state of every run the variables have their shape, a webhook request
\* at work on a reply or a report is about one, and a send has its organisation.
THEOREM ShapeHolds == Spec => []Shape
BY ShapeInit, ShapeStep, PTL DEF Spec

\* The type invariant: each variable keeps the type of the row, the request or the
\* local of the inbox it stands for.
THEOREM TypeCorrect == Spec => []TypeOK
<1>1. Shape => TypeOK
  BY DEF Shape
<1> QED BY <1>1, ShapeHolds, PTL

\* handle() of a reply: one that was handled without a failure is stored, in the
\* thread and in the feed of every organisation that holds the account, and a
\* thread shows what came since it was read or closed, for any number of
\* organisations, requests in flight and repeated deliveries.
THEOREM RepliesAreHeard == Spec => []NoReplyIsLost
<1>1. Init => HeardInv /\ ShownInv
  <2> SUFFICES ASSUME Init PROVE HeardInv /\ ShownInv
    OBVIOUS
  <2>1. HeardInv
    BY DEF Init, HeardInv, CleanSoFar, EveryHolderHears, NoRequest
  <2>2. \A o \in Orgs : unseen[o] = {} /\ fresh[o] = {} /\ thread[o].unread = 0
    BY DEF Init, NoThread
  <2>3. IsFiniteSet({}) /\ Cardinality({}) = 0
    BY FS_EmptySet
  <2>4. ASSUME NEW o \in Orgs
        PROVE  IsFiniteSet(unseen[o]) /\ Cardinality(unseen[o]) <= thread[o].unread
    <3>1. unseen[o] = {} /\ thread[o].unread = 0
      BY <2>2
    <3> QED BY <2>3, <3>1
  <2> QED BY <2>1, <2>2, <2>4 DEF ShownInv, Counted
<1>2. Shape /\ HeardInv /\ ShownInv => NoReplyIsLost
  <2> SUFFICES ASSUME Shape, HeardInv, ShownInv PROVE NoReplyIsLost
    OBVIOUS
  <2>1. ASSUME NEW o \in Orgs
        PROVE  /\ thread[o].unread >= Cardinality(unseen[o])
               /\ thread[o].status = "closed" => fresh[o] = {}
    <3>1. /\ IsFiniteSet(unseen[o]) /\ Cardinality(unseen[o]) <= thread[o].unread
          /\ thread[o].unread \in Nat
      BY DEF ShownInv, Counted, Shape, TypeOK, Thread
    <3>2. Cardinality(unseen[o]) \in Nat
      BY <3>1, FS_CardinalityType
    <3> QED BY <3>1, <3>2 DEF ShownInv
  <2> QED BY <2>1 DEF HeardInv, NoReplyIsLost, ThreadShowsReplies
<1> QED BY <1>1, <1>2, ShapeHolds, HeardStep, ShownStep, PTL DEF Spec

\* windowFor(): a free-form reply is offered only while the window of something
\* the customer wrote is open; nothing an organisation sends moves it.
THEOREM WindowIsCustomers == Spec => []WindowIsTheCustomers
<1>1. Init => WindowFrom
  BY DEF Init, WindowFrom, NoThread
<1>2. Shape /\ WindowFrom => WindowIsTheCustomers
  BY DEF WindowFrom, WindowIsTheCustomers, WindowOpen
<1> QED BY <1>1, <1>2, ShapeHolds, WindowStep, PTL DEF Spec

\* isOptedOut(): after an opt-out is recorded Meta takes nothing more for that
\* organisation but what had passed the check before, or was spelt with a plus.
THEOREM OptOuts == Spec => []OptOutStops
<1>1. Init => CheckedBefore /\ OptOutStops
  BY DEF Init, CheckedBefore, OptOutStops, NoSend
<1> QED BY <1>1, ShapeHolds, OptOutStep, PTL DEF Spec

\* StatusUpdateHandler.handle(): whatever order the reports come in, a status
\* goes back only in a request that read the row before another one changed it.
THEOREM StatusGoesForward == Spec => BackOnlyWhenOvertaken
<1> DEFINE Forward ==
      \A s \in Sends : row'[s].status # row[s].status /\ row[s].status # "none"
        /\ StatusOrder[row'[s].status] < StatusOrder[row[s].status] =>
        \E w \in Workers : At(w, "write") /\ req[w].about = s /\ req[w].seen # row[s]
<1>1. Init => RowsFound
  BY DEF Init, RowsFound, NoRow, NoRequest
<1>2. Shape /\ RowsFound /\ [Next]_vars => Forward
  <2> SUFFICES ASSUME Shape, RowsFound, [Next]_vars, NEW s \in Sends,
                      row'[s].status # row[s].status, row[s].status # "none",
                      StatusOrder[row'[s].status] < StatusOrder[row[s].status]
               PROVE  \E w \in Workers : /\ At(w, "write") /\ req[w].about = s
                                          /\ req[w].seen # row[s]
    OBVIOUS
  <2>1. PICK w \in Workers : WriteRow(w) /\ req[w].about = s /\ row'[s].status = req[w].status
    BY RowMoves
  <2>2. At(w, "write") /\ req[w].status \in Statuses /\ row[s].status \in Statuses
    BY <2>1 DEF WriteRow, At, Shape, RequestsFit, TypeOK
  <2>3. Advances(req[w].seen.status, req[w].status)
    BY <2>2 DEF RowsFound, At
  <2>4. \A a, b \in Statuses : StatusOrder[a] < StatusOrder[b] => ~ Advances(b, a)
    BY DEF Statuses, StatusOrder, Advances
  <2>5. req[w].seen.status # row[s].status
    BY <2>1, <2>2, <2>3, <2>4
  <2> QED BY <2>1, <2>2, <2>5
<1>3. Spec => []Shape /\ []RowsFound
  BY <1>1, ShapeHolds, RowsStep, PTL DEF Spec
<1> QED BY <1>2, <1>3, PTL DEF Spec, BackOnlyWhenOvertaken

=============================================================================
