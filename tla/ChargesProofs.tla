--------------------------- MODULE ChargesProofs ---------------------------
(***************************************************************************)
(* What is charged, documented, kept and shown: for any price list, any    *)
(* number of requests in flight, any conversation, and, in the second      *)
(* half, any number of webhooks, payments, years and sweeps, for which the *)
(* code keeps its books of invoices and of receipts as DocumentLedger asks.*)
(***************************************************************************)
EXTENDS Invoicing, Charges, FiniteSetTheorems, TLAPS

-----------------------------------------------------------------------------
(* The least of a set of numbers *)

\* Numbers that are not there come to no end downwards.
LEMMA LeastOf ==
    ASSUME NEW S, S \subseteq Nat, S # {}
    PROVE  \E x \in S : \A y \in S : x <= y
<1>1. \E x \in S : \A y \in S : ~ (<<y, x>> \in OpToRel(<, Nat))
  BY NatLessThanWellFounded, WFMin
<1>2. ASSUME NEW x \in S, NEW y \in S, ~ (<<y, x>> \in OpToRel(<, Nat))
      PROVE  x <= y
  BY <1>2 DEF OpToRel
<1> QED BY <1>1, <1>2

-----------------------------------------------------------------------------
(* Scrolling back: InboxService.thread() *)

\* What the cursor has not come to yet
Below(m, before) == before = 0 \/ m.at < before

ReaderRow ==
    [step : {"away", "asking", "at the top"}, limit : Nat \ {0}, before : Instants \cup {0},
     got : SUBSET ThreadMessage, asked : SUBSET Directions, there : SUBSET ThreadMessage,
     shown : SUBSET ThreadMessage, cuts : SUBSET Instants, twice : BOOLEAN]

ThreadTyped == box \subseteq ThreadMessage /\ IsFiniteSet(box) /\ reader \in ReaderRow

AnswerOf(d) == {m \in reader.got : m.direction = d}

\* What one of the two tables answered: all it had, or a page of the newest
Answered(d) ==
    \/ \A m \in reader.there : m.direction = d /\ Below(m, reader.before) => m \in reader.got
    \/ /\ Cardinality(AnswerOf(d)) = reader.limit
       /\ \A m \in reader.there, n \in AnswerOf(d) :
            m.direction = d /\ Below(m, reader.before) /\ m \notin reader.got => m.at <= n.at

\* While a page is awaited, what has been shown is on this side of the cursor
\* and what the tables answered beyond it.
Asking ==
    /\ reader.there \subseteq box
    /\ \A m \in reader.shown : reader.before # 0 /\ m.at >= reader.before
    /\ reader.got \subseteq box
    /\ \A m \in reader.got : m.direction \in reader.asked /\ Below(m, reader.before)
    /\ \A d \in reader.asked : Answered(d)

\* What has been passed over without being shown
Passed ==
    \A m \in reader.there \ reader.shown :
      \/ reader.step # "at the top" /\ Below(m, reader.before)
      \/ m.at \in reader.cuts

ThreadInv ==
    /\ ThreadTyped /\ Passed
    /\ ~ reader.twice
    /\ reader.step = "asking" => Asking

\* The cursor is the time of a message of the page, and none is older.
LEMMA OldestIsThere ==
    ASSUME NEW page, page \subseteq ThreadMessage, page # {}
    PROVE  /\ Oldest(page) \in Instants
           /\ \A m \in page : Oldest(page) <= m.at
           /\ \E n \in page : n.at = Oldest(page)
<1> DEFINE times == {m.at : m \in page}
<1>1. times \subseteq Nat /\ times \subseteq Instants /\ times # {}
  BY ThreadAssumption DEF ThreadMessage
<1> HIDE DEF times
<1>2. PICK t \in times : \A u \in times : t <= u
  BY <1>1, LeastOf
<1>3. \A m \in page : t <= m.at
  BY <1>2 DEF times
<1>4. Oldest(page) \in times /\ \A m \in page : Oldest(page) <= m.at
  BY <1>2, <1>3 DEF Oldest, times
<1> QED BY <1>1, <1>4 DEF times

\* The first few of finitely many rows are rows, as many as there are or as were
\* asked for, and none left out is newer.
LEMMA FirstAre ==
    ASSUME NEW rows, rows \subseteq ThreadMessage, IsFiniteSet(rows),
           NEW k \in Nat, NEW top \in FirstOf(rows, k)
    PROVE  /\ top \subseteq rows /\ IsFiniteSet(top)
           /\ Cardinality(top) \in Nat /\ Cardinality(rows) \in Nat
           /\ Cardinality(top) <= k
           /\ Cardinality(rows) <= k => top = rows
           /\ Cardinality(rows) > k => Cardinality(top) = k
           /\ \A m \in top, n \in rows \ top : n.at <= m.at
<1>1. top \subseteq rows
  BY DEF FirstOf
<1>2. IsFiniteSet(top) /\ (Cardinality(rows) = Cardinality(top) => rows = top)
  BY <1>1, FS_Subset
<1>3. Cardinality(top) \in Nat /\ Cardinality(rows) \in Nat
  BY <1>2, FS_CardinalityType
<1>4. Cardinality(top) = IF Cardinality(rows) < k THEN Cardinality(rows) ELSE k
  BY DEF FirstOf
<1>5. ASSUME NEW m \in top, NEW n \in rows \ top PROVE n.at <= m.at
  <2>1. ~ Precedes(n, m)
    BY DEF FirstOf
  <2>2. m.at \in Nat /\ n.at \in Nat
    BY <1>1, ThreadAssumption DEF ThreadMessage
  <2> QED BY <2>1, <2>2 DEF Precedes
<1> QED BY <1>1, <1>2, <1>3, <1>4, <1>5

\* Nobody reads.
LEMMA ThreadBegins == ThreadInit => ThreadInv
<1> SUFFICES ASSUME ThreadInit PROVE ThreadInv
  OBVIOUS
<1>1. NoReader \in ReaderRow
  BY ThreadAssumption DEF NoReader, Reader, ReaderRow
<1>2. ThreadTyped
  BY <1>1, FS_EmptySet DEF ThreadInit, ThreadTyped
<1>3. reader.there = {} /\ ~ reader.twice /\ reader.step = "away"
  BY DEF ThreadInit, NoReader, Reader
<1> QED BY <1>2, <1>3 DEF ThreadInv, Passed

\* A message that arrives is one more, and what the reader was given stays.
LEMMA ArrivalKeeps ==
    ASSUME ThreadInv, NEW m \in ThreadMessage, MessageArrives(m)
    PROVE  ThreadInv'
<1>1. box' = box \cup {m} /\ reader' = reader
  BY DEF MessageArrives
<1>2. IsFiniteSet(box') /\ box' \subseteq ThreadMessage
  BY <1>1, FS_AddElement DEF ThreadInv, ThreadTyped
<1>3. Asking => Asking'
  BY <1>1 DEF Asking, Answered, AnswerOf
<1>4. Passed'
  BY <1>1 DEF ThreadInv, Passed
<1> QED BY <1>1, <1>2, <1>3, <1>4 DEF ThreadInv, ThreadTyped

\* A reader who opens the conversation has been shown nothing.
LEMMA OpeningKeeps ==
    ASSUME ThreadInv, NEW limit \in PageSizes, OpenThread(limit)
    PROVE  ThreadInv'
<1>1. box' = box /\ reader' \in ReaderRow
  BY ThreadAssumption DEF OpenThread, ThreadInv, ThreadTyped, Reader, ReaderRow
<1>2. /\ reader'.step = "asking" /\ reader'.there = box /\ reader'.shown = {}
      /\ reader'.got = {} /\ reader'.asked = {} /\ reader'.before = 0 /\ ~ reader'.twice
  BY DEF OpenThread, Reader
<1>3. Asking' /\ Passed'
  BY <1>1, <1>2 DEF Asking, Passed, Below
<1> QED BY <1>1, <1>2, <1>3 DEF ThreadInv, ThreadTyped

\* A reader who closes it is owed nothing.
LEMMA LeavingKeeps ==
    ASSUME ThreadInv, LeaveThread
    PROVE  ThreadInv'
<1>1. box' = box /\ reader' \in ReaderRow
  BY ThreadAssumption DEF LeaveThread, NoReader, Reader, ReaderRow
<1>2. reader'.there = {} /\ ~ reader'.twice /\ reader'.step = "away"
  BY DEF LeaveThread, NoReader, Reader
<1> QED BY <1>1, <1>2 DEF ThreadInv, ThreadTyped, Passed

\* A table answers for what was there when the reader came: the newest of what
\* it has now, all of it or a full page.
LEMMA FetchKeeps ==
    ASSUME ThreadInv, NEW d \in Directions, Fetch(d)
    PROVE  ThreadInv'
<1> DEFINE mine == {m \in box : m.direction = d /\ (reader.before # 0 => m.at < reader.before)}
<1>1. PICK rows \in FirstOf(mine, reader.limit) :
        reader' = [reader EXCEPT !.got = @ \cup rows, !.asked = @ \cup {d}]
  BY DEF Fetch
<1>2. box' = box /\ reader.step = "asking" /\ d \notin reader.asked /\ Asking
  BY DEF Fetch, ThreadInv
<1>3. reader \in ReaderRow /\ reader.limit \in Nat
  BY DEF ThreadInv, ThreadTyped, ReaderRow
<1>4. mine \subseteq box /\ mine \subseteq ThreadMessage /\ IsFiniteSet(mine)
  BY FS_Subset DEF ThreadInv, ThreadTyped
<1>5. \A m \in ThreadMessage :
        m \in mine <=> m \in box /\ m.direction = d /\ Below(m, reader.before)
  BY <1>4 DEF Below
<1> HIDE DEF mine
<1>6. /\ rows \subseteq mine /\ Cardinality(rows) \in Nat
      /\ Cardinality(mine) <= reader.limit => rows = mine
      /\ Cardinality(mine) > reader.limit => Cardinality(rows) = reader.limit
      /\ \A m \in rows, n \in mine \ rows : n.at <= m.at
      /\ Cardinality(mine) \in Nat
  BY <1>3, <1>4, FirstAre
<1>7. /\ reader'.step = reader.step /\ reader'.limit = reader.limit
      /\ reader'.before = reader.before /\ reader'.there = reader.there
      /\ reader'.shown = reader.shown /\ reader'.cuts = reader.cuts
      /\ reader'.twice = reader.twice
      /\ reader'.got = reader.got \cup rows /\ reader'.asked = reader.asked \cup {d}
  BY <1>1, <1>3 DEF ReaderRow
<1>8. reader' \in ReaderRow
  BY <1>1, <1>3, <1>4, <1>6 DEF ReaderRow
<1>9. /\ \A m \in reader.got : m.direction # d
      /\ \A m \in rows : m.direction = d /\ Below(m, reader.before) /\ m \in box
  BY <1>2, <1>4, <1>5, <1>6 DEF Asking
<1>10. AnswerOf(d)' = rows
  BY <1>7, <1>9 DEF AnswerOf
<1>11. Answered(d)'
  <2>1. CASE Cardinality(mine) <= reader.limit
    BY <2>1, <1>2, <1>3, <1>5, <1>6, <1>7 DEF Answered, Asking, ReaderRow
  <2>2. CASE Cardinality(mine) > reader.limit
    <3> SUFFICES ASSUME NEW m \in reader.there, NEW n \in rows,
                        m.direction = d, Below(m, reader.before), m \notin reader.got \cup rows
                 PROVE  m.at <= n.at
      BY <2>2, <1>6, <1>7, <1>10 DEF Answered
    <3>1. m \in mine \ rows
      BY <1>2, <1>3, <1>5 DEF Asking, ReaderRow
    <3> QED BY <3>1, <1>6
  <2> QED BY <2>1, <2>2, <1>3, <1>6
<1>12. ASSUME NEW e \in reader.asked PROVE Answered(e)'
  <2>1. AnswerOf(e)' = AnswerOf(e)
    BY <1>2, <1>7, <1>9 DEF AnswerOf
  <2>2. Answered(e)
    BY <1>2 DEF Asking
  <2>3. \A m \in rows : m.direction # e
    BY <1>2, <1>9
  <2> QED BY <2>1, <2>2, <2>3, <1>7 DEF Answered
<1>13. Asking'
  BY <1>2, <1>7, <1>9, <1>11, <1>12 DEF Asking
<1>14. Passed'
  BY <1>7 DEF ThreadInv, Passed
<1> QED BY <1>2, <1>7, <1>8, <1>13, <1>14 DEF ThreadInv, ThreadTyped

\* The heart of it: of two full answers cut back to one page, what the page
\* leaves out is older than all of it, or as old as its oldest, even of what
\* the tables were not asked for because they had answered a page already.
LEMMA PageHasTheNewest ==
    ASSUME ThreadInv, reader.step = "asking", reader.asked = Directions,
           NEW page \in FirstOf(reader.got, reader.limit), page # {},
           NEW m \in reader.there \ page, Below(m, reader.before)
    PROVE  m.at <= Oldest(page)
<1>1. reader \in ReaderRow /\ reader.limit \in Nat /\ Asking
  BY DEF ThreadInv, ThreadTyped, ReaderRow
<1>2. reader.got \subseteq ThreadMessage /\ IsFiniteSet(reader.got)
  BY <1>1, FS_Subset DEF ThreadInv, ThreadTyped, Asking, ReaderRow
<1>3. /\ page \subseteq reader.got /\ IsFiniteSet(page) /\ Cardinality(page) \in Nat
      /\ Cardinality(page) <= reader.limit
      /\ \A x \in page, y \in reader.got \ page : y.at <= x.at
  BY <1>1, <1>2, FirstAre
<1>4. /\ Oldest(page) \in Nat
      /\ \E x \in page : x.at = Oldest(page)
  BY <1>2, <1>3, OldestIsThere, ThreadAssumption
<1>5. PICK oldest \in page : oldest.at = Oldest(page)
  BY <1>4
<1>6. m \in ThreadMessage /\ m.at \in Nat /\ m.direction \in Directions
  BY <1>1, ThreadAssumption DEF ReaderRow, ThreadMessage
<1> SUFFICES ASSUME m.at > Oldest(page) PROVE FALSE
  BY <1>4, <1>6
<1>7. m \notin reader.got
  BY <1>3, <1>4, <1>5, <1>6
<1> DEFINE mine == AnswerOf(m.direction)
<1>8. mine \subseteq reader.got
  BY DEF AnswerOf
<1>9. Cardinality(mine) = reader.limit /\ \A n \in mine : m.at <= n.at
  BY <1>1, <1>6, <1>7 DEF Asking, Answered
<1> HIDE DEF mine
<1>10. \A n \in mine : n.at \in Nat
  BY <1>2, <1>8, ThreadAssumption DEF ThreadMessage
<1>11. \A n \in mine : n.at > Oldest(page)
  BY <1>4, <1>6, <1>9, <1>10
<1>12. mine \subseteq page /\ oldest \notin mine
  BY <1>3, <1>4, <1>5, <1>8, <1>10, <1>11
<1>13. IsFiniteSet(mine)
  BY <1>3, <1>12, FS_Subset
<1>14. Cardinality(mine \cup {oldest}) = reader.limit + 1
  BY <1>9, <1>12, <1>13, FS_AddElement
<1>15. mine \cup {oldest} \in SUBSET page
  BY <1>12
<1>16. Cardinality(mine \cup {oldest}) <= Cardinality(page)
  BY <1>3, <1>15, FS_Subset
<1> QED BY <1>1, <1>3, <1>14, <1>16

\* The last page holds all that the tables answered, and they answered all.
LEMMA LastPageIsAll ==
    ASSUME ThreadInv, reader.step = "asking", reader.asked = Directions,
           NEW page \in FirstOf(reader.got, reader.limit),
           page = {} \/ ~ (\/ Cardinality(reader.got) > reader.limit
                           \/ Cardinality(page) = reader.limit),
           NEW m \in reader.there, Below(m, reader.before)
    PROVE  m \in page
<1>1. reader \in ReaderRow /\ reader.limit \in Nat \ {0} /\ Asking
  BY DEF ThreadInv, ThreadTyped, ReaderRow
<1>2. reader.got \subseteq ThreadMessage /\ IsFiniteSet(reader.got)
  BY <1>1, FS_Subset DEF ThreadInv, ThreadTyped, Asking, ReaderRow
<1>3. /\ Cardinality(reader.got) \in Nat
      /\ Cardinality(reader.got) <= reader.limit => page = reader.got
      /\ Cardinality(reader.got) > reader.limit => Cardinality(page) = reader.limit
  BY <1>1, <1>2, FirstAre
<1>4. page = reader.got /\ Cardinality(reader.got) < reader.limit
  BY <1>1, <1>3, FS_EmptySet
<1>5. m.direction \in Directions
  BY <1>1 DEF ReaderRow, ThreadMessage
<1>6. AnswerOf(m.direction) \in SUBSET reader.got
  BY DEF AnswerOf
<1>7. Cardinality(AnswerOf(m.direction)) <= Cardinality(reader.got)
  BY <1>2, <1>6, FS_Subset
<1>8. Cardinality(AnswerOf(m.direction)) # reader.limit
  BY <1>1, <1>3, <1>4, <1>7
<1> QED BY <1>1, <1>4, <1>5, <1>8 DEF Asking, Answered

\* A page is cut at its size and the cursor put at its oldest message: nothing between
\* the two is passed over.
LEMMA PageKeeps ==
    ASSUME ThreadInv, ShowPage
    PROVE  ThreadInv'
<1> DEFINE more(page) == \/ Cardinality(reader.got) > reader.limit
                         \/ Cardinality(page) = reader.limit
           goes(page) == more(page) /\ page # {}
<1>1. PICK page \in FirstOf(reader.got, reader.limit) :
        reader' = [reader EXCEPT !.got = {}, !.asked = {}, !.shown = @ \cup page,
                     !.twice = @ \/ page \cap reader.shown # {},
                     !.before = IF goes(page) THEN Oldest(page) ELSE @,
                     !.cuts = IF goes(page) THEN @ \cup {Oldest(page)} ELSE @,
                     !.step = IF goes(page) THEN "asking" ELSE "at the top"]
  BY DEF ShowPage, PagesOf
<1>2. box' = box /\ reader.step = "asking" /\ reader.asked = Directions /\ Asking
  BY DEF ShowPage, ThreadInv
<1>3. reader \in ReaderRow /\ reader.limit \in Nat
  BY DEF ThreadInv, ThreadTyped, ReaderRow
<1>4. reader.got \subseteq ThreadMessage /\ IsFiniteSet(reader.got)
  BY <1>2, <1>3, FS_Subset DEF ThreadInv, ThreadTyped, Asking, ReaderRow
<1>5. page \subseteq reader.got /\ page \subseteq ThreadMessage
  BY <1>3, <1>4, FirstAre
<1>6. page # {} => /\ Oldest(page) \in Instants /\ Oldest(page) \in Nat \ {0}
                   /\ \A m \in page : Oldest(page) <= m.at
                   /\ \E n \in page : n.at = Oldest(page)
  BY <1>5, OldestIsThere, ThreadAssumption
<1>7. /\ reader'.limit = reader.limit /\ reader'.there = reader.there
      /\ reader'.shown = reader.shown \cup page
      /\ reader'.got = {} /\ reader'.asked = {}
      /\ reader'.twice = (reader.twice \/ page \cap reader.shown # {})
      /\ reader'.before = IF goes(page) THEN Oldest(page) ELSE reader.before
      /\ reader'.cuts = IF goes(page) THEN reader.cuts \cup {Oldest(page)} ELSE reader.cuts
      /\ reader'.step = IF goes(page) THEN "asking" ELSE "at the top"
  BY <1>1, <1>3 DEF ReaderRow
<1>8. reader' \in ReaderRow
  BY <1>1, <1>3, <1>5, <1>6 DEF ReaderRow
<1>9. \A m \in reader.got : Below(m, reader.before) /\ m.at \in Nat
  BY <1>2, <1>4, ThreadAssumption DEF Asking, ThreadMessage
<1>10. /\ \A m \in reader.shown : reader.before # 0 /\ m.at >= reader.before /\ m.at \in Nat
       /\ reader.before \in Nat
  <2>1. reader.before \in Nat /\ reader.shown \subseteq ThreadMessage
    <3>1. reader.before \in Instants \cup {0} /\ reader.shown \subseteq ThreadMessage
      BY <1>3 DEF ReaderRow
    <3>2. \A t \in Instants : t \in Nat
      BY ThreadAssumption
    <3> QED BY <3>1, <3>2
  <2>2. \A m \in ThreadMessage : m.at \in Nat
    BY ThreadAssumption DEF ThreadMessage
  <2> QED BY <2>1, <2>2, <1>2 DEF Asking
<1>11. page \cap reader.shown = {}
  BY <1>5, <1>9, <1>10 DEF Below
<1>12. ~ reader'.twice
  BY <1>7, <1>11 DEF ThreadInv
<1>13. CASE goes(page)
  <2>1. reader'.before = Oldest(page) /\ reader'.step = "asking" /\ page # {}
    BY <1>7, <1>13
  <2>2. \A m \in reader'.shown : reader'.before # 0 /\ m.at >= reader'.before
    <3> TAKE m \in reader'.shown
    <3>1. CASE m \in page
      BY <3>1, <2>1, <1>5, <1>6, <1>9
    <3>2. CASE m \in reader.shown
      <4>1. PICK n \in page : n.at = Oldest(page)
        BY <2>1, <1>6
      <4>2. n.at < reader.before /\ n.at \in Nat
        BY <1>5, <1>9, <1>10, <3>2 DEF Below
      <4> QED BY <4>1, <4>2, <3>2, <2>1, <1>6, <1>10
    <3> QED BY <3>1, <3>2, <1>7
  <2>3. Asking'
    BY <2>2, <1>2, <1>7 DEF Asking
  <2>4. ASSUME NEW m \in reader.there, m \notin reader.shown, m \notin page
        PROVE  Below(m, reader'.before) \/ m.at \in reader'.cuts
    <3>1. CASE m.at \in reader.cuts
      BY <3>1, <1>7
    <3>2. CASE Below(m, reader.before)
      <4>1. m.at <= Oldest(page)
        BY <3>2, <2>1, <2>4, <1>2, PageHasTheNewest
      <4>2. m.at \in Nat
        BY <1>3, ThreadAssumption DEF ReaderRow, ThreadMessage
      <4>3. m.at < Oldest(page) \/ m.at = Oldest(page)
        BY <4>1, <4>2, <2>1, <1>6
      <4> QED BY <4>3, <2>1, <1>7, <1>13 DEF Below
    <3> QED BY <3>1, <3>2, <2>4 DEF ThreadInv, Passed
  <2>5. Passed'
    BY <2>1, <2>4, <1>7 DEF Passed
  <2> QED BY <2>3, <2>5, <1>2, <1>8, <1>12 DEF ThreadInv, ThreadTyped
<1>14. CASE ~ goes(page)
  <2>1. reader'.step = "at the top" /\ reader'.cuts = reader.cuts
    BY <1>7, <1>14
  <2>2. ASSUME NEW m \in reader.there, m \notin reader.shown, m \notin page
        PROVE  m.at \in reader.cuts
    <3>1. ~ Below(m, reader.before)
      BY <2>2, <1>2, <1>14, LastPageIsAll
    <3> QED BY <3>1, <2>2 DEF ThreadInv, Passed
  <2>3. Passed'
    BY <2>1, <2>2, <1>7 DEF Passed
  <2> QED BY <2>1, <2>3, <1>2, <1>8, <1>12 DEF ThreadInv, ThreadTyped
<1> QED BY <1>13, <1>14

\* Every step of the conversation and its reader
LEMMA ThreadStep ==
    ASSUME ThreadInv, ThreadNext \/ UNCHANGED threadPageVars
    PROVE  ThreadInv'
<1>1. CASE UNCHANGED threadPageVars
  BY <1>1 DEF threadPageVars, ThreadInv, ThreadTyped, Passed, Asking, Answered, AnswerOf
<1>2. CASE ThreadNext
  BY <1>2, ArrivalKeeps, OpeningKeeps, FetchKeeps, PageKeeps, LeavingKeeps DEF ThreadNext
<1> QED BY <1>1, <1>2

\* What a step of the whole is to the conversation
LEMMA ThreadFrame == [ChargesNext]_chargeVars => ThreadNext \/ UNCHANGED threadPageVars
BY DEF ChargesNext, chargeVars, screens, SetTaxDetails, ChargeOrg, ChargeMandate, Raise

\* Scrolling back through a conversation that grows at both ends of the page
\* shows no message twice and passes none over, but for those of the very time a
\* page was cut at: for any page size, any number of messages, however many carry
\* one time, and whichever of the two tables answers first (thread()).
THEOREM NoMessageIsSkipped == ChargesSpec => []NothingSkipped
<1>1. ChargesInit => ThreadInv
  BY ThreadBegins DEF ChargesInit
<1>2. ThreadInv /\ [ChargesNext]_chargeVars => ThreadInv'
  BY ThreadFrame, ThreadStep
<1>3. ThreadInv => NothingSkipped
  BY DEF ThreadInv, Passed, NothingSkipped, Below
<1> QED BY <1>1, <1>2, <1>3, PTL DEF ChargesSpec

-----------------------------------------------------------------------------
(* The price list: types *)

Limits == [Allowances -> Nat \cup {None}]

Contents == PlanIds \cup BOOLEAN \cup {"subscribe", "contact"} \cup Limits \cup Nat

\* What is left of an UpdatePlanDto, or the id of a plan just made
Patch ==
    {p \in UNION {[F -> Contents] : F \in SUBSET Editable} :
       /\ "planId" \in DOMAIN p => p.planId \in PlanIds
       /\ "recommended" \in DOMAIN p => p.recommended \in BOOLEAN
       /\ "active" \in DOMAIN p => p.active \in BOOLEAN
       /\ "ctaKind" \in DOMAIN p => p.ctaKind \in {"subscribe", "contact"}
       /\ "max" \in DOMAIN p => p.max \in Limits
       /\ "rank" \in DOMAIN p => p.rank \in Nat}

\* A request in flight, by what it is at
Buying == [at : {"buying"}, org : Orgs, code : Codes, planId : PlanIds]
AddingOne == [at : {"adding"}, org : Orgs, kind : Kinds]
Making == [at : {"making"}, code : Codes, row : Row \cup {None}, amount : Nat]
Inserting == [at : {"inserting"}, code : Codes, row : Row, amount : Nat \cup {None}]
Editing == [at : {"clearing", "wiring"}, code : Codes, patch : Patch]
Syncing == [at : {"syncing"}, todo : SUBSET DOMAIN Mapping]
Granting == [at : {"granting"}, user : Users, isAdmin : BOOLEAN]
Pruning == [at : {"pruning"}, todo : SUBSET Holders]
Dropping == [at : {"dropping sent", "dropping received"}, org : Holders, before : Int,
             todo : SUBSET Holders]

Request == {Idle} \cup Buying \cup AddingOne \cup Making \cup Inserting \cup Editing
           \cup Syncing \cup Granting \cup Pruning \cup Dropping

ListTyped ==
    /\ plans \in [Codes -> Row \cup {None}]
    /\ provider \in [PlanIds -> Nat \cup {None}]
    /\ sub \in [Orgs -> Subscription]
    /\ held \in [Kinds -> [Orgs -> Nat]]
    /\ admins \subseteq Users
    /\ req \in [Requests -> Request]
    /\ edits \in 0 .. MaxEdits
    /\ ceiling \in [Kinds -> [Orgs -> Nat \cup {None}]]
    /\ crossed \subseteq {"recommended", "admins"}
    /\ today \in Nat

\* The label tells which of the shapes a request has.
LEMMA ByLabel ==
    ASSUME NEW q \in Request
    PROVE  /\ q.at = "buying" => q \in Buying
           /\ q.at = "adding" => q \in AddingOne
           /\ q.at = "making" => q \in Making
           /\ q.at = "inserting" => q \in Inserting
           /\ q.at \in {"clearing", "wiring"} => q \in Editing
           /\ q.at = "syncing" => q \in Syncing
           /\ q.at = "granting" => q \in Granting
           /\ q.at = "pruning" => q \in Pruning
           /\ q.at \in {"dropping sent", "dropping received"} => q \in Dropping
           /\ q.at = "idle" => q = Idle
<1>1. Idle.at = "idle"
  BY DEF Idle
<1>2. /\ \A x \in Buying : x.at = "buying"
      /\ \A x \in AddingOne : x.at = "adding"
      /\ \A x \in Granting : x.at = "granting"
  BY DEF Buying, AddingOne, Granting
<1>3. /\ \A x \in Making : x.at = "making"
      /\ \A x \in Inserting : x.at = "inserting"
  BY DEF Making, Inserting
<1>4. /\ \A x \in Editing : x.at \in {"clearing", "wiring"}
      /\ \A x \in Syncing : x.at = "syncing"
  BY DEF Editing, Syncing
<1>5. /\ \A x \in Pruning : x.at = "pruning"
      /\ \A x \in Dropping : x.at \in {"dropping sent", "dropping received"}
  BY DEF Pruning, Dropping
<1> QED BY <1>1, <1>2, <1>3, <1>4, <1>5 DEF Request

\* A row patched is a row, with the same price and the same owner.
LEMMA PatchedIsRow ==
    ASSUME NEW row \in Row, NEW p \in Patch
    PROVE  /\ Patched(row, p) \in Row
           /\ Patched(row, p).price = row.price
           /\ Patched(row, p).planId =
                IF "planId" \in DOMAIN p THEN p.planId ELSE row.planId
           /\ Patched(row, p).recommended =
                IF "recommended" \in DOMAIN p THEN p.recommended ELSE row.recommended
<1> DEFINE Columns == {"price", "sso", "ctaKind", "planId", "max", "rank", "recommended",
                       "active"}
           new == Patched(row, p)
           at(f) == IF f \in DOMAIN p THEN p[f] ELSE row[f]
<1>1. DOMAIN row = Columns
  BY DEF Row
<1>2. new = [f \in Columns |-> at(f)]
  BY <1>1 DEF Patched, Fields
<1>3. DOMAIN p \subseteq Editable
  BY DEF Patch
<1>4. /\ at("price") = row.price /\ at("sso") = row.sso
  BY <1>3 DEF Editable
<1>5. /\ at("ctaKind") \in {"subscribe", "contact"} /\ at("planId") \in PlanIds \cup {None}
      /\ at("max") \in Limits /\ at("rank") \in Nat /\ at("recommended") \in BOOLEAN
      /\ at("active") \in BOOLEAN
  BY DEF Row, Patch, Limits
<1>6. row.price \in Nat \cup {None} /\ row.sso \in Orgs \cup {None}
  BY DEF Row
<1>7. /\ new.price = at("price") /\ new.sso = at("sso") /\ new.ctaKind = at("ctaKind")
      /\ new.planId = at("planId") /\ new.max = at("max") /\ new.rank = at("rank")
      /\ new.recommended = at("recommended") /\ new.active = at("active")
  BY <1>2
<1>8. new = [price |-> at("price"), sso |-> at("sso"), ctaKind |-> at("ctaKind"),
             planId |-> at("planId"), max |-> at("max"), rank |-> at("rank"),
             recommended |-> at("recommended"), active |-> at("active")]
  BY <1>2
<1> HIDE DEF at
<1>9. new \in Row
  BY <1>4, <1>5, <1>6, <1>8 DEF Row, Limits
<1> QED BY <1>4, <1>7, <1>9 DEF at

-----------------------------------------------------------------------------
(* The price list: what is wired charges what is published *)

\* A plan at the provider charges what the tier costs, or is the one that the
\* configuration names.
Sells(c, id, list, made) ==
    \/ list[c].price = None
    \/ made[id] = list[c].price
    \/ c \in DOMAIN Mapping /\ Mapping[c] = id

SoldRight(s, list, made) ==
    s.tier # None => /\ list[s.tier] # None
                     /\ s.planId # None => Sells(s.tier, s.planId, list, made)

\* What a request in flight has read, checked or had made still stands.
Sound(q, list, made) ==
    /\ q.at = "buying" => list[q.code] # None /\ Sells(q.code, q.planId, list, made)
    /\ q.at = "making" =>
         IF q.row = None THEN list[q.code] # None /\ list[q.code].price = q.amount
         ELSE q.row.price = q.amount /\ ~ q.row.recommended
    /\ q.at = "inserting" =>
         /\ ~ q.row.recommended
         /\ q.row.planId # None /\ q.row.price # None => made[q.row.planId] = q.row.price
    /\ q.at \in {"clearing", "wiring"} =>
         /\ list[q.code] # None
         /\ "planId" \in DOMAIN q.patch => Sells(q.code, q.patch.planId, list, made)
    /\ q.at = "clearing" => "recommended" \in DOMAIN q.patch /\ q.patch.recommended

ListInv ==
    /\ ListTyped
    /\ \A c \in Codes : plans[c] # None /\ plans[c].planId # None =>
         Sells(c, plans[c].planId, plans, provider)
    /\ \A o \in Orgs : SoldRight(sub[o], plans, provider)
    /\ \A o \in Orgs : AccountTier[o] # None => plans[AccountTier[o]] # None
    /\ \A r \in Requests : Sound(req[r], plans, provider)

\* No tier is taken off the list or repriced, and no plan of the provider's is.
Grown(list, made, list2, made2) ==
    /\ {list, list2} \subseteq [Codes -> Row \cup {None}]
    /\ {made, made2} \subseteq [PlanIds -> Nat \cup {None}]
    /\ \A c \in Codes : list[c] # None => list2[c] # None /\ list2[c].price = list[c].price
    /\ \A id \in PlanIds : made[id] # None => made2[id] = made[id]

\* A null column is told from every value.
LEMMA NoneIsNone ==
    /\ None \notin Nat /\ None \notin Codes /\ None \notin Orgs /\ None \notin PlanIds
    /\ None \notin Row /\ None \notin Subscription
BY ListAssumption

\* A tier sold by an id goes on being sold by it: nothing is repriced.
LEMMA SellsLasts ==
    ASSUME NEW list, NEW made, NEW list2, NEW made2, Grown(list, made, list2, made2),
           NEW c \in Codes, NEW id \in PlanIds, list[c] # None, Sells(c, id, list, made)
    PROVE  Sells(c, id, list2, made2)
<1>1. list2[c].price = list[c].price
  BY DEF Grown
<1>2. list[c].price \in Nat \cup {None}
  BY DEF Grown, Row
<1>3. CASE made[id] = list[c].price /\ list[c].price # None
  BY <1>1, <1>3 DEF Sells, Grown
<1> QED BY <1>1, <1>2, <1>3 DEF Sells

\* What was bought stays bought at its price.
LEMMA SoldLasts ==
    ASSUME NEW list, NEW made, NEW list2, NEW made2, Grown(list, made, list2, made2),
           NEW s \in Subscription, SoldRight(s, list, made)
    PROVE  SoldRight(s, list2, made2)
<1>1. s.tier \in Codes \cup {None} /\ s.planId \in PlanIds \cup {None}
  BY DEF Subscription
<1> QED BY <1>1, SellsLasts DEF SoldRight, Grown

\* A request in flight is not overtaken by an edit.
LEMMA SoundLasts ==
    ASSUME NEW list, NEW made, NEW list2, NEW made2, Grown(list, made, list2, made2),
           NEW q \in Request, Sound(q, list, made)
    PROVE  Sound(q, list2, made2)
<1>1. CASE q.at = "buying"
  <2>1. q.code \in Codes /\ q.planId \in PlanIds
    BY <1>1, ByLabel DEF Buying
  <2> QED BY <1>1, <2>1, SellsLasts DEF Sound, Grown
<1>2. CASE q.at = "making"
  <2>1. q.code \in Codes
    BY <1>2, ByLabel DEF Making
  <2> QED BY <1>2, <2>1 DEF Sound, Grown
<1>3. CASE q.at = "inserting"
  <2>1. q.row.planId \in PlanIds \cup {None} /\ q.row.price \in Nat \cup {None}
    BY <1>3, ByLabel DEF Inserting, Row
  <2>2. q.row.planId # None /\ q.row.price # None => made2[q.row.planId] = q.row.price
    BY <1>3, <2>1 DEF Sound, Grown
  <2> QED BY <1>3, <2>2 DEF Sound
<1>4. CASE q.at \in {"clearing", "wiring"}
  <2>1. q.code \in Codes /\ q.patch \in Patch
    BY <1>4, ByLabel DEF Editing
  <2>2. "planId" \in DOMAIN q.patch => q.patch.planId \in PlanIds
    BY <2>1 DEF Patch
  <2>3. list[q.code] # None /\ list2[q.code] # None
    BY <1>4, <2>1 DEF Sound, Grown
  <2>4. "planId" \in DOMAIN q.patch => Sells(q.code, q.patch.planId, list2, made2)
    BY <1>4, <2>1, <2>2, <2>3, SellsLasts DEF Sound
  <2> QED BY <1>4, <2>3, <2>4 DEF Sound
<1> QED BY <1>1, <1>2, <1>3, <1>4 DEF Sound

\* The list and the provider as they are have grown by nothing.
LEMMA GrownByNothing ==
    ASSUME ListTyped PROVE Grown(plans, provider, plans, provider)
BY DEF ListTyped, Grown

\* A request goes on while the list grows: the others stand where they stood.
LEMMA RequestMoves ==
    ASSUME ListInv, NEW r \in Requests, NEW q \in Request,
           req' = [req EXCEPT ![r] = q],
           Grown(plans, provider, plans', provider'), Sound(q, plans', provider')
    PROVE  /\ req' \in [Requests -> Request]
           /\ \A s \in Requests : Sound(req'[s], plans', provider')
           /\ \A o \in Orgs : SoldRight(sub[o], plans', provider')
           /\ \A o \in Orgs : AccountTier[o] # None => plans'[AccountTier[o]] # None
<1>1. req \in [Requests -> Request] /\ sub \in [Orgs -> Subscription]
  BY DEF ListInv, ListTyped
<1>2. \A s \in Requests : Sound(req[s], plans', provider')
  BY <1>1, SoundLasts DEF ListInv
<1>3. \A s \in Requests : req'[s] = IF s = r THEN q ELSE req[s]
  BY <1>1
<1>4. \A s \in Requests : Sound(req'[s], plans', provider')
  BY <1>2, <1>3
<1>5. \A o \in Orgs : SoldRight(sub[o], plans', provider')
  BY <1>1, SoldLasts DEF ListInv
<1>6. \A o \in Orgs : AccountTier[o] # None => plans'[AccountTier[o]] # None
  <2>1. \A o \in Orgs : AccountTier[o] # None => AccountTier[o] \in Codes
    BY ListAssumption
  <2> QED BY <2>1 DEF ListInv, Grown
<1> QED BY <1>1, <1>4, <1>5, <1>6

\* A request that changes neither the list nor the subscriptions
LEMMA QuietMove ==
    ASSUME ListInv, NEW r \in Requests, NEW q \in Request,
           req' = [req EXCEPT ![r] = q], Sound(q, plans, provider),
           UNCHANGED <<plans, provider, sub>>,
           (/\ held \in [Kinds -> [Orgs -> Nat]] /\ admins \subseteq Users
            /\ edits \in 0 .. MaxEdits /\ crossed \subseteq {"recommended", "admins"}
            /\ ceiling \in [Kinds -> [Orgs -> Nat \cup {None}]] /\ today \in Nat)'
    PROVE  ListInv'
<1>1. Grown(plans, provider, plans', provider')
  BY GrownByNothing DEF ListInv
<1>2. Sound(q, plans', provider')
  OBVIOUS
<1>3. /\ req' \in [Requests -> Request]
      /\ \A s \in Requests : Sound(req'[s], plans', provider')
  BY <1>1, <1>2, RequestMoves
<1> QED BY <1>3 DEF ListInv, ListTyped

\* What is idle, or no longer anything but at work on contacts, days or admins,
\* has nothing to be sound about.
LEMMA PlainIsSound ==
    ASSUME NEW q, NEW list, NEW made,
           q.at \notin {"buying", "making", "inserting", "clearing", "wiring"}
    PROVE  Sound(q, list, made)
BY DEF Sound

\* register(): what is sold is a tier of the list, by the id it is wired to.
LEMMA RegisterKeeps ==
    ASSUME ListInv, NEW r \in Requests, NEW o \in Orgs, NEW c \in Codes, Register(r, o, c),
           today' \in Nat
    PROVE  ListInv'
<1> DEFINE q == [at |-> "buying", org |-> o, code |-> c, planId |-> plans[c].planId]
<1>1. plans[c] # None /\ plans[c].planId # None /\ plans[c] \in Row
  BY DEF Register, sellablePlan, Published, ListInv, ListTyped
<1>2. plans[c].planId \in PlanIds
  BY <1>1 DEF Row
<1>3. q \in Request /\ Sound(q, plans, provider)
  BY <1>1, <1>2 DEF Request, Buying, Sound, ListInv
<1>4. req' = [req EXCEPT ![r] = q]
  BY DEF Register, Begin
<1> HIDE DEF q
<1> QED BY <1>3, <1>4, QuietMove DEF Register, listVars, history, ListInv, ListTyped

\* The subscription has what was bought, if it was made.
LEMMA SubscribeKeeps ==
    ASSUME ListInv, NEW r \in Requests, Subscribe(r), today' \in Nat
    PROVE  ListInv'
<1>1. req' = [req EXCEPT ![r] = Idle] /\ plans' = plans /\ provider' = provider
  BY DEF Subscribe, End, listVars
<1>2. Idle \in Request /\ Sound(Idle, plans', provider')
  BY PlainIsSound DEF Request, Idle
<1>3. Grown(plans, provider, plans', provider')
  BY <1>1, GrownByNothing DEF ListInv
<1>4. /\ req' \in [Requests -> Request]
      /\ \A s \in Requests : Sound(req'[s], plans', provider')
      /\ \A o \in Orgs : SoldRight(sub[o], plans', provider')
  BY <1>1, <1>2, <1>3, RequestMoves
<1>5. req[r] \in Buying /\ Sound(req[r], plans, provider)
  BY ByLabel DEF Subscribe, At, ListInv, ListTyped
<1> DEFINE row == [live |-> TRUE, tier |-> req[r].code, planId |-> req[r].planId]
<1>6. row \in Subscription /\ SoldRight(row, plans', provider')
  BY <1>1, <1>5 DEF Buying, Subscription, Sound, SoldRight
<1>7. sub' = sub \/ sub' = [sub EXCEPT ![req[r].org] = row]
  BY DEF Subscribe
<1> HIDE DEF row
<1>8. sub' \in [Orgs -> Subscription] /\ \A o \in Orgs : sub'[o] \in {sub[o], row}
  BY <1>6, <1>7 DEF ListInv, ListTyped
<1>9. \A o \in Orgs : SoldRight(sub'[o], plans', provider')
  BY <1>4, <1>6, <1>8
<1> QED BY <1>1, <1>4, <1>8, <1>9 DEF Subscribe, listVars, history, ListInv, ListTyped

\* A subscription ends at the provider.
LEMMA LapseKeeps ==
    ASSUME ListInv, NEW o \in Orgs, Lapse(o), today' \in Nat
    PROVE  ListInv'
<1>1. sub' = [sub EXCEPT ![o] = [sub[o] EXCEPT !.live = FALSE]]
  BY DEF Lapse
<1>2. \A p \in Orgs : sub[p] \in Subscription
  BY DEF ListInv, ListTyped
<1> DEFINE row == [sub[o] EXCEPT !.live = FALSE]
<1>3. row \in Subscription /\ row.tier = sub[o].tier /\ row.planId = sub[o].planId
  BY <1>2 DEF Subscription
<1>4. SoldRight(row, plans, provider)
  BY <1>3 DEF ListInv, SoldRight
<1> HIDE DEF row
<1>5. sub' \in [Orgs -> Subscription] /\ \A p \in Orgs : SoldRight(sub'[p], plans, provider)
  BY <1>1, <1>3, <1>4 DEF ListInv, ListTyped, row
<1> QED BY <1>5 DEF Lapse, listVars, history, ListInv, ListTyped

\* A ceiling is a number, or none, whichever tier it is read off.
LEMMA TiersRead ==
    ASSUME ListInv, NEW o \in Orgs
    PROVE  /\ subscribedPlans(o) \subseteq Row
           /\ forOrg(o) \subseteq Row /\ forWaba(o) \subseteq Row
<1>1. \A p \in Orgs : subscribedPlans(p) \subseteq Row
  <2> TAKE p \in Orgs
  <2>1. AccountTier[p] # None => plans[AccountTier[p]] \in Row
    BY ListAssumption DEF ListInv, ListTyped
  <2>2. sub[p].tier # None => plans[sub[p].tier] \in Row
    <3>1. sub[p].tier \in Codes \cup {None}
      BY DEF ListInv, ListTyped, Subscription
    <3> QED BY <3>1 DEF ListInv, ListTyped, SoldRight
  <2> QED BY <2>1, <2>2 DEF subscribedPlans
<1>2. entryLimits \subseteq Row
  BY DEF entryLimits, Published, ListInv, ListTyped
<1>3. AgencyOf[o] # None => AgencyOf[o] \in Orgs
  BY ListAssumption
<1>4. forOrg(o) \subseteq Row
  BY <1>1, <1>2, <1>3 DEF forOrg, best
<1>5. AccountTier[o] # None => plans[AccountTier[o]] \in Row
  BY ListAssumption DEF ListInv, ListTyped
<1> QED BY <1>1, <1>4, <1>5 DEF forWaba

\* A limit is a number or none.
LEMMA LimitsRead ==
    ASSUME NEW rows, rows \subseteq Row, NEW kind \in Allowances
    PROVE  toLimits(kind, rows) \subseteq Nat \cup {None}
BY DEF toLimits, Row

\* assertRoomFor()
LEMMA AskKeeps ==
    ASSUME ListInv, NEW r \in Requests, NEW o \in Orgs, NEW kind \in Kinds, Ask(r, o, kind),
           today' \in Nat
    PROVE  ListInv'
<1> DEFINE q == [at |-> "adding", org |-> o, kind |-> kind]
<1>1. req' = [req EXCEPT ![r] = q]
  BY DEF Ask, Begin
<1>2. q \in Request /\ Sound(q, plans, provider)
  BY PlainIsSound DEF Request, AddingOne
<1>3. CeilingOf(o, kind) \subseteq Nat \cup {None}
  BY TiersRead, LimitsRead DEF CeilingOf, Allowances
<1>4. PICK limit \in Nat \cup {None} :
        ceiling' = [ceiling EXCEPT ![kind][o] = HigherOf(@, limit)]
  BY <1>3 DEF Ask
<1>5. ceiling[kind][o] \in Nat \cup {None}
  BY DEF ListInv, ListTyped
<1>6. HigherOf(ceiling[kind][o], limit) \in Nat \cup {None}
  BY <1>5 DEF HigherOf
<1>7. ceiling' \in [Kinds -> [Orgs -> Nat \cup {None}]]
  BY <1>4, <1>6 DEF ListInv, ListTyped
<1> HIDE DEF q
<1> QED BY <1>1, <1>2, <1>7, QuietMove DEF Ask, listVars, ListInv, ListTyped

\* The row is added.
LEMMA AddKeeps ==
    ASSUME ListInv, NEW r \in Requests, Add(r), today' \in Nat
    PROVE  ListInv'
<1>1. req' = [req EXCEPT ![r] = Idle]
  BY DEF Add, End
<1>2. Idle \in Request /\ Sound(Idle, plans, provider)
  BY PlainIsSound DEF Request, Idle
<1>3. req[r].kind \in Kinds /\ req[r].org \in Orgs
  <2>1. req[r] \in AddingOne
    BY ByLabel DEF Add, At, ListInv, ListTyped
  <2> QED BY <2>1 DEF AddingOne
<1>4. held' \in [Kinds -> [Orgs -> Nat]]
  BY <1>3 DEF Add, ListInv, ListTyped
<1> QED BY <1>1, <1>2, <1>4, QuietMove DEF Add, listVars, history, ListInv, ListTyped

\* One is removed.
LEMMA RemoveKeeps ==
    ASSUME ListInv, NEW o \in Orgs, NEW kind \in Kinds, RemoveOne(o, kind), today' \in Nat
    PROVE  ListInv'
<1>1. held' \in [Kinds -> [Orgs -> Nat]]
  BY DEF RemoveOne, ListInv, ListTyped
<1> QED BY <1>1 DEF RemoveOne, listVars, history, ListInv, ListTyped

\* createPlan(): a tier that is sold has a price, and the plan is made for it.
LEMMA CreateKeeps ==
    ASSUME ListInv, NEW r \in Requests, NEW d \in Drafts, CreatePlan(r, d), today' \in Nat
    PROVE  ListInv'
<1> DEFINE row == [price |-> d.price, sso |-> d.sso, ctaKind |-> CtaKind(d),
                   planId |-> None, max |-> d.max, rank |-> d.rank,
                   recommended |-> FALSE, active |-> TRUE]
           q == [at |-> IF CtaKind(d) = "subscribe" THEN "making" ELSE "inserting",
                 code |-> d.code, row |-> row, amount |-> d.price]
<1>1. req' = [req EXCEPT ![r] = q]
  BY DEF CreatePlan, Begin
<1>2. d \in DraftRow
  BY ListAssumption
<1>3. CtaKind(d) \in {"subscribe", "contact"}
  BY <1>2 DEF CtaKind, DraftRow
<1>4. row \in Row
  BY <1>2, <1>3 DEF Row, DraftRow
<1>5. row.price = d.price /\ row.recommended = FALSE /\ row.planId = None
  OBVIOUS
<1>6. d.code \in Codes /\ d.price \in Nat \cup {None}
  BY <1>2 DEF DraftRow
<1> HIDE DEF row
<1>7. row # None
  BY <1>4, NoneIsNone
<1>8. CASE CtaKind(d) = "subscribe"
  <2>1. d.price \in Nat
    BY <1>6, <1>8 DEF CreatePlan
  <2>2. q \in Making
    BY <1>4, <1>6, <1>8, <2>1 DEF Making
  <2>3. q \in Request /\ Sound(q, plans, provider)
    BY <1>5, <1>7, <1>8, <2>2 DEF Request, Sound
  <2> HIDE DEF q
  <2> QED BY <1>1, <2>3, QuietMove DEF CreatePlan, listVars, history, ListInv, ListTyped
<1>9. CASE CtaKind(d) # "subscribe"
  <2>1. q \in Inserting
    BY <1>4, <1>6, <1>9 DEF Inserting
  <2>2. q \in Request /\ Sound(q, plans, provider)
    BY <1>5, <1>9, <2>1 DEF Request, Sound
  <2> HIDE DEF q
  <2> QED BY <1>1, <2>2, QuietMove DEF CreatePlan, listVars, history, ListInv, ListTyped
<1> QED BY <1>8, <1>9

\* createProviderPlan() makes a plan at the provider, or fails to.
LEMMA ProviderPlanKeeps ==
    ASSUME ListInv, NEW r \in Requests, NEW c \in Codes, CreateProviderPlan(r, c),
           today' \in Nat
    PROVE  ListInv'
<1> DEFINE q == [at |-> "making", code |-> c, row |-> None, amount |-> plans[c].price]
<1>1. req' = [req EXCEPT ![r] = q]
  BY DEF CreateProviderPlan, Begin
<1>2. plans[c] # None /\ plans[c] \in Row /\ plans[c].price # None
  BY DEF CreateProviderPlan, Published, ListInv, ListTyped
<1>3. plans[c].price \in Nat
  BY <1>2 DEF Row
<1>4. q \in Request /\ Sound(q, plans, provider)
  BY <1>2, <1>3 DEF Request, Making, Sound
<1> HIDE DEF q
<1> QED BY <1>1, <1>4, QuietMove DEF CreateProviderPlan, listVars, history, ListInv, ListTyped

\* A plan made for a tier charges its price, whatever happened to the tier since.
LEMMA MakeKeeps ==
    ASSUME ListInv, NEW r \in Requests, MakePlan(r), today' \in Nat
    PROVE  ListInv' /\ Grown(plans, provider, plans', provider')
<1>1. req[r] \in Making /\ Sound(req[r], plans, provider) /\ At(r, "making")
  BY ByLabel DEF MakePlan, At, ListInv, ListTyped
<1> DEFINE q(id) == IF req[r].row = None
                    THEN [at |-> "wiring", code |-> req[r].code, patch |-> [planId |-> id]]
                    ELSE [at |-> "inserting", code |-> req[r].code,
                          row |-> [req[r].row EXCEPT !.planId = id], amount |-> None]
<1>2. PICK id \in PlanIds : /\ provider[id] = None
                            /\ provider' = [provider EXCEPT ![id] = req[r].amount]
                            /\ req' = [req EXCEPT ![r] = q(id)]
  BY DEF MakePlan, Begin
<1>3. plans' = plans /\ sub' = sub
  BY DEF MakePlan
<1>4. req[r].code \in Codes /\ req[r].amount \in Nat /\ req[r].row \in Row \cup {None}
  BY <1>1 DEF Making
<1>5. provider' \in [PlanIds -> Nat \cup {None}] /\ provider'[id] = req[r].amount
  BY <1>2, <1>4 DEF ListInv, ListTyped
<1>6. Grown(plans, provider, plans', provider')
  BY <1>2, <1>3, <1>5 DEF Grown, ListInv, ListTyped
<1>7. q(id) \in Request /\ Sound(q(id), plans', provider')
  <2>1. CASE req[r].row = None
    <3> DEFINE patch == [planId |-> id]
    <3>1. q(id) = [at |-> "wiring", code |-> req[r].code, patch |-> patch]
      BY <2>1
    <3>2. patch \in [{"planId"} -> Contents] /\ DOMAIN patch = {"planId"} /\ patch.planId = id
      BY DEF Contents
    <3>3. patch \in UNION {[F -> Contents] : F \in SUBSET Editable}
      BY <3>2 DEF Editable
    <3>4. patch \in Patch
      BY <3>2, <3>3 DEF Patch
    <3> HIDE DEF patch
    <3>5. q(id) \in Editing
      BY <1>4, <3>1, <3>4 DEF Editing
    <3>6. plans[req[r].code] # None /\ plans[req[r].code].price = req[r].amount
      BY <1>1, <2>1 DEF Sound, At
    <3>7. Sells(req[r].code, id, plans', provider')
      BY <1>3, <1>5, <3>6 DEF Sells
    <3>8. Sound(q(id), plans', provider')
      BY <1>3, <3>1, <3>2, <3>6, <3>7 DEF Sound
    <3> QED BY <3>5, <3>8 DEF Request
  <2>2. CASE req[r].row # None
    <3> DEFINE row == [req[r].row EXCEPT !.planId = id]
    <3>1. q(id) = [at |-> "inserting", code |-> req[r].code, row |-> row, amount |-> None]
      BY <2>2
    <3>2. req[r].row \in Row
      BY <1>4, <2>2
    <3>3. row \in Row /\ row.planId = id /\ row.price = req[r].row.price
          /\ row.recommended = req[r].row.recommended
      BY <3>2 DEF Row
    <3> HIDE DEF row
    <3>4. q(id) \in Inserting
      BY <1>4, <3>1, <3>3 DEF Inserting
    <3>5. req[r].row.price = req[r].amount /\ ~ req[r].row.recommended
      BY <1>1, <2>2 DEF Sound, At
    <3>6. Sound(q(id), plans', provider')
      BY <1>5, <3>1, <3>3, <3>5 DEF Sound
    <3> QED BY <3>4, <3>6 DEF Request
  <2> QED BY <2>1, <2>2
<1> HIDE DEF q
<1>8. /\ req' \in [Requests -> Request]
      /\ \A s \in Requests : Sound(req'[s], plans', provider')
      /\ \A o \in Orgs : SoldRight(sub'[o], plans', provider')
  BY <1>2, <1>3, <1>6, <1>7, RequestMoves
<1>9. \A c \in Codes : plans'[c] # None /\ plans'[c].planId # None =>
        Sells(c, plans'[c].planId, plans', provider')
  <2> SUFFICES ASSUME NEW c \in Codes, plans[c] # None, plans[c].planId # None
               PROVE  Sells(c, plans[c].planId, plans', provider')
    BY <1>3
  <2>1. plans[c] \in Row
    BY DEF ListInv, ListTyped
  <2>2. plans[c].planId \in PlanIds
    BY <2>1 DEF Row
  <2>3. Sells(c, plans[c].planId, plans, provider)
    BY DEF ListInv
  <2> QED BY <1>6, <2>2, <2>3, SellsLasts
<1> QED BY <1>3, <1>5, <1>6, <1>8, <1>9 DEF MakePlan, history, ListInv, ListTyped

\* A request is answered.
LEMMA EndKeeps ==
    ASSUME ListInv, NEW r \in Requests, End(r), UNCHANGED <<listVars, sub, held, history>>,
           (admins \subseteq Users /\ today \in Nat)'
    PROVE  ListInv'
<1>1. req' = [req EXCEPT ![r] = Idle]
  BY DEF End
<1>2. Idle \in Request /\ Sound(Idle, plans, provider)
  BY PlainIsSound DEF Request, Idle
<1> QED BY <1>1, <1>2, QuietMove DEF listVars, history, ListInv, ListTyped

\* A tier that is written keeps its price, and the others are as they were.
LEMMA TierWritten ==
    ASSUME ListInv, NEW c \in Codes, NEW row \in Row,
           plans' = [plans EXCEPT ![c] = row], provider' = provider,
           plans[c] # None => row.price = plans[c].price,
           row.planId # None => \/ row.price = None
                                \/ provider[row.planId] = row.price
                                \/ c \in DOMAIN Mapping /\ Mapping[c] = row.planId
    PROVE  /\ plans' \in [Codes -> Row \cup {None}]
           /\ Grown(plans, provider, plans', provider')
           /\ \A d \in Codes : plans'[d] # None /\ plans'[d].planId # None =>
                Sells(d, plans'[d].planId, plans', provider')
<1>1. /\ plans \in [Codes -> Row \cup {None}] /\ provider \in [PlanIds -> Nat \cup {None}]
  BY DEF ListInv, ListTyped
<1>2. /\ plans' \in [Codes -> Row \cup {None}] /\ plans'[c] = row
      /\ \A d \in Codes : d # c => plans'[d] = plans[d]
  BY <1>1
<1>3. row # None
  BY NoneIsNone
<1>4. \A d \in Codes : plans[d] # None =>
        plans'[d] # None /\ plans'[d].price = plans[d].price
  BY <1>2, <1>3
<1>5. Grown(plans, provider, plans', provider')
  BY <1>1, <1>2, <1>4 DEF Grown
<1>6. ASSUME NEW d \in Codes, plans'[d] # None, plans'[d].planId # None
      PROVE  Sells(d, plans'[d].planId, plans', provider')
  <2>1. CASE d = c
    BY <2>1, <1>2, <1>6 DEF Sells
  <2>2. CASE d # c
    BY <2>2, <1>2, <1>6 DEF Sells, ListInv
  <2> QED BY <2>1, <2>2
<1> QED BY <1>2, <1>5, <1>6

\* A request that writes the list ends or goes on as it is sound.
LEMMA ListMove ==
    ASSUME ListInv, NEW r \in Requests, NEW q \in Request,
           req' = [req EXCEPT ![r] = q], Sound(q, plans', provider'),
           Grown(plans, provider, plans', provider'),
           \A d \in Codes : plans'[d] # None /\ plans'[d].planId # None =>
             Sells(d, plans'[d].planId, plans', provider'),
           UNCHANGED <<provider, sub, held, admins, history>>, today' \in Nat
    PROVE  ListInv'
<1>1. /\ req' \in [Requests -> Request]
      /\ \A s \in Requests : Sound(req'[s], plans', provider')
      /\ \A o \in Orgs : SoldRight(sub'[o], plans', provider')
      /\ \A o \in Orgs : AccountTier[o] # None => plans'[AccountTier[o]] # None
  BY RequestMoves
<1>2. plans' \in [Codes -> Row \cup {None}]
  BY DEF Grown
<1> QED BY <1>1, <1>2 DEF history, ListInv, ListTyped

\* The same with a step that leaves the list as it was
LEMMA UnchangedList ==
    ASSUME ListInv, plans' = plans, provider' = provider
    PROVE  /\ Grown(plans, provider, plans', provider')
           /\ \A d \in Codes : plans'[d] # None /\ plans'[d].planId # None =>
                Sells(d, plans'[d].planId, plans', provider')
BY GrownByNothing DEF ListInv

\* createPlan() writes a draft.
LEMMA InsertKeeps ==
    ASSUME ListInv, NEW r \in Requests, InsertPlan(r), today' \in Nat
    PROVE  ListInv' /\ Grown(plans, provider, plans', provider')
<1>1. req' = [req EXCEPT ![r] = Idle] /\ provider' = provider
  BY DEF InsertPlan, End
<1>2. Idle \in Request /\ Sound(Idle, plans', provider')
  BY PlainIsSound DEF Request, Idle
<1>3. req[r] \in Inserting /\ Sound(req[r], plans, provider) /\ At(r, "inserting")
  BY ByLabel DEF InsertPlan, At, ListInv, ListTyped
<1>4. req[r].code \in Codes /\ req[r].row \in Row
  BY <1>3 DEF Inserting
<1>5. /\ Grown(plans, provider, plans', provider')
      /\ \A d \in Codes : plans'[d] # None /\ plans'[d].planId # None =>
           Sells(d, plans'[d].planId, plans', provider')
  <2>1. CASE plans[req[r].code] = None
    <3>1. plans' = [plans EXCEPT ![req[r].code] = req[r].row]
      BY <2>1 DEF InsertPlan
    <3>2. req[r].row.planId # None => \/ req[r].row.price = None
                                      \/ provider[req[r].row.planId] = req[r].row.price
      BY <1>3 DEF Sound, At
    <3> QED BY <1>1, <1>4, <2>1, <3>1, <3>2, TierWritten
  <2>2. CASE plans[req[r].code] # None
    BY <1>1, <2>2, UnchangedList DEF InsertPlan
  <2> QED BY <2>1, <2>2
<1> QED BY <1>1, <1>2, <1>5, ListMove DEF InsertPlan

\* What is left of a dto is a patch.
LEMMA DiffersIsPatch ==
    ASSUME NEW dto \in Patches, NEW F, F \subseteq DOMAIN dto
    PROVE  /\ [f \in F |-> dto[f]] \in Patch
           /\ DOMAIN [f \in F |-> dto[f]] = F
<1> DEFINE p == [f \in F |-> dto[f]]
<1>1. DOMAIN p = F /\ \A f \in F : p[f] = dto[f]
  OBVIOUS
<1>2. DOMAIN dto \subseteq Editable
  BY ListAssumption
<1>3. /\ "planId" \in DOMAIN dto => dto.planId \in PlanIds
      /\ "recommended" \in DOMAIN dto => dto.recommended \in BOOLEAN
      /\ "active" \in DOMAIN dto => dto.active \in BOOLEAN
      /\ "ctaKind" \in DOMAIN dto => dto.ctaKind \in {"subscribe", "contact"}
      /\ "max" \in DOMAIN dto => dto.max \in Limits
      /\ "rank" \in DOMAIN dto => dto.rank \in Nat
  BY ListAssumption DEF Limits
<1>4. \A f \in F : dto[f] \in Contents
  BY <1>2, <1>3 DEF Editable, Contents
<1>5. p \in [F -> Contents] /\ F \in SUBSET Editable
  BY <1>2, <1>4
<1>6. p \in UNION {[G -> Contents] : G \in SUBSET Editable}
  BY <1>5
<1>7. /\ "planId" \in DOMAIN p => p.planId \in PlanIds
      /\ "recommended" \in DOMAIN p => p.recommended \in BOOLEAN
      /\ "active" \in DOMAIN p => p.active \in BOOLEAN
      /\ "ctaKind" \in DOMAIN p => p.ctaKind \in {"subscribe", "contact"}
      /\ "max" \in DOMAIN p => p.max \in Limits
      /\ "rank" \in DOMAIN p => p.rank \in Nat
  BY <1>1, <1>3
<1> QED BY <1>1, <1>6, <1>7 DEF Patch

\* updatePlan(): an id that is to be wired was compared with the tier's price.
LEMMA UpdateKeeps ==
    ASSUME ListInv, NEW r \in Requests, NEW c \in Codes, NEW dto \in Patches,
           UpdatePlan(r, c, dto), today' \in Nat
    PROVE  ListInv'
<1> DEFINE differs == {f \in Fields(dto) : dto[f] # plans[c][f]}
           patch == [f \in differs |-> dto[f]]
           highlights == "recommended" \in differs /\ dto.recommended
           q == [at |-> IF highlights THEN "clearing" ELSE "wiring",
                 code |-> c, patch |-> patch]
<1>1. req' = [req EXCEPT ![r] = q]
  BY DEF UpdatePlan, Begin
<1>2. differs \subseteq DOMAIN dto
  BY DEF Fields
<1>3. /\ plans[c] # None
      /\ "planId" \in differs => assertProviderPlanMatches(dto.planId, plans[c])
      /\ edits' = edits + 1 /\ edits < MaxEdits
      /\ crossed' \subseteq crossed \cup {"recommended"}
  BY DEF UpdatePlan, Published, Crosses
<1>4. edits' \in 0 .. MaxEdits /\ crossed' \subseteq {"recommended", "admins"}
  BY <1>3, ListAssumption DEF ListInv, ListTyped
<1> HIDE DEF differs
<1>5. patch \in Patch /\ DOMAIN patch = differs
  BY <1>2, DiffersIsPatch
<1>6. /\ "planId" \in differs => patch.planId = dto.planId
      /\ "recommended" \in differs => patch.recommended = dto.recommended
  OBVIOUS
<1>7. "planId" \in differs => Sells(c, patch.planId, plans, provider)
  BY <1>3, <1>6 DEF assertProviderPlanMatches, Sells
<1> HIDE DEF patch
<1>8. q \in Editing
  BY <1>5 DEF Editing
<1>9. Sound(q, plans, provider)
  BY <1>3, <1>5, <1>6, <1>7 DEF Sound
<1>10. q \in Request
  BY <1>8 DEF Request
<1> HIDE DEF q
<1> QED BY <1>1, <1>4, <1>9, <1>10, QuietMove DEF UpdatePlan, listVars, ListInv, ListTyped

\* The highlight is taken from the others.
LEMMA ClearKeeps ==
    ASSUME ListInv, NEW r \in Requests, ClearRecommended(r), today' \in Nat
    PROVE  ListInv' /\ Grown(plans, provider, plans', provider')
<1>1. req[r] \in Editing /\ Sound(req[r], plans, provider) /\ req[r].at = "clearing"
  BY ByLabel DEF ClearRecommended, At, ListInv, ListTyped
<1> DEFINE q == [req[r] EXCEPT !.at = "wiring"]
<1>2. req' = [req EXCEPT ![r] = q]
  BY DEF ClearRecommended, Begin
<1>3. /\ q \in Editing /\ q.at = "wiring" /\ q.code = req[r].code /\ q.patch = req[r].patch
  BY <1>1 DEF Editing
<1>4. q \in Request /\ Sound(q, plans, provider)
  BY <1>1, <1>3 DEF Request, Sound
<1> HIDE DEF q
<1>5. /\ plans' = [c \in Codes |-> IF c \in Published \ {req[r].code}
                                   THEN [plans[c] EXCEPT !.recommended = FALSE] ELSE plans[c]]
      /\ provider' = provider
  BY DEF ClearRecommended
<1>6. ASSUME NEW c \in Codes, plans[c] # None
      PROVE  /\ plans'[c] \in Row /\ plans'[c].price = plans[c].price
             /\ plans'[c].planId = plans[c].planId
  <2>1. plans[c] \in Row
    BY <1>6 DEF ListInv, ListTyped
  <2>2. /\ [plans[c] EXCEPT !.recommended = FALSE] \in Row
        /\ [plans[c] EXCEPT !.recommended = FALSE].price = plans[c].price
        /\ [plans[c] EXCEPT !.recommended = FALSE].planId = plans[c].planId
    BY <2>1 DEF Row
  <2>3. plans'[c] \in {[plans[c] EXCEPT !.recommended = FALSE], plans[c]}
    BY <1>5
  <2> QED BY <2>1, <2>2, <2>3
<1>7. \A c \in Codes : plans[c] = None => plans'[c] = None
  BY <1>5 DEF Published
<1>8. plans' \in [Codes -> Row \cup {None}]
  BY <1>5, <1>6, <1>7
<1>9. Grown(plans, provider, plans', provider')
  BY <1>5, <1>6, <1>8, NoneIsNone DEF Grown, ListInv, ListTyped
<1>10. \A d \in Codes : plans'[d] # None /\ plans'[d].planId # None =>
         Sells(d, plans'[d].planId, plans', provider')
  BY <1>5, <1>6, <1>7 DEF ListInv, Sells
<1>11. Sound(q, plans', provider')
  BY <1>4, <1>9, SoundLasts
<1> QED BY <1>2, <1>4, <1>9, <1>10, <1>11, ListMove DEF ClearRecommended

\* The id that is written is one the tier may be sold by.
LEMMA WriteKeeps ==
    ASSUME ListInv, NEW r \in Requests, WritePlan(r), today' \in Nat
    PROVE  ListInv' /\ Grown(plans, provider, plans', provider')
<1>1. req' = [req EXCEPT ![r] = Idle] /\ provider' = provider
  BY DEF WritePlan, End
<1>2. Idle \in Request /\ Sound(Idle, plans', provider')
  BY PlainIsSound DEF Request, Idle
<1>3. req[r] \in Editing /\ Sound(req[r], plans, provider) /\ req[r].at = "wiring"
  BY ByLabel DEF WritePlan, At, ListInv, ListTyped
<1> DEFINE c == req[r].code
           row == Patched(plans[c], req[r].patch)
<1>4. c \in Codes /\ req[r].patch \in Patch
  BY <1>3 DEF Editing
<1>5. /\ plans[c] # None
      /\ "planId" \in DOMAIN req[r].patch => Sells(c, req[r].patch.planId, plans, provider)
  BY <1>3 DEF Sound
<1>6. plans[c] \in Row
  BY <1>4, <1>5 DEF ListInv, ListTyped
<1>7. /\ row \in Row /\ row.price = plans[c].price
      /\ row.planId = IF "planId" \in DOMAIN req[r].patch THEN req[r].patch.planId
                      ELSE plans[c].planId
  BY <1>4, <1>6, PatchedIsRow
<1>8. plans' = plans \/ plans' = [plans EXCEPT ![c] = row]
  BY DEF WritePlan
<1> HIDE DEF row, c
<1>9. row.planId # None => Sells(c, row.planId, plans, provider)
  BY <1>4, <1>5, <1>7 DEF ListInv
<1>10. /\ Grown(plans, provider, plans', provider')
       /\ \A d \in Codes : plans'[d] # None /\ plans'[d].planId # None =>
            Sells(d, plans'[d].planId, plans', provider')
  <2>1. CASE plans' = plans
    BY <1>1, <2>1, UnchangedList
  <2>2. CASE plans' = [plans EXCEPT ![c] = row]
    BY <1>1, <1>4, <1>7, <1>9, <2>2, TierWritten DEF Sells
  <2> QED BY <1>8, <2>1, <2>2
<1> QED BY <1>1, <1>2, <1>10, ListMove DEF WritePlan

\* A replica begins to boot.
LEMMA BootKeeps ==
    ASSUME ListInv, NEW r \in Requests, Boot(r), today' \in Nat
    PROVE  ListInv'
<1> DEFINE q == [at |-> "syncing", todo |-> DOMAIN Mapping]
<1>1. req' = [req EXCEPT ![r] = q]
  BY DEF Boot, Begin
<1>2. q \in Request /\ Sound(q, plans, provider)
  BY PlainIsSound, ListAssumption DEF Request, Syncing
<1> HIDE DEF q
<1> QED BY <1>1, <1>2, QuietMove DEF Boot, listVars, history, ListInv, ListTyped

\* sync(): the id of the configuration is the one exception.
LEMMA SyncKeeps ==
    ASSUME ListInv, NEW r \in Requests, NEW c \in Codes, Sync(r, c), today' \in Nat
    PROVE  ListInv' /\ Grown(plans, provider, plans', provider')
<1>1. req[r] \in Syncing
  BY ByLabel DEF Sync, At, ListInv, ListTyped
<1> DEFINE q == [req[r] EXCEPT !.todo = @ \ {c}]
           row == [plans[c] EXCEPT !.planId = Mapping[c]]
<1>2. req' = [req EXCEPT ![r] = q]
  BY DEF Sync, Begin
<1>3. q \in Syncing /\ q.at = "syncing"
  BY <1>1 DEF Syncing
<1>4. q \in Request /\ Sound(q, plans', provider')
  BY <1>3, PlainIsSound DEF Request
<1>5. provider' = provider /\ c \in DOMAIN Mapping
  BY <1>1 DEF Sync, Syncing
<1>6. \/ plans' = plans
      \/ c \in Published /\ plans' = [plans EXCEPT ![c] = row]
  BY DEF Sync
<1> HIDE DEF q
<1>7. /\ Grown(plans, provider, plans', provider')
      /\ \A d \in Codes : plans'[d] # None /\ plans'[d].planId # None =>
           Sells(d, plans'[d].planId, plans', provider')
  <2>1. CASE plans' = plans
    BY <1>5, <2>1, UnchangedList
  <2>2. CASE c \in Published /\ plans' = [plans EXCEPT ![c] = row]
    <3>1. plans[c] \in Row /\ Mapping[c] \in PlanIds
      BY <1>5, <2>2, ListAssumption DEF Published, ListInv, ListTyped
    <3>2. row \in Row /\ row.price = plans[c].price /\ row.planId = Mapping[c]
      BY <3>1 DEF Row
    <3> HIDE DEF row
    <3> QED BY <1>5, <2>2, <3>2, TierWritten
  <2> QED BY <1>6, <2>1, <2>2
<1> QED BY <1>2, <1>4, <1>7, ListMove DEF Sync

\* adoptExisting(): a blank tier is filled with one that is wired to its plan.
LEMMA AdoptKeeps ==
    ASSUME ListInv, NEW r \in Requests, AdoptExisting(r), today' \in Nat
    PROVE  ListInv'
<1>1. req' = [req EXCEPT ![r] = Idle] /\ plans' = plans /\ provider' = provider
  BY DEF AdoptExisting, End, listVars
<1>2. Idle \in Request /\ Sound(Idle, plans', provider')
  BY PlainIsSound DEF Request, Idle
<1>3. Grown(plans, provider, plans', provider')
  BY <1>1, GrownByNothing DEF ListInv
<1>4. /\ req' \in [Requests -> Request]
      /\ \A s \in Requests : Sound(req'[s], plans', provider')
      /\ \A o \in Orgs : SoldRight(sub[o], plans', provider')
  BY <1>1, <1>2, <1>3, RequestMoves
<1> DEFINE tier(o) == CHOOSE c \in Published : plans[c].planId = sub[o].planId
           adopts(o) == sub[o].tier = None /\ sub[o].planId # None /\ Taken(sub[o].planId)
           row(o) == [sub[o] EXCEPT !.tier = tier(o)]
<1>5. sub' = [o \in Orgs |-> IF adopts(o) THEN row(o) ELSE sub[o]]
  BY DEF AdoptExisting
<1>6. ASSUME NEW o \in Orgs, adopts(o)
      PROVE  row(o) \in Subscription /\ SoldRight(row(o), plans', provider')
  <2>1. sub[o] \in Subscription
    BY DEF ListInv, ListTyped
  <2>2. tier(o) \in Published /\ plans[tier(o)].planId = sub[o].planId
    BY <1>6 DEF Taken
  <2> HIDE DEF tier
  <2>3. tier(o) \in Codes /\ plans[tier(o)] # None
    BY <2>2 DEF Published
  <2>4. row(o) \in Subscription /\ row(o).tier = tier(o) /\ row(o).planId = sub[o].planId
    BY <2>1, <2>3 DEF Subscription
  <2>5. Sells(tier(o), sub[o].planId, plans', provider')
    BY <1>1, <1>6, <2>2, <2>3 DEF ListInv
  <2> HIDE DEF row
  <2> QED BY <1>1, <2>3, <2>4, <2>5 DEF SoldRight
<1> HIDE DEF row, adopts
<1>7. sub' \in [Orgs -> Subscription]
  BY <1>5, <1>6 DEF ListInv, ListTyped
<1>8. \A o \in Orgs : SoldRight(sub'[o], plans', provider')
  BY <1>4, <1>5, <1>6
<1> QED BY <1>1, <1>4, <1>7, <1>8 DEF AdoptExisting, listVars, history, ListInv, ListTyped

\* setAdmin() has counted.
LEMMA SetAdminKeeps ==
    ASSUME ListInv, NEW r \in Requests, NEW actor \in Users, NEW u \in Users,
           NEW isAdmin \in BOOLEAN, SetAdmin(r, actor, u, isAdmin), today' \in Nat
    PROVE  ListInv'
<1> DEFINE q == [at |-> "granting", user |-> u, isAdmin |-> isAdmin]
<1>1. req' = [req EXCEPT ![r] = q]
  BY DEF SetAdmin, Begin
<1>2. q \in Request /\ Sound(q, plans, provider)
  BY PlainIsSound DEF Request, Granting
<1>3. crossed' \subseteq {"recommended", "admins"}
  BY DEF SetAdmin, Crosses, ListInv, ListTyped
<1> HIDE DEF q
<1> QED BY <1>1, <1>2, <1>3, QuietMove DEF SetAdmin, listVars, ListInv, ListTyped

\* setAdmin() writes.
LEMMA WriteAdminKeeps ==
    ASSUME ListInv, NEW r \in Requests, WriteAdmin(r), today' \in Nat
    PROVE  ListInv'
<1>1. req[r] \in Granting
  BY ByLabel DEF WriteAdmin, At, ListInv, ListTyped
<1>2. req[r].user \in Users
  BY <1>1 DEF Granting
<1>3. admins' \subseteq Users
  BY <1>2 DEF WriteAdmin, ListInv, ListTyped
<1> QED BY <1>3, EndKeeps DEF WriteAdmin

\* What the operations of the list keep
LEMMA ListStep ==
    ASSUME ListInv, ListNext, today' \in Nat
    PROVE  ListInv'
<1>1. ASSUME NEW r \in Requests, NEW o \in Orgs,
             \/ \E c \in Codes : Register(r, o, c)
             \/ CreateContact(r, o) \/ InviteMember(r, o) \/ CreateEndpoint(r, o)
      PROVE  ListInv'
  BY <1>1, RegisterKeeps, AskKeeps DEF CreateContact, InviteMember, CreateEndpoint, Kinds
<1>2. ASSUME NEW r \in Requests,
             \/ Subscribe(r) \/ Add(r)
             \/ \E d \in Drafts : CreatePlan(r, d)
      PROVE  ListInv'
  BY <1>2, SubscribeKeeps, AddKeeps, CreateKeeps
<1>3. ASSUME NEW r \in Requests, NEW c \in Codes,
             \/ CreateProviderPlan(r, c)
             \/ \E dto \in Patches : UpdatePlan(r, c, dto)
             \/ Sync(r, c)
      PROVE  ListInv'
  BY <1>3, ProviderPlanKeeps, UpdateKeeps, SyncKeeps
<1>4. ASSUME NEW r \in Requests, MakeFails(r) PROVE ListInv'
  BY <1>4, EndKeeps DEF MakeFails, ListInv, ListTyped
<1>5. ASSUME NEW r \in Requests,
             MakePlan(r) \/ InsertPlan(r) \/ ClearRecommended(r) \/ WritePlan(r)
      PROVE  ListInv'
  BY <1>5, MakeKeeps, InsertKeeps, ClearKeeps, WriteKeeps
<1>6. ASSUME NEW r \in Requests, Boot(r) \/ AdoptExisting(r) \/ WriteAdmin(r) PROVE ListInv'
  BY <1>6, BootKeeps, AdoptKeeps, WriteAdminKeeps
<1>7. ASSUME NEW r \in Requests, NEW actor \in Users, NEW u \in Users,
             SetAdmin(r, actor, u, TRUE) \/ SetAdmin(r, actor, u, FALSE)
      PROVE  ListInv'
  BY <1>7, SetAdminKeeps
<1>8. ASSUME NEW o \in Orgs, Lapse(o) \/ \E k \in Kinds : RemoveOne(o, k) PROVE ListInv'
  BY <1>8, LapseKeeps, RemoveKeeps
<1> QED BY <1>1, <1>2, <1>3, <1>4, <1>5, <1>6, <1>7, <1>8 DEF ListNext

\* What a pass over the old messages keeps
LEMMA RetentionStep ==
    ASSUME ListInv, RetentionNext
    PROVE  ListInv'
<1>1. ASSUME NEW r \in Requests, Prune(r) PROVE ListInv'
  <2> DEFINE q == [at |-> "pruning", todo |-> Holders]
  <2>1. req' = [req EXCEPT ![r] = q]
    BY <1>1 DEF Prune, Begin
  <2>2. q \in Request /\ Sound(q, plans, provider)
    BY PlainIsSound DEF Request, Pruning
  <2> HIDE DEF q
  <2> QED BY <1>1, <2>1, <2>2, QuietMove DEF Prune, listVars, history, ListInv, ListTyped
<1>2. ASSUME NEW r \in Requests, NEW o \in Holders, ReadWindow(r, o) PROVE ListInv'
  <2>1. req[r] \in Pruning
    BY <1>2, ByLabel DEF ReadWindow, At, ListInv, ListTyped
  <2> DEFINE q(w) == IF Endless(w)
                     THEN [req[r] EXCEPT !.todo = @ \ {o}]
                     ELSE [at |-> "dropping sent", org |-> o, before |-> today - w,
                           todo |-> req[r].todo \ {o}]
  <2>2. PICK w \in Windows(o) : req' = [req EXCEPT ![r] = q(w)]
    BY <1>2 DEF ReadWindow, Begin
  <2>3. w \in Nat \cup {None}
    BY HoldersAssumption, TiersRead, LimitsRead DEF Windows, Allowances
  <2>4. q(w) \in Request /\ Sound(q(w), plans, provider)
    <3>1. CASE Endless(w)
      <4>1. q(w) \in Pruning /\ q(w).at = "pruning"
        BY <2>1, <3>1 DEF Pruning
      <4> QED BY <4>1, PlainIsSound DEF Request
    <3>2. CASE ~ Endless(w)
      <4>1. today - w \in Int
        BY <2>3, <3>2 DEF Endless, ListInv, ListTyped
      <4>2. q(w) \in Dropping /\ q(w).at = "dropping sent"
        BY <2>1, <3>2, <4>1 DEF Pruning, Dropping
      <4> QED BY <4>2, PlainIsSound DEF Request
    <3> QED BY <3>1, <3>2
  <2> HIDE DEF q
  <2> QED BY <1>2, <2>2, <2>4, QuietMove DEF ReadWindow, listVars, history, ListInv, ListTyped
<1>3. ASSUME NEW r \in Requests, DropSent(r) PROVE ListInv'
  <2>1. req[r] \in Dropping
    BY <1>3, ByLabel DEF DropSent, At, ListInv, ListTyped
  <2> DEFINE q == [req[r] EXCEPT !.at = "dropping received"]
  <2>2. req' = [req EXCEPT ![r] = q]
    BY <1>3 DEF DropSent, Begin
  <2>3. q \in Dropping /\ q.at = "dropping received"
    BY <2>1 DEF Dropping
  <2>4. q \in Request /\ Sound(q, plans, provider)
    BY <2>3, PlainIsSound DEF Request
  <2> HIDE DEF q
  <2> QED BY <1>3, <2>2, <2>4, QuietMove DEF DropSent, listVars, history, ListInv, ListTyped
<1>4. ASSUME NEW r \in Requests, DropReceived(r) PROVE ListInv'
  <2>1. req[r] \in Dropping
    BY <1>4, ByLabel DEF DropReceived, At, ListInv, ListTyped
  <2> DEFINE q == [at |-> "pruning", todo |-> req[r].todo]
  <2>2. req' = [req EXCEPT ![r] = q]
    BY <1>4 DEF DropReceived, Begin
  <2>3. q \in Pruning /\ q.at = "pruning"
    BY <2>1 DEF Dropping, Pruning
  <2>4. q \in Request /\ Sound(q, plans, provider)
    BY <2>3, PlainIsSound DEF Request
  <2> HIDE DEF q
  <2> QED BY <1>4, <2>2, <2>4, QuietMove
           DEF DropReceived, listVars, history, ListInv, ListTyped
<1>5. ASSUME NEW r \in Requests, PruneEnds(r) PROVE ListInv'
  BY <1>5, EndKeeps DEF PruneEnds, ListInv, ListTyped
<1>6. CASE NextDay
  BY <1>6 DEF NextDay, listAll, ListInv, ListTyped
<1> QED BY <1>1, <1>2, <1>3, <1>4, <1>5, <1>6 DEF RetentionNext

\* The list is what the migrations wrote.
LEMMA ListBegins == ListInit /\ RetentionInit => ListInv
<1> SUFFICES ASSUME ListInit, RetentionInit PROVE ListInv
  OBVIOUS
<1>1. /\ plans = Seeded /\ sub = Sold /\ admins = Operators /\ edits = 0 /\ crossed = {}
      /\ today = 0 /\ req = [r \in Requests |-> Idle]
      /\ held = [k \in Kinds |-> [o \in Orgs |-> 0]]
      /\ ceiling = [k \in Kinds |-> [o \in Orgs |-> 0]]
  BY DEF ListInit, RetentionInit
<1>2. /\ provider \in [PlanIds -> Nat \cup {None}]
      /\ \A id \in DOMAIN Dashboard : provider[id] = Dashboard[id]
  BY ListAssumption DEF ListInit
<1>3. ListTyped
  BY <1>1, <1>2, ListAssumption DEF ListTyped, Request
<1>4. ASSUME NEW c \in Codes, NEW id \in PlanIds, SoldAt(c, plans[c], id)
      PROVE  Sells(c, id, plans, provider)
  BY <1>2, <1>4 DEF SoldAt, Sells
<1>5. \A c \in Codes : plans[c] # None /\ plans[c].planId # None =>
        Sells(c, plans[c].planId, plans, provider)
  <2> SUFFICES ASSUME NEW c \in Codes, plans[c] # None, plans[c].planId # None
               PROVE  Sells(c, plans[c].planId, plans, provider)
    OBVIOUS
  <2>1. plans[c] \in Row
    BY <1>3 DEF ListTyped
  <2>2. plans[c].planId \in PlanIds
    BY <2>1 DEF Row
  <2>3. SoldAt(c, plans[c], plans[c].planId)
    BY <1>1, ListAssumption
  <2> QED BY <1>4, <2>2, <2>3
<1>6. \A o \in Orgs : SoldRight(sub[o], plans, provider)
  <2> SUFFICES ASSUME NEW o \in Orgs, sub[o].tier # None
               PROVE  /\ plans[sub[o].tier] # None
                      /\ sub[o].planId # None =>
                           Sells(sub[o].tier, sub[o].planId, plans, provider)
    BY DEF SoldRight
  <2>1. sub[o].tier \in Codes /\ sub[o].planId \in PlanIds \cup {None}
    BY <1>3 DEF ListTyped, Subscription
  <2>2. /\ plans[sub[o].tier] # None
        /\ sub[o].planId # None => SoldAt(sub[o].tier, plans[sub[o].tier], sub[o].planId)
    BY <1>1, ListAssumption
  <2> QED BY <1>4, <2>1, <2>2
<1>7. \A o \in Orgs : AccountTier[o] # None => plans[AccountTier[o]] # None
  BY <1>1, ListAssumption
<1>8. \A r \in Requests : Sound(req[r], plans, provider)
  BY <1>1, PlainIsSound DEF Idle
<1> QED BY <1>3, <1>5, <1>6, <1>7, <1>8 DEF ListInv

\* What a step of the whole is to the list
LEMMA ListFrame ==
    [ChargesNext]_chargeVars =>
      \/ ListNext /\ Remember /\ UNCHANGED <<today, stored>>
      \/ RetentionNext /\ Remember
      \/ UNCHANGED <<listAll, retentionVars>>
BY DEF ChargesNext, chargeVars, SetTaxDetails, ChargeOrg, ChargeMandate, Raise

\* Every step keeps the price list.
LEMMA ListKept == ListInv /\ [ChargesNext]_chargeVars => ListInv'
<1> SUFFICES ASSUME ListInv, [ChargesNext]_chargeVars PROVE ListInv'
  OBVIOUS
<1>1. CASE ListNext /\ UNCHANGED <<today, stored>>
  BY <1>1, ListStep DEF ListInv, ListTyped
<1>2. CASE RetentionNext
  BY <1>2, RetentionStep
<1>3. CASE UNCHANGED <<listAll, retentionVars>>
  BY <1>3 DEF listAll, retentionVars, ListInv, ListTyped
<1> QED BY <1>1, <1>2, <1>3, ListFrame

\* No operation reprices a tier or a plan of the provider's.
LEMMA ListGrows ==
    ListInv /\ [ChargesNext]_chargeVars => Grown(plans, provider, plans', provider')
<1> SUFFICES ASSUME ListInv, [ChargesNext]_chargeVars
             PROVE  Grown(plans, provider, plans', provider')
  OBVIOUS
<1>1. CASE UNCHANGED <<plans, provider>>
  BY <1>1, GrownByNothing DEF ListInv
<1>2. CASE ListNext /\ UNCHANGED <<today, stored>>
  <2>1. \/ UNCHANGED <<plans, provider>>
        \/ \E r \in Requests :
             \/ MakePlan(r) \/ InsertPlan(r) \/ ClearRecommended(r) \/ WritePlan(r)
             \/ \E c \in Codes : Sync(r, c)
    <3>1. ASSUME NEW r \in Requests, NEW o \in Orgs,
                 \/ \E c \in Codes : Register(r, o, c)
                 \/ CreateContact(r, o) \/ InviteMember(r, o) \/ CreateEndpoint(r, o)
          PROVE  UNCHANGED <<plans, provider>>
      BY <3>1 DEF Register, CreateContact, InviteMember, CreateEndpoint, Ask, listVars
    <3>2. ASSUME NEW r \in Requests,
                 \/ Subscribe(r) \/ Add(r) \/ MakeFails(r) \/ Boot(r) \/ AdoptExisting(r)
                 \/ WriteAdmin(r) \/ \E d \in Drafts : CreatePlan(r, d)
          PROVE  UNCHANGED <<plans, provider>>
      BY <3>2 DEF Subscribe, Add, MakeFails, Boot, AdoptExisting, WriteAdmin, CreatePlan,
           listVars
    <3>3. ASSUME NEW r \in Requests, NEW c \in Codes,
                 CreateProviderPlan(r, c) \/ \E dto \in Patches : UpdatePlan(r, c, dto)
          PROVE  UNCHANGED <<plans, provider>>
      BY <3>3 DEF CreateProviderPlan, UpdatePlan, listVars
    <3>4. ASSUME NEW r \in Requests, NEW actor \in Users, NEW u \in Users,
                 SetAdmin(r, actor, u, TRUE) \/ SetAdmin(r, actor, u, FALSE)
          PROVE  UNCHANGED <<plans, provider>>
      BY <3>4 DEF SetAdmin, listVars
    <3>5. ASSUME NEW o \in Orgs, Lapse(o) \/ \E k \in Kinds : RemoveOne(o, k)
          PROVE  UNCHANGED <<plans, provider>>
      BY <3>5 DEF Lapse, RemoveOne, listVars
    <3> QED BY <1>2, <3>1, <3>2, <3>3, <3>4, <3>5 DEF ListNext
  <2>2. today' \in Nat
    BY <1>2 DEF ListInv, ListTyped
  <2> QED BY <1>1, <2>1, <2>2, MakeKeeps, InsertKeeps, ClearKeeps, WriteKeeps, SyncKeeps
<1>3. CASE RetentionNext
  BY <1>1, <1>3 DEF RetentionNext, listVars, listAll, Prune, ReadWindow, DropSent, DropReceived,
       PruneEnds, NextDay
<1>4. CASE UNCHANGED <<listAll, retentionVars>>
  BY <1>1, <1>4 DEF listAll
<1> QED BY <1>2, <1>3, <1>4, ListFrame

-----------------------------------------------------------------------------
(* The card, and what is charged *)

\* What a customer is shown is what it may buy and what it is held to: for any
\* list an operator makes, while requests that edit, wire and buy it are in
\* flight (PlansService, sellablePlan(), wayOut(), stateOf()).
THEOREM TheCardIsHonest == ChargesSpec => []CardIsHonest
<1>1. ASSUME ListInv PROVE CardIsHonest
  <2>1. ASSUME NEW o \in Orgs, NEW c \in Codes
        PROVE  c \in Listed(o) /\ Available(c) <=> sellablePlan(c, o)
    <3>1. plans[c] # None => plans[c].ctaKind \in {"subscribe", "contact"}
      BY <1>1 DEF ListInv, ListTyped, Row
    <3> QED BY <3>1 DEF Listed, Available, sellablePlan, Published
  <2>2. \A o \in Orgs : {c \in Listed(o) : Available(c)} = {c \in Codes : sellablePlan(c, o)}
    BY <2>1 DEF Listed, Published
  <2>3. ASSUME NEW k \in Kinds, NEW count \in 0 .. MaxHeld, NEW c \in wayOut(k, count),
               NEW o \in Orgs
        PROVE  /\ sellablePlan(c, o)
               /\ \A rows : best(rows) = {plans[c]} =>
                    \A m \in toLimits(k, best(rows)) : Fits(m, count)
    <3>1. c \in Candidates(k, count + 1)
      BY DEF wayOut, cheapestPlanAllowing
    <3>2. /\ c \in Published /\ plans[c].active /\ plans[c].sso = None
          /\ plans[c].ctaKind = "subscribe" /\ plans[c].planId # None
          /\ Admits(plans[c].max[k], count + 1)
      BY <3>1 DEF Candidates
    <3>3. plans[c] \in Row
      BY <3>2, <1>1 DEF Published, ListInv, ListTyped
    <3>4. plans[c].max[k] \in Nat \cup {None}
      BY <3>3 DEF Row, Allowances
    <3>5. count \in Nat
      BY ListAssumption
    <3>6. Fits(plans[c].max[k], count)
      BY <3>2, <3>4, <3>5 DEF Admits, Fits
    <3>7. \A m \in toLimits(k, {plans[c]}) : m = plans[c].max[k]
      BY DEF toLimits
    <3> QED BY <3>2, <3>6, <3>7 DEF sellablePlan
  <2>4. ASSUME NEW o \in Orgs, NEW k \in Kinds, NEW meter \in stateOf(o, k),
               meter.used # None
        PROVE  atLimit(meter) <=> ~ Fits(meter.allowed, meter.used)
    <3>1. held[k][o] \in Nat
      BY <1>1 DEF ListInv, ListTyped
    <3>2. meter.used \in {held[k][o], None}
      BY DEF stateOf, teamMemberCount, coveredAccounts, Kinds
    <3>3. meter.allowed \in toLimits(k, forOrg(o))
      BY DEF stateOf
    <3>4. meter.allowed \in Nat \cup {None}
      BY <1>1, <3>3, TiersRead, LimitsRead DEF Allowances
    <3> QED BY <2>4, <3>1, <3>2, <3>4 DEF atLimit, Fits
  <2> QED BY <2>2, <2>3, <2>4 DEF CardIsHonest
<1>2. ChargesInit => ListInv
  BY ListBegins DEF ChargesInit
<1> QED BY <1>1, <1>2, ListKept, PTL DEF ChargesSpec

\* Every document of an organisation's own mandate is for the tier's price, or
\* for a tier on the configured id.
RightlyCharged(i, list) ==
    i.of # None /\ i.of.tier # None =>
      /\ list[i.of.tier] # None
      /\ list[i.of.tier].price # None =>
           \/ i.doc.total = list[i.of.tier].price
           \/ i.of.tier \in DOMAIN Mapping /\ i.of.planId = Mapping[i.of.tier]

DocumentsCharged ==
    \A i \in invoices : i.of \in Subscription \cup {None} /\ RightlyCharged(i, plans)

\* What was charged rightly is not made wrong by a later edit.
LEMMA ChargedLasts ==
    ASSUME NEW list, NEW made, NEW list2, NEW made2, Grown(list, made, list2, made2),
           NEW i, i.of \in Subscription \cup {None}, RightlyCharged(i, list)
    PROVE  RightlyCharged(i, list2)
<1>1. i.of # None => i.of.tier \in Codes \cup {None}
  BY DEF Subscription
<1> QED BY <1>1 DEF RightlyCharged, Grown

\* The document of a debit on the organisation's own mandate
LEMMA OrgDocument ==
    ASSUME ListInv, NEW o \in Orgs, ChargeOrg(o)
    PROVE  \E i : /\ invoices' = invoices \cup {i}
                  /\ i.of \in Subscription /\ RightlyCharged(i, plans)
<1> DEFINE doc == Draft(o, provider[sub[o].planId], <<[org |-> o, weight |-> 1]>>,
                        taxIdentity(details[o]))
           i == [of |-> sub[o], doc |-> doc]
<1>1. invoices' = invoices \cup {i} /\ sub[o].planId # None
  BY DEF ChargeOrg, Raise
<1>2. doc.total = provider[sub[o].planId]
  BY DEF Draft
<1>3. sub[o] \in Subscription /\ SoldRight(sub[o], plans, provider)
  BY DEF ListInv, ListTyped
<1> HIDE DEF doc
<1>4. i.of = sub[o] /\ i.doc = doc
  OBVIOUS
<1>5. RightlyCharged(i, plans)
  BY <1>1, <1>2, <1>3, <1>4 DEF RightlyCharged, SoldRight, Sells
<1> QED BY <1>1, <1>3, <1>4, <1>5

\* What a step of the whole is to the documents
LEMMA DocumentsFrame ==
    [ChargesNext]_chargeVars =>
      \/ \E o \in Orgs : ChargeOrg(o) \/ \E amount \in MandateAmounts : ChargeMandate(o, amount)
      \/ UNCHANGED invoices
BY DEF ChargesNext, chargeVars, documentVars, SetTaxDetails

\* Every step keeps the documents.
LEMMA DocumentsKept ==
    ListInv /\ DocumentsCharged /\ [ChargesNext]_chargeVars => DocumentsCharged'
<1> SUFFICES ASSUME ListInv, DocumentsCharged, [ChargesNext]_chargeVars
             PROVE  DocumentsCharged'
  OBVIOUS
<1>1. \A i \in invoices : i.of \in Subscription \cup {None} /\ RightlyCharged(i, plans')
  BY ListGrows, ChargedLasts DEF DocumentsCharged
<1>2. CASE UNCHANGED invoices
  BY <1>1, <1>2 DEF DocumentsCharged
<1>3. ASSUME NEW o \in Orgs, ChargeOrg(o) PROVE DocumentsCharged'
  <2>1. PICK i : /\ invoices' = invoices \cup {i}
                 /\ i.of \in Subscription /\ RightlyCharged(i, plans)
    BY <1>3, OrgDocument
  <2>2. plans' = plans
    BY <1>3 DEF ChargeOrg, Raise, listAll
  <2> QED BY <1>1, <2>1, <2>2 DEF DocumentsCharged
<1>4. ASSUME NEW a \in Orgs, NEW amount \in MandateAmounts, ChargeMandate(a, amount)
      PROVE  DocumentsCharged'
  <2> DEFINE i == [of |-> None, doc |-> Draft(a, amount, DraftLines(a), taxIdentity(details[a]))]
  <2>1. invoices' = invoices \cup {i}
    BY <1>4 DEF ChargeMandate, Raise
  <2>2. i.of = None
    OBVIOUS
  <2> HIDE DEF i
  <2>3. RightlyCharged(i, plans')
    BY <2>2 DEF RightlyCharged
  <2> QED BY <1>1, <2>1, <2>2, <2>3 DEF DocumentsCharged
<1> QED BY <1>2, <1>3, <1>4, DocumentsFrame

\* A customer is debited the price on the card it was sold from, or what the plan
\* RAZORPAY_PLAN_IDS names charges, for any list and however operators, boots and
\* buyers interleave (assertProviderPlanMatches(), createPlan(), sync(),
\* adoptExisting(), register()).
THEOREM ThePriceIsCharged == ChargesSpec => []ChargedAsPublished
<1>1. ChargesInit => ListInv /\ DocumentsCharged
  BY ListBegins DEF ChargesInit, DocumentsCharged
<1>2. DocumentsCharged => ChargedAsPublished
  BY DEF DocumentsCharged, RightlyCharged, ChargedAsPublished
<1> QED BY <1>1, <1>2, ListKept, DocumentsKept, PTL DEF ChargesSpec

-----------------------------------------------------------------------------
(* How long messages are kept: RetentionService *)

\* A window that ends does so no sooner than the other.
NoSooner(window, than) == ~ ForEver(window) => ~ ForEver(than) /\ than <= window

\* The shortest window keeps nothing longer than any of them.
LEMMA ShortestOf ==
    ASSUME NEW windows, windows \subseteq Nat \cup {None}
    PROVE  /\ Shortest(windows) \in Nat \cup {None}
           /\ \A w \in windows : NoSooner(w, Shortest(windows))
<1>1. CASE \A w \in windows : ForEver(w)
  BY <1>1 DEF Shortest, NoSooner
<1>2. CASE ~ \A w \in windows : ForEver(w)
  <2> DEFINE ends == {w \in windows : ~ ForEver(w)}
  <2>1. ends \subseteq Nat /\ ends # {}
    BY <1>2 DEF ForEver
  <2>2. \E w \in ends : \A v \in ends : w <= v
    BY <2>1, LeastOf
  <2>3. \E w \in windows : ~ ForEver(w) /\ \A v \in windows : ForEver(v) \/ w <= v
    BY <2>2
  <2> DEFINE s == CHOOSE w \in windows : ~ ForEver(w) /\ \A v \in windows : ForEver(v) \/ w <= v
  <2>4. s \in windows /\ ~ ForEver(s) /\ \A v \in windows : ForEver(v) \/ s <= v
    BY <2>3
  <2>5. Shortest(windows) = s
    BY <1>2 DEF Shortest
  <2> HIDE DEF s, ends
  <2> QED BY <2>4, <2>5 DEF NoSooner
<1> QED BY <1>1, <1>2

\* And so does the shorter of two.
LEMMA ShorterOfTwo ==
    ASSUME NEW a \in Nat \cup {None}, NEW b \in Nat \cup {None}
    PROVE  /\ ShorterOf(a, b) \in Nat \cup {None}
           /\ NoSooner(a, ShorterOf(a, b)) /\ NoSooner(b, ShorterOf(a, b))
BY DEF ShorterOf, NoSooner, ForEver

\* Windows are ordered.
LEMMA NoSoonerTwice ==
    ASSUME NEW a \in Nat \cup {None}, NEW b \in Nat \cup {None}, NEW c \in Nat \cup {None},
           NoSooner(a, b), NoSooner(b, c)
    PROVE  NoSooner(a, c)
BY DEF NoSooner, ForEver

\* A window is read off a row of the list.
LEMMA WindowsRead == ListInv => \A o \in Holders : Windows(o) \subseteq Nat \cup {None}
BY HoldersAssumption, TiersRead, LimitsRead DEF Windows, Allowances

\* A pass that is about to drop has a cutoff no later than the window allows.
Due(q, shortest, day) ==
    q.at \in {"dropping sent", "dropping received"} =>
      ~ ForEver(shortest[q.org]) /\ q.before <= day - shortest[q.org]

AtPass == {"pruning", "dropping sent", "dropping received"}

HistoryInv ==
    /\ least \in [Holders -> Nat \cup {None}]
    /\ \A r \in Requests : req[r].at \in AtPass => "retention" \in mix
    /\ "retention" \in mix =>
         \A o \in Holders : \A w \in Windows(o) : NoSooner(w, least[o])
    /\ \A r \in Requests : Due(req[r], least, today)
    /\ HistoryKept

\* Whatever a step does to a tier, the shortest window is remembered.
LEMMA Remembered ==
    ASSUME ListInv', least \in [Holders -> Nat \cup {None}], Remember
    PROVE  /\ least' \in [Holders -> Nat \cup {None}]
           /\ \A o \in Holders : NoSooner(least[o], least'[o])
           /\ "retention" \in mix =>
                \A o \in Holders : (\A w \in Windows(o) : NoSooner(w, least[o]))'
<1>1. (\A o \in Holders : Windows(o) \subseteq Nat \cup {None})'
  BY WindowsRead, PTL
<1>2. CASE "retention" \in mix
  <2>1. least' = [o \in Holders |-> ShorterOf(least[o], Shortest(Windows(o)'))]
    BY <1>2 DEF Remember
  <2>2. ASSUME NEW o \in Holders
        PROVE  /\ least'[o] \in Nat \cup {None} /\ NoSooner(least[o], least'[o])
               /\ \A w \in Windows(o)' : NoSooner(w, least'[o])
    <3> DEFINE W == Windows(o)'
               s == Shortest(W)
    <3>1. W \subseteq Nat \cup {None}
      BY <1>1
    <3> HIDE DEF W
    <3>2. s \in Nat \cup {None} /\ \A w \in W : NoSooner(w, s)
      BY <3>1, ShortestOf
    <3>3. least'[o] = ShorterOf(least[o], s)
      BY <2>1 DEF W
    <3> HIDE DEF s
    <3>4. /\ least'[o] \in Nat \cup {None}
          /\ NoSooner(least[o], least'[o]) /\ NoSooner(s, least'[o])
      BY <3>2, <3>3, ShorterOfTwo
    <3>5. \A w \in W : NoSooner(w, least'[o])
      BY <3>1, <3>2, <3>4, NoSoonerTwice
    <3> QED BY <3>4, <3>5 DEF W
  <2> QED BY <2>1, <2>2
<1>3. CASE "retention" \notin mix
  BY <1>3 DEF Remember, NoSooner, ForEver
<1> QED BY <1>2, <1>3

\* What was past its window is past it later, and past a shorter one.
LEMMA StillDue ==
    ASSUME NEW x \in Nat, NEW y \in Nat, NEW day \in Nat, NEW later \in Nat, NEW t \in Int,
           y <= x, day <= later, t <= day - x
    PROVE  t <= later - y
OBVIOUS

\* What is before the cutoff is older than the window.
LEMMA PastDue ==
    ASSUME NEW x \in Nat, NEW day \in Nat, NEW d \in Nat, NEW t \in Int,
           d < t, t <= day - x
    PROVE  day - d > x
OBVIOUS

\* A cutoff read before stays due.
LEMMA DueLasts ==
    ASSUME NEW q \in Request, NEW a \in [Holders -> Nat \cup {None}],
           NEW b \in [Holders -> Nat \cup {None}], \A o \in Holders : NoSooner(a[o], b[o]),
           NEW day \in Nat, NEW later \in Nat, day <= later, Due(q, a, day)
    PROVE  Due(q, b, later)
<1> SUFFICES ASSUME q.at \in {"dropping sent", "dropping received"}
             PROVE  ~ ForEver(b[q.org]) /\ q.before <= later - b[q.org]
  BY DEF Due
<1>1. q \in Dropping
  BY ByLabel
<1>2. q.org \in Holders /\ q.before \in Int
  BY <1>1 DEF Dropping
<1>3. ~ ForEver(a[q.org]) /\ q.before <= day - a[q.org]
  BY DEF Due
<1>4. ~ ForEver(b[q.org]) /\ b[q.org] <= a[q.org]
  BY <1>2, <1>3 DEF NoSooner
<1>5. a[q.org] \in Nat /\ b[q.org] \in Nat
  BY <1>2, <1>3, <1>4 DEF ForEver
<1> QED BY <1>2, <1>3, <1>4, <1>5, StillDue

\* A message that may not be dropped now could not be dropped before.
LEMMA KeptBefore ==
    ASSUME NEW a \in Nat \cup {None}, NEW b \in Nat \cup {None}, NoSooner(a, b),
           NEW day \in Nat, NEW later \in Nat, day <= later, NEW d \in Nat,
           ForEver(b) \/ later - d <= b
    PROVE  ForEver(a) \/ day - d <= a
BY DEF NoSooner, ForEver

\* What may be dropped is all that a step drops.
LEMMA HistoryMoves ==
    ASSUME ListInv, HistoryInv, Remember, ListInv', mix' = mix,
           today' \in {today, today + 1},
           \A d \in 0 .. today : \A of \in Holders \cup {None} :
             LET m == [of |-> of, day |-> d]
             IN  m \in stored /\ m \notin stored' =>
                   \E o \in IF of = None THEN Holders ELSE {of} :
                     ~ ForEver(least[o]) /\ today - d > least[o],
           today' = today + 1 => Of(today') \subseteq stored'
    PROVE  HistoryKept'
<1>1. /\ today \in Nat /\ today' \in Nat /\ today <= today'
      /\ least \in [Holders -> Nat \cup {None}]
  BY DEF ListInv, ListTyped, HistoryInv
<1>2. /\ least' \in [Holders -> Nat \cup {None}]
      /\ \A o \in Holders : NoSooner(least[o], least'[o])
  BY <1>1, Remembered
<1> DEFINE whose(of) == IF of = None THEN Holders ELSE {of}
<1> SUFFICES ASSUME NEW d \in 0 .. today', NEW of \in Holders \cup {None},
                    \A o \in whose(of) : ForEver(least'[o]) \/ today' - d <= least'[o]
             PROVE  [of |-> of, day |-> d] \in stored'
  BY DEF HistoryKept
<1>3. whose(of) \subseteq Holders /\ d \in Nat
  BY <1>1
<1>4. CASE d \in 0 .. today
  <2>1. \A o \in whose(of) : ForEver(least[o]) \/ today - d <= least[o]
    <3> TAKE o \in whose(of)
    <3>1. /\ least[o] \in Nat \cup {None} /\ least'[o] \in Nat \cup {None}
          /\ NoSooner(least[o], least'[o])
          /\ ForEver(least'[o]) \/ today' - d <= least'[o]
      BY <1>1, <1>2, <1>3
    <3> QED BY <1>1, <1>3, <3>1, KeptBefore
  <2>2. [of |-> of, day |-> d] \in stored
    BY <1>4, <2>1 DEF HistoryInv, HistoryKept
  <2>3. \A o \in whose(of) : ~ (~ ForEver(least[o]) /\ today - d > least[o])
    <3> TAKE o \in whose(of)
    <3>1. least[o] \in Nat \cup {None} /\ today - d \in Int
      BY <1>1, <1>3
    <3> QED BY <2>1, <3>1 DEF ForEver
  <2> QED BY <1>4, <2>2, <2>3
<1>5. CASE d \notin 0 .. today
  <2>1. d = today' /\ today' = today + 1
    BY <1>1, <1>5
  <2>2. [of |-> of, day |-> d] \in Of(today')
    BY <2>1 DEF Of
  <2> QED BY <2>1, <2>2
<1> QED BY <1>4, <1>5

\* The requests that a step of the list moves are no passes.
LEMMA NoPass ==
    ASSUME ListInv, ListNext
    PROVE  /\ mix' = mix
           /\ \A s \in Requests : req'[s] = req[s] \/ req'[s].at \notin AtPass
<1>0. req \in [Requests -> Request]
  BY DEF ListInv, ListTyped
<1> DEFINE Goal == /\ mix' = mix
                   /\ \A s \in Requests : req'[s] = req[s] \/ req'[s].at \notin AtPass
<1>1. ASSUME NEW r \in Requests, NEW q, req' = [req EXCEPT ![r] = q], q.at \notin AtPass,
             mix' = mix
      PROVE  Goal
  BY <1>0, <1>1
<1>2. ASSUME NEW r \in Requests, End(r), mix' = mix PROVE Goal
  BY <1>1, <1>2 DEF End, Idle, AtPass
<1> HIDE DEF Goal
<1>3. ASSUME NEW r \in Requests, NEW o \in Orgs, NEW c \in Codes, Register(r, o, c)
      PROVE  Goal
  <2> DEFINE q == [at |-> "buying", org |-> o, code |-> c, planId |-> plans[c].planId]
  <2>1. req' = [req EXCEPT ![r] = q] /\ q.at \notin AtPass /\ mix' = mix
    BY <1>3 DEF Register, Begin, AtPass
  <2> HIDE DEF q
  <2> QED BY <1>1, <2>1
<1>4. ASSUME NEW r \in Requests, NEW o \in Orgs, NEW k \in Kinds, Ask(r, o, k) PROVE Goal
  <2> DEFINE q == [at |-> "adding", org |-> o, kind |-> k]
  <2>1. req' = [req EXCEPT ![r] = q] /\ q.at \notin AtPass /\ mix' = mix
    BY <1>4 DEF Ask, Begin, AtPass
  <2> HIDE DEF q
  <2> QED BY <1>1, <2>1
<1>5. ASSUME NEW r \in Requests, NEW d \in Drafts, CreatePlan(r, d) PROVE Goal
  <2> DEFINE row == [price |-> d.price, sso |-> d.sso, ctaKind |-> CtaKind(d),
                     planId |-> None, max |-> d.max, rank |-> d.rank,
                     recommended |-> FALSE, active |-> TRUE]
             q == [at |-> IF CtaKind(d) = "subscribe" THEN "making" ELSE "inserting",
                   code |-> d.code, row |-> row, amount |-> d.price]
  <2>1. req' = [req EXCEPT ![r] = q] /\ mix' = mix
    BY <1>5 DEF CreatePlan, Begin
  <2>2. q.at \notin AtPass
    BY DEF AtPass
  <2> HIDE DEF q
  <2> QED BY <1>1, <2>1, <2>2
<1>6. ASSUME NEW r \in Requests, NEW c \in Codes, CreateProviderPlan(r, c) PROVE Goal
  <2> DEFINE q == [at |-> "making", code |-> c, row |-> None, amount |-> plans[c].price]
  <2>1. req' = [req EXCEPT ![r] = q] /\ q.at \notin AtPass /\ mix' = mix
    BY <1>6 DEF CreateProviderPlan, Begin, AtPass
  <2> HIDE DEF q
  <2> QED BY <1>1, <2>1
<1>7. ASSUME NEW r \in Requests, NEW c \in Codes, NEW dto \in Patches, UpdatePlan(r, c, dto)
      PROVE  Goal
  <2> DEFINE differs == {f \in Fields(dto) : dto[f] # plans[c][f]}
             q == [at |-> IF "recommended" \in differs /\ dto.recommended
                          THEN "clearing" ELSE "wiring",
                   code |-> c, patch |-> [f \in differs |-> dto[f]]]
  <2>1. req' = [req EXCEPT ![r] = q] /\ mix' = mix
    BY <1>7 DEF UpdatePlan, Begin
  <2> HIDE DEF differs
  <2>2. q.at \notin AtPass
    BY DEF AtPass
  <2> HIDE DEF q
  <2> QED BY <1>1, <2>1, <2>2
<1>8. ASSUME NEW r \in Requests, MakePlan(r) PROVE Goal
  <2> DEFINE q(id) == IF req[r].row = None
                      THEN [at |-> "wiring", code |-> req[r].code, patch |-> [planId |-> id]]
                      ELSE [at |-> "inserting", code |-> req[r].code,
                            row |-> [req[r].row EXCEPT !.planId = id], amount |-> None]
  <2>1. PICK id \in PlanIds : req' = [req EXCEPT ![r] = q(id)]
    BY <1>8 DEF MakePlan, Begin
  <2>2. q(id).at \notin AtPass
    BY DEF AtPass
  <2>3. mix' = mix
    BY <1>8 DEF MakePlan
  <2> HIDE DEF q
  <2> QED BY <1>1, <2>1, <2>2, <2>3
<1>9. ASSUME NEW r \in Requests, ClearRecommended(r) PROVE Goal
  <2> DEFINE q == [req[r] EXCEPT !.at = "wiring"]
  <2>1. req[r] \in Editing
    BY <1>9, ByLabel DEF ClearRecommended, At, ListInv, ListTyped
  <2>2. req' = [req EXCEPT ![r] = q] /\ mix' = mix
    BY <1>9 DEF ClearRecommended, Begin
  <2>3. q.at = "wiring"
    BY <2>1 DEF Editing
  <2> HIDE DEF q
  <2> QED BY <1>1, <2>2, <2>3 DEF AtPass
<1>10. ASSUME NEW r \in Requests, Boot(r) PROVE Goal
  <2> DEFINE q == [at |-> "syncing", todo |-> DOMAIN Mapping]
  <2>1. req' = [req EXCEPT ![r] = q] /\ q.at \notin AtPass /\ mix' = mix
    BY <1>10 DEF Boot, Begin, AtPass
  <2> HIDE DEF q
  <2> QED BY <1>1, <2>1
<1>11. ASSUME NEW r \in Requests, NEW c \in Codes, Sync(r, c) PROVE Goal
  <2> DEFINE q == [req[r] EXCEPT !.todo = @ \ {c}]
  <2>1. req[r] \in Syncing
    BY <1>11, ByLabel DEF Sync, At, ListInv, ListTyped
  <2>2. req' = [req EXCEPT ![r] = q] /\ mix' = mix
    BY <1>11 DEF Sync, Begin
  <2>3. q.at = "syncing"
    BY <2>1 DEF Syncing
  <2> HIDE DEF q
  <2> QED BY <1>1, <2>2, <2>3 DEF AtPass
<1>12. ASSUME NEW r \in Requests, NEW actor, NEW u, NEW isAdmin, SetAdmin(r, actor, u, isAdmin)
       PROVE  Goal
  <2> DEFINE q == [at |-> "granting", user |-> u, isAdmin |-> isAdmin]
  <2>1. req' = [req EXCEPT ![r] = q] /\ q.at \notin AtPass /\ mix' = mix
    BY <1>12 DEF SetAdmin, Begin, AtPass
  <2> HIDE DEF q
  <2> QED BY <1>1, <2>1
<1>13. ASSUME NEW r \in Requests,
              \/ Subscribe(r) \/ Add(r) \/ MakeFails(r) \/ InsertPlan(r) \/ WritePlan(r)
              \/ AdoptExisting(r) \/ WriteAdmin(r)
       PROVE  Goal
  BY <1>2, <1>13 DEF Subscribe, Add, MakeFails, InsertPlan, WritePlan, AdoptExisting, WriteAdmin
<1>14. ASSUME NEW o \in Orgs, Lapse(o) \/ \E k \in Kinds : RemoveOne(o, k) PROVE Goal
  BY <1>14 DEF Lapse, RemoveOne, Goal
<1>15. Goal
  BY <1>3, <1>4, <1>5, <1>6, <1>7, <1>8, <1>9, <1>10, <1>11, <1>12, <1>13, <1>14
     DEF ListNext, CreateContact, InviteMember, CreateEndpoint, Kinds
<1> QED BY <1>15 DEF Goal

\* The rest of the invariant, once what is stored has been seen to
LEMMA PassesMove ==
    ASSUME ListInv, HistoryInv, Remember, ListInv', mix' = mix,
           today' \in {today, today + 1}, HistoryKept',
           \A s \in Requests : req'[s].at \in AtPass => "retention" \in mix,
           \A s \in Requests : Due(req'[s], least, today)
    PROVE  HistoryInv'
<1>1. /\ today \in Nat /\ today' \in Nat /\ today <= today'
      /\ least \in [Holders -> Nat \cup {None}] /\ req' \in [Requests -> Request]
  BY DEF ListInv, ListTyped, HistoryInv
<1>2. /\ least' \in [Holders -> Nat \cup {None}]
      /\ \A o \in Holders : NoSooner(least[o], least'[o])
      /\ "retention" \in mix =>
           \A o \in Holders : (\A w \in Windows(o) : NoSooner(w, least[o]))'
  BY <1>1, Remembered
<1>3. \A s \in Requests : Due(req'[s], least', today')
  BY <1>1, <1>2, DueLasts
<1> QED BY <1>2, <1>3 DEF HistoryInv

\* A request that has gone on
LEMMA OneMoves ==
    ASSUME ListInv, HistoryInv, NEW r \in Requests, NEW q, req' = [req EXCEPT ![r] = q],
           q.at \in AtPass => "retention" \in mix, Due(q, least, today)
    PROVE  /\ \A s \in Requests : req'[s].at \in AtPass => "retention" \in mix
           /\ \A s \in Requests : Due(req'[s], least, today)
<1>1. \A s \in Requests : req'[s] = IF s = r THEN q ELSE req[s]
  BY DEF ListInv, ListTyped
<1> QED BY <1>1 DEF HistoryInv

\* A pass drops what is older than the cutoff it worked out, and that is older
\* than its organisation's shortest window.
LEMMA DropsTheOld ==
    ASSUME ListInv, HistoryInv, NEW r \in Requests,
           req[r].at \in {"dropping sent", "dropping received"},
           NEW d \in Nat, d < req[r].before
    PROVE  /\ req[r].org \in Holders
           /\ ~ ForEver(least[req[r].org]) /\ today - d > least[req[r].org]
<1>1. req[r] \in Dropping
  BY ByLabel DEF ListInv, ListTyped
<1>2. req[r].org \in Holders /\ req[r].before \in Int
  BY <1>1 DEF Dropping
<1>3. ~ ForEver(least[req[r].org]) /\ req[r].before <= today - least[req[r].org]
  BY DEF HistoryInv, Due
<1>4. least[req[r].org] \in Nat
  BY <1>2, <1>3 DEF HistoryInv, ForEver
<1>5. today \in Nat
  BY DEF ListInv, ListTyped
<1> QED BY <1>2, <1>3, <1>4, <1>5, PastDue

\* Days are numbered.
LEMMA DaysAreNumbers == 0 .. today \subseteq Nat
OBVIOUS

\* Every step of the retention pass
LEMMA HistoryStep ==
    ASSUME ListInv, HistoryInv, ListInv', RetentionNext, Remember
    PROVE  HistoryInv'
<1>1. ASSUME NEW r \in Requests, NEW q, req' = [req EXCEPT ![r] = q], mix' = mix,
             q.at \in AtPass => "retention" \in mix, Due(q, least, today),
             today' = today, HistoryKept'
      PROVE  HistoryInv'
  BY <1>1, OneMoves, PassesMove
<1>2. ASSUME stored' = stored, today' = today, mix' = mix PROVE HistoryKept'
  <2>1. today' # today + 1
    BY <1>2 DEF ListInv, ListTyped
  <2> QED BY <1>2, <2>1, HistoryMoves
<1>3. ASSUME NEW r \in Requests, Prune(r) PROVE HistoryInv'
  <2> DEFINE q == [at |-> "pruning", todo |-> Holders]
  <2>1. /\ req' = [req EXCEPT ![r] = q] /\ mix' = mix /\ today' = today /\ stored' = stored
        /\ "retention" \in mix
    BY <1>3 DEF Prune, Begin, Starts
  <2>2. Due(q, least, today)
    BY DEF Due
  <2> HIDE DEF q
  <2> QED BY <1>1, <1>2, <2>1, <2>2
<1>4. ASSUME NEW r \in Requests, NEW o \in Holders, ReadWindow(r, o) PROVE HistoryInv'
  <2>1. req[r] \in Pruning
    BY <1>4, ByLabel DEF ReadWindow, At, ListInv, ListTyped
  <2>2. "retention" \in mix
    BY <1>4 DEF HistoryInv, AtPass, ReadWindow, At
  <2> DEFINE q(w) == IF Endless(w)
                     THEN [req[r] EXCEPT !.todo = @ \ {o}]
                     ELSE [at |-> "dropping sent", org |-> o, before |-> today - w,
                           todo |-> req[r].todo \ {o}]
  <2>3. PICK w \in Windows(o) : req' = [req EXCEPT ![r] = q(w)]
    BY <1>4 DEF ReadWindow, Begin
  <2>4. w \in Nat \cup {None} /\ NoSooner(w, least[o])
    BY <2>2, WindowsRead DEF HistoryInv
  <2>5. Due(q(w), least, today)
    <3>1. CASE Endless(w)
      <4>1. q(w).at = "pruning"
        BY <2>1, <3>1 DEF Pruning
      <4> QED BY <4>1 DEF Due
    <3>2. CASE ~ Endless(w)
      <4>1. w \in Nat /\ ~ ForEver(least[o]) /\ least[o] <= w
        BY <2>4, <3>2 DEF Endless, ForEver, NoSooner
      <4>2. least[o] \in Nat /\ today \in Nat
        BY <4>1 DEF HistoryInv, ListInv, ListTyped, ForEver
      <4>3. today - w <= today - least[o]
        BY <4>1, <4>2
      <4>4. q(w).org = o /\ q(w).before = today - w
        BY <3>2
      <4> QED BY <4>1, <4>3, <4>4 DEF Due
    <3> QED BY <3>1, <3>2
  <2>6. mix' = mix /\ today' = today /\ stored' = stored
    BY <1>4 DEF ReadWindow
  <2> HIDE DEF q
  <2> QED BY <1>1, <1>2, <2>2, <2>3, <2>5, <2>6
<1>5. ASSUME NEW r \in Requests, DropSent(r) PROVE HistoryInv'
  <2>1. req[r] \in Dropping /\ req[r].at = "dropping sent"
    BY <1>5, ByLabel DEF DropSent, At, ListInv, ListTyped
  <2> DEFINE q == [req[r] EXCEPT !.at = "dropping received"]
  <2>2. /\ req' = [req EXCEPT ![r] = q] /\ mix' = mix /\ today' = today
        /\ stored' = stored \ Before(r, req[r].org)
    BY <1>5 DEF DropSent, Begin
  <2>3. q.org = req[r].org /\ q.before = req[r].before
    BY <2>1 DEF Dropping
  <2>4. Due(req[r], least, today) /\ "retention" \in mix
    BY <2>1 DEF HistoryInv, AtPass
  <2>5. Due(q, least, today)
    BY <2>1, <2>3, <2>4 DEF Due
  <2> HIDE DEF q
  <2>6. ASSUME NEW d \in 0 .. today, NEW of \in Holders \cup {None},
               [of |-> of, day |-> d] \in stored, [of |-> of, day |-> d] \notin stored'
        PROVE  \E o \in IF of = None THEN Holders ELSE {of} :
                 ~ ForEver(least[o]) /\ today - d > least[o]
    <3>1. of = req[r].org /\ d < req[r].before
      BY <2>2, <2>6 DEF Before
    <3>2. /\ of \in Holders /\ ~ ForEver(least[of]) /\ today - d > least[of]
      BY <2>1, <3>1, DropsTheOld, DaysAreNumbers
    <3> QED BY <3>2
  <2>7. today' # today + 1
    BY <2>2 DEF ListInv, ListTyped
  <2>8. HistoryKept'
    BY <2>2, <2>6, <2>7, HistoryMoves
  <2> QED BY <1>1, <2>2, <2>4, <2>5, <2>8
<1>6. ASSUME NEW r \in Requests, DropReceived(r) PROVE HistoryInv'
  <2>1. req[r].at = "dropping received"
    BY <1>6 DEF DropReceived, At
  <2> DEFINE q == [at |-> "pruning", todo |-> req[r].todo]
  <2>2. /\ req' = [req EXCEPT ![r] = q] /\ mix' = mix /\ today' = today
        /\ stored' = stored \ Before(r, None)
    BY <1>6 DEF DropReceived, Begin
  <2>3. "retention" \in mix
    BY <2>1 DEF HistoryInv, AtPass
  <2>4. Due(q, least, today)
    BY DEF Due
  <2> HIDE DEF q
  <2>5. ASSUME NEW d \in 0 .. today, NEW of \in Holders \cup {None},
               [of |-> of, day |-> d] \in stored, [of |-> of, day |-> d] \notin stored'
        PROVE  \E o \in IF of = None THEN Holders ELSE {of} :
                 ~ ForEver(least[o]) /\ today - d > least[o]
    <3>1. of = None /\ d < req[r].before
      BY <2>2, <2>5 DEF Before
    <3>2. /\ req[r].org \in Holders
          /\ ~ ForEver(least[req[r].org]) /\ today - d > least[req[r].org]
      BY <2>1, <3>1, DropsTheOld, DaysAreNumbers
    <3> QED BY <3>1, <3>2
  <2>6. today' # today + 1
    BY <2>2 DEF ListInv, ListTyped
  <2>7. HistoryKept'
    BY <2>2, <2>5, <2>6, HistoryMoves
  <2> QED BY <1>1, <2>2, <2>3, <2>4, <2>7
<1>7. ASSUME NEW r \in Requests, PruneEnds(r) PROVE HistoryInv'
  <2>1. /\ req' = [req EXCEPT ![r] = Idle] /\ mix' = mix /\ today' = today /\ stored' = stored
    BY <1>7 DEF PruneEnds, End
  <2>2. Idle.at \notin AtPass /\ Due(Idle, least, today)
    BY DEF Due, Idle, AtPass
  <2> QED BY <1>1, <1>2, <2>1, <2>2
<1>8. CASE NextDay
  <2>1. /\ req' = req /\ mix' = mix /\ today' = today + 1
        /\ stored' = stored \cup Of(today')
    BY <1>8 DEF NextDay, listAll
  <2>2. HistoryKept'
    BY <2>1, HistoryMoves
  <2>3. /\ \A s \in Requests : req'[s].at \in AtPass => "retention" \in mix
        /\ \A s \in Requests : Due(req'[s], least, today)
    BY <2>1 DEF HistoryInv
  <2> QED BY <2>1, <2>2, <2>3, PassesMove
<1> QED BY <1>3, <1>4, <1>5, <1>6, <1>7, <1>8 DEF RetentionNext

\* Every step keeps the history.
LEMMA HistoryMaintained ==
    ListInv /\ HistoryInv /\ ListInv' /\ [ChargesNext]_chargeVars => HistoryInv'
<1> SUFFICES ASSUME ListInv, HistoryInv, ListInv', [ChargesNext]_chargeVars PROVE HistoryInv'
  OBVIOUS
<1>1. CASE ListNext /\ Remember /\ UNCHANGED <<today, stored>>
  <2>1. /\ mix' = mix
        /\ \A s \in Requests : req'[s] = req[s] \/ req'[s].at \notin AtPass
    BY <1>1, NoPass
  <2>2. /\ \A s \in Requests : req'[s].at \in AtPass => "retention" \in mix
        /\ \A s \in Requests : Due(req'[s], least, today)
    BY <2>1 DEF HistoryInv, Due, AtPass
  <2>3. today' # today + 1
    BY <1>1 DEF ListInv, ListTyped
  <2>4. HistoryKept'
    BY <1>1, <2>1, <2>3, HistoryMoves
  <2> QED BY <1>1, <2>1, <2>2, <2>4, PassesMove
<1>2. CASE RetentionNext /\ Remember
  BY <1>2, HistoryStep
<1>3. CASE UNCHANGED <<listAll, retentionVars>>
  <2>1. (\A o \in Holders : \A w \in Windows(o) : NoSooner(w, least[o]))'
          <=> (\A o \in Holders : \A w \in Windows(o) : NoSooner(w, least[o]))
    BY <1>3 DEF listAll, retentionVars, Windows, forOrg, subscribedPlans, best, entryLimits,
                Published, toLimits
  <2> QED BY <1>3, <2>1 DEF listAll, retentionVars, HistoryInv, HistoryKept
<1> QED BY <1>1, <1>2, <1>3, ListFrame

\* What an organisation sent is kept for the shortest window it has had, and what
\* the account received for the shortest any holder has had: for any price list,
\* any number of passes at once, and however tiers are bought and edited between
\* the reading of a window and the deleting it leads to (sweepMessageHistory()).
THEOREM MessagesAreKept == ChargesSpec => []HistoryKept
<1>1. ASSUME ListInit, RetentionInit, ListInv PROVE HistoryInv
  <2>1. \A o \in Holders : Windows(o) \subseteq Nat \cup {None}
    BY <1>1, WindowsRead
  <2>2. least = [o \in Holders |-> Shortest(Windows(o))]
    BY <1>1 DEF RetentionInit
  <2>3. ASSUME NEW o \in Holders
        PROVE  /\ least[o] \in Nat \cup {None}
               /\ \A w \in Windows(o) : NoSooner(w, least[o])
    BY <2>1, <2>2, ShortestOf
  <2>4. least \in [Holders -> Nat \cup {None}]
    BY <2>2, <2>3
  <2>5. \A r \in Requests : req[r].at \notin AtPass
    BY <1>1 DEF ListInit, Idle, AtPass
  <2>6. HistoryKept
    BY <1>1 DEF RetentionInit, HistoryKept, Of
  <2> QED BY <2>3, <2>4, <2>5, <2>6 DEF HistoryInv, Due, AtPass
<1>2. ChargesInit => ListInv /\ HistoryInv
  BY <1>1, ListBegins DEF ChargesInit
<1>3. HistoryInv => HistoryKept
  BY DEF HistoryInv
<1> QED BY <1>2, <1>3, ListKept, HistoryMaintained, PTL DEF ChargesSpec

-----------------------------------------------------------------------------
(* Decisions taken on what was read: ceilings, the highlighted tier, admins *)

Adding(k, o) == {r \in Requests : req[r].at = "adding" /\ req[r].kind = k /\ req[r].org = o}

\* What is held and what is about to be, together: only the requests beside the
\* one that filled the last place come on top of a ceiling.
Room ==
    \A k \in Kinds, o \in Orgs :
       ceiling[k][o] # None =>
         held[k][o] + Cardinality(Adding(k, o)) <= ceiling[k][o] + Cardinality(Requests) - 1

Highlights(q) ==
    q.at \in {"clearing", "wiring"} /\ "recommended" \in Fields(q.patch) /\ q.patch.recommended

\* One edit at most is about to highlight a tier, and once it has cleared the
\* others, no other is highlighted.
OneHighlights ==
    "recommended" \notin crossed =>
      /\ \A r, s \in Requests : Highlights(req[r]) /\ Highlights(req[s]) => r = s
      /\ \A c, d \in Published : plans[c].recommended /\ plans[d].recommended => c = d
      /\ \A r \in Requests : Highlights(req[r]) /\ req[r].at = "wiring" =>
           \A c \in Published : plans[c].recommended => c = req[r].code

\* One change at most of who may use the console is under way, and it leaves
\* somebody.
SomebodyStays ==
    "admins" \notin crossed =>
      /\ admins # {}
      /\ \A r, s \in Requests : req[r].at = "granting" /\ req[s].at = "granting" => r = s
      /\ \A r \in Requests : req[r].at = "granting" /\ ~ req[r].isAdmin =>
           admins \ {req[r].user} # {}

RacesInv == Room /\ OneHighlights /\ SomebodyStays

\* There are finitely many requests, so that they can be counted.
LEMMA RequestsAreFinite ==
    /\ Cardinality(Requests) \in Nat \ {0}
    /\ \A S \in SUBSET Requests : /\ IsFiniteSet(S) /\ Cardinality(S) \in Nat
                                  /\ Cardinality(S) <= Cardinality(Requests)
BY ListAssumption, FS_Subset, FS_CardinalityType, FS_EmptySet

\* One request's step, seen from the others
LEMMA OthersStay ==
    ASSUME ListInv, NEW r \in Requests, NEW q, req' = [req EXCEPT ![r] = q]
    PROVE  \A s \in Requests : req'[s] = IF s = r THEN q ELSE req[s]
BY DEF ListInv, ListTyped

\* A request that adds nothing leaves the ceilings alone.
LEMMA RoomFrame ==
    ASSUME ListInv, Room, NEW r \in Requests, NEW q, req' = [req EXCEPT ![r] = q],
           req[r].at # "adding", q.at # "adding", UNCHANGED <<held, ceiling>>
    PROVE  Room'
<1>1. \A k \in Kinds, o \in Orgs : Adding(k, o)' = Adding(k, o)
  BY OthersStay DEF Adding
<1> QED BY <1>1 DEF Room

\* A request that highlights nothing leaves the highlights alone.
LEMMA HighlightsFrame ==
    ASSUME ListInv, OneHighlights, NEW r \in Requests, NEW q, req' = [req EXCEPT ![r] = q],
           ~ Highlights(q), crossed \subseteq crossed',
           \A c \in Published' : (plans[c].recommended)' => c \in Published /\ plans[c].recommended
    PROVE  OneHighlights'
<1>1. \A s \in Requests : Highlights(req'[s]) => req'[s] = req[s]
  BY OthersStay
<1> HIDE DEF Highlights
<1> SUFFICES ASSUME "recommended" \notin crossed'
             PROVE  (/\ \A x, s \in Requests : Highlights(req[x]) /\ Highlights(req[s]) => x = s
                     /\ \A c, d \in Published :
                          plans[c].recommended /\ plans[d].recommended => c = d
                     /\ \A x \in Requests : Highlights(req[x]) /\ req[x].at = "wiring" =>
                          \A c \in Published : plans[c].recommended => c = req[x].code)'
  BY DEF OneHighlights
<1>2. "recommended" \notin crossed
  OBVIOUS
<1>3. \A x, s \in Requests : Highlights(req'[x]) /\ Highlights(req'[s]) => x = s
  BY <1>1, <1>2 DEF OneHighlights
<1>4. \A c, d \in Published' : plans'[c].recommended /\ plans'[d].recommended => c = d
  BY <1>2 DEF OneHighlights
<1>5. \A x \in Requests : Highlights(req'[x]) /\ req'[x].at = "wiring" =>
        \A c \in Published' : plans'[c].recommended => c = req'[x].code
  BY <1>1, <1>2 DEF OneHighlights
<1> QED BY <1>3, <1>4, <1>5

\* A request that demotes nobody leaves the admins alone.
LEMMA AdminFrame ==
    ASSUME ListInv, SomebodyStays, NEW r \in Requests, NEW q, req' = [req EXCEPT ![r] = q],
           q.at # "granting", admins' = admins, crossed \subseteq crossed'
    PROVE  SomebodyStays'
<1>1. \A s \in Requests : req'[s].at = "granting" => req'[s] = req[s]
  BY OthersStay
<1> QED BY <1>1 DEF SomebodyStays

\* A step that is none of the decisions
LEMMA PlainMove ==
    ASSUME ListInv, RacesInv, NEW r \in Requests, NEW q, req' = [req EXCEPT ![r] = q],
           req[r].at # "adding", q.at \notin {"adding", "granting"}, ~ Highlights(q),
           UNCHANGED <<held, ceiling, admins, crossed>>,
           \A c \in Published' : (plans[c].recommended)' => c \in Published /\ plans[c].recommended
    PROVE  RacesInv'
BY RoomFrame, HighlightsFrame, AdminFrame DEF RacesInv

\* The same, where the list stays as it is
LEMMA IdleMove ==
    ASSUME ListInv, RacesInv, NEW r \in Requests, NEW q, req' = [req EXCEPT ![r] = q],
           req[r].at # "adding", q.at \notin {"adding", "granting", "clearing", "wiring"},
           UNCHANGED <<held, ceiling, admins, crossed, plans>>
    PROVE  RacesInv'
<1>1. Published' = Published
  BY DEF Published
<1>2. ~ Highlights(q)
  BY DEF Highlights
<1> QED BY <1>1, <1>2, PlainMove

\* The count was under the ceiling when it was read, whatever is in flight.
LEMMA AskRaces ==
    ASSUME ListInv, RacesInv, NEW r \in Requests, NEW o \in Orgs, NEW k \in Kinds,
           At(r, "idle"), Ask(r, o, k)
    PROVE  RacesInv'
<1> DEFINE q == [at |-> "adding", org |-> o, kind |-> k]
<1>1. req' = [req EXCEPT ![r] = q] /\ UNCHANGED <<held, admins, crossed, plans>>
  BY DEF Ask, Begin, listVars
<1>2. q.at = "adding" /\ q.org = o /\ q.kind = k
  OBVIOUS
<1> HIDE DEF q
<1>3. ~ Highlights(q) /\ Published' = Published
  BY <1>1, <1>2 DEF Highlights, Published
<1>4. OneHighlights' /\ SomebodyStays'
  BY <1>1, <1>2, <1>3, HighlightsFrame, AdminFrame DEF RacesInv
<1>5. CeilingOf(o, k) \subseteq Nat \cup {None}
  BY TiersRead, LimitsRead DEF CeilingOf, Allowances
<1>6. PICK limit \in CeilingOf(o, k) :
        /\ Fits(limit, held[k][o])
        /\ ceiling' = [ceiling EXCEPT ![k][o] = HigherOf(@, limit)]
  BY DEF Ask
<1>7. /\ \A l \in Kinds, p \in Orgs : ceiling[l][p] \in Nat \cup {None} /\ held[l][p] \in Nat
      /\ limit \in Nat \cup {None}
  BY <1>5 DEF ListInv, ListTyped
<1>8. \A l \in Kinds, p \in Orgs :
        ceiling'[l][p] = IF l = k /\ p = o THEN HigherOf(ceiling[k][o], limit) ELSE ceiling[l][p]
  BY <1>6 DEF ListInv, ListTyped
<1>9. ASSUME NEW l \in Kinds, NEW p \in Orgs, ceiling'[l][p] # None
      PROVE  held[l][p] + Cardinality(Adding(l, p)') <=
               ceiling'[l][p] + Cardinality(Requests) - 1
  <2>1. CASE l = k /\ p = o
    <3>1. ceiling'[l][p] = HigherOf(ceiling[k][o], limit)
      BY <1>8, <2>1
    <3>2. ceiling'[l][p] \in Nat /\ limit \in Nat /\ limit <= ceiling'[l][p]
      BY <1>7, <1>9, <3>1 DEF HigherOf
    <3>3. held[l][p] < limit
      BY <1>6, <1>7, <2>1, <3>2, NoneIsNone DEF Fits
    <3>4. Adding(l, p)' \in SUBSET Requests
      BY DEF Adding
    <3>5. /\ Cardinality(Adding(l, p)') \in Nat
          /\ Cardinality(Adding(l, p)') <= Cardinality(Requests)
      BY <3>4, RequestsAreFinite
    <3> HIDE DEF Adding
    <3> QED BY <1>7, <3>2, <3>3, <3>5, RequestsAreFinite
  <2>2. CASE ~ (l = k /\ p = o)
    <3>1. Adding(l, p)' = Adding(l, p)
      BY <1>1, <1>2, <2>2, OthersStay DEF Adding, At
    <3>2. ceiling'[l][p] = ceiling[l][p]
      BY <1>8, <2>2
    <3> QED BY <1>9, <3>1, <3>2 DEF RacesInv, Room
  <2> QED BY <2>1, <2>2
<1>10. Room'
  BY <1>1, <1>9 DEF Room
<1> QED BY <1>4, <1>10 DEF RacesInv

\* A place taken is one that was counted.
LEMMA AddRaces ==
    ASSUME ListInv, RacesInv, NEW r \in Requests, Add(r)
    PROVE  RacesInv'
<1>1. req' = [req EXCEPT ![r] = Idle] /\ UNCHANGED <<ceiling, admins, crossed, plans>>
  BY DEF Add, End, listVars, history
<1>2. ~ Highlights(Idle) /\ Idle.at \notin {"granting", "adding"} /\ Published' = Published
  BY <1>1 DEF Highlights, Published, Idle
<1>3. OneHighlights' /\ SomebodyStays'
  BY <1>1, <1>2, HighlightsFrame, AdminFrame DEF RacesInv
<1>4. req[r] \in AddingOne /\ req[r].at = "adding"
  BY ByLabel DEF Add, At, ListInv, ListTyped
<1> DEFINE k == req[r].kind
           o == req[r].org
<1>5. k \in Kinds /\ o \in Orgs
  BY <1>4 DEF AddingOne
<1>6. held' = [held EXCEPT ![k][o] = @ + 1]
  BY DEF Add
<1> HIDE DEF k, o
<1>7. \A l \in Kinds, p \in Orgs :
        held'[l][p] = IF l = k /\ p = o THEN held[k][o] + 1 ELSE held[l][p]
  BY <1>5, <1>6 DEF ListInv, ListTyped
<1>8. \A l \in Kinds, p \in Orgs : held[l][p] \in Nat /\ ceiling[l][p] \in Nat \cup {None}
  BY DEF ListInv, ListTyped
<1>9. ASSUME NEW l \in Kinds, NEW p \in Orgs, ceiling[l][p] # None
      PROVE  held'[l][p] + Cardinality(Adding(l, p)') <=
               ceiling[l][p] + Cardinality(Requests) - 1
  <2>1. held[l][p] + Cardinality(Adding(l, p)) <= ceiling[l][p] + Cardinality(Requests) - 1
    BY <1>9 DEF RacesInv, Room
  <2>2. Adding(l, p) \in SUBSET Requests
    BY DEF Adding
  <2>3. IsFiniteSet(Adding(l, p)) /\ Cardinality(Adding(l, p)) \in Nat
    BY <2>2, RequestsAreFinite
  <2>4. CASE l = k /\ p = o
    <3>1. Adding(l, p)' = Adding(l, p) \ {r} /\ r \in Adding(l, p)
      <4>1. req[r].kind = l /\ req[r].org = p
        BY <2>4 DEF k, o
      <4>2. \A s \in Requests : req'[s] = IF s = r THEN Idle ELSE req[s]
        BY <1>1, OthersStay
      <4> QED BY <1>2, <1>4, <4>1, <4>2 DEF Adding
    <3>2. Cardinality(Adding(l, p)') = Cardinality(Adding(l, p)) - 1
      BY <2>3, <3>1, FS_RemoveElement
    <3>3. held'[l][p] = held[l][p] + 1
      BY <1>7, <2>4
    <3> QED BY <1>8, <2>1, <2>3, <3>2, <3>3
  <2>5. CASE ~ (l = k /\ p = o)
    <3>1. Adding(l, p)' = Adding(l, p)
      BY <1>1, <1>2, <2>5, OthersStay DEF Adding, k, o
    <3>2. held'[l][p] = held[l][p]
      BY <1>7, <2>5
    <3> QED BY <2>1, <3>1, <3>2
  <2> QED BY <2>4, <2>5
<1>10. Room'
  BY <1>1, <1>9 DEF Room
<1> QED BY <1>3, <1>10 DEF RacesInv

\* One is removed.
LEMMA RemoveRaces ==
    ASSUME ListInv, RacesInv, NEW o \in Orgs, NEW k \in Kinds, RemoveOne(o, k)
    PROVE  RacesInv'
<1>1. UNCHANGED <<plans, admins, req, ceiling, crossed>> /\ held' = [held EXCEPT ![k][o] = @ - 1]
  BY DEF RemoveOne, listVars, history
<1>2. \A l \in Kinds, p \in Orgs :
        /\ held[l][p] \in Nat /\ ceiling[l][p] \in Nat \cup {None}
        /\ held'[l][p] \in {held[l][p], held[l][p] - 1}
  BY <1>1 DEF ListInv, ListTyped
<1>3. ASSUME NEW l \in Kinds, NEW p \in Orgs, ceiling[l][p] # None
      PROVE  held'[l][p] + Cardinality(Adding(l, p)') <=
               ceiling[l][p] + Cardinality(Requests) - 1
  <2>1. held[l][p] + Cardinality(Adding(l, p)) <= ceiling[l][p] + Cardinality(Requests) - 1
    BY <1>3 DEF RacesInv, Room
  <2>2. Adding(l, p)' = Adding(l, p) /\ Adding(l, p) \in SUBSET Requests
    BY <1>1 DEF Adding
  <2>3. Cardinality(Adding(l, p)) \in Nat
    BY <2>2, RequestsAreFinite
  <2>4. ceiling[l][p] \in Nat /\ held[l][p] \in Nat
        /\ held'[l][p] \in {held[l][p], held[l][p] - 1}
    BY <1>2, <1>3
  <2> QED BY <2>1, <2>2, <2>3, <2>4, RequestsAreFinite
<1>4. Room'
  BY <1>1, <1>3 DEF Room
<1> QED BY <1>1, <1>4 DEF RacesInv, OneHighlights, SomebodyStays, Published

\* An edit that highlights a tier is alone in it, or it has crossed another.
LEMMA UpdateRaces ==
    ASSUME ListInv, RacesInv, NEW r \in Requests, NEW c \in Codes, NEW dto \in Patches,
           UpdatePlan(r, c, dto)
    PROVE  RacesInv'
<1> DEFINE differs == {f \in Fields(dto) : dto[f] # plans[c][f]}
           patch == [f \in differs |-> dto[f]]
           highlights == "recommended" \in differs /\ dto.recommended
           q == [at |-> IF highlights THEN "clearing" ELSE "wiring",
                 code |-> c, patch |-> patch]
<1>1. /\ req' = [req EXCEPT ![r] = q] /\ UNCHANGED <<held, admins, plans, ceiling>>
      /\ Crosses("recommended", IF highlights THEN Highlighting ELSE {}) /\ req[r].at = "idle"
  BY DEF UpdatePlan, Begin, listVars, Starts, At
<1> HIDE DEF differs
<1>2. /\ q.at \in {"clearing", "wiring"} /\ q.patch = patch /\ DOMAIN patch = differs
      /\ q.at = "wiring" => ~ highlights
      /\ "recommended" \in differs => patch.recommended = dto.recommended
  OBVIOUS
<1>3. Highlights(q) => highlights /\ q.at = "clearing"
  BY <1>2 DEF Highlights, Fields
<1> HIDE DEF q, patch, highlights
<1>4. Room'
  BY <1>1, <1>2, RoomFrame DEF RacesInv
<1>5. crossed \subseteq crossed' /\ Published' = Published
  BY <1>1 DEF Crosses, Published
<1>6. SomebodyStays'
  BY <1>1, <1>2, <1>5, AdminFrame DEF RacesInv
<1>7. CASE ~ Highlights(q)
  <2>1. OneHighlights'
    BY <1>1, <1>5, <1>7, HighlightsFrame DEF RacesInv
  <2> QED BY <1>4, <1>6, <2>1 DEF RacesInv
<1>8. CASE Highlights(q) /\ Highlighting # {}
  <2>1. "recommended" \in crossed'
    BY <1>1, <1>3, <1>8 DEF Crosses
  <2> QED BY <1>4, <1>6, <2>1 DEF RacesInv, OneHighlights
<1>9. CASE Highlights(q) /\ Highlighting = {}
  <2>1. \A s \in Requests : ~ Highlights(req[s])
    BY <1>9 DEF Highlighting, Highlights
  <2>2. \A s \in Requests : Highlights(req'[s]) => s = r
    BY <1>1, <2>1, OthersStay
  <2>3. req'[r].at = "clearing"
    <3>1. req'[r] = q
      BY <1>1 DEF ListInv, ListTyped
    <3> QED BY <1>3, <1>9, <3>1
  <2>4. crossed' = crossed
    BY <1>1, <1>9 DEF Crosses
  <2> HIDE DEF Highlights
  <2>5. OneHighlights'
    BY <1>1, <1>5, <2>2, <2>3, <2>4 DEF RacesInv, OneHighlights
  <2> QED BY <1>4, <1>6, <2>5 DEF RacesInv
<1> QED BY <1>7, <1>8, <1>9

\* What is cleared is every tier but the one to be highlighted.
LEMMA ClearRaces ==
    ASSUME ListInv, RacesInv, NEW r \in Requests, ClearRecommended(r)
    PROVE  RacesInv'
<1>1. req[r] \in Editing /\ Sound(req[r], plans, provider) /\ req[r].at = "clearing"
  BY ByLabel DEF ClearRecommended, At, ListInv, ListTyped
<1> DEFINE q == [req[r] EXCEPT !.at = "wiring"]
<1>2. req' = [req EXCEPT ![r] = q] /\ UNCHANGED <<held, admins, ceiling, crossed>>
  BY DEF ClearRecommended, Begin, history
<1>3. q.at = "wiring" /\ q.code = req[r].code /\ q.patch = req[r].patch
  BY <1>1 DEF Editing
<1>4. Highlights(req[r])
  BY <1>1 DEF Sound, Highlights, Fields
<1> HIDE DEF q
<1>5. \A s \in Requests : Highlights(req'[s]) => Highlights(req[s])
  BY <1>2, <1>4, OthersStay
<1>6. plans' = [c \in Codes |-> IF c \in Published \ {req[r].code}
                                THEN [plans[c] EXCEPT !.recommended = FALSE] ELSE plans[c]]
  BY DEF ClearRecommended
<1>7. ASSUME NEW c \in Codes, plans'[c] # None, plans'[c].recommended
      PROVE  c \in Published /\ c = req[r].code /\ plans[c].recommended
  <2>1. CASE c \in Published \ {req[r].code}
    <3>1. plans[c] \in Row /\ plans'[c] = [plans[c] EXCEPT !.recommended = FALSE]
      BY <1>6, <2>1 DEF Published, ListInv, ListTyped
    <3>2. plans'[c].recommended = FALSE
      BY <3>1 DEF Row
    <3> QED BY <1>7, <3>2
  <2>2. CASE c \notin Published \ {req[r].code}
    BY <1>6, <1>7, <2>2 DEF Published
  <2> QED BY <2>1, <2>2
<1>8. \A c \in Published' : plans'[c].recommended => c = req[r].code
  BY <1>7 DEF Published
<1>9. Room' /\ SomebodyStays'
  BY <1>1, <1>2, <1>3, RoomFrame, AdminFrame DEF RacesInv
<1> HIDE DEF Highlights
<1>10. ASSUME "recommended" \notin crossed
       PROVE  /\ \A x, s \in Requests : Highlights(req'[x]) /\ Highlights(req'[s]) => x = s
              /\ \A x \in Requests : Highlights(req'[x]) => x = r /\ req'[x].code = req[r].code
  BY <1>2, <1>3, <1>4, <1>5, <1>10, OthersStay DEF RacesInv, OneHighlights
<1>11. OneHighlights'
  BY <1>2, <1>8, <1>10 DEF OneHighlights
<1> QED BY <1>9, <1>11 DEF RacesInv

\* What is highlighted is the only one, or an edit that crossed it is to blame.
LEMMA WriteRaces ==
    ASSUME ListInv, RacesInv, NEW r \in Requests, WritePlan(r)
    PROVE  RacesInv'
<1>1. /\ req' = [req EXCEPT ![r] = Idle] /\ UNCHANGED <<held, admins, ceiling, crossed>>
  BY DEF WritePlan, End, history
<1>2. req[r] \in Editing /\ Sound(req[r], plans, provider) /\ req[r].at = "wiring"
  BY ByLabel DEF WritePlan, At, ListInv, ListTyped
<1>3. ~ Highlights(Idle) /\ Idle.at \notin {"adding", "granting"}
  BY DEF Idle, Highlights
<1>4. Room' /\ SomebodyStays'
  BY <1>1, <1>2, <1>3, RoomFrame, AdminFrame DEF RacesInv
<1> DEFINE c == req[r].code
           row == Patched(plans[c], req[r].patch)
<1>5. c \in Codes /\ req[r].patch \in Patch
  BY <1>2 DEF Editing
<1>6. plans[c] # None
  BY <1>2 DEF Sound
<1>7. plans[c] \in Row
  BY <1>5, <1>6 DEF ListInv, ListTyped
<1>8. row.recommended = IF "recommended" \in DOMAIN req[r].patch THEN req[r].patch.recommended
                        ELSE plans[c].recommended
  BY <1>5, <1>7, PatchedIsRow
<1>9. plans' = plans \/ plans' = [plans EXCEPT ![c] = row]
  BY DEF WritePlan
<1>10. row.recommended => plans[c].recommended \/ Highlights(req[r])
  BY <1>2, <1>8 DEF Highlights, Fields
<1> HIDE DEF c, row
<1>11. \A d \in Published' : plans'[d].recommended =>
         \/ d \in Published /\ plans[d].recommended
         \/ d = c /\ Highlights(req[r])
  BY <1>5, <1>6, <1>9, <1>10 DEF Published, ListInv, ListTyped
<1>12. CASE ~ Highlights(req[r])
  <2>1. OneHighlights'
    BY <1>1, <1>3, <1>11, <1>12, HighlightsFrame DEF RacesInv
  <2> QED BY <1>4, <2>1 DEF RacesInv
<1>13. CASE Highlights(req[r])
  <2> HIDE DEF Highlights
  <2>1. ASSUME "recommended" \notin crossed
        PROVE  /\ \A s \in Requests : ~ Highlights(req'[s])
               /\ \A d \in Published' : plans'[d].recommended => d = c
    <3>1. \A s \in Requests : Highlights(req[s]) => s = r
      BY <1>13, <2>1 DEF RacesInv, OneHighlights
    <3>2. \A d \in Published : plans[d].recommended => d = c
      BY <1>2, <1>13, <2>1 DEF RacesInv, OneHighlights, c
    <3>3. \A s \in Requests : req'[s] = IF s = r THEN Idle ELSE req[s]
      BY <1>1, OthersStay
    <3>4. \A s \in Requests : ~ Highlights(req'[s])
      BY <1>3, <3>1, <3>3
    <3> QED BY <1>11, <3>2, <3>4
  <2>2. OneHighlights'
    BY <1>1, <2>1 DEF OneHighlights
  <2> QED BY <1>4, <2>2 DEF RacesInv
<1> QED BY <1>12, <1>13

\* setAdmin() has counted: one more demotion is in flight.
LEMMA SetAdminRaces ==
    ASSUME ListInv, RacesInv, NEW r \in Requests, NEW actor \in Users, NEW u \in Users,
           NEW isAdmin \in BOOLEAN, SetAdmin(r, actor, u, isAdmin)
    PROVE  RacesInv'
<1> DEFINE q == [at |-> "granting", user |-> u, isAdmin |-> isAdmin]
           others == {s \in Requests : At(s, "granting")}
<1>1. /\ req' = [req EXCEPT ![r] = q] /\ UNCHANGED <<held, admins, plans, ceiling>>
      /\ Crosses("admins", others) /\ req[r].at = "idle"
      /\ ~ isAdmin => admins \ {u} # {}
  BY DEF SetAdmin, Begin, listVars, Starts, At, MayDemote
<1>2. q.at = "granting" /\ q.user = u /\ q.isAdmin = isAdmin
  OBVIOUS
<1> HIDE DEF q
<1>3. ~ Highlights(q) /\ crossed \subseteq crossed' /\ Published' = Published
  BY <1>1, <1>2 DEF Highlights, Crosses, Published
<1>4. Room' /\ OneHighlights'
  BY <1>1, <1>2, <1>3, RoomFrame, HighlightsFrame DEF RacesInv
<1>5. CASE others # {}
  <2>1. "admins" \in crossed'
    BY <1>1, <1>5 DEF Crosses
  <2> QED BY <1>4, <2>1 DEF RacesInv, SomebodyStays
<1>6. CASE others = {}
  <2>1. \A s \in Requests : req'[s].at = "granting" => s = r
    BY <1>1, <1>2, <1>6, OthersStay DEF At
  <2>2. req'[r].user = u /\ req'[r].isAdmin = isAdmin
    <3>1. req'[r] = q
      BY <1>1 DEF ListInv, ListTyped
    <3> QED BY <1>2, <3>1
  <2>3. crossed' = crossed
    BY <1>1, <1>6 DEF Crosses
  <2>4. SomebodyStays'
    BY <1>1, <2>1, <2>2, <2>3 DEF RacesInv, SomebodyStays
  <2> QED BY <1>4, <2>4 DEF RacesInv
<1> QED BY <1>5, <1>6

\* setAdmin() writes: one fewer is in flight, and at most one admin fewer there.
LEMMA WriteAdminRaces ==
    ASSUME ListInv, RacesInv, NEW r \in Requests, WriteAdmin(r)
    PROVE  RacesInv'
<1>1. /\ req' = [req EXCEPT ![r] = Idle] /\ UNCHANGED <<held, plans, ceiling, crossed>>
      /\ req[r].at = "granting"
      /\ admins' = IF req[r].isAdmin THEN admins \cup {req[r].user} ELSE admins \ {req[r].user}
  BY DEF WriteAdmin, End, At, listVars, history
<1>2. ~ Highlights(Idle) /\ Idle.at \notin {"adding", "granting"} /\ Published' = Published
  BY <1>1 DEF Idle, Highlights, Published
<1>3. Room' /\ OneHighlights'
  BY <1>1, <1>2, RoomFrame, HighlightsFrame DEF RacesInv
<1>4. ASSUME "admins" \notin crossed
      PROVE  admins' # {} /\ \A s \in Requests : req'[s].at # "granting"
  <2>1. \A s \in Requests : req'[s] = IF s = r THEN Idle ELSE req[s]
    BY <1>1, OthersStay
  <2>2. \A s \in Requests : req[s].at = "granting" => s = r
    BY <1>1, <1>4 DEF RacesInv, SomebodyStays
  <2>3. ~ req[r].isAdmin => admins \ {req[r].user} # {}
    BY <1>1, <1>4 DEF RacesInv, SomebodyStays
  <2> QED BY <1>1, <1>2, <2>1, <2>2, <2>3
<1>5. SomebodyStays'
  BY <1>1, <1>4 DEF SomebodyStays
<1> QED BY <1>3, <1>5 DEF RacesInv

\* Buying, wiring and booting decide none of the three.
LEMMA PlainRaces ==
    ASSUME ListInv, RacesInv, NEW r \in Requests,
           \/ \E o \in Orgs, c \in Codes : Register(r, o, c)
           \/ Subscribe(r) \/ MakeFails(r) \/ Boot(r) \/ AdoptExisting(r)
           \/ \E d \in Drafts : CreatePlan(r, d)
           \/ \E c \in Codes : CreateProviderPlan(r, c)
    PROVE  RacesInv'
<1>1. ASSUME NEW o \in Orgs, NEW c \in Codes, Register(r, o, c) PROVE RacesInv'
  <2> DEFINE q == [at |-> "buying", org |-> o, code |-> c, planId |-> plans[c].planId]
  <2>1. /\ req' = [req EXCEPT ![r] = q] /\ req[r].at = "idle" /\ q.at = "buying"
        /\ UNCHANGED <<held, ceiling, admins, crossed, plans>>
    BY <1>1 DEF Register, Begin, Starts, At, listVars, history
  <2> HIDE DEF q
  <2> QED BY <2>1, IdleMove
<1>2. CASE Subscribe(r) \/ MakeFails(r) \/ AdoptExisting(r)
  <2>1. /\ req' = [req EXCEPT ![r] = Idle] /\ req[r].at # "adding"
        /\ UNCHANGED <<held, ceiling, admins, crossed, plans>>
    BY <1>2 DEF Subscribe, MakeFails, AdoptExisting, End, At, listVars, history
  <2>2. Idle.at = "idle"
    BY DEF Idle
  <2> QED BY <2>1, <2>2, IdleMove
<1>3. CASE Boot(r)
  <2> DEFINE q == [at |-> "syncing", todo |-> DOMAIN Mapping]
  <2>1. /\ req' = [req EXCEPT ![r] = q] /\ req[r].at = "idle" /\ q.at = "syncing"
        /\ UNCHANGED <<held, ceiling, admins, crossed, plans>>
    BY <1>3 DEF Boot, Begin, Starts, At, listVars, history
  <2> HIDE DEF q
  <2> QED BY <2>1, IdleMove
<1>4. ASSUME NEW d \in Drafts, CreatePlan(r, d) PROVE RacesInv'
  <2> DEFINE row == [price |-> d.price, sso |-> d.sso, ctaKind |-> CtaKind(d),
                     planId |-> None, max |-> d.max, rank |-> d.rank,
                     recommended |-> FALSE, active |-> TRUE]
             q == [at |-> IF CtaKind(d) = "subscribe" THEN "making" ELSE "inserting",
                   code |-> d.code, row |-> row, amount |-> d.price]
  <2>1. /\ req' = [req EXCEPT ![r] = q] /\ req[r].at = "idle"
        /\ UNCHANGED <<held, ceiling, admins, crossed, plans>>
    BY <1>4 DEF CreatePlan, Begin, Starts, At, listVars, history
  <2>2. q.at \in {"making", "inserting"}
    OBVIOUS
  <2> HIDE DEF q
  <2> QED BY <2>1, <2>2, IdleMove
<1>5. ASSUME NEW c \in Codes, CreateProviderPlan(r, c) PROVE RacesInv'
  <2> DEFINE q == [at |-> "making", code |-> c, row |-> None, amount |-> plans[c].price]
  <2>1. /\ req' = [req EXCEPT ![r] = q] /\ req[r].at = "idle" /\ q.at = "making"
        /\ UNCHANGED <<held, ceiling, admins, crossed, plans>>
    BY <1>5 DEF CreateProviderPlan, Begin, Starts, At, listVars, history
  <2> HIDE DEF q
  <2> QED BY <2>1, IdleMove
<1> QED BY <1>1, <1>2, <1>3, <1>4, <1>5

\* A tier that is inserted is not highlighted, and an id that is wired is not a
\* highlight.
LEMMA WiringRaces ==
    ASSUME ListInv, RacesInv, NEW r \in Requests,
           MakePlan(r) \/ InsertPlan(r) \/ \E c \in Codes : Sync(r, c)
    PROVE  RacesInv'
<1>1. CASE MakePlan(r)
  <2> DEFINE q(id) == IF req[r].row = None
                      THEN [at |-> "wiring", code |-> req[r].code, patch |-> [planId |-> id]]
                      ELSE [at |-> "inserting", code |-> req[r].code,
                            row |-> [req[r].row EXCEPT !.planId = id], amount |-> None]
  <2>1. PICK id \in PlanIds : req' = [req EXCEPT ![r] = q(id)]
    BY <1>1 DEF MakePlan, Begin
  <2>2. req[r].at = "making" /\ UNCHANGED <<held, ceiling, admins, crossed, plans>>
    BY <1>1 DEF MakePlan, At, history
  <2>3. q(id).at \in {"wiring", "inserting"}
    OBVIOUS
  <2>4. ~ Highlights(q(id))
    BY DEF Highlights, Fields
  <2>5. Published' = Published
    BY <2>2 DEF Published
  <2> HIDE DEF q
  <2> QED BY <2>1, <2>2, <2>3, <2>4, <2>5, PlainMove
<1>2. CASE InsertPlan(r)
  <2>1. /\ req' = [req EXCEPT ![r] = Idle] /\ UNCHANGED <<held, ceiling, admins, crossed>>
        /\ \/ plans' = plans
           \/ plans' = [plans EXCEPT ![req[r].code] = req[r].row]
    BY <1>2 DEF InsertPlan, End, history
  <2>2. req[r] \in Inserting /\ Sound(req[r], plans, provider) /\ req[r].at = "inserting"
    BY <1>2, ByLabel DEF InsertPlan, At, ListInv, ListTyped
  <2>3. req[r].code \in Codes /\ ~ req[r].row.recommended
    BY <2>2 DEF Inserting, Sound
  <2>4. \A c \in Published' : plans'[c].recommended => c \in Published /\ plans[c].recommended
    BY <2>1, <2>3 DEF Published, ListInv, ListTyped
  <2>5. Idle.at = "idle" /\ ~ Highlights(Idle)
    BY DEF Idle, Highlights
  <2> QED BY <2>1, <2>2, <2>4, <2>5, PlainMove
<1>3. ASSUME NEW c \in Codes, Sync(r, c) PROVE RacesInv'
  <2>1. req[r] \in Syncing
    BY <1>3, ByLabel DEF Sync, At, ListInv, ListTyped
  <2> DEFINE q == [req[r] EXCEPT !.todo = @ \ {c}]
             row == [plans[c] EXCEPT !.planId = Mapping[c]]
  <2>2. req' = [req EXCEPT ![r] = q] /\ UNCHANGED <<held, ceiling, admins, crossed>>
    BY <1>3 DEF Sync, Begin, history
  <2>3. q.at = "syncing" /\ req[r].at = "syncing"
    BY <2>1 DEF Syncing
  <2>4. \/ plans' = plans
        \/ c \in Published /\ plans' = [plans EXCEPT ![c] = row]
    BY <1>3 DEF Sync
  <2>5. c \in Published => row.recommended = plans[c].recommended
    <3> SUFFICES ASSUME c \in Published PROVE row.recommended = plans[c].recommended
      OBVIOUS
    <3>1. plans[c] \in Row
      BY DEF Published, ListInv, ListTyped
    <3> QED BY <3>1 DEF Row
  <2> HIDE DEF q, row
  <2>6. \A d \in Published' : plans'[d].recommended => d \in Published /\ plans[d].recommended
    BY <2>4, <2>5 DEF Published, ListInv, ListTyped
  <2>7. ~ Highlights(q)
    BY <2>3 DEF Highlights
  <2> QED BY <2>2, <2>3, <2>6, <2>7, PlainMove
<1> QED BY <1>1, <1>2, <1>3

\* The retention pass decides nothing.
LEMMA PassRaces ==
    ASSUME ListInv, RacesInv, RetentionNext
    PROVE  RacesInv'
<1>1. ASSUME NEW r \in Requests, Prune(r) PROVE RacesInv'
  <2> DEFINE q == [at |-> "pruning", todo |-> Holders]
  <2>1. /\ req' = [req EXCEPT ![r] = q] /\ req[r].at = "idle" /\ q.at = "pruning"
        /\ UNCHANGED <<held, ceiling, admins, crossed, plans>>
    BY <1>1 DEF Prune, Begin, Starts, At, listVars, history
  <2> HIDE DEF q
  <2> QED BY <2>1, IdleMove
<1>2. ASSUME NEW r \in Requests, NEW o \in Holders, ReadWindow(r, o) PROVE RacesInv'
  <2>1. req[r] \in Pruning
    BY <1>2, ByLabel DEF ReadWindow, At, ListInv, ListTyped
  <2> DEFINE q(w) == IF Endless(w)
                     THEN [req[r] EXCEPT !.todo = @ \ {o}]
                     ELSE [at |-> "dropping sent", org |-> o, before |-> today - w,
                           todo |-> req[r].todo \ {o}]
  <2>2. PICK w \in Windows(o) : req' = [req EXCEPT ![r] = q(w)]
    BY <1>2 DEF ReadWindow, Begin
  <2>3. q(w).at \in {"pruning", "dropping sent"} /\ req[r].at = "pruning"
    BY <2>1 DEF Pruning
  <2>4. UNCHANGED <<held, ceiling, admins, crossed, plans>>
    BY <1>2 DEF ReadWindow, listVars, history
  <2> HIDE DEF q
  <2> QED BY <2>2, <2>3, <2>4, IdleMove
<1>3. ASSUME NEW r \in Requests, DropSent(r) PROVE RacesInv'
  <2>1. req[r] \in Dropping
    BY <1>3, ByLabel DEF DropSent, At, ListInv, ListTyped
  <2> DEFINE q == [req[r] EXCEPT !.at = "dropping received"]
  <2>2. req' = [req EXCEPT ![r] = q] /\ UNCHANGED <<held, ceiling, admins, crossed, plans>>
    BY <1>3 DEF DropSent, Begin, listVars, history
  <2>3. q.at = "dropping received" /\ req[r].at # "adding"
    BY <2>1 DEF Dropping
  <2> HIDE DEF q
  <2> QED BY <2>2, <2>3, IdleMove
<1>4. ASSUME NEW r \in Requests, DropReceived(r) PROVE RacesInv'
  <2> DEFINE q == [at |-> "pruning", todo |-> req[r].todo]
  <2>1. /\ req' = [req EXCEPT ![r] = q] /\ q.at = "pruning" /\ req[r].at = "dropping received"
        /\ UNCHANGED <<held, ceiling, admins, crossed, plans>>
    BY <1>4 DEF DropReceived, Begin, At, listVars, history
  <2> HIDE DEF q
  <2> QED BY <2>1, IdleMove
<1>5. ASSUME NEW r \in Requests, PruneEnds(r) PROVE RacesInv'
  <2>1. /\ req' = [req EXCEPT ![r] = Idle] /\ req[r].at = "pruning"
        /\ UNCHANGED <<held, ceiling, admins, crossed, plans>>
    BY <1>5 DEF PruneEnds, End, At, listVars, history
  <2>2. Idle.at = "idle"
    BY DEF Idle
  <2> QED BY <2>1, <2>2, IdleMove
<1>6. CASE NextDay
  BY <1>6 DEF NextDay, listAll, RacesInv, Room, Adding, OneHighlights, SomebodyStays, Published
<1> QED BY <1>1, <1>2, <1>3, <1>4, <1>5, <1>6 DEF RetentionNext

\* Every step of the price list
LEMMA RacesStep ==
    ASSUME ListInv, RacesInv, ListNext
    PROVE  RacesInv'
<1>1. ASSUME NEW r \in Requests, NEW o \in Orgs,
             CreateContact(r, o) \/ InviteMember(r, o) \/ CreateEndpoint(r, o)
      PROVE  RacesInv'
  BY <1>1, AskRaces DEF CreateContact, InviteMember, CreateEndpoint, Kinds, Starts
<1>2. ASSUME NEW r \in Requests, NEW actor \in Users, NEW u \in Users,
             SetAdmin(r, actor, u, TRUE) \/ SetAdmin(r, actor, u, FALSE)
      PROVE  RacesInv'
  BY <1>2, SetAdminRaces
<1>3. ASSUME NEW o \in Orgs, Lapse(o) PROVE RacesInv'
  BY <1>3 DEF Lapse, listVars, history, RacesInv, Room, Adding, OneHighlights, SomebodyStays,
              Published
<1> QED BY <1>1, <1>2, <1>3, AddRaces, RemoveRaces, UpdateRaces, ClearRaces, WriteRaces,
           WriteAdminRaces, PlainRaces, WiringRaces DEF ListNext

\* Every step of the whole
LEMMA RacesKept == ListInv /\ RacesInv /\ [ChargesNext]_chargeVars => RacesInv'
<1> SUFFICES ASSUME ListInv, RacesInv, [ChargesNext]_chargeVars PROVE RacesInv'
  OBVIOUS
<1>1. CASE ListNext
  BY <1>1, RacesStep
<1>2. CASE RetentionNext
  BY <1>2, PassRaces
<1>3. CASE UNCHANGED <<listAll, retentionVars>>
  BY <1>3 DEF listAll, RacesInv, Room, Adding, OneHighlights, SomebodyStays, Published
<1> QED BY <1>1, <1>2, <1>3, ListFrame

\* For any number of requests at once: an organisation comes out over its ceiling by
\* no more than the requests in flight beside the one that filled it; and two
\* highlighted tiers, or a console nobody can use, take two decisions that were
\* under way at the same time (assertWithin(), updatePlan(), setAdmin()).
THEOREM RacesAlone == ChargesSpec => []OnlyRacesGetPast
<1>1. ASSUME ListInit PROVE RacesInv
  <2>1. \A r \in Requests : req[r] = Idle
    BY <1>1 DEF ListInit
  <2>2. Idle.at = "idle" /\ ~ Highlights(Idle)
    BY DEF Idle, Highlights
  <2>3. \A k \in Kinds, o \in Orgs : Adding(k, o) = {}
    BY <2>1, <2>2 DEF Adding
  <2>4. \A k \in Kinds, o \in Orgs : held[k][o] = 0 /\ ceiling[k][o] = 0
    BY <1>1 DEF ListInit
  <2>5. Room
    BY <2>3, <2>4, RequestsAreFinite, FS_EmptySet DEF Room
  <2>6. OneHighlights
    BY <1>1, <2>1, <2>2, ListAssumption DEF ListInit, OneHighlights, Published
  <2>7. SomebodyStays
    BY <1>1, <2>1, <2>2, ListAssumption DEF ListInit, SomebodyStays
  <2> QED BY <2>5, <2>6, <2>7 DEF RacesInv
<1>2. ChargesInit => ListInv /\ RacesInv
  BY <1>1, ListBegins DEF ChargesInit
<1>3. ASSUME ListInv, RacesInv PROVE OnlyRacesGetPast
  <2>1. CeilingHolds
    <3> SUFFICES ASSUME NEW k \in Kinds, NEW o \in Orgs, ceiling[k][o] # None
                 PROVE  held[k][o] <= ceiling[k][o] + Cardinality(Requests) - 1
      BY DEF CeilingHolds
    <3>1. held[k][o] \in Nat /\ ceiling[k][o] \in Nat
      BY <1>3 DEF ListInv, ListTyped
    <3>2. Adding(k, o) \in SUBSET Requests
      BY DEF Adding
    <3>3. Cardinality(Adding(k, o)) \in Nat
      BY <3>2, RequestsAreFinite
    <3>4. held[k][o] + Cardinality(Adding(k, o)) <= ceiling[k][o] + Cardinality(Requests) - 1
      BY <1>3 DEF RacesInv, Room
    <3> QED BY <3>1, <3>3, <3>4, RequestsAreFinite
  <2>2. OneRecommended
    <3> DEFINE S == {c \in Published : plans[c].recommended}
    <3> SUFFICES ASSUME "recommended" \notin crossed PROVE Cardinality(S) <= 1
      BY DEF OneRecommended
    <3>1. \A c, d \in S : c = d
      BY <1>3 DEF RacesInv, OneHighlights
    <3>2. CASE S = {}
      BY <3>2, FS_EmptySet
    <3>3. CASE S # {}
      <4>1. PICK c \in S : TRUE
        BY <3>3
      <4>2. S = {c}
        BY <3>1, <4>1
      <4> HIDE DEF S
      <4> QED BY <4>2, FS_Singleton
    <3> QED BY <3>2, <3>3
  <2>3. AdminRemains
    BY <1>3 DEF RacesInv, SomebodyStays, AdminRemains
  <2> QED BY <2>1, <2>2, <2>3 DEF OnlyRacesGetPast
<1> QED BY <1>2, <1>3, ListKept, RacesKept, PTL DEF ChargesSpec

-----------------------------------------------------------------------------
(* Invoices and receipts: InvoiceService.record() and recordIn() *)

InTransaction == {"writing", "committing"}

\* A worker past the event row has a payment in hand.
HasPayment ==
    \A w \in Workers : pc[w] \notin {"idle", "sweeping"} => payment[w] \in Payments

\* A transaction holds its year's counter, so the number it drew is still next;
\* by the time it commits, it knows that the payment has no invoice.
LockHeld ==
    \A w \in Workers :
      /\ pc[w] \in InTransaction
         => /\ locked[YearOf[payment[w]]] = w
            /\ sequence[w] = counter[YearOf[payment[w]]]
      /\ pc[w] = "committing" => invoice[payment[w]] = 0

\* Invoice and receipt come together.
Paired == \A p \in Payments : invoice[p] = 0 <=> receipt[p] = 0

BookInv == TypeOK /\ HasPayment /\ LockHeld /\ Paired

\* Every payment has a book.
LEMMA YearsTyped == YearOf \in [Payments -> Years]
BY DEF YearOf, Years

\* No row yet: nothing is drawn, locked or raised.
LEMMA BookInit == Init => BookInv
BY ConstantsAssumption, YearsTyped
   DEF Init, BookInv, TypeOK, HasPayment, LockHeld, Paired, InTransaction, Pc

-----------------------------------------------------------------------------
(* Types *)

\* Moving to the next statement leaves the other locals alone.
LEMMA GotoType ==
  ASSUME TypeOK, NEW w \in Workers, NEW label \in Pc, Goto(w, label)
  PROVE  /\ pc' \in [Workers -> Pc]
         /\ UNCHANGED <<event, payment, sequence, todo>>
BY DEF TypeOK, Goto

\* A worker that has returned holds nothing.
LEMMA DoneType ==
  ASSUME TypeOK, NEW w \in Workers, Done(w)
  PROVE  /\ pc' \in [Workers -> Pc]
         /\ event' \in [Workers -> Events \cup {Nil}]
         /\ payment' \in [Workers -> Payments \cup {Nil}]
         /\ sequence' \in [Workers -> Nat]
         /\ todo' \in [Workers -> SUBSET Payments]
BY DEF TypeOK, Done, Pc

\* Letting go of a counter keeps the table of locks well-formed.
LEMMA UnlockType ==
  ASSUME TypeOK, NEW w \in Workers, Unlock(w)
  PROVE  locked' \in [Years -> Workers \cup {Nil}]
BY DEF TypeOK, Unlock

\* Failures are counted.
LEMMA FaultType == TypeOK /\ Fault => faults' \in Nat
BY DEF TypeOK, Fault

\* deliver()'s caller goes on at a statement of its own.
LEMMA AfterMailType == \A w : AfterMail(w) \in Pc
BY DEF AfterMail, Pc

\* Every statement keeps the types.
LEMMA TypeStep == TypeOK /\ HasPayment /\ [Next]_vars => TypeOK'
<1> SUFFICES ASSUME TypeOK, HasPayment, [Next]_vars PROVE TypeOK'
    OBVIOUS
<1>1. CASE UNCHANGED vars
  BY <1>1 DEF TypeOK, vars, bookVars, mailVars, localVars
<1> SUFFICES ASSUME NEW w \in Workers,
                    Arrive(w) \/ Step(w) \/ Crash(w)
             PROVE  TypeOK'
    BY <1>1 DEF Next
<1> USE DEF bookVars, mailVars
<1>2. ASSUME NEW e \in Events, WebhookRecord(w, e) PROVE TypeOK'
  BY <1>2, ConstantsAssumption DEF TypeOK, WebhookRecord, Pc
<1>3. CASE SweepStart(w)
  BY <1>3 DEF TypeOK, SweepStart, Unsent, Pc
<1>3a. ASSUME NEW p \in Payments, ResendInvoice(w, p) PROVE TypeOK'
  BY <1>3a DEF TypeOK, ResendInvoice, Pc
<1>4. CASE Crash(w)
  BY <1>4, DoneType, UnlockType, FaultType DEF TypeOK, Crash
<1>5. CASE Step(w)
  <2>1. CASE RecordPayment(w)
    BY <2>1, GotoType DEF TypeOK, RecordPayment, HasPayment, Pc
  <2>2. CASE PaymentRefused(w)
    BY <2>2, GotoType, FaultType DEF TypeOK, PaymentRefused, Pc
  <2>3. CASE LookUp(w) \/ WriteInvoice(w) \/ Send(w)
    BY <2>3, GotoType DEF TypeOK, LookUp, WriteInvoice, Send, Pc
  <2>4. CASE Draw(w)
    <3>1. YearOf[payment[w]] \in Years
      BY <2>4, YearsTyped DEF HasPayment, Draw
    <3> QED BY <2>4, <3>1 DEF TypeOK, Draw, Pc
  <2>5. CASE InvoiceExists(w)
    BY <2>5, GotoType, UnlockType DEF TypeOK, InvoiceExists, Pc
  <2>6. CASE Commit(w)
    <3>1. YearOf[payment[w]] \in Years /\ payment[w] \in Payments
      BY <2>6, YearsTyped DEF HasPayment, Commit
    <3> QED BY <2>6, <3>1, GotoType, UnlockType DEF TypeOK, Commit, Pc
  <2>7. CASE Rollback(w)
    BY <2>7, GotoType, UnlockType, FaultType DEF TypeOK, Rollback, Pc
  <2>8. CASE NotSent(w)
    BY <2>8, GotoType, FaultType, AfterMailType DEF TypeOK, NotSent
  <2>9. CASE Stamp(w) \/ StampReceipt(w)
    BY <2>9, GotoType, AfterMailType DEF TypeOK, Stamp, StampReceipt, HasPayment, Pc
  <2>10. CASE BillOverage(w)
    BY <2>10, DoneType, FaultType DEF TypeOK, BillOverage
  <2>11. CASE SweepNext(w)
    BY <2>11 DEF TypeOK, SweepNext, Pc
  <2>12. CASE SweepOver(w)
    BY <2>12, DoneType DEF TypeOK, SweepOver
  <2> QED BY <1>5, <2>1, <2>2, <2>3, <2>4, <2>5, <2>6, <2>7, <2>8, <2>9, <2>10, <2>11,
             <2>12 DEF Step
<1> QED BY <1>2, <1>3, <1>3a, <1>4, <1>5 DEF Arrive

-----------------------------------------------------------------------------
(* The invariant *)

\* Only a commit changes a book.
LEMMA BooksChange ==
  ASSUME NEW w \in Workers,
         Arrive(w) \/ Step(w) \/ Crash(w)
  PROVE  Commit(w) \/ UNCHANGED <<invoice, receipt, counter, receiptCounter>>
BY DEF Arrive, WebhookRecord, SweepStart, ResendInvoice, Crash, Step, RecordPayment,
       PaymentRefused, LookUp, Draw, WriteInvoice, InvoiceExists, Rollback, Send, NotSent,
       Stamp, StampReceipt, BillOverage, SweepNext, SweepOver, bookVars

\* A worker moves no other worker's locals.
LEMMA OthersKeep ==
  ASSUME TypeOK, NEW w \in Workers, NEW v \in Workers, v # w,
         Arrive(w) \/ Step(w) \/ Crash(w)
  PROVE  pc'[v] = pc[v] /\ payment'[v] = payment[v] /\ sequence'[v] = sequence[v]
BY DEF TypeOK, Arrive, WebhookRecord, SweepStart, ResendInvoice, Crash, Step, RecordPayment,
       PaymentRefused, LookUp, Draw, WriteInvoice, InvoiceExists, Commit, Rollback, Send,
       NotSent, Stamp, StampReceipt, BillOverage, SweepNext, SweepOver, Goto, Done

\* It takes no other worker's lock away, either.
LEMMA LocksKept ==
  ASSUME TypeOK, NEW w \in Workers, NEW v \in Workers, v # w, NEW y \in Years,
         locked[y] = v,
         Arrive(w) \/ Step(w) \/ Crash(w)
  PROVE  locked'[y] = v
BY ConstantsAssumption
   DEF TypeOK, Arrive, WebhookRecord, SweepStart, ResendInvoice, Crash, Step, RecordPayment,
       PaymentRefused, LookUp, Draw, WriteInvoice, InvoiceExists, Commit, Rollback, Send,
       NotSent, Stamp, StampReceipt, BillOverage, SweepNext, SweepOver, Unlock, bookVars

\* No statement after the event row loses the payment.
LEMMA HasPaymentStep == TypeOK /\ HasPayment /\ [Next]_vars => HasPayment'
<1> SUFFICES ASSUME TypeOK, HasPayment, [Next]_vars PROVE HasPayment'
    OBVIOUS
<1>1. CASE UNCHANGED vars
  BY <1>1 DEF HasPayment, vars, localVars
<1> SUFFICES ASSUME NEW w \in Workers,
                    Arrive(w) \/ Step(w) \/ Crash(w)
             PROVE  HasPayment'
    BY <1>1 DEF Next
<1>2. pc'[w] \notin {"idle", "sweeping"} => payment'[w] \in Payments
  BY ConstantsAssumption
     DEF TypeOK, HasPayment, Arrive, WebhookRecord, SweepStart, ResendInvoice, Crash, Step,
         RecordPayment, PaymentRefused, LookUp, Draw, WriteInvoice, InvoiceExists, Commit,
         Rollback, Send, NotSent, Stamp, StampReceipt, BillOverage, SweepNext, SweepOver, Goto,
         Done
<1> QED BY <1>2, OthersKeep DEF HasPayment

\* A commit writes the number it drew over a payment that has none.
LEMMA CommitFacts ==
  ASSUME BookInv, NEW w \in Workers, Commit(w)
  PROVE  /\ payment[w] \in Payments /\ YearOf[payment[w]] \in Years
         /\ locked[YearOf[payment[w]]] = w
         /\ invoice[payment[w]] = 0 /\ receipt[payment[w]] = 0
         /\ sequence[w] = counter[YearOf[payment[w]]]
BY YearsTyped DEF BookInv, HasPayment, LockHeld, Paired, InTransaction, Commit

\* The invariant is inductive.
LEMMA BookStep == BookInv /\ [Next]_vars => BookInv'
<1> SUFFICES ASSUME BookInv, [Next]_vars PROVE BookInv'
    OBVIOUS
<1>1. TypeOK' /\ HasPayment'
  BY TypeStep, HasPaymentStep DEF BookInv
<1>2. CASE UNCHANGED vars
  BY <1>1, <1>2 DEF BookInv, LockHeld, Paired, vars, localVars, bookVars
<1> SUFFICES ASSUME NEW w \in Workers,
                    Arrive(w) \/ Step(w) \/ Crash(w)
             PROVE  LockHeld' /\ Paired'
    BY <1>1, <1>2 DEF Next, BookInv
<1>3. Paired'
  <2>1. CASE Commit(w)
    <3>1. counter[YearOf[payment[w]]] # 0 /\ receiptCounter[YearOf[payment[w]]] # 0
      BY <2>1, CommitFacts DEF BookInv, TypeOK
    <3>2. invoice'[payment[w]] # 0 /\ receipt'[payment[w]] # 0
      BY <2>1, <3>1, CommitFacts DEF BookInv, TypeOK, Commit
    <3>3. \A p \in Payments \ {payment[w]} :
            invoice'[p] = invoice[p] /\ receipt'[p] = receipt[p]
      BY <2>1 DEF BookInv, TypeOK, Commit
    <3> QED BY <3>2, <3>3 DEF BookInv, Paired
  <2>2. CASE UNCHANGED <<invoice, receipt, counter, receiptCounter>>
    BY <2>2 DEF BookInv, Paired
  <2> QED BY <2>1, <2>2, BooksChange
<1>4. ASSUME NEW v \in Workers, v # w, pc'[v] \in InTransaction
      PROVE  /\ locked'[YearOf[payment'[v]]] = v
             /\ sequence'[v] = counter'[YearOf[payment'[v]]]
             /\ pc'[v] = "committing" => invoice'[payment'[v]] = 0
  <2>0. pc'[v] = pc[v] /\ payment'[v] = payment[v] /\ sequence'[v] = sequence[v]
    BY <1>4, OthersKeep DEF BookInv
  <2>1. payment[v] \in Payments /\ YearOf[payment[v]] \in Years
    BY <1>4, <2>0, YearsTyped DEF BookInv, HasPayment, InTransaction
  <2>2. /\ locked[YearOf[payment[v]]] = v
        /\ sequence[v] = counter[YearOf[payment[v]]]
        /\ pc[v] = "committing" => invoice[payment[v]] = 0
    BY <1>4, <2>0 DEF BookInv, LockHeld
  <2>3. locked'[YearOf[payment[v]]] = v
    BY <1>4, <2>1, <2>2, LocksKept DEF BookInv
  <2>4. CASE Commit(w)
    <3>1. YearOf[payment[w]] # YearOf[payment[v]]
      BY <1>4, <2>2, <2>4, CommitFacts
    <3> QED BY <2>0, <2>1, <2>2, <2>3, <2>4, <3>1, CommitFacts DEF BookInv, TypeOK, Commit
  <2>5. CASE UNCHANGED <<invoice, receipt, counter, receiptCounter>>
    BY <2>0, <2>2, <2>3, <2>5
  <2> QED BY <2>4, <2>5, BooksChange
<1>5. ASSUME pc'[w] \in InTransaction
      PROVE  /\ locked'[YearOf[payment'[w]]] = w
             /\ sequence'[w] = counter'[YearOf[payment'[w]]]
             /\ pc'[w] = "committing" => invoice'[payment'[w]] = 0
  <2>1. Draw(w) \/ WriteInvoice(w)
    BY <1>5 DEF BookInv, TypeOK, InTransaction, Arrive, WebhookRecord, SweepStart,
                ResendInvoice, Crash, Step, RecordPayment, PaymentRefused, LookUp,
                InvoiceExists, Commit, Rollback, Send, NotSent, Stamp, StampReceipt,
                BillOverage, SweepNext, SweepOver, AfterMail, Goto, Done
  <2>2. CASE Draw(w)
    <3>1. YearOf[payment[w]] \in Years
      BY <2>2, YearsTyped DEF BookInv, HasPayment, Draw
    <3> QED BY <2>2, <3>1 DEF BookInv, TypeOK, Draw
  <2>3. CASE WriteInvoice(w)
    BY <2>3 DEF BookInv, LockHeld, InTransaction, WriteInvoice, Goto, bookVars
  <2> QED BY <2>1, <2>2, <2>3
<1> QED BY <1>3, <1>4, <1>5 DEF LockHeld, InTransaction

-----------------------------------------------------------------------------
(* The books *)

\* A commit issues the next number of both books; no other statement moves one.
LEMMA BookNext ==
  BookInv /\ [Next]_vars => [InvoiceBook!Next]_(InvoiceBook!vars)
                          /\ [ReceiptBook!Next]_(ReceiptBook!vars)
<1> SUFFICES ASSUME BookInv, [Next]_vars
             PROVE  [InvoiceBook!Next]_(InvoiceBook!vars)
                    /\ [ReceiptBook!Next]_(ReceiptBook!vars)
    OBVIOUS
<1> USE DEF InvoiceBook!vars, ReceiptBook!vars
<1>1. ASSUME NEW w \in Workers, Commit(w)
      PROVE  InvoiceBook!Issue(payment[w]) /\ ReceiptBook!Issue(payment[w])
  BY <1>1, CommitFacts
     DEF BookInv, TypeOK, Commit, InvoiceBook!Issue, ReceiptBook!Issue
<1>2. ASSUME NEW w \in Workers, Commit(w)
      PROVE  InvoiceBook!Next /\ ReceiptBook!Next
  BY <1>1, <1>2, CommitFacts DEF InvoiceBook!Next, ReceiptBook!Next
<1>3. CASE UNCHANGED vars
  BY <1>3 DEF vars, bookVars
<1>4. CASE Next
  BY <1>2, <1>4, BooksChange DEF Next
<1> QED BY <1>3, <1>4

\* However webhooks race, repeat, roll back and die, both books are kept: one
\* number for one payment, drawn in order, never changed.
THEOREM BooksKept == Spec => BooksAreKept
<1>1. Init => InvoiceBook!Init /\ ReceiptBook!Init
  BY DEF Init, InvoiceBook!Init, ReceiptBook!Init
<1> QED BY <1>1, BookInit, BookStep, BookNext, PTL
        DEF Spec, BooksAreKept, InvoiceBook!Spec, ReceiptBook!Spec

\* A book, given as its numbers and the next one of each year, is whole: every
\* number below the next is some payment's, none is two payments', and the next
\* one is fresh.
WholeBook(number, next) ==
    /\ number \in [Payments -> Nat] /\ next \in [Years -> Nat \ {0}]
    /\ \A y \in Years : \A n \in 1..(next[y] - 1) :
         \E p \in Payments : YearOf[p] = y /\ number[p] = n
    /\ \A p, q \in Payments :
         number[p] # 0 /\ number[p] = number[q] /\ YearOf[p] = YearOf[q] => p = q
    /\ \A p \in Payments : number[p] < next[YearOf[p]]

\* Giving a payment the next number of its year leaves a book whole.
LEMMA IssueKeepsBook ==
  ASSUME NEW number, NEW next, WholeBook(number, next),
         NEW p \in Payments, number[p] = 0,
         NEW number1, number1 = [number EXCEPT ![p] = next[YearOf[p]]],
         NEW next1, next1 = [next EXCEPT ![YearOf[p]] = next[YearOf[p]] + 1]
  PROVE  WholeBook(number1, next1)
<1> USE YearsTyped DEF WholeBook
<1>0. YearOf[p] \in Years /\ next[YearOf[p]] \in Nat \ {0}
  OBVIOUS
<1>1. number1 \in [Payments -> Nat] /\ next1 \in [Years -> Nat \ {0}]
  BY <1>0
<1>2. ASSUME NEW y \in Years, NEW n \in 1..(next1[y] - 1)
      PROVE  \E q \in Payments : YearOf[q] = y /\ number1[q] = n
  <2>1. CASE YearOf[p] = y /\ n = next[y]
    BY <2>1
  <2>2. CASE ~(YearOf[p] = y /\ n = next[y])
    <3>1. n \in 1..(next[y] - 1)
      BY <2>2
    <3>2. PICK q \in Payments : YearOf[q] = y /\ number[q] = n
      BY <3>1
    <3>3. q # p
      BY <3>1, <3>2
    <3> QED BY <3>2, <3>3
  <2> QED BY <2>1, <2>2
<1>3. ASSUME NEW q \in Payments PROVE number1[q] < next1[YearOf[q]]
  <2>1. YearOf[q] \in Years /\ next[YearOf[q]] \in Nat /\ number[q] \in Nat
    OBVIOUS
  <2>2. number[q] < next[YearOf[q]]
    OBVIOUS
  <2> QED BY <1>0, <2>1, <2>2
<1>4. \A q, r \in Payments :
        number1[q] # 0 /\ number1[q] = number1[r] /\ YearOf[q] = YearOf[r] => q = r
  OBVIOUS
<1> QED BY <1>1, <1>2, <1>3, <1>4

\* A step of a ledger leaves its book whole, and changes no number once given.
LEMMA LedgerStep ==
  /\ WholeBook(invoice, counter) /\ [InvoiceBook!Next]_(InvoiceBook!vars)
     => /\ WholeBook(invoice, counter)'
        /\ [\A p \in Payments : invoice[p] # 0 => invoice'[p] = invoice[p]]_(InvoiceBook!vars)
  /\ WholeBook(receipt, receiptCounter) /\ [ReceiptBook!Next]_(ReceiptBook!vars)
     => /\ WholeBook(receipt, receiptCounter)'
        /\ [\A p \in Payments : receipt[p] # 0 => receipt'[p] = receipt[p]]_(ReceiptBook!vars)
<1>1. ASSUME WholeBook(invoice, counter), [InvoiceBook!Next]_(InvoiceBook!vars)
      PROVE  /\ WholeBook(invoice, counter)'
             /\ [\A p \in Payments : invoice[p] # 0
                   => invoice'[p] = invoice[p]]_(InvoiceBook!vars)
  <2>1. CASE UNCHANGED InvoiceBook!vars
    BY <1>1, <2>1 DEF InvoiceBook!vars, WholeBook
  <2>2. ASSUME NEW p \in Payments, InvoiceBook!Issue(p)
        PROVE  /\ WholeBook(invoice', counter')
               /\ \A q \in Payments : invoice[q] # 0 => invoice'[q] = invoice[q]
    <3>1. WholeBook(invoice', counter')
      BY <1>1, <2>2, IssueKeepsBook DEF InvoiceBook!Issue
    <3> QED BY <1>1, <2>2, <3>1 DEF InvoiceBook!Issue, WholeBook
  <2> QED BY <1>1, <2>1, <2>2 DEF InvoiceBook!Next, WholeBook
<1>2. ASSUME WholeBook(receipt, receiptCounter), [ReceiptBook!Next]_(ReceiptBook!vars)
      PROVE  /\ WholeBook(receipt, receiptCounter)'
             /\ [\A p \in Payments : receipt[p] # 0
                   => receipt'[p] = receipt[p]]_(ReceiptBook!vars)
  <2>1. CASE UNCHANGED ReceiptBook!vars
    BY <1>2, <2>1 DEF ReceiptBook!vars, WholeBook
  <2>2. ASSUME NEW p \in Payments, ReceiptBook!Issue(p)
        PROVE  /\ WholeBook(receipt', receiptCounter')
               /\ \A q \in Payments : receipt[q] # 0 => receipt'[q] = receipt[q]
    <3>1. WholeBook(receipt', receiptCounter')
      BY <1>2, <2>2, IssueKeepsBook DEF ReceiptBook!Issue
    <3> QED BY <1>2, <2>2, <3>1 DEF ReceiptBook!Issue, WholeBook
  <2> QED BY <1>2, <2>1, <2>2 DEF ReceiptBook!Next, WholeBook
<1> QED BY <1>1, <1>2

\* Both books start empty, and whole.
LEMMA EmptyBooks == Init => WholeBook(invoice, counter) /\ WholeBook(receipt, receiptCounter)
BY YearsTyped DEF Init, WholeBook

\* So neither book has a gap or a number used twice at any time.
THEOREM BooksAreGapless ==
  Spec => /\ [](InvoiceBook!NoGaps /\ InvoiceBook!NoReuse)
          /\ [](ReceiptBook!NoGaps /\ ReceiptBook!NoReuse)
<1>1. WholeBook(invoice, counter) => InvoiceBook!NoGaps /\ InvoiceBook!NoReuse
  BY DEF WholeBook, InvoiceBook!NoGaps, InvoiceBook!NoReuse
<1>2. WholeBook(receipt, receiptCounter) => ReceiptBook!NoGaps /\ ReceiptBook!NoReuse
  BY DEF WholeBook, ReceiptBook!NoGaps, ReceiptBook!NoReuse
<1> QED BY <1>1, <1>2, EmptyBooks, LedgerStep, BookInit, BookStep, BookNext, PTL DEF Spec

\* An invoice or a receipt keeps the number it was given, whatever is sent again,
\* retried or rolled back later.
THEOREM NumbersArePermanent == Spec => InvoiceBook!Permanent /\ ReceiptBook!Permanent
BY EmptyBooks, LedgerStep, BookInit, BookStep, BookNext, PTL
   DEF Spec, InvoiceBook!Permanent, ReceiptBook!Permanent

\* Every column and every local keeps its type.
THEOREM TypeCorrect == Spec => []TypeOK
<1>1. BookInv => TypeOK
  BY DEF BookInv
<1> QED BY <1>1, BookInit, BookStep, PTL DEF Spec

-----------------------------------------------------------------------------
(* The overage *)

\* The event a worker is handling has its row, is handled by nobody else, and
\* says which payment the worker is at.
Handling ==
    \A w \in Workers :
      /\ pc[w] \in {"idle", "sweeping"} => event[w] = Nil
      /\ event[w] # Nil => event[w] \in seen /\ payment[w] = PaymentOf[event[w]]
      /\ \A v \in Workers : event[w] # Nil /\ event[v] = event[w] => v = w

\* No overage is billed on a payment before its event arrives, or while its
\* event is still being handled.
NotBilledYet ==
    /\ \A e \in Charged \ seen : addons[PaymentOf[e]] = 0
    /\ \A w \in Workers : event[w] \in Charged => addons[payment[w]] = 0

OverageInv == BookInv /\ Handling /\ NotBilledYet /\ OverageBilledOnce

\* Nothing has arrived yet.
LEMMA OverageInit == Init => OverageInv
<1> SUFFICES ASSUME Init PROVE OverageInv
    OBVIOUS
<1>1. BookInv
  BY BookInit
<1>2. Handling
  BY DEF Init, Handling
<1>3. NotBilledYet
  BY ConstantsAssumption DEF Init, NotBilledYet
<1>4. OverageBilledOnce
  BY DEF Init, OverageBilledOnce
<1> QED BY <1>1, <1>2, <1>3, <1>4 DEF OverageInv

\* A statement other than the first and the last of a webhook leaves the event
\* in hand, and every event's row, as they are; so does all that concerns overage.
LEMMA EventKept ==
  ASSUME OverageInv, NEW w \in Workers, Arrive(w) \/ Step(w) \/ Crash(w),
         ~ \E e \in Events : WebhookRecord(w, e),
         ~ BillOverage(w)
  PROVE  /\ seen' = seen /\ addons' = addons
         /\ \/ event' = event /\ (event[w] # Nil => payment' = payment)
            \/ event' = [event EXCEPT ![w] = Nil]
         /\ pc'[w] \in {"idle", "sweeping"} => event'[w] = Nil
<1>1. event[w] = Nil \/ pc[w] \notin {"idle", "sweeping"}
  BY DEF OverageInv, Handling
<1> USE DEF OverageInv, BookInv, TypeOK, Goto, Done
<1>2. CASE SweepStart(w) \/ (\E p \in Payments : ResendInvoice(w, p)) \/ Crash(w)
  BY <1>1, <1>2 DEF SweepStart, ResendInvoice, Crash
<1>3. CASE RecordPayment(w) \/ PaymentRefused(w) \/ LookUp(w) \/ Draw(w) \/ WriteInvoice(w)
           \/ InvoiceExists(w) \/ Commit(w) \/ Rollback(w) \/ Send(w) \/ Stamp(w)
  BY <1>3 DEF RecordPayment, PaymentRefused, LookUp, Draw, WriteInvoice, InvoiceExists, Commit,
              Rollback, Send, Stamp
<1>4. CASE NotSent(w) \/ StampReceipt(w)
  BY <1>4 DEF NotSent, StampReceipt, AfterMail
<1>5. CASE SweepNext(w) \/ SweepOver(w)
  BY <1>1, <1>5 DEF SweepNext, SweepOver
<1> QED BY <1>2, <1>3, <1>4, <1>5 DEF Arrive, Step

\* The invariant is inductive: only the worker that wrote a charge's event row
\* bills on it, and it forgets the event as it does.
LEMMA OverageStep == OverageInv /\ [Next]_vars => OverageInv'
<1> SUFFICES ASSUME OverageInv, [Next]_vars PROVE OverageInv'
    OBVIOUS
<1>1. BookInv'
  BY BookStep DEF OverageInv
<1>2. CASE UNCHANGED vars
  BY <1>1, <1>2 DEF OverageInv, Handling, NotBilledYet, OverageBilledOnce, vars, localVars
<1> SUFFICES ASSUME NEW w \in Workers,
                    Arrive(w) \/ Step(w) \/ Crash(w)
             PROVE  Handling' /\ NotBilledYet' /\ OverageBilledOnce'
    BY <1>1, <1>2 DEF Next, OverageInv
<1>3. ASSUME NEW v \in Workers, v # w
      PROVE  pc'[v] = pc[v] /\ payment'[v] = payment[v]
  BY <1>3, OthersKeep DEF OverageInv, BookInv
<1>4. ASSUME NEW e \in Events, WebhookRecord(w, e)
      PROVE  Handling' /\ NotBilledYet' /\ OverageBilledOnce'
  <2> USE <1>4, ConstantsAssumption DEF OverageInv, BookInv, TypeOK, WebhookRecord
  <2>1. e \notin seen /\ seen' = seen \cup {e} /\ addons' = addons
    OBVIOUS
  <2>2. event'[w] = e /\ payment'[w] = PaymentOf[e] /\ pc'[w] = "recorded"
    OBVIOUS
  <2>3. \A v \in Workers \ {w} : event'[v] = event[v] /\ (event[v] # Nil => event[v] # e)
    BY <2>1 DEF Handling
  <2>4. Handling'
    BY <1>3, <2>1, <2>2, <2>3 DEF Handling
  <2>5. NotBilledYet'
    BY <1>3, <2>1, <2>2, <2>3 DEF NotBilledYet
  <2> QED BY <2>1, <2>4, <2>5 DEF OverageBilledOnce
<1>5. CASE BillOverage(w)
  <2> USE DEF OverageInv, BookInv, TypeOK
  <2>1. /\ pc'[w] = "idle" /\ seen' = seen /\ event'[w] = Nil
        /\ \A v \in Workers \ {w} : event'[v] = event[v]
    BY <1>5 DEF BillOverage, Done
  <2>2. Handling'
    BY <1>3, <2>1 DEF Handling
  <2>3. CASE addons' = addons
    BY <1>3, <2>1, <2>3, ConstantsAssumption DEF NotBilledYet, OverageBilledOnce, Handling
  <2>4. CASE addons' # addons
    <3>1. event[w] \in Charged /\ addons' = [addons EXCEPT ![payment[w]] = @ + 1]
      BY <1>5, <2>4 DEF BillOverage
    <3>2. /\ event[w] \in Events /\ event[w] # Nil /\ event[w] \in seen
          /\ payment[w] = PaymentOf[event[w]] /\ addons[payment[w]] = 0
      BY <3>1, ConstantsAssumption DEF Handling, NotBilledYet
    <3>3. \A e \in Charged : PaymentOf[e] = payment[w] => e = event[w]
      BY <3>1, <3>2, ConstantsAssumption
    <3>4. OverageBilledOnce'
      BY <3>1, <3>2 DEF OverageBilledOnce
    <3>5. \A e \in Charged : e # event[w] => addons'[PaymentOf[e]] = addons[PaymentOf[e]]
      BY <3>1, <3>2, <3>3, ConstantsAssumption
    <3>6. \A v \in Workers \ {w} : event[v] \in Charged
            => event[v] # event[w] /\ payment[v] = PaymentOf[event[v]]
      BY <3>2, ConstantsAssumption DEF Handling
    <3>7. NotBilledYet'
      BY <1>3, <2>1, <3>2, <3>5, <3>6, ConstantsAssumption DEF NotBilledYet
    <3> QED BY <2>2, <3>4, <3>7
  <2> QED BY <2>2, <2>3, <2>4
<1>6. CASE ~ BillOverage(w) /\ ~ \E e \in Events : WebhookRecord(w, e)
  <2> USE DEF OverageInv, BookInv, TypeOK
  <2>1. /\ seen' = seen /\ addons' = addons
        /\ \/ event' = event /\ (event[w] # Nil => payment' = payment)
           \/ event' = [event EXCEPT ![w] = Nil]
        /\ pc'[w] \in {"idle", "sweeping"} => event'[w] = Nil
    BY <1>6, EventKept
  <2>2. /\ event'[w] = Nil \/ (event'[w] = event[w] /\ payment'[w] = payment[w])
        /\ \A v \in Workers \ {w} : event'[v] = event[v]
    BY <2>1
  <2>3. Handling'
    BY <1>3, <2>1, <2>2 DEF Handling
  <2>4. NotBilledYet'
    BY <1>3, <2>1, <2>2, ConstantsAssumption DEF NotBilledYet
  <2> QED BY <2>1, <2>3, <2>4 DEF OverageBilledOnce
<1> QED BY <1>4, <1>5, <1>6

\* However often Razorpay sends a charge again and whatever fails on the way, a
\* cycle's overage is billed once at most.
THEOREM OverageOnce == Spec => []OverageBilledOnce
<1>1. OverageInv => OverageBilledOnce
  BY DEF OverageInv
<1> QED BY <1>1, OverageInit, OverageStep, PTL DEF Spec

=============================================================================
