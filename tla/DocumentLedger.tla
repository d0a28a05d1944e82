-------------------------- MODULE DocumentLedger --------------------------
(***************************************************************************)
(* What an audit expects of a series of numbered documents: a book per     *)
(* financial year, numbered 1, 2, 3, ... as documents are issued, each     *)
(* payment given one number, once and for ever.                            *)
(***************************************************************************)
EXTENDS Integers

CONSTANTS
    Payments,   \* what a document is raised for
    Books,      \* one series of numbers each
    BookOf      \* the book a payment belongs in

VARIABLES
    number,     \* the number a payment has been given, 0 for none
    next        \* the next number of each book

vars == <<number, next>>

Init ==
    /\ number = [p \in Payments |-> 0]
    /\ next = [b \in Books |-> 1]

Issue(p) ==
    /\ number[p] = 0
    /\ number' = [number EXCEPT ![p] = next[BookOf[p]]]
    /\ next' = [next EXCEPT ![BookOf[p]] = next[BookOf[p]] + 1]

Next == \E p \in Payments : Issue(p)

Spec == Init /\ [][Next]_vars

-----------------------------------------------------------------------------

\* Every number below the next one belongs to some payment of that book.
NoGaps ==
    \A b \in Books : \A n \in 1..(next[b] - 1) :
      \E p \in Payments : BookOf[p] = b /\ number[p] = n

\* No number of a book belongs to two payments.
NoReuse ==
    \A p, q \in Payments :
      number[p] # 0 /\ number[p] = number[q] /\ BookOf[p] = BookOf[q] => p = q

\* A number once given is neither changed nor taken back.
Permanent == [][\A p \in Payments : number[p] # 0 => number'[p] = number[p]]_vars

=============================================================================
