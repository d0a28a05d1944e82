---------------------------- MODULE MCInvoicing ----------------------------
(***************************************************************************)
(* Instances of Invoicing: three payments, the second a month before the   *)
(* first of April and the others after it; two events carry the first.     *)
(***************************************************************************)
EXTENDS Invoicing

CONSTANTS e1, e2, e3, e4, p1, p2, p3

MCPaymentOf == [e \in Events |-> CASE e \in {e1, e2} -> p1 [] e = e3 -> p2 [] e = e4 -> p3]

MCPaidAt == [p \in Payments |-> CASE p = p1 -> 27 [] p = p2 -> 26 [] p = p3 -> 28]

=============================================================================
