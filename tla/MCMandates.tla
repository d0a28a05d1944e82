----------------------------- MODULE MCMandates -----------------------------
(***************************************************************************)
(* Organisations that pay for themselves and agencies that pay for their   *)
(* clients, beside one another.  The two sides share no row, so a step of   *)
(* one leaves the other as it is; it is enough to let each move while the   *)
(* other has not begun, since nothing either does depends on the other.     *)
(***************************************************************************)
EXTENDS SubscriptionBilling, AgencyBilling, TLC

CONSTANTS starter, growth, o1, o2, c1, c2

\* Growth is the dearer tier.
TwoPrices == starter :> 1 @@ growth :> 2

Interchangeable ==
    Permutations(Handlers) \cup Permutations(Orgs) \cup Permutations(Clients)

MandatesInit == Init /\ AgencyInit

MandatesNext ==
    \/ AgencyInit /\ Next /\ UNCHANGED agencyVars
    \/ Init /\ AgencyNext /\ UNCHANGED vars

MandatesSpec == MandatesInit /\ [][MandatesNext]_<<vars, agencyVars>>

=============================================================================
