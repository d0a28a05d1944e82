----------------------- MODULE MCSubscriptionBilling -----------------------
(* Small instances of SubscriptionBilling for TLC. *)
EXTENDS SubscriptionBilling, TLC

CONSTANTS starter, growth

\* Growth is the dearer tier.
TwoPrices == starter :> 1 @@ growth :> 2

\* That a lost charge is made good is asked of handlers that are let finish: no
\* process dies and, with Failures = "no", no call fails.
CalmNext ==
    \/ Tick \/ Razorpay
    \/ \E h \in Handlers : Arrive(h) \/ ReconcileRead(h) \/ Step(h)

CalmSpec == Init /\ [][CalmNext]_vars /\ Fairness

=============================================================================
