------------------------ MODULE MCWebhookDelivery ------------------------
(* Instances of WebhookDelivery for TLC. *)
EXTENDS WebhookDelivery, TLC

CONSTANT e1

\* The rows belong to one endpoint.
OneEndpoint == [r \in Deliveries |-> e1]

\* BACKOFF_MINUTES grows with the attempt.
MCBackoff == [n \in 1..MaxRetries |-> n]

SweeperSymmetry == Permutations(Sweepers)
=============================================================================
