-------------------------- MODULE MCAgencyBilling --------------------------
(***************************************************************************)
(* An instance of AgencyBilling: an agency and two clients to create.       *)
(***************************************************************************)
EXTENDS AgencyBilling, TLC

CONSTANTS o1, o2, c1, c2

Interchangeable == Permutations(Orgs) \cup Permutations(Clients)

=============================================================================
