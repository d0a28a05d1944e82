--------------------------- MODULE MCRequestGate ---------------------------
(***************************************************************************)
(* Instances of RequestGate: a client with a key, and an agency.        *)
(***************************************************************************)
EXTENDS RequestGate, TLC

CONSTANTS agency, client, k1, w1, w2

MCOrgOf == [k \in Keys |-> client]

Interchangeable == Permutations(Workers)

=============================================================================
