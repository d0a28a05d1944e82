----------------------------- MODULE MCSessions -----------------------------
(***************************************************************************)
(* Instances of Sessions: a person of one agency, which manages one client. *)
(***************************************************************************)
EXTENDS Sessions, TLC

CONSTANTS p1, p2, agency, client, created

ManagedBy == [o \in Orgs |-> IF o = client THEN agency ELSE None]

Together == {{"refresh", "logout"}, {"enter", "logout"}, {"enter", "create"}, {"enter", "rotate"}}

Interchangeable == Permutations(Requests)

=============================================================================
