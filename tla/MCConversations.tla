-------------------------- MODULE MCConversations --------------------------
(***************************************************************************)
(* Instances of Conversations: two organisations and one customer.         *)
(***************************************************************************)
EXTENDS Conversations, TLC

CONSTANTS o1, o2, r1, r2, s1, w1, w2

Interchangeable == Permutations(Workers) \cup Permutations(Replies) \cup Permutations(Orgs)

=============================================================================
