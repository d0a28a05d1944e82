---------------------------- MODULE MCMailQueue ----------------------------
(***************************************************************************)
(* Instances of MailQueue: one retry, one unit of time after the failure.  *)
(***************************************************************************)
EXTENDS MailQueue, TLC

CONSTANTS u1, box, w1, w2

MCBackoff == <<1>>

WorkerSymmetry == Permutations(Workers)

=============================================================================
