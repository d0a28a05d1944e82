---------------------------- MODULE MCAccounts ----------------------------
EXTENDS Accounts, TLC

CONSTANTS u1, u2, o1, o2

\* Two people of one organisation, one of whom is in a second one too
MCStaff == {<<u1, o1>>, <<u2, o1>>, <<u2, o2>>}

MCMixes == {{"connect", "sync", "disconnect"}, {"connect", "sync", "deleteWaba"},
            {"connect", "sync", "deleteAccount"}, {"connect", "pay", "disconnect"},
            {"connect", "pay", "template"}}

\* Requests are alike.
Sym == Permutations(Requests)

=============================================================================
