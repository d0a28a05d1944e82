----------------------------- MODULE MCCharges -----------------------------
EXTENDS Charges, TLC

CONSTANTS starter, growth, quoted, deal, p1, p2, p3, p4, ag, c1, c2

MaxOf(contacts_, members, endpoints, history_) ==
    [contacts |-> contacts_, members |-> members, endpoints |-> endpoints, history |-> history_]

Tier(price, kind, id, max, rank, recommended) ==
    [price |-> price, sso |-> None, ctaKind |-> kind, planId |-> id, max |-> max,
     rank |-> rank, recommended |-> recommended, active |-> TRUE]

\* Starter can be sold from the start, growth is not wired yet.
MCSeeded ==
    (starter :> Tier(499, "subscribe", p1, MaxOf(1, 2, 1, 1), 1, TRUE)) @@
    (growth :> Tier(999, "subscribe", None, MaxOf(2, None, 1, 2), 2, FALSE)) @@
    (quoted :> Tier(None, "contact", None, MaxOf(None, None, None, None), 3, FALSE)) @@
    (deal :> None)

\* p3 charges what growth costs and p2 does not.
MCDashboard == (p1 :> 499) @@ (p2 :> 501) @@ (p3 :> 999)

\* The configuration names a code nobody publishes, and sells starter at
\* another price than its own.
MCMapping == (starter :> p2) @@ (deal :> p3)

Draft1(price, sso, kind, label) ==
    [code |-> deal, price |-> price, sso |-> sso, ctaKind |-> kind, label |-> label,
     max |-> MaxOf(2, 3, 2, None), rank |-> 5]

MCDrafts == {Draft1(999, ag, None, FALSE), Draft1(None, None, None, TRUE),
             Draft1(501, None, "contact", FALSE), Draft1(None, ag, "subscribe", TRUE)}

MCPatches == {[planId |-> p2], [planId |-> p3], [recommended |-> TRUE, planId |-> p3],
              [recommended |-> TRUE], [active |-> FALSE], [ctaKind |-> "subscribe"],
              [max |-> MaxOf(0, 1, 0, 0)], [max |-> MaxOf(3, 3, 3, 2)]}

MCAgencyOf == (ag :> None) @@ (c1 :> ag) @@ (c2 :> ag)

\* The agency still has a subscription of an account of its own.
MCAccountTier == (ag :> starter) @@ (c1 :> None) @@ (c2 :> None)

None3 == [live |-> FALSE, tier |-> None, planId |-> None]

\* The second client's is from before the price list.
MCSold == (ag :> None3) @@
          (c1 :> [live |-> TRUE, tier |-> starter, planId |-> p1]) @@
          (c2 :> [live |-> TRUE, tier |-> None, planId |-> p3])

MCMixes == {{"buy", "edit", "charge"}, {"boot", "edit", "charge"}, {"author", "wire", "edit"},
            {"author", "buy", "charge"}, {"edit", "relimit"}, {"contacts", "buy"}, {"members"},
            {"endpoints", "relimit"}, {"tax", "charge"}, {"admin"}, {"retention", "buy"},
            {"retention", "relimit"}, {"thread"}, {"reports"}}

\* Maharashtra and Karnataka, with the characters the check weighs alike (0 and
\* Z) next to each other, and with letters around the middle of the alphabet
Number(first14) == Append(first14, gstinCheckDigit(first14))

MCRegistration ==
    LET one == Number(<<2, 7, 35, 35, 17, 18, 35, 0, 0, 9, 0, 35, 0, 35>>)
        two == Number(<<2, 9, 10, 35, 12, 18, 17, 0, 9, 3, 5, 28, 1, 35>>)
    IN  (ag :> one) @@ (c1 :> two) @@ (c2 :> one)

\* Behind UTC, on it and ahead of it
MCPodOffsets == {-1, 0, 1}

\* Requests are alike, and so are phone numbers.
Sym == Permutations(Requests) \cup Permutations(Numbers)

=============================================================================
