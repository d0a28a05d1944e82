---------------------------- MODULE TaxInvoice ----------------------------
(***************************************************************************)
(* The arithmetic of a tax document (gst.ts, InvoiceService.record) and    *)
(* the tax identity it is drawn up from (OrganisationSettingsService).     *)
(*                                                                         *)
(* A GSTIN is a sequence of fifteen character values, 0 to 35 for 0-9A-Z:  *)
(* what setTaxDetails() can and cannot tell from a typing slip depends on  *)
(* them.  Amounts are in paise; null is None.                              *)
(***************************************************************************)
EXTENDS Integers, FiniteSets, Sequences, SequencesExt

CONSTANTS
    None,
    SellerState,    \* INVOICE_SELLER_GSTIN's state; None if it is unset or invalid
    TaxRateBps      \* INVOICE_TAX_RATE_BPS; 0 if unset

-----------------------------------------------------------------------------
(* gst.ts *)

GST_STATES == 1 .. 38 \cup {97}

Digit == 0 .. 9
Letter == 10 .. 35
Z == 35
ALPHABET == Digit \cup Letter

\* GSTIN_SHAPE: two digits, a PAN (five letters, four digits, a letter), an
\* entity character, a Z and the check character
HasShape(g) ==
    /\ Len(g) = 15
    /\ \A i \in {1, 2} \cup 8 .. 11 : g[i] \in Digit
    /\ \A i \in 3 .. 7 \cup {12} : g[i] \in Letter
    /\ g[13] \in ALPHABET /\ g[14] = Z /\ g[15] \in ALPHABET

State(g) == 10 * g[1] + g[2]

Fold36(product) == (product \div 36) + (product % 36)

\* gstinCheckDigit() with every weight 1
gstinCheckDigit_Unweighted(s) ==
    (36 - (FoldLeft(LAMBDA sum, i : sum + s[i], 0, [i \in 1 .. 14 |-> i]) % 36)) % 36

gstinCheckDigit(s) ==
    LET term(i) == Fold36(s[i] * (IF i % 2 = 1 THEN 1 ELSE 2))
        sum == FoldLeft(LAMBDA acc, i : acc + term(i), 0, [i \in 1 .. 14 |-> i])
    IN  (36 - (sum % 36)) % 36

isGstin(g) ==
    HasShape(g) /\ State(g) \in GST_STATES /\ g[15] = gstinCheckDigit(g)

\* Nothing of the number but its state is looked at.
stateCodeOfGstin(g) ==
    IF g = None \/ State(g) \notin GST_STATES THEN None ELSE State(g)

\* A supply crosses a state line when both states are known and differ; it is
\* local otherwise, and the odd paisa goes to SGST.
splitTax(tax, seller, buyer) ==
    IF tax <= 0 THEN [cgst |-> 0, sgst |-> 0, igst |-> 0]
    ELSE IF None \notin {seller, buyer} /\ seller # buyer
         THEN [cgst |-> 0, sgst |-> 0, igst |-> tax]
         ELSE [cgst |-> tax \div 2, sgst |-> tax - tax \div 2, igst |-> 0]

-----------------------------------------------------------------------------
(* InvoiceService *)

\* Math.round(a / b), for a quotient that is not negative: halves go up.
Rounded(a, b) == (2 * a + b) \div (2 * b)

\* divide(): prices include tax, which is worked back out of what was paid.
divide(total) ==
    IF TaxRateBps <= 0 THEN [subtotal |-> total, tax |-> 0]
    ELSE LET subtotal == Rounded(total * 10000, 10000 + TaxRateBps)
         IN  [subtotal |-> subtotal, tax |-> total - subtotal]

SumOf(amounts) == FoldLeft(LAMBDA acc, a : acc + a, 0, amounts)

\* apportion() with every line rounded, the last one too
apportion_LosesPaisa(weights, subtotal) ==
    LET total == SumOf(weights)
    IN  [i \in DOMAIN weights |-> Rounded(subtotal * weights[i], total)]

\* apportion(): by weight, and the last line takes what rounding left over.
apportion(weights, subtotal) ==
    LET total == IF SumOf(weights) = 0 THEN 1 ELSE SumOf(weights)
        share == [i \in DOMAIN weights |-> Rounded(subtotal * weights[i], total)]
        last == Len(weights)
    IN  [share EXCEPT ![last] = subtotal - SumOf(Front(share))]

\* The columns of an invoice that are about money and place, and a line's amount
Invoice == [total : Nat, subtotal : Nat, tax : Nat, cgst : Nat, sgst : Nat, igst : Nat,
            place : GST_STATES \cup {None}]

InvoiceLine == [weight : Nat, amount : Int]

\* record(): a document for `amount`, divided over the weights of its drafts, each
\* for the organisation whose month it bought.
Draft(org, amount, drafts, buyer) ==
    LET money == divide(amount)
        split == splitTax(money.tax, SellerState, buyer.state)
        weights == [i \in DOMAIN drafts |-> drafts[i].weight]
    IN  [org |-> org, total |-> amount, subtotal |-> money.subtotal, tax |-> money.tax,
         cgst |-> split.cgst, sgst |-> split.sgst, igst |-> split.igst,
         gstin |-> buyer.gstin, place |-> buyer.state, weights |-> weights,
         whose |-> [i \in DOMAIN drafts |-> drafts[i].org],
         lines |-> apportion(weights, money.subtotal)]

\* listForOrg(), listForAgency() and findAddressedTo(), and the same of receipts
AddressedTo(doc, allowed) == doc.org \in allowed

\* listCoveringOrg() and findForOrgs(): also a document with a line for one of them
Covers(doc, allowed) ==
    AddressedTo(doc, allowed) \/ \E i \in DOMAIN doc.whose : doc.whose[i] \in allowed

LinesOf(doc, shown) ==
    {[org |-> doc.whose[i], amount |-> doc.lines[i], position |-> i] : i \in shown}

\* toDto(): the snapshot
toDto(doc) ==
    [lines |-> LinesOf(doc, DOMAIN doc.lines), subtotal |-> doc.subtotal, total |-> doc.total,
     tax |-> doc.tax, gstin |-> doc.gstin, place |-> doc.place, extract |-> FALSE,
     downloadable |-> TRUE]

AmountOf(lines) == MapThenSumSet(LAMBDA line : line.amount, lines)

\* toDtoFor() that hides the total and not the lines
toDtoFor_AllLines(doc, org) ==
    [toDto(doc) EXCEPT !.total = AmountOf({l \in LinesOf(doc, DOMAIN doc.lines) : l.org = org}),
                       !.extract = doc.org # org, !.downloadable = doc.org = org]

\* toDtoFor(): whole for whoever it is addressed to, else an extract
toDtoFor(doc, org) ==
    IF doc.org = org THEN toDto(doc)
    ELSE LET own == LinesOf(doc, {i \in DOMAIN doc.lines : doc.whose[i] = org})
         IN  [lines |-> own, subtotal |-> AmountOf(own), total |-> AmountOf(own), tax |-> 0,
              gstin |-> None, place |-> None, extract |-> TRUE, downloadable |-> FALSE]

-----------------------------------------------------------------------------
(* OrganisationSettingsService *)

NoDetails == [gstin |-> None, state |-> None]

\* taxIdentity() and taxDetails(): the state chosen, or else the number's
taxIdentity(row) ==
    [gstin |-> row.gstin,
     state |-> IF row.state # None THEN row.state ELSE stateCodeOfGstin(row.gstin)]

\* setTaxDetails() that takes the state chosen over the number's
Acceptable_AnyState(gstin, chosen) ==
    /\ gstin # None => isGstin(gstin)
    /\ chosen # None => chosen \in GST_STATES

\* setTaxDetails() refuses a number whose check character is wrong, a code
\* that is no state, and a state that is not the number's.
Acceptable(gstin, chosen) ==
    /\ gstin # None => isGstin(gstin)
    /\ chosen # None => chosen \in GST_STATES
    /\ None \notin {gstin, chosen} => chosen = stateCodeOfGstin(gstin)

DetailsOf(gstin, chosen) ==
    [gstin |-> gstin,
     state |-> IF chosen # None THEN chosen ELSE stateCodeOfGstin(gstin)]

-----------------------------------------------------------------------------
(* What holds of a document. *)

Abs(n) == IF n < 0 THEN -n ELSE n

\* The document as it is stored
WellFormed(doc) ==
    /\ [f \in {"total", "subtotal", "tax", "cgst", "sgst", "igst", "place"} |-> doc[f]] \in Invoice
    /\ \A i \in DOMAIN doc.lines :
         [weight |-> doc.weights[i], amount |-> doc.lines[i]] \in InvoiceLine

\* Every paisa is accounted for: the lines sum to the taxable value, the heads
\* of tax to the tax, and both to what the bank moved; and no line is further
\* from its share than one paisa a line (apportion(): "a few paise").
AddsUp(doc) ==
    LET whole == SumOf(doc.weights)
    IN  /\ SumOf(doc.lines) = doc.subtotal
        /\ doc.cgst + doc.sgst + doc.igst = doc.tax
        /\ doc.subtotal + doc.tax = doc.total
        /\ 2 * Abs(doc.tax * 10000 - doc.subtotal * TaxRateBps) <= 10000 + TaxRateBps
        /\ \A i \in DOMAIN doc.lines :
             /\ doc.lines[i] >= 0
             /\ Abs(doc.lines[i] * whole - doc.subtotal * doc.weights[i])
                  <= whole * Len(doc.lines)

\* A client reads the line that bought its month and nothing of the others' on a
\* document addressed to its agency, and what the clients read adds up to it.
ReadAsExtract(doc) ==
    LET clients == {doc.whose[i] : i \in DOMAIN doc.whose} \ {None}
    IN  /\ \A o \in clients :
             /\ Covers(doc, {o})
             /\ LET view == toDtoFor(doc, o)
                IN  o # doc.org =>
                      /\ \A line \in view.lines : line.org = o
                      /\ view.total <= doc.subtotal /\ view.gstin = None /\ ~ view.downloadable
        /\ None \notin {doc.whose[i] : i \in DOMAIN doc.whose} =>
             MapThenSumSet(LAMBDA o : toDtoFor(doc, o).subtotal, clients) = doc.subtotal

\* The heads of tax are those of the place of supply, and a registration on
\* the document is one of that place.
SuppliedWhereRegistered(doc) ==
    /\ doc.gstin # None => doc.place = State(doc.gstin)
    /\ doc.tax > 0 =>
         (doc.igst > 0 <=> None \notin {SellerState, doc.place} /\ doc.place # SellerState)

=============================================================================
