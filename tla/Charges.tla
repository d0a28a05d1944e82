------------------------------ MODULE Charges ------------------------------
(***************************************************************************)
(* The price list, what it keeps and the tax documents together: a tier is *)
(* published, bought and debited at the provider, and the debit is put on  *)
(* a document drawn up from the customer's tax identity.                   *)
(***************************************************************************)
EXTENDS Retention, ThreadPages, Reports, Sequences, SequencesExt

CONSTANTS
    SellerState, TaxRateBps,
    Registration,       \* each organisation's GSTIN
    Chosen,             \* state codes picked in the form, and None
    MandateAmounts,     \* what an agency's mandate may be debited
    MaxInvoices         \* bound: documents raised

INSTANCE TaxInvoice

ASSUME ChargesAssumption ==
    /\ TaxRateBps \in Nat /\ MaxInvoices \in Nat
    /\ SellerState \in GST_STATES \cup {None}
    /\ \A o \in Orgs : isGstin(Registration[o])

VARIABLES
    details,        \* OrganisationSettings.gstin and .stateCode
    invoices        \* Invoice and InvoiceLine

documentVars == <<details, invoices>>
screens == <<threadPageVars, reportVars>>
chargeVars == <<listAll, retentionVars, documentVars, screens>>

-----------------------------------------------------------------------------

\* What comes of typing a number in: the number, one character wrong, or two
\* neighbours swapped
Typed(g) ==
    {[g EXCEPT ![i] = c] : i \in 1 .. 15, c \in ALPHABET}
    \cup {[g EXCEPT ![i] = g[i + 1], ![i + 1] = g[i]] : i \in 1 .. 14}

\* What invoiceList() and AgencyService.invoices() show an organisation whole
ReadsWhole(o) ==
    LET clients == {c \in Orgs : AgencyOf[c] = o}
    IN  {i \in invoices : \/ Covers(i.doc, {o}) /\ ~ toDtoFor(i.doc, o).extract
                          \/ AddressedTo(i.doc, {o} \cup clients)}

\* The forms setTaxDetails() does not refuse
Accepted ==
    UNION {{[org |-> o, gstin |-> g, chosen |-> s] :
              g \in {t \in Typed(Registration[o]) \cup {None} : Acceptable(t, s)}}
           : o \in Orgs, s \in Chosen}

SetTaxDetails(form) ==
    /\ "tax" \in mix
    /\ details' = [details EXCEPT ![form.org] = DetailsOf(form.gstin, form.chosen)]
    /\ UNCHANGED <<listAll, retentionVars, invoices, screens>>

Raise(doc) ==
    /\ "charge" \in mix
    /\ Cardinality(invoices) < MaxInvoices
    /\ invoices' = invoices \cup {doc}
    /\ UNCHANGED <<listAll, retentionVars, details, screens>>

\* A debit on the organisation's own mandate: what the provider's plan charges
ChargeOrg(o) ==
    /\ sub[o].live /\ AgencyOf[o] = None /\ sub[o].planId # None
    /\ provider[sub[o].planId] # None
    /\ Raise([of |-> sub[o],
              doc |-> Draft(o, provider[sub[o].planId], <<[org |-> o, weight |-> 1]>>,
                            taxIdentity(details[o]))])

\* drafts(): a line a client, weighed by its tier's price
DraftLines(a) ==
    LET clients == SetToSeq({o \in Orgs : AgencyOf[o] = a /\ sub[o].live})
        price(c) == IF c = None \/ plans[c].price = None THEN 1 ELSE plans[c].price
    IN  IF clients = <<>> THEN <<[org |-> None, weight |-> 1]>>
        ELSE [i \in DOMAIN clients |->
                [org |-> clients[i], weight |-> price(sub[clients[i]].tier)]]

\* A debit on an agency's mandate
ChargeMandate(a, amount) ==
    /\ \E o \in Orgs : AgencyOf[o] = a
    /\ Raise([of |-> None, doc |-> Draft(a, amount, DraftLines(a), taxIdentity(details[a]))])

-----------------------------------------------------------------------------

ChargesInit ==
    /\ ListInit /\ RetentionInit
    /\ ThreadInit /\ IF "reports" \in mix THEN ReportsInit ELSE NoReports
    /\ details = [o \in Orgs |-> NoDetails]
    /\ invoices = {}

\* What is read back is looked at by itself.
ChargesNext ==
    \/ ListNext /\ Remember /\ UNCHANGED <<today, stored, documentVars, screens>>
    \/ RetentionNext /\ Remember /\ UNCHANGED <<documentVars, screens>>
    \/ "thread" \in mix /\ ThreadNext
         /\ UNCHANGED <<listAll, retentionVars, documentVars, reportVars>>
    \/ "reports" \in mix /\ ReportsNext
         /\ UNCHANGED <<listAll, retentionVars, documentVars, threadPageVars>>
    \/ \E form \in Accepted : SetTaxDetails(form)
    \/ \E o \in Orgs : \/ ChargeOrg(o)
                       \/ \E amount \in MandateAmounts : ChargeMandate(o, amount)

ChargesSpec == ChargesInit /\ [][ChargesNext]_chargeVars

-----------------------------------------------------------------------------
(* Properties *)

\* Types
ChargesTypeOK ==
    /\ ListTypeOK /\ RetentionTypeOK /\ ThreadTypeOK /\ ReportsTypeOK
    /\ \A o \in Orgs : details[o].state \in GST_STATES \cup {None}
    /\ \A i \in invoices : i.doc.org \in Orgs /\ WellFormed(i.doc)

\* What a customer is debited, and the document says, is the price on the card
\* it was sold from, whoever rewired the tier while it was being bought; a tier
\* on the id RAZORPAY_PLAN_IDS gives it is charged what that configuration says
\* (assertProviderPlanMatches(), admin.service.ts).
ChargedAsPublished ==
    \A i \in invoices :
       i.of # None /\ i.of.tier # None /\ plans[i.of.tier].price # None
         => \/ i.doc.total = plans[i.of.tier].price
            \/ i.of.tier \in DOMAIN Mapping /\ i.of.planId = Mapping[i.of.tier]

\* A document closes, to the paisa, on what the bank moved (divide(), apportion()
\* and splitTax()); puts the tax under the heads of the place of supply; and names
\* the customer's own registration, which is of that place, however the details
\* were edited before it and whatever slip was made in typing them, one character
\* wrong or two neighbours swapped (setTaxDetails(), isGstin(), taxIdentity()).
\* Only whoever paid, and the payer's agency, reads it whole (listCoveringOrg(),
\* toDtoFor(), findAddressedTo()).
DocumentsAreRight ==
    \A i \in invoices :
      /\ AddsUp(i.doc)
      /\ SuppliedWhereRegistered(i.doc)
      /\ i.doc.gstin \in {None, Registration[i.doc.org]}
      /\ ReadAsExtract(i.doc)
      /\ \A o \in Orgs : i \in ReadsWhole(o) => o \in {i.doc.org, AgencyOf[i.doc.org]}

=============================================================================
