------------------------------ MODULE Billing -------------------------------
(***************************************************************************)
(* Invoices to one customer (internal/billing): drafts built from unbilled *)
(* shipments, issue with a statutory number, payments, and credit and      *)
(* debit notes, with what each of them posts.                              *)
(*                                                                         *)
(* Two operations read before they hold a lock and are two steps.  A draft *)
(* selects its shipments and may then wait for a competing draft to        *)
(* commit.  A payment looks for its reference and locks the invoice        *)
(* afterwards.  The others lock the invoice or end in a conditional update *)
(* and are one step.  Nothing calls CancelInvoice, MarkOverdueInvoices or  *)
(* the billing runs, so no invoice is CANCELLED or OVERDUE.                *)
(***************************************************************************)
EXTENDS Ledger

CONSTANTS
    Customer,
    Shipments, Charge,   \* Charge[s]: freight and surcharges less discounts
    BillingPeriods,             \* the shipments booked in each period drafted for
    TaxBp,               \* the tax configured, in basis points
    MaxInvoices,         \* bound: invoices drafted
    Years,               \* financial years they are issued in
    Clerks,              \* finance users at work; each has one request in flight
    References,          \* the payer's references
    Notes, NoteTax,      \* credit and debit notes, and their tax
    MaxAmount,           \* bound: largest payment or note
    Slack                \* what invoices_settled_within_total lets pass

ASSUME BillingAssumption ==
    /\ Customer # Nil
    /\ IsFiniteSet(Shipments) /\ IsFiniteSet(Notes)
    /\ Charge \in [Shipments -> Nat]
    /\ BillingPeriods \subseteq SUBSET Shipments
    /\ TaxBp \in Nat /\ MaxInvoices \in Nat /\ NoteTax \in Nat /\ MaxAmount \in Nat
    /\ Slack \in Nat

VARIABLES
    inv,        \* inv[i]: the invoice's row and the shipments it bills
    seq,        \* seq[y]: the last number of the year's series
    payments,   \* the payments banked
    note,       \* note[k]: the credit or debit note's row
    asked       \* asked[c]: what a clerk's request has read so far

billingVars == <<journal, inv, seq, payments, note, asked>>

Invoices == 1 .. MaxInvoices
Open == {"ISSUED", "PARTIALLY_PAID", "OVERDUE"}
InvoiceStatuses == {"NONE", "DRAFT", "PAID"} \cup Open
NoInvoice == [status |-> "NONE", ships |-> {}, year |-> Nil, no |-> 0, taxable |-> 0,
              tax |-> 0, paid |-> 0, credited |-> 0]
NoNote == [status |-> "NONE", type |-> Nil, inv |-> Nil, n |-> 0]
NoRequest == [op |-> "idle"]

BillingInit ==
    /\ LedgerInit
    /\ inv = [i \in Invoices |-> NoInvoice]
    /\ seq = [y \in Years |-> 0]
    /\ payments = {}
    /\ note = [k \in Notes |-> NoNote]
    /\ asked = [c \in Clerks |-> NoRequest]

Total(i) == inv[i].taxable + inv[i].tax
Outstanding(i) == Total(i) - inv[i].paid - inv[i].credited
Issued(i) == inv[i].status \in Open \cup {"PAID"}

-----------------------------------------------------------------------------
(***************************************************************************)
(* Drafts.                                                                 *)
(***************************************************************************)
Billed == UNION {inv[i].ships : i \in Invoices}

\* The period's shipments that no invoice bills.
ListBillableShipments(P) == P \ Billed

DraftReads(c, P) ==
    /\ asked[c].op = "idle"
    /\ ListBillableShipments(P) # {}
    /\ asked' = [asked EXCEPT ![c] = [op |-> "draft", ships |-> ListBillableShipments(P)]]
    /\ UNCHANGED <<journal, inv, seq, payments, note>>

CreateInvoice(i) == inv[i].status = "NONE" /\ \A h \in 1 .. (i - 1) : inv[h].status # "NONE"

\* Mutant: the index is missing.
AddInvoiceShipmentAgain(S) == TRUE

\* AddInvoiceShipment, for all of them: invoice_shipments_billed_once_idx
\* refuses a shipment another invoice has billed in the meantime.
AddInvoiceShipment(S) == S \cap Billed = {}

\* ApplyInvoiceTotals, with the lines: what the shipments come to, and tax.
ApplyInvoiceTotals(i, S, y) ==
    LET taxable == SumFunction([s \in S |-> Charge[s]])
    IN  inv' = [inv EXCEPT ![i] = [NoInvoice EXCEPT
                   !.status = "DRAFT", !.ships = S, !.year = y,
                   !.taxable = taxable, !.tax = ApplyBP(taxable, TaxBp)]]

\* buildLines: all of the shipments or, when one is taken, none and no draft.
Draft(c, i, y) ==
    /\ asked[c].op = "draft"
    /\ CreateInvoice(i)
    /\ IF AddInvoiceShipment(asked[c].ships) THEN ApplyInvoiceTotals(i, asked[c].ships, y)
                                             ELSE UNCHANGED inv
    /\ asked' = [asked EXCEPT ![c] = NoRequest]
    /\ UNCHANGED <<journal, seq, payments, note>>

-----------------------------------------------------------------------------
(***************************************************************************)
(* Issue.                                                                  *)
(***************************************************************************)

\* The series' counter advances in the transaction that uses the number.
AllocateInvoiceNumber(y) == seq' = [seq EXCEPT ![y] = @ + 1]

IssueLegs(i) ==
    {Debit(TradeReceivable, Customer, Total(i)), Credit(FreightRevenue, Nil, inv[i].taxable)}
    \cup IF inv[i].tax > 0 THEN {Credit(TaxPayable, Nil, inv[i].tax)} ELSE {}

IssueInvoice(i) ==
    inv' = [inv EXCEPT ![i].status = "ISSUED", ![i].no = seq[inv[i].year] + 1]

Issue(i) ==
    /\ inv[i].status = "DRAFT"
    /\ Total(i) > 0
    /\ AllocateInvoiceNumber(inv[i].year)
    /\ Post(<<"INVOICE", i>>, "ISSUE", IssueLegs(i))
    /\ IssueInvoice(i)
    /\ UNCHANGED <<payments, note, asked>>

-----------------------------------------------------------------------------
(***************************************************************************)
(* Payments.                                                               *)
(***************************************************************************)
FindPaymentByReference(i, r) == {p \in payments : p.inv = i /\ p.ref = r}

\* RecordPayment's replay probe, before the invoice is locked.
PaymentProbes(c, i, r, n) ==
    /\ asked[c].op = "idle"
    /\ inv[i].status # "NONE"
    /\ FindPaymentByReference(i, r) = {}
    /\ asked' = [asked EXCEPT ![c] = [op |-> "pay", inv |-> i, ref |-> r, n |-> n]]
    /\ UNCHANGED <<journal, inv, seq, payments, note>>

\* Mutant: the payment is posted the wrong way round.
PaymentLegsReversed(n) == {Debit(TradeReceivable, Customer, n), Credit(Cash, Nil, n)}

PaymentLegs(n) == {Debit(Cash, Nil, n), Credit(TradeReceivable, Customer, n)}

\* Every payment has a number of its own.
CreateInvoicePayment(i, r, n) ==
    payments' = payments \cup {[no |-> Cardinality(payments) + 1, inv |-> i, ref |-> r, n |-> n]}

RecordInvoicePayment(i, n) ==
    /\ inv[i].status \in Open
    /\ inv' = [inv EXCEPT ![i].paid = @ + n,
                          ![i].status = IF inv[i].paid + inv[i].credited + n >= Total(i)
                                        THEN "PAID" ELSE "PARTIALLY_PAID"]

\* RecordPayment from the lock on: no more than is outstanding.
RecordPayment(c) ==
    /\ asked[c].op = "pay"
    /\ LET i == asked[c].inv
           n == asked[c].n
       IN  IF inv[i].status # "DRAFT" /\ n <= Outstanding(i)
           THEN /\ Post(<<"PAYMENT", i>>, <<"INVOICE_PAYMENT", Cardinality(payments) + 1>>,
                        PaymentLegs(n))
                /\ CreateInvoicePayment(i, asked[c].ref, n)
                /\ RecordInvoicePayment(i, n)
           ELSE UNCHANGED <<journal, inv, payments>>
    /\ asked' = [asked EXCEPT ![c] = NoRequest]
    /\ UNCHANGED <<seq, note>>

-----------------------------------------------------------------------------
(***************************************************************************)
(* Credit and debit notes.  Who raises one may not issue it; with two      *)
(* users that restricts who acts and never what happens.                   *)
(***************************************************************************)

\* A credit is compared with what is outstanding when it is raised.
RaiseCreditNote(k, type, i, n) ==
    /\ note[k].status = "NONE"
    /\ Issued(i)
    /\ type = "CREDIT" => n + NoteTax <= Outstanding(i)
    /\ note' = [note EXCEPT ![k] = [status |-> "DRAFT", type |-> type, inv |-> i, n |-> n]]
    /\ UNCHANGED <<journal, inv, seq, payments, asked>>

NoteTotal(k) == note[k].n + NoteTax

NoteLegs(k) ==
    IF note[k].type = "CREDIT"
    THEN {Debit(DiscountAllowed, Nil, note[k].n), Credit(TradeReceivable, Customer, NoteTotal(k))}
         \cup IF NoteTax > 0 THEN {Debit(TaxPayable, Nil, NoteTax)} ELSE {}
    ELSE {Debit(TradeReceivable, Customer, NoteTotal(k)), Credit(OtherRevenue, Nil, note[k].n)}
         \cup IF NoteTax > 0 THEN {Credit(TaxPayable, Nil, NoteTax)} ELSE {}

\* RecordInvoiceCredit: no row is changed when the invoice has been paid, and
\* invoices_settled_within_total fails the transaction of a credit far too large.
RecordInvoiceCredit(i, n) ==
    IF inv[i].status \in Open
    THEN /\ inv[i].paid + inv[i].credited + n <= Total(i) + Slack
         /\ inv' = [inv EXCEPT ![i].credited = @ + n,
                               ![i].status = IF inv[i].paid + inv[i].credited + n >= Total(i)
                                             THEN "PAID" ELSE @]
    ELSE UNCHANGED inv

IssueCreditNote(k) ==
    /\ note[k].status = "DRAFT"
    /\ Post(<<"CREDIT_NOTE", k>>, note[k].type, NoteLegs(k))
    /\ note' = [note EXCEPT ![k].status = "ISSUED"]
    /\ IF note[k].type = "CREDIT" THEN RecordInvoiceCredit(note[k].inv, NoteTotal(k))
                                  ELSE UNCHANGED inv
    /\ UNCHANGED <<seq, payments, asked>>

BillingNext ==
    \/ \E c \in Clerks :
          \/ \E P \in BillingPeriods : DraftReads(c, P)
          \/ \E i \in Invoices, y \in Years : Draft(c, i, y)
          \/ \E i \in Invoices, r \in References, n \in 1 .. MaxAmount : PaymentProbes(c, i, r, n)
          \/ RecordPayment(c)
    \/ \E i \in Invoices : Issue(i)
    \/ \E k \in Notes :
          \/ \E type \in {"CREDIT", "DEBIT"}, i \in Invoices, n \in 1 .. MaxAmount :
                RaiseCreditNote(k, type, i, n)
          \/ IssueCreditNote(k)

BillingSpec == BillingInit /\ [][BillingNext]_billingVars

-----------------------------------------------------------------------------
(***************************************************************************)
(* What must hold.                                                         *)
(***************************************************************************)

\* Every column holds a value of its type; an invoice is settled within the
\* slack of its total.
BillingTypeOK ==
    /\ \A i \in Invoices :
        /\ inv[i].status \in InvoiceStatuses
        /\ inv[i].ships \subseteq Shipments
        /\ inv[i].year \in Years \cup {Nil}
        /\ inv[i].paid \in Nat /\ inv[i].credited \in Nat
        /\ inv[i].paid + inv[i].credited <= Total(i) + Slack
    /\ seq \in [Years -> Nat]
    /\ \A k \in Notes : note[k].status \in {"NONE", "DRAFT", "ISSUED"}
    /\ \A c \in Clerks : asked[c].op \in {"idle", "draft", "pay"}

\* A year's statutory numbers are those of its issued invoices, without a gap
\* and without a repetition, whatever requests fail in between.
Gapless ==
    \A y \in Years :
        LET issued == {i \in Invoices : Issued(i) /\ inv[i].year = y}
        IN  /\ {inv[i].no : i \in issued} = 1 .. seq[y]
            /\ Cardinality(issued) = seq[y]

\* "A shipment is billed once", also when two drafts have both selected it
\* before either was written, and every bill has its own number in the sequence
\* the tax office sees.
BilledOnce ==
    /\ \A i, h \in Invoices : i # h => inv[i].ships \cap inv[h].ships = {}
    /\ Gapless

\* What the books say the customer owes is what the documents say: invoices
\* and debit notes issued, less credit notes issued and payments banked.
BooksMatchDocuments ==
    AccountBalance(TradeReceivable, Customer) =
        SumFunction([i \in {h \in Invoices : Issued(h)} |-> Total(i)])
        - SumFunction([p \in payments |-> p.n])
        + SumFunction([k \in {x \in Notes : note[x].status = "ISSUED"} |->
                           IF note[k].type = "DEBIT" THEN NoteTotal(k) ELSE -NoteTotal(k)])

-----------------------------------------------------------------------------
(***************************************************************************)
(* What the code says of itself and does not keep (see the README).        *)
(***************************************************************************)

\* "Idempotent on (invoice, reference) so a gateway retrying a webhook does not
\* bank the same money twice." (RecordPayment)
BankedOnce == \A p, r \in payments : p.inv = r.inv /\ p.ref = r.ref => p = r

\* "or the customer would end up with a negative receivable that nothing
\* explains" (RaiseCreditNote)
NoNegativeReceivable == AccountBalance(TradeReceivable, Customer) >= 0

=============================================================================
