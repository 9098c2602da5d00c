------------------------------- MODULE Ledger -------------------------------
(***************************************************************************)
(* The double-entry ledger (internal/ledger) as the finance services use   *)
(* it: a posting writes one balanced journal transaction, append-only and  *)
(* identified by what caused it (source type, source id, purpose), inside  *)
(* the caller's database transaction.  No balance is stored: an account or *)
(* a party is worth the sum of its entries.                                *)
(***************************************************************************)
EXTENDS Integers, FiniteSets, Functions

CONSTANTS Nil      \* no party: an account of the organization as a whole

VARIABLE journal   \* the posted transactions

\* The accounts the services post to (ledger.Acct...): assets, liabilities,
\* revenue and expenses.
Cash == "1000"
CODReceivableAgent == "1100"
CODReceivableBranch == "1110"
CODReceivableFranchise == "1120"
TradeReceivable == "1200"
FranchiseReceivable == "1300"
CODShortageRecoverable == "1400"
CODPayableConsignor == "2000"
CommissionPayable == "2100"
FranchisePayable == "2200"
TaxPayable == "2300"
CODExcessPayable == "2500"
FreightRevenue == "4000"
OtherRevenue == "4300"
CommissionExpense == "5000"
DiscountAllowed == "5300"

\* normalBalanceFor: the accounts whose balance is debits less credits.
NormalDebit == {Cash, CODReceivableAgent, CODReceivableBranch, CODReceivableFranchise,
                TradeReceivable, FranchiseReceivable, CODShortageRecoverable,
                CommissionExpense, DiscountAllowed}

\* The account that receives a leg belongs to a party, or to nobody.
Debit(account, party, n) == [account |-> account, party |-> party, debit |-> n, credit |-> 0]
Credit(account, party, n) == [account |-> account, party |-> party, debit |-> 0, credit |-> n]

\* Posting.validate: at least two legs, each of them one-sided and positive.
validate(legs) ==
    /\ Cardinality(legs) >= 2
    /\ \A l \in legs :
        /\ l.debit >= 0 /\ l.credit >= 0
        /\ (l.debit = 0) # (l.credit = 0)

\* totalOf: the legs balance.
totalOf(legs) ==
    SumFunction([l \in legs |-> l.debit]) = SumFunction([l \in legs |-> l.credit])

\* A journal is reversed when its mirror has been posted (MarkJournalReversed).
Reversed(j) == \E k \in journal : k.source = <<"REVERSAL", j.source, j.purpose>>

\* What a source has posted for a purpose, and not reversed.
FindJournalBySource(source, purpose) ==
    {j \in journal : j.source = source /\ j.purpose = purpose /\ ~Reversed(j)}

CreateJournalTransaction(source, purpose, legs) ==
    journal' = journal \cup {[source |-> source, purpose |-> purpose, legs |-> legs]}

\* Post: a source that has posted for this purpose before is replayed, which
\* writes nothing (journal_transactions_source_idx).
Post(source, purpose, legs) ==
    /\ validate(legs)
    /\ totalOf(legs)
    /\ IF FindJournalBySource(source, purpose) # {}
       THEN journal' = journal
       ELSE CreateJournalTransaction(source, purpose, legs)

\* Reverse: the mirror image of a journal, once, under the journal's lock.
Mirror(legs) == {[l EXCEPT !.debit = l.credit, !.credit = l.debit] : l \in legs}

Reverse(j) ==
    /\ ~Reversed(j)
    /\ CreateJournalTransaction(<<"REVERSAL", j.source, j.purpose>>, "REVERSAL",
                                Mirror(j.legs))

\* The balance of some legs, signed by each account's normal balance.
SignedSum(legs) ==
    SumFunction([l \in legs |-> IF l.account \in NormalDebit THEN l.debit - l.credit
                                                             ELSE l.credit - l.debit])

\* GetPartyBalance: every account bound to the party, each by its own normal
\* balance.  What the party owes and what it is owed are added up.
PartyBalance(party) ==
    SumFunction([j \in journal |-> SignedSum({l \in j.legs : l.party = party})])

\* GetAccountBalance, of one account of one party.
AccountBalance(account, party) ==
    SumFunction([j \in journal |->
        SignedSum({l \in j.legs : l.account = account /\ l.party = party})])

\* money.ApplyBP of an amount that is not negative: basis points, half up.
ApplyBP(base, bp) == (base * bp + 5000) \div 10000

LedgerInit == journal = {}

=============================================================================
