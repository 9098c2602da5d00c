-------------------------------- MODULE Cod --------------------------------
(***************************************************************************)
(* Cash on delivery (internal/cod): the custody of the money between the   *)
(* doorstep and the bank.  An obligation is opened when its parcel is      *)
(* delivered, collected by an agent, handed on in transfers that the giver *)
(* declares and the receiver accepts, counted in reconciliations, and      *)
(* remitted; each of these posts to the ledger.                            *)
(*                                                                         *)
(* An operation is one database transaction that locks or compare-and-     *)
(* swaps the rows it changes, so it is one step.  The exception is a       *)
(* count: RecordCount checks the reconciliation without a lock and writes  *)
(* the counted line afterwards, so it is two steps.                        *)
(***************************************************************************)
EXTENDS Ledger

CONSTANTS
    Obligations, Agents, Branches, Franchises,
    HeadOffice,        \* a custodian type the schema knows and the service refuses
    Transfers, Reconciliations, Remittances,
    Amounts,           \* amounts that may be collected at the door
    Counts,            \* amounts a person may count or accept
    MaxCounting        \* model bound: RecordCount calls in flight at once

Parties == Agents \cup Branches \cup Franchises

ASSUME CodAssumption ==
    /\ Agents \cap Branches = {} /\ Agents \cap Franchises = {}
    /\ Branches \cap Franchises = {}
    /\ Nil \notin Parties /\ HeadOffice \notin Parties
    /\ "consignee" \notin Parties /\ "banked" \notin Parties
    /\ Amounts \subseteq Nat \ {0}
    /\ Counts \subseteq Int

VARIABLES
    ob,         \* cod_obligations
    transfer,   \* cod_custody_transfers with their items
    recon,      \* cod_reconciliations with their items
    remit,      \* cod_remittances with their items
    counting    \* RecordCount calls between their check and their write

codVars == <<ob, transfer, recon, remit, counting, journal>>

InCustody == {"AGENT_COLLECTED", "BRANCH_RECEIVED", "FRANCHISE_CONFIRMED"}
ObStatuses == {"NONE", "EXPECTED", "RECONCILED", "REMITTED"} \cup InCustody
Outcomes == {"NONE", "MATCHED", "SHORT", "EXCESS", "MISSING"}
Beneficiaries == {"HEAD_OFFICE", "CONSIGNOR"}

ObRow == [status : ObStatuses, custodian : Parties \cup {Nil},
          collected : Int, remitted : Int, adjusted : Int]

TransferRow == [status : {"NONE", "DECLARED", "ACCEPTED"},
                from : Parties \cup {Nil}, to : Parties \cup {HeadOffice, Nil},
                items : SUBSET Obligations, amount : [Obligations -> Int]]

ReconItem == [expected : Int, counted : Int, outcome : Outcomes]
ReconRow == [status : {"NONE", "OPEN", "COMPLETED", "COMPLETED_WITH_VARIANCE"},
             party : Parties \cup {Nil}, items : [Obligations -> ReconItem]]

RemitRow == [status : {"NONE", "INITIATED", "CONFIRMED"}, from : Parties \cup {Nil},
             beneficiary : Beneficiaries \cup {Nil},
             items : SUBSET Obligations, amount : [Obligations -> Int]]

CodTypeOK ==
    /\ ob \in [Obligations -> ObRow]
    /\ transfer \in [Transfers -> TransferRow]
    /\ recon \in [Reconciliations -> ReconRow]
    /\ remit \in [Remittances -> RemitRow]
    /\ counting \subseteq [recon : Reconciliations, ob : Obligations, expected : Int]

\* The amounts of the items of a transfer or a remittance that has none.
NoAmount == [o \in Obligations |-> 0]

NoItem == [expected |-> 0, counted |-> 0, outcome |-> "NONE"]

CodInit ==
    /\ ob = [o \in Obligations |-> [status |-> "NONE", custodian |-> Nil,
                                    collected |-> 0, remitted |-> 0, adjusted |-> 0]]
    /\ transfer = [t \in Transfers |-> [status |-> "NONE", from |-> Nil, to |-> Nil,
                                        items |-> {}, amount |-> NoAmount]]
    /\ recon = [r \in Reconciliations |-> [status |-> "NONE", party |-> Nil,
                                           items |-> [o \in Obligations |-> NoItem]]]
    /\ remit = [m \in Remittances |-> [status |-> "NONE", from |-> Nil, beneficiary |-> Nil,
                                       items |-> {}, amount |-> NoAmount]]
    /\ counting = {}
    /\ LedgerInit

-----------------------------------------------------------------------------
statusForCustodian(p) ==
    IF p \in Agents THEN "AGENT_COLLECTED"
    ELSE IF p \in Branches THEN "BRANCH_RECEIVED" ELSE "FRANCHISE_CONFIRMED"

receivableAccountFor(p) ==
    IF p \in Agents THEN CODReceivableAgent
    ELSE IF p \in Branches THEN CODReceivableBranch ELSE CODReceivableFranchise

\* What is left of the cash of an obligation.
Held(o) == ob[o].collected - ob[o].remitted

SumOf(f(_), S) == SumFunction([x \in S |-> f(x)])

\* The amounts written with the items of a new transfer or remittance.
AmountsOf(S) == [o \in Obligations |-> IF o \in S THEN Held(o) ELSE 0]

-----------------------------------------------------------------------------
(* Obligations and collection *)

CreateCODObligation(o) == [ob EXCEPT ![o].status = "EXPECTED"]

\* MarkObligationCollected: EXPECTED becomes AGENT_COLLECTED, in the agent's hands.
MarkObligationCollected(o, a, n) ==
    [ob EXCEPT ![o].status = "AGENT_COLLECTED", ![o].custodian = a, ![o].collected = @ + n]

\* OpenObligation, from the delivery of a parcel that carries COD.  A second
\* delivery event finds the row and changes nothing.
OpenObligation(o) ==
    /\ ob[o].status = "NONE"
    /\ ob' = CreateCODObligation(o)
    /\ UNCHANGED <<transfer, recon, remit, counting, journal>>

\* RecordCollection: MarkObligationCollected swaps EXPECTED for AGENT_COLLECTED,
\* so neither a replay nor a second agent collects again.
RecordCollection(o, a, n) ==
    /\ ob[o].status = "EXPECTED"
    /\ ob' = MarkObligationCollected(o, a, n)
    /\ Post(o, "COLLECTION", {Debit(CODReceivableAgent, a, n),
                              Credit(CODPayableConsignor, Nil, n)})
    /\ UNCHANGED <<transfer, recon, remit, counting>>

-----------------------------------------------------------------------------
(* Custody transfers *)

\* Mutant: the partial unique index was never created.
NotInATransfer(o) == FALSE

\* cod_custody_transfer_items_active_idx: items are written INCLUDED and nothing
\* ever changes that, so any transfer, accepted ones too, keeps its items.
InATransfer(o) == \E t \in Transfers : o \in transfer[t].items

\* LockObligationsByIDs: the rows a transfer names, checked under their lock.
LockObligationsByIDs(S, from) ==
    \A o \in S : ob[o].status = statusForCustodian(from) /\ ob[o].custodian = from

\* CreateCustodyTransfer, and AddTransferItem for each of its obligations.
CreateCustodyTransfer(from, to, S) ==
    [status |-> "DECLARED", from |-> from, to |-> to, items |-> S, amount |-> AmountsOf(S)]

AddTransferItem(S) == \A o \in S : ~InATransfer(o)

DeclareTransfer(t, from, to, S) ==
    /\ transfer[t].status = "NONE"
    /\ S # {}
    /\ from # to
    /\ LockObligationsByIDs(S, from)
    /\ AddTransferItem(S)
    /\ transfer' = [transfer EXCEPT ![t] = CreateCustodyTransfer(from, to, S)]
    /\ UNCHANGED <<ob, recon, remit, counting, journal>>

\* declared_minor: the sum of the items, written with them.
Declared(t) == LET amount(o) == transfer[t].amount[o] IN SumOf(amount, transfer[t].items)

\* Acceptance moves what was declared off the giver; a count that differs is
\* charged to the giver or owed back.
TransferLegs(t, n) ==
    LET x == transfer[t]
    IN  {Debit(receivableAccountFor(x.to), x.to, n),
         Credit(receivableAccountFor(x.from), x.from, Declared(t))}
        \cup (IF n < Declared(t)
              THEN {Debit(CODShortageRecoverable, x.from, Declared(t) - n)} ELSE {})
        \cup (IF n > Declared(t)
              THEN {Credit(CODExcessPayable, Nil, n - Declared(t))} ELSE {})

\* Mutant: cash that has been counted since may still be handed on.
StillHeldOrCounted(o, from) == ob[o].status \in {statusForCustodian(from), "RECONCILED"}

\* MoveObligationCustody compares the status of an obligation, not its custodian.
StillHeld(o, from) == ob[o].status = statusForCustodian(from)

\* The row MoveObligationCustody writes: the receiver has the cash.
MoveObligationCustody(o, to) ==
    [ob[o] EXCEPT !.status = statusForCustodian(to), !.custodian = to]

\* LockTransfer and AcceptCustodyTransfer: a transfer is decided once.
LockTransfer(t) == transfer[t].status = "DECLARED"
AcceptCustodyTransfer(t) == [transfer EXCEPT ![t].status = "ACCEPTED"]

\* AcceptTransfer: one obligation that does not match undoes the acceptance.  A
\* transfer to head office has no receivable account and is never accepted.
AcceptTransfer(t, n) ==
    /\ LockTransfer(t)
    /\ transfer[t].to \in Parties
    /\ \A o \in transfer[t].items : StillHeld(o, transfer[t].from)
    /\ Post(t, "CUSTODY_TRANSFER", TransferLegs(t, n))
    /\ transfer' = AcceptCustodyTransfer(t)
    /\ ob' = [o \in Obligations |->
                IF o \in transfer[t].items
                THEN MoveObligationCustody(o, transfer[t].to) ELSE ob[o]]
    /\ UNCHANGED <<recon, remit, counting>>

-----------------------------------------------------------------------------
(* Reconciliation *)

\* ListObligationsForParty: what a count of a party starts from.
ListObligationsForParty(p) ==
    {o \in Obligations : ob[o].custodian = p /\ ob[o].status \in InCustody}

\* CreateCODReconciliation, one open count per party (its partial unique index).
CreateCODReconciliation(p) ==
    ~\E q \in Reconciliations : recon[q].status = "OPEN" /\ recon[q].party = p

\* OpenReconciliation: every obligation the party holds becomes a line, missing
\* until it is counted.
OpenReconciliation(r, p) ==
    /\ recon[r].status = "NONE"
    /\ CreateCODReconciliation(p)
    /\ recon' = [recon EXCEPT ![r] =
                   [status |-> "OPEN", party |-> p,
                    items |-> [o \in Obligations |->
                                 IF o \in ListObligationsForParty(p)
                                 THEN [expected |-> Held(o), counted |-> 0, outcome |-> "MISSING"]
                                 ELSE NoItem]]]
    /\ UNCHANGED <<ob, transfer, remit, counting, journal>>

\* RecordCount as far as its reads: the reconciliation is open, the obligation
\* is anybody's, and the amount expected is what is left of it now.
ReadForCount(r, o) ==
    /\ recon[r].status = "OPEN"
    /\ ob[o].status # "NONE"
    /\ Cardinality(counting) < MaxCounting
    /\ counting' = counting \cup {[recon |-> r, ob |-> o, expected |-> Held(o)]}
    /\ UNCHANGED <<ob, transfer, recon, remit, journal>>

OutcomeOf(n, expected) ==
    IF n = 0 THEN "MISSING"
    ELSE IF n < expected THEN "SHORT"
    ELSE IF n > expected THEN "EXCESS" ELSE "MATCHED"

\* AddCODReconciliationItem: on conflict the expected amount of the line stays.
RecordCount(c, n) ==
    /\ counting' = counting \ {c}
    /\ recon' = [recon EXCEPT ![c.recon].items[c.ob] =
                   [expected |-> IF @.outcome = "NONE" THEN c.expected ELSE @.expected,
                    counted |-> n, outcome |-> OutcomeOf(n, c.expected)]]
    /\ UNCHANGED <<ob, transfer, remit, journal>>

Shortage(r) ==
    LET short(o) == LET i == recon[r].items[o]
                    IN  IF i.counted < i.expected THEN i.expected - i.counted ELSE 0
    IN  SumOf(short, Obligations)

Excess(r) ==
    LET over(o) == LET i == recon[r].items[o]
                   IN  IF i.counted > i.expected THEN i.counted - i.expected ELSE 0
    IN  SumOf(over, Obligations)

ReconLegs(r) ==
    LET p == recon[r].party  account == receivableAccountFor(recon[r].party)
    IN  (IF Shortage(r) > 0
         THEN {Debit(CODShortageRecoverable, p, Shortage(r)), Credit(account, p, Shortage(r))}
         ELSE {})
        \cup (IF Excess(r) > 0
              THEN {Debit(account, p, Excess(r)), Credit(CODExcessPayable, Nil, Excess(r))}
              ELSE {})

\* Only cash in custody becomes RECONCILED; any other row is left as it is and
\* the miss is ignored.
MarkObligationReconciled(o, i) ==
    IF ob[o].status \in InCustody
    THEN [ob[o] EXCEPT !.status = "RECONCILED", !.adjusted = @ + i.counted - i.expected]
    ELSE ob[o]

LockCODReconciliation(r) == recon[r].status = "OPEN"

CompleteCODReconciliation(r, variance) ==
    [recon EXCEPT ![r].status = IF variance THEN "COMPLETED_WITH_VARIANCE" ELSE "COMPLETED"]

CompleteReconciliation(r) ==
    /\ LockCODReconciliation(r)
    /\ LET variance == Shortage(r) # 0 \/ Excess(r) # 0
       IN  /\ recon' = CompleteCODReconciliation(r, variance)
           /\ IF variance THEN Post(r, "RECONCILIATION", ReconLegs(r)) ELSE UNCHANGED journal
    /\ ob' = [o \in Obligations |->
                IF recon[r].items[o].outcome \in {"NONE", "MISSING"}
                THEN ob[o] ELSE MarkObligationReconciled(o, recon[r].items[o])]
    /\ UNCHANGED <<transfer, remit, counting>>

-----------------------------------------------------------------------------
(* Remittance *)

\* CreateCODRemittance, and AddRemittanceItem for each of its obligations.
CreateCODRemittance(from, b, S) ==
    [status |-> "INITIATED", from |-> from, beneficiary |-> b,
     items |-> S, amount |-> AmountsOf(S)]

\* CreateRemittance: from a branch or a franchise (the table refuses others).
\* Neither the custodian nor another remittance of the same cash is looked at.
CreateRemittance(m, from, b, S) ==
    /\ remit[m].status = "NONE"
    /\ S # {}
    /\ \A o \in S : ob[o].status \in {statusForCustodian(from), "RECONCILED"}
    /\ SumOf(Held, S) > 0
    /\ remit' = [remit EXCEPT ![m] = CreateCODRemittance(from, b, S)]
    /\ UNCHANGED <<ob, transfer, recon, counting, journal>>

RemitTotal(m) == LET amount(o) == remit[m].amount[o] IN SumOf(amount, remit[m].items)

RemitLegs(m) ==
    LET n == RemitTotal(m)
    IN  IF remit[m].beneficiary = "HEAD_OFFICE"
        THEN {Debit(Cash, Nil, n),
              Credit(receivableAccountFor(remit[m].from), remit[m].from, n)}
        ELSE {Debit(CODPayableConsignor, Nil, n), Credit(Cash, Nil, n)}

\* Mutant: the custodian is not cleared.
MarkObligationRemittedKept(o, n) ==
    IF ob[o].status \in {"BRANCH_RECEIVED", "FRANCHISE_CONFIRMED", "RECONCILED"}
    THEN [ob[o] EXCEPT !.status = "REMITTED", !.remitted = @ + n]
    ELSE ob[o]

\* Mutant: reconciled cash was left out of the statuses that may be remitted.
MarkObligationRemittedNotCounted(o, n) ==
    IF ob[o].status \in {"BRANCH_RECEIVED", "FRANCHISE_CONFIRMED"}
    THEN [ob[o] EXCEPT !.status = "REMITTED", !.custodian = Nil, !.remitted = @ + n]
    ELSE ob[o]

\* Mutant: the status is not compared, so a second remittance adds up.
MarkObligationRemittedAgain(o, n) ==
    [ob[o] EXCEPT !.status = "REMITTED", !.custodian = Nil, !.remitted = @ + n]

\* A row in any other status is left as it is and the miss is ignored.
MarkObligationRemitted(o, n) ==
    IF ob[o].status \in {"BRANCH_RECEIVED", "FRANCHISE_CONFIRMED", "RECONCILED"}
    THEN [ob[o] EXCEPT !.status = "REMITTED", !.custodian = Nil, !.remitted = @ + n]
    ELSE ob[o]

\* LockRemittance and ConfirmCODRemittance: a remittance is confirmed once.
LockRemittance(m) == remit[m].status = "INITIATED"
ConfirmCODRemittance(m) == [remit EXCEPT ![m].status = "CONFIRMED"]

ConfirmRemittance(m) ==
    /\ LockRemittance(m)
    /\ Post(m, "REMITTANCE", RemitLegs(m))
    /\ remit' = ConfirmCODRemittance(m)
    /\ ob' = [o \in Obligations |->
                IF o \in remit[m].items
                THEN MarkObligationRemitted(o, remit[m].amount[o]) ELSE ob[o]]
    /\ UNCHANGED <<transfer, recon, counting>>

-----------------------------------------------------------------------------
TransferNext ==
    \/ \E t \in Transfers, from \in Parties, to \in Parties \cup {HeadOffice},
          S \in SUBSET Obligations : DeclareTransfer(t, from, to, S)
    \/ \E t \in Transfers, n \in Counts : AcceptTransfer(t, n)

ReconNext ==
    \/ \E r \in Reconciliations, p \in Parties : OpenReconciliation(r, p)
    \/ \E r \in Reconciliations, o \in Obligations : ReadForCount(r, o)
    \/ \E c \in counting, n \in Counts : RecordCount(c, n)
    \/ \E r \in Reconciliations : CompleteReconciliation(r)

RemitNext ==
    \/ \E m \in Remittances, from \in Branches \cup Franchises, b \in Beneficiaries,
          S \in SUBSET Obligations : CreateRemittance(m, from, b, S)
    \/ \E m \in Remittances : ConfirmRemittance(m)

CodNext ==
    \/ \E o \in Obligations : OpenObligation(o)
    \/ \E o \in Obligations, a \in Agents, n \in Amounts : RecordCollection(o, a, n)
    \/ TransferNext
    \/ ReconNext
    \/ RemitNext

CodSpec == CodInit /\ [][CodNext]_codVars

-----------------------------------------------------------------------------
(* Properties *)

\* The custody pointer tells the same story as the status: the holder of cash
\* in custody is of the kind the status names, counted cash keeps its holder,
\* and there is no holder before collection or after remittance.  Collection,
\* acceptance, count and confirmation each write only a part of these columns.
CustodyMatchesStatus ==
    \A o \in Obligations :
        /\ ob[o].status \in InCustody =>
              /\ ob[o].custodian \in Parties
              /\ ob[o].status = statusForCustodian(ob[o].custodian)
        /\ ob[o].status = "RECONCILED" => ob[o].custodian \in Parties
        /\ ob[o].status \in {"NONE", "EXPECTED", "REMITTED"} => ob[o].custodian = Nil

\* An accepted hand-in takes cash only from the party that declared it, although
\* MoveObligationCustody compares the status and not the custodian: nothing else
\* can have moved the cash to another party of the same kind in between.
TransferFromHolder ==
    [][\A t \in Transfers :
          transfer[t].status = "DECLARED" /\ transfer'[t].status = "ACCEPTED" =>
              \A o \in transfer[t].items : ob[o].custodian = transfer[t].from]_codVars

\* What is remitted of an obligation is nothing, or once it is REMITTED exactly
\* what was collected, although the same cash may be in several remittances and
\* the amount is fixed when a remittance is created and booked when confirmed.
RemittedInFull ==
    \A o \in Obligations :
        /\ ob[o].status = "REMITTED" => ob[o].remitted = ob[o].collected
        /\ ob[o].status # "REMITTED" => ob[o].remitted = 0

\* A confirmed remittance leaves none of its obligations behind, although
\* ConfirmRemittance ignores a row that MarkObligationRemitted did not match.
ConfirmedMeansRemitted ==
    \A m \in Remittances : remit[m].status = "CONFIRMED" =>
        \A o \in remit[m].items : ob[o].status = "REMITTED"

\* Where the cash is, as CashChain sees it.
WhereOf(row) ==
    IF row.status \in {"NONE", "EXPECTED"} THEN "consignee"
    ELSE IF row.status = "REMITTED" THEN "banked" ELSE row.custodian

Chain == INSTANCE CashChain
         WITH where <- [o \in Obligations |-> WhereOf(ob[o])],
              counted <- {o \in Obligations : ob[o].status = "RECONCILED"}

\* The cod operations implement CashChain: in whatever order they are called,
\* the cash of a parcel is in one place, moves on in whole batches from the one
\* party that has them, stops when counted and is banked once.
CashSpec == Chain!Spec

-----------------------------------------------------------------------------
(* The inductive invariant behind these properties *)

\* The items of a transfer are its own (the partial unique index) and have been
\* collected; cash reaches a branch or a franchise only by an accepted transfer,
\* so only an agent ever gives.
TransferInv ==
    /\ \A t, u \in Transfers : t # u => transfer[t].items \cap transfer[u].items = {}
    /\ \A t \in Transfers :
        /\ transfer[t].status = "NONE" => transfer[t].items = {}
        /\ transfer[t].status = "DECLARED" =>
              transfer[t].from \in Agents /\ transfer[t].from # transfer[t].to
        /\ \A o \in transfer[t].items :
            /\ ob[o].status \notin {"NONE", "EXPECTED"}
            /\ transfer[t].status = "DECLARED" /\ ob[o].status \in InCustody =>
                  ob[o].custodian = transfer[t].from
    /\ \A o \in Obligations : ob[o].status \in {"BRANCH_RECEIVED", "FRANCHISE_CONFIRMED"} =>
        \E t \in Transfers : o \in transfer[t].items

\* What may be remitted stays so until it is, for the amount written down.
RemitInv ==
    \A m \in Remittances : remit[m].status = "INITIATED" =>
        \A o \in remit[m].items :
            /\ ob[o].status \in {"BRANCH_RECEIVED", "FRANCHISE_CONFIRMED", "RECONCILED", "REMITTED"}
            /\ remit[m].amount[o] = ob[o].collected

CodInv ==
    /\ CustodyMatchesStatus
    /\ TransferInv
    /\ RemitInv
    /\ RemittedInFull
    /\ ConfirmedMeansRemitted

-----------------------------------------------------------------------------
(* What the comments say and the code does not do *)

\* 0022_cod.up.sql:233, "an obligation can only be in one undecided transfer at
\* a time": the index refuses only cash that is in an undecided transfer.
OnlyUndecidedBlocks ==
    \A o \in Obligations : InATransfer(o) =>
        \E t \in Transfers : o \in transfer[t].items /\ transfer[t].status = "DECLARED"

\* SumCODInCustody.
HeldBy(p) ==
    SumOf(Held, ListObligationsForParty(p))

\* reconciliation.go:528, "these must agree": what a party holds according to
\* the obligations is what it owes according to the ledger.
BooksAgree == \A p \in Parties : HeldBy(p) = PartyBalance(p)

=============================================================================
