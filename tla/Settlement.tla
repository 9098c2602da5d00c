----------------------------- MODULE Settlement -----------------------------
(***************************************************************************)
(* The period statement between head office and one franchise              *)
(* (internal/settlement), over the commission, the cash on delivery and    *)
(* the counter collections it sweeps, with its adjustments, approval,      *)
(* payments and cancellation, and what each of them posts.                 *)
(*                                                                         *)
(* Recalculation, approval and payment hold the statement's row lock and   *)
(* are one step.  A cancellation holds none until its last statement: it   *)
(* first detaches what it finds attached and then changes the status, and  *)
(* is two steps.  Generate rebuilds a statement without a lock, but only   *)
(* its last statements write rows others read, and they check the status.  *)
(* DRAFT lasts no longer than the transaction that creates the statement;  *)
(* nothing rejects or closes a statement (RejectSettlement and             *)
(* CloseSettlement have no caller).  Who calculates or raises may not      *)
(* approve: with two users that restricts who acts, never what happens,    *)
(* and users are not modelled.                                             *)
(***************************************************************************)
EXTENDS Ledger

-----------------------------------------------------------------------------
(***************************************************************************)
(* Commission earned by a franchise (internal/commission, called from      *)
(* internal/financeops inside the transition that earns it).  An earning   *)
(* is a shipment, a commission type and a recipient; each time one is      *)
(* raised a calculation row is written and posted, DR expense CR accrued,  *)
(* and a reversed row makes room for another.  What the rule in force pays *)
(* is a constant: rules, their versions and slabs are left out.            *)
(***************************************************************************)
CONSTANTS
    Earnings,     \* shipment, type and recipient of each commission
    Amount,       \* Amount[e]: what the rule in force pays for e
    EarnedOn,     \* EarnedOn[e]: the day e qualifies
    MaxRaises     \* bound: how often one earning is raised

ASSUME CommissionAssumption ==
    /\ IsFiniteSet(Earnings)
    /\ Amount \in [Earnings -> Nat]
    /\ EarnedOn \in [Earnings -> Nat]
    /\ MaxRaises \in Nat

VARIABLE calc     \* calc[e][k]: the k-th calculation of e

Raises == 1 .. MaxRaises
CalcStatuses == {"NONE", "CALCULATED", "POSTED", "REVERSED"}
CommissionSource(e, k) == <<"COMMISSION", e, k>>

CommissionInit ==
    calc = [e \in Earnings |-> [k \in Raises |-> [status |-> "NONE", stl |-> Nil]]]

\* The live calculation of an earning: at most one, by
\* commission_calculations_shipment_idx.
FindCalculationForShipment(e) == {k \in Raises : calc[e][k].status \in {"CALCULATED", "POSTED"}}

CreateCommissionCalculation(e, k, status) ==
    calc' = [calc EXCEPT ![e][k].status = status]

\* post: the accrual.  It is owed to nobody yet: 2200 is credited by the
\* statement that settles it.
CommissionLegs(n) == {Debit(CommissionExpense, Nil, n), Credit(CommissionPayable, Nil, n)}

\* What a commission of nothing comes to: it stays CALCULATED, unposted.
postedStatus(e) == IF Amount[e] = 0 THEN "CALCULATED" ELSE "POSTED"

\* Calculate, as raise calls it: an earning that has a live calculation is
\* replayed.  The row is created and posted in the transition's transaction.
Calculate(e, k) ==
    /\ FindCalculationForShipment(e) = {}
    /\ calc[e][k].status = "NONE"
    /\ \A i \in 1 .. (k - 1) : calc[e][i].status # "NONE"
    /\ CreateCommissionCalculation(e, k, postedStatus(e))
    /\ IF Amount[e] = 0
       THEN UNCHANGED journal
       ELSE Post(CommissionSource(e, k), "COMMISSION", CommissionLegs(Amount[e]))

MarkCalculationReversed(e, k) ==
    /\ calc[e][k].status = "POSTED"
    /\ calc' = [calc EXCEPT ![e][k].status = "REVERSED"]

\* Reverse: the journal's mirror and the row's status.  Whether a statement
\* has the commission is not asked.
ReverseCommission(e, k) ==
    /\ MarkCalculationReversed(e, k)
    /\ \E j \in journal : j.source = CommissionSource(e, k) /\ Reverse(j)

\* Mutant: the sweep forgets what other statements have.
SweepAgain(t, from, to) ==
    {c \in Earnings \X Raises : /\ calc[c[1]][c[2]].status = "POSTED"
                                /\ EarnedOn[c[1]] \in from .. to}

\* Posted commission earned in [from, to] that is on no other statement.
SweepCommissionForSettlement(t, from, to) ==
    {c \in Earnings \X Raises :
        /\ calc[c[1]][c[2]].status = "POSTED"
        /\ calc[c[1]][c[2]].stl \in {Nil, t}
        /\ EarnedOn[c[1]] \in from .. to}

\* The calculations of S are put on a statement, or on none.
WithSettlement(S, t) ==
    [e \in Earnings |-> [k \in Raises |->
        IF <<e, k>> \in S THEN [calc[e][k] EXCEPT !.stl = t] ELSE calc[e][k]]]

AttachCalculationsToSettlement(S, t) == calc' = WithSettlement(S, t)

-----------------------------------------------------------------------------
(***************************************************************************)
(* The statements.                                                         *)
(***************************************************************************)
CONSTANTS
    Franchise,
    MaxStatements,   \* bound: statements generated
    Periods,         \* the periods they may be generated for, [start, end]
    Collections, Collected, CollectedOn,   \* counter collections: amount, day
    Holdings, CashHeld, HeldOn,                \* COD obligations: cash held, day
    Adjustments, AdjAmounts, Incentives,   \* corrections; Incentives are earnings
    WithholdingBp

ASSUME SettlementAssumption ==
    /\ Franchise # Nil
    /\ IsFiniteSet(Collections) /\ IsFiniteSet(Holdings) /\ IsFiniteSet(Adjustments)
    /\ MaxStatements \in Nat /\ Nil \notin 1 .. MaxStatements
    /\ Periods \subseteq [start : Nat, end : Nat]
    /\ Collected \in [Collections -> Nat] /\ CollectedOn \in [Collections -> Nat]
    /\ CashHeld \in [Holdings -> Nat] /\ HeldOn \in [Holdings -> Nat]
    /\ AdjAmounts \subseteq Int /\ 0 \notin AdjAmounts
    /\ Incentives \subseteq Adjustments
    /\ WithholdingBp \in Nat

VARIABLES
    stl,      \* stl[t]: the statement's row and its lines
    coll,     \* coll[x]: the collection's status and statement
    cash,     \* the COD obligations the franchise still holds
    adj,      \* adj[a]: the adjustment's row
    cancel    \* cancel[t]: what a cancellation under way has detached

settlementVars == <<calc, journal, stl, coll, cash, adj, cancel>>

Statements == 1 .. MaxStatements
\* Mutant: an approved statement can be rebuilt.
WorkableApproved == {"CALCULATED", "APPROVED"}
Workable == {"CALCULATED"}
Cancellable == {"CALCULATED", "UNDER_REVIEW"}
Frozen == {"APPROVED", "PARTIALLY_PAID", "PAID"}
StatementStatuses == {"NONE", "CANCELLED"} \cup Cancellable \cup Frozen
NoPeriod == [start |-> 0, end |-> 0]

StatementInit ==
    /\ stl = [t \in Statements |-> [status |-> "NONE", period |-> NoPeriod, lines |-> {},
                                    paid |-> 0]]
    /\ coll = [x \in Collections |-> [status |-> "NONE", stl |-> Nil]]
    /\ cash = {}
    /\ adj = [a \in Adjustments |-> [status |-> "NONE", stl |-> Nil, n |-> 0]]
    /\ cancel = [t \in Statements |-> [on |-> FALSE, calcs |-> {}, colls |-> {}]]

SettlementInit == LedgerInit /\ CommissionInit /\ StatementInit

AbsInt(n) == IF n < 0 THEN -n ELSE n
SumLines(L) == SumFunction([l \in L |-> l.n])
Net(t) == SumLines(stl[t].lines)
isFrozen(t) == stl[t].status \in Frozen

-----------------------------------------------------------------------------
(***************************************************************************)
(* What a statement is calculated from.                                    *)
(***************************************************************************)

\* The franchise's last approved statement that ended before a day: its unpaid
\* net is carried forward.
GetPreviousSettlement(day) ==
    LET earlier == {t \in Statements : isFrozen(t) /\ stl[t].period.end < day}
    IN  {t \in earlier : \A u \in earlier :
            \/ stl[u].period.end < stl[t].period.end
            \/ stl[u].period.end = stl[t].period.end /\ u <= t}

CarryForward(t) == Net(t) - stl[t].paid

OpeningLines(p) ==
    {[src |-> <<"PREVIOUS_SETTLEMENT", t>>, n |-> CarryForward(t)] :
        t \in {u \in GetPreviousSettlement(p.start) : CarryForward(u) # 0}}

CommissionLines(S) ==
    {[src |-> <<"COMMISSION_CALCULATION", c[1], c[2]>>, n |-> Amount[c[1]]] : c \in S}

\* Cash on delivery the franchise holds: what it has of ours is deducted.
SweepCODForSettlement(p) == {o \in cash : HeldOn[o] \in p.start .. p.end}

CodLines(S) == {[src |-> <<"COD_OBLIGATION", o>>, n |-> -CashHeld[o]] : o \in S}

\* Collections that no statement has.  The upper bound is passed as the day
\* after the period and one more day is added to it.
SweepFranchiseCollectionsForSettlement(p) ==
    {x \in Collections : /\ coll[x].status = "COLLECTED" /\ coll[x].stl = Nil
                         /\ CollectedOn[x] \in p.start .. (p.end + 1)}

CollectionLines(S) == {[src |-> <<"FRANCHISE_COLLECTION", x>>, n |-> -Collected[x]] : x \in S}

ListPendingAdjustmentsForSettlement(t) ==
    {a \in Adjustments : adj[a].stl = t /\ adj[a].status \in {"APPROVED", "APPLIED"}}

AdjustmentLines(S) == {[src |-> <<"SETTLEMENT_ADJUSTMENT", a>>, n |-> adj[a].n] : a \in S}

WithholdingLines(earnings) ==
    IF WithholdingBp > 0 /\ earnings > 0
    THEN {[src |-> <<"TAX_RULE">>, n |-> -ApplyBP(earnings, WithholdingBp)]}
    ELSE {}

AttachFranchiseCollectionsToSettlement(S, t) ==
    coll' = [x \in Collections |-> IF x \in S THEN [status |-> "IN_SETTLEMENT", stl |-> t]
                                              ELSE coll[x]]

\* ApplySettlementTotals, with the lines the totals are of.
ApplySettlementTotals(t, p, lines) ==
    stl' = [stl EXCEPT ![t] = [status |-> "CALCULATED", period |-> p, lines |-> lines,
                               paid |-> 0]]

\* calculate: the old lines are deleted and rebuilt from the sources, which
\* the statement then claims.
calculate(t, p) ==
    LET C == SweepCommissionForSettlement(t, p.start, p.end)
        X == SweepFranchiseCollectionsForSettlement(p)
        A == ListPendingAdjustmentsForSettlement(t)
        earnings == SumLines(CommissionLines(C) \cup AdjustmentLines(A \cap Incentives))
    IN  /\ ApplySettlementTotals(t, p,
               OpeningLines(p) \cup CommissionLines(C) \cup CodLines(SweepCODForSettlement(p))
               \cup CollectionLines(X) \cup AdjustmentLines(A) \cup WithholdingLines(earnings))
        /\ AttachCalculationsToSettlement(C, t)
        /\ AttachFranchiseCollectionsToSettlement(X, t)
        /\ UNCHANGED <<journal, cash, adj, cancel>>

-----------------------------------------------------------------------------
(***************************************************************************)
(* Statements.                                                             *)
(***************************************************************************)
FindSettlementForPeriod(p) ==
    {t \in Statements : stl[t].status \notin {"NONE", "CANCELLED"} /\ stl[t].period = p}

\* The next statement, in order of creation.
CreateSettlement(t) ==
    /\ stl[t].status = "NONE"
    /\ \A u \in 1 .. (t - 1) : stl[u].status # "NONE"

\* Generate: the period's statement is rebuilt while it is workable and
\* returned as it is afterwards; a period without one gets one.
Generate(t, p) ==
    /\ \/ t \in FindSettlementForPeriod(p) /\ stl[t].status \in Workable
       \/ FindSettlementForPeriod(p) = {} /\ CreateSettlement(t)
    /\ calculate(t, p)

Recalculate(t) ==
    /\ stl[t].status \in Workable
    /\ calculate(t, stl[t].period)

Submit(t) ==
    /\ stl[t].status = "CALCULATED"
    /\ stl' = [stl EXCEPT ![t].status = "UNDER_REVIEW"]
    /\ UNCHANGED <<calc, journal, coll, cash, adj, cancel>>

\* A net of n moves from the accrual to the franchise's account.
NetLegs(n) ==
    IF n > 0
    THEN {Debit(CommissionPayable, Nil, n), Credit(FranchisePayable, Franchise, n)}
    ELSE {Debit(FranchiseReceivable, Franchise, -n), Credit(CommissionPayable, Nil, -n)}

MarkFranchiseCollectionsRemitted(t) ==
    coll' = [x \in Collections |->
        IF coll[x].stl = t /\ coll[x].status = "IN_SETTLEMENT"
        THEN [coll[x] EXCEPT !.status = "REMITTED"] ELSE coll[x]]

ApproveSettlement(t) ==
    /\ stl[t].status \in {"CALCULATED", "UNDER_REVIEW"}
    /\ stl' = [stl EXCEPT ![t].status = "APPROVED"]

\* Approve: a net of nothing posts nothing.
Approve(t) ==
    /\ ApproveSettlement(t)
    /\ IF Net(t) = 0 THEN UNCHANGED journal
                     ELSE Post(<<"SETTLEMENT", t>>, "APPROVAL", NetLegs(Net(t)))
    /\ MarkFranchiseCollectionsRemitted(t)
    /\ UNCHANGED <<calc, cash, adj, cancel>>

\* Mutant: a negative net is settled as if head office paid it.
PayLegsOneWay(t, n) == {Debit(FranchisePayable, Franchise, n), Credit(Cash, Nil, n)}

PayLegs(t, n) ==
    IF Net(t) > 0
    THEN {Debit(FranchisePayable, Franchise, n), Credit(Cash, Nil, n)}
    ELSE {Debit(Cash, Nil, n), Credit(FranchiseReceivable, Franchise, n)}

\* Every payment has a number of its own.
allocatePaymentNumber == Cardinality({j \in journal : j.purpose = "SETTLEMENT_PAYMENT"}) + 1

RecordSettlementPaid(t, n) ==
    stl' = [stl EXCEPT ![t].paid = @ + n,
                       ![t].status = IF stl[t].paid + n >= AbsInt(Net(t)) THEN "PAID"
                                                                         ELSE "PARTIALLY_PAID"]

\* Pay: no more than is outstanding, in the direction of the net.
Pay(t, n) ==
    /\ stl[t].status \in {"APPROVED", "PARTIALLY_PAID"}
    /\ n > 0 /\ n <= AbsInt(Net(t)) - stl[t].paid
    /\ Post(<<"PAYMENT", t, allocatePaymentNumber>>, "SETTLEMENT_PAYMENT", PayLegs(t, n))
    /\ RecordSettlementPaid(t, n)
    /\ UNCHANGED <<calc, coll, cash, adj, cancel>>

\* Cancel detaches what is attached to the statement when it looks ...
CancelDetaches(t) ==
    /\ stl[t].status \in Cancellable
    /\ ~cancel[t].on
    /\ cancel' = [cancel EXCEPT ![t] =
         [on |-> TRUE,
          calcs |-> {c \in Earnings \X Raises : calc[c[1]][c[2]].stl = t},
          colls |-> {x \in Collections : coll[x].stl = t /\ coll[x].status = "IN_SETTLEMENT"}]]
    /\ UNCHANGED <<calc, journal, stl, coll, cash, adj>>

DetachCalculationsFromSettlement(t) == calc' = WithSettlement(cancel[t].calcs, Nil)

ReleaseFranchiseCollectionsFromSettlement(t) ==
    coll' = [x \in Collections |-> IF x \in cancel[t].colls
                                   THEN [status |-> "COLLECTED", stl |-> Nil] ELSE coll[x]]

\* ... and then cancels it, or finds it approved and undoes everything.
CancelSettlement(t) ==
    /\ cancel[t].on
    /\ cancel' = [cancel EXCEPT ![t] = [on |-> FALSE, calcs |-> {}, colls |-> {}]]
    /\ IF stl[t].status \in Cancellable
       THEN /\ stl' = [stl EXCEPT ![t].status = "CANCELLED"]
            /\ DetachCalculationsFromSettlement(t)
            /\ ReleaseFranchiseCollectionsFromSettlement(t)
       ELSE UNCHANGED <<stl, calc, coll>>
    /\ UNCHANGED <<journal, cash, adj>>

-----------------------------------------------------------------------------
(***************************************************************************)
(* Adjustments.                                                            *)
(***************************************************************************)
RaiseAdjustment(a, t, n) ==
    /\ adj[a].status = "NONE"
    /\ stl[t].status \notin {"NONE", "CANCELLED"}
    /\ adj' = [adj EXCEPT ![a] = [status |-> "PENDING_APPROVAL", stl |-> t, n |-> n]]
    /\ UNCHANGED <<calc, journal, stl, coll, cash, cancel>>

\* postAdjustment has the legs of an approval.
postAdjustment(a) == Post(<<"ADJUSTMENT", a>>, "SETTLEMENT_ADJUSTMENT", NetLegs(adj[a].n))

\* ApproveAdjustment: on a frozen statement it is posted at once; on any other
\* it is left to the next calculation.
ApproveAdjustment(a) ==
    /\ adj[a].status = "PENDING_APPROVAL"
    /\ IF isFrozen(adj[a].stl)
       THEN /\ adj' = [adj EXCEPT ![a].status = "APPLIED"]
            /\ postAdjustment(a)
       ELSE adj' = [adj EXCEPT ![a].status = "APPROVED"] /\ UNCHANGED journal
    /\ UNCHANGED <<calc, stl, coll, cash, cancel>>

RejectAdjustment(a) ==
    /\ adj[a].status = "PENDING_APPROVAL"
    /\ adj' = [adj EXCEPT ![a].status = "REJECTED"]
    /\ UNCHANGED <<calc, journal, stl, coll, cash, cancel>>

-----------------------------------------------------------------------------
(***************************************************************************)
(* The sources.                                                            *)
(***************************************************************************)
Earn(e, k) == Calculate(e, k) /\ UNCHANGED <<stl, coll, cash, adj, cancel>>

ClawBack(e, k) == ReverseCommission(e, k) /\ UNCHANGED <<stl, coll, cash, adj, cancel>>

\* collection.Record: a shipment is collected for once.
Record(x) ==
    /\ coll[x].status = "NONE"
    /\ coll' = [coll EXCEPT ![x].status = "COLLECTED"]
    /\ UNCHANGED <<calc, journal, stl, cash, adj, cancel>>

\* COD cash reaches the franchise, and leaves it when it is remitted (see Cod).
CashMoves(o) ==
    /\ cash' = IF o \in cash THEN cash \ {o} ELSE cash \cup {o}
    /\ UNCHANGED <<calc, journal, stl, coll, adj, cancel>>

SettlementNext ==
    \/ \E t \in Statements :
          \/ \E p \in Periods : Generate(t, p)
          \/ Recalculate(t)
          \/ Submit(t)
          \/ Approve(t)
          \/ \E n \in 1 .. AbsInt(Net(t)) : Pay(t, n)
          \/ CancelDetaches(t)
          \/ CancelSettlement(t)
    \/ \E a \in Adjustments :
          \/ \E t \in Statements, n \in AdjAmounts : RaiseAdjustment(a, t, n)
          \/ ApproveAdjustment(a)
          \/ RejectAdjustment(a)
    \/ \E e \in Earnings, k \in Raises : Earn(e, k) \/ ClawBack(e, k)
    \/ \E x \in Collections : Record(x)
    \/ \E o \in Holdings : CashMoves(o)

SettlementSpec == SettlementInit /\ [][SettlementNext]_settlementVars

-----------------------------------------------------------------------------
(***************************************************************************)
(* What must hold.                                                         *)
(***************************************************************************)

\* Every column holds a value of its type, and a statement is never paid more
\* than its net.
SettlementTypeOK ==
    /\ calc \in [Earnings -> [Raises -> [status : CalcStatuses, stl : Statements \cup {Nil}]]]
    /\ \A t \in Statements :
        /\ stl[t].status \in StatementStatuses
        /\ stl[t].period \in Periods \cup {NoPeriod}
        /\ stl[t].paid \in 0 .. AbsInt(Net(t))
    /\ coll \in [Collections -> [status : {"NONE", "COLLECTED", "IN_SETTLEMENT", "REMITTED"},
                                 stl : Statements \cup {Nil}]]
    /\ cash \subseteq Holdings
    /\ \A a \in Adjustments :
        adj[a].status \in {"NONE", "PENDING_APPROVAL", "APPROVED", "APPLIED", "REJECTED"}

Live(t) == stl[t].status \notin {"NONE", "CANCELLED"}
On(t, src) == \E l \in stl[t].lines : l.src = src

\* A commission is settled by one statement: whatever is generated, rebuilt,
\* cancelled and reversed, no two live statements have a line for it
\* (AttachCalculationsToSettlement: "so a later period cannot sweep them again").
OnOneStatement ==
    \A e \in Earnings, k \in Raises :
        Cardinality({t \in Statements : Live(t) /\ On(t, <<"COMMISSION_CALCULATION", e, k>>)}) <= 1

\* "Posting here too would count the correction twice" (ApproveAdjustment): an
\* adjustment posted by itself is on no statement that posted it with its net.
AdjustmentOnce ==
    \A a \in Adjustments, t \in Statements :
        adj[a].status = "APPLIED" /\ isFrozen(t) => ~On(t, <<"SETTLEMENT_ADJUSTMENT", a>>)

\* What is still to be paid of a statement, in the direction of its net.
Unpaid(t) == IF Net(t) > 0 THEN Net(t) - stl[t].paid ELSE Net(t) + stl[t].paid

\* The franchise's accounts are worth what its statements say: the unpaid net
\* of every approved statement and the adjustments posted after approval, none
\* of which is counted in both.
LedgerAgrees ==
    /\ AdjustmentOnce
    /\ AccountBalance(FranchisePayable, Franchise) - AccountBalance(FranchiseReceivable, Franchise)
       = SumFunction([t \in {u \in Statements : isFrozen(u)} |-> Unpaid(t)])
         + SumFunction([a \in {b \in Adjustments : adj[b].status = "APPLIED"} |-> adj[a].n])

\* "Once approved, the numbers have been agreed with a counterparty": no step
\* changes the lines of an approved statement, whoever generates or rebuilds.
AgreedStaysAgreed ==
    [][\A t \in Statements : isFrozen(t) => isFrozen(t)' /\ stl'[t].lines = stl[t].lines]_settlementVars

-----------------------------------------------------------------------------
(***************************************************************************)
(* What the code says of itself and does not keep (see the README).        *)
(***************************************************************************)

\* "Recalculating a settlement destroyed it" (release-3-backend.md:362) is said
\* to be cured: a statement has a line for every collection it has claimed.
CollectionsDeducted ==
    \A x \in Collections :
        coll[x].stl # Nil => On(coll[x].stl, <<"FRANCHISE_COLLECTION", x>>)

\* "or it would be stranded: attached to a cancelled statement and invisible to
\* the next run" (settlement.go, Cancel).
NothingStranded ==
    \A e \in Earnings, k \in Raises :
        calc[e][k].stl # Nil => Live(calc[e][k].stl)

\* The unpaid net of a statement is carried forward and stays payable itself:
\* what head office still owes is on two statements.
OwedOnce ==
    \A t, u \in Statements :
        isFrozen(t) /\ isFrozen(u) /\ On(u, <<"PREVIOUS_SETTLEMENT", t>>) => CarryForward(t) = 0

\* "Unpaid amounts carry forward" (GetPreviousSettlementBalance): a statement
\* that has been paid in full carries nothing into the next one.
PaidCarriesNothing == \A t \in Statements : stl[t].status = "PAID" => CarryForward(t) = 0

\* "a correction there still belongs in the recalculation" (isFrozen): an
\* approved adjustment is on its statement's lines or posted by the time the
\* statement is approved.
CorrectionsCount ==
    \A a \in Adjustments :
        adj[a].status = "APPROVED" /\ isFrozen(adj[a].stl)
            => On(adj[a].stl, <<"SETTLEMENT_ADJUSTMENT", a>>)

\* "blocks rather than sweeping the same obligations onto two statements"
\* (SweepCODForSettlement).
CashOnOneStatement ==
    \A o \in Holdings :
        Cardinality({t \in Statements : Live(t) /\ On(t, <<"COD_OBLIGATION", o>>)}) <= 1

=============================================================================
